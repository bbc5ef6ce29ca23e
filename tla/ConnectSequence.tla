--------------------------- MODULE ConnectSequence ---------------------------
(***************************************************************************)
(* Client.Connect (client.go): the negotiation with its fallbacks to       *)
(* weaker protocols, the probe of TLS and CredSSP versions, and the phases *)
(* of the handshake.  The server is every behaviour the client tells       *)
(* apart: what it answers, refuses or breaks at each step.  One goroutine  *)
(* runs Connect, so a step is an exchange with the server.                 *)
(*                                                                         *)
(* A connection is named by the call of Connect that dialled it and its    *)
(* number in that call.                                                    *)
(***************************************************************************)
EXTENDS Naturals

CONSTANTS
    NumTLS,       \* TLS versions the probe pins (1.3, 1.2, 1.1, 1.0)
    NumCSSP,      \* CredSSP versions it advertises on each (6, 3, 2)
    NumChannels,  \* channels to join: user, I/O and the virtual channels
    MaxReads,     \* PDUs a phase of the finalization reads at most
    MaxCalls      \* bound: calls of Connect, the first and the reconnections

ASSUME ConnectAssumption ==
    {NumTLS, NumCSSP, NumChannels, MaxReads, MaxCalls} \subseteq Nat \ {0}

VARIABLES
    pc,         \* the step of Connect that comes next
    call,       \* how many times Connect has been called
    goal,       \* what the current connection is dialled for
    attempt,    \* negotiateX224WithFallback: the protocol set it asks for
    tls,        \* index of the pinned TLS version, 0 is the default range
    cssp,       \* index of the advertised CredSSP version, 0 is the highest
    dials,      \* connections dialled by this call
    conn,       \* Client.conn
    open,       \* connections whose socket this side has open
    tlsOn,      \* Client.tlsConn: the connection it runs over
    selected,   \* Client.selectedProtocol
    credErr,    \* credsspErr, the last error of the probe
    refused,    \* the server has said that the credentials cannot succeed
    auth,       \* the connection on which CredSSP succeeded
    crypto,     \* Client.crypto: the connection its keys belong to
    joined,     \* channels joined
    reads, got  \* finalization: PDUs read in this phase, kinds received

negVars == <<goal, attempt, tls, cssp, selected, credErr, refused>>
sockVars == <<dials, conn, open, tlsOn, auth>>
readVars == <<joined, reads, got>>
vars == <<pc, call, negVars, sockVars, crypto, readVars>>

NoConn == <<0, 0>>
Protocols == {"RDP", "SSL", "Hybrid"}
Requested == <<{"SSL", "Hybrid"}, {"SSL"}, {"RDP"}>>
Goals == {"first", "nla", "tlsOnly"}

\* The steps that use the negotiated connection, in their order.
PublicPcs == {"mcs", "attach", "join", "security", "info"}
PrivatePcs == {"license1", "license2", "license3", "caps", "sync", "font", "up"}
Pcs == {"dial", "x224", "tls", "cssp", "failed"} \cup PublicPcs \cup PrivatePcs

\* The most connections one call can dial: the first one, one for each probe,
\* and the TLS-only ones with the default range and each pinned version.  The
\* three of negotiateX224WithFallback are no more than that.
ProbeDials == NumTLS * NumCSSP
MaxDials == ProbeDials + NumTLS + 2
ConnIds == (1 .. MaxCalls) \X (1 .. MaxDials) \cup {NoConn}

TypeOK ==
    /\ pc \in Pcs /\ call \in 1 .. MaxCalls
    /\ goal \in Goals /\ attempt \in 1 .. 3
    /\ tls \in 0 .. NumTLS /\ cssp \in 0 .. NumCSSP
    /\ dials \in 0 .. MaxDials
    /\ {conn, tlsOn, auth, crypto} \subseteq ConnIds /\ open \subseteq ConnIds
    /\ selected \in Protocols
    /\ credErr \in {"none", "tls", "auth", "fatal"} /\ refused \in BOOLEAN
    /\ joined \in 0 .. NumChannels /\ reads \in 0 .. MaxReads
    /\ got \subseteq {"sync", "control"}

Init ==
    /\ pc = "dial" /\ call = 1
    /\ goal = "first" /\ attempt = 1 /\ tls = 0 /\ cssp = 0
    /\ dials = 0 /\ conn = NoConn /\ open = {} /\ tlsOn = NoConn
    /\ selected = "RDP" /\ credErr = "none" /\ refused = FALSE
    /\ auth = NoConn /\ crypto = NoConn
    /\ joined = 0 /\ reads = 0 /\ got = {}

Goto(where) == pc' = where

\* Connect closes what it has and returns; Close is a no-op in a reconnection.
Fail_ClosesNothing == Goto("failed") /\ UNCHANGED open
Fail == Goto("failed") /\ open' = IF call = 1 THEN {} ELSE open

-----------------------------------------------------------------------------
(* Dialling.  A retry closes the previous connection first, and forgets    *)
(* its TLS only when the dial has succeeded.                               *)

Ask == IF goal = "tlsOnly" THEN {"SSL"} ELSE Requested[attempt]

DialSucceeds_KeepsSocket ==
    /\ pc = "dial"
    /\ dials' = dials + 1 /\ conn' = <<call, dials + 1>>
    /\ open' = open \cup {conn'}
    /\ tlsOn' = IF goal = "first" THEN tlsOn ELSE NoConn
    /\ Goto("x224")
    /\ UNCHANGED <<call, negVars, auth, crypto, readVars>>
DialSucceeds ==
    /\ pc = "dial"
    /\ dials' = dials + 1 /\ conn' = <<call, dials + 1>>
    /\ open' = (open \ {conn}) \cup {conn'}
    /\ tlsOn' = IF goal = "first" THEN tlsOn ELSE NoConn
    /\ Goto("x224")
    /\ UNCHANGED <<call, negVars, auth, crypto, readVars>>

\* The next TLS version of the probe, the TLS-only fallback after the last one,
\* and the end after the last version of that.
SkipVersion ==
    IF tls < NumTLS
    THEN /\ tls' = tls + 1 /\ cssp' = (IF goal = "nla" THEN 1 ELSE 0)
         /\ Goto("dial") /\ UNCHANGED goal
    ELSE /\ goal = "nla"
         /\ tls' = 0 /\ cssp' = 0 /\ goal' = "tlsOnly" /\ Goto("dial")

\* reconnectWithTLS has failed.
ReconnectFails(sockets) ==
    \/ SkipVersion /\ open' = sockets
    \/ /\ goal = "tlsOnly" /\ tls = NumTLS
       /\ Goto("failed") /\ open' = (IF call = 1 THEN {} ELSE sockets)
       /\ UNCHANGED <<tls, cssp, goal>>

DialFails ==
    /\ pc = "dial"
    /\ IF goal = "first"
       THEN Goto("failed") /\ open' = open \ {conn} /\ UNCHANGED <<tls, cssp, goal>>
       ELSE ReconnectFails(open \ {conn})
    /\ UNCHANGED <<call, attempt, selected, credErr, refused,
                   dials, conn, tlsOn, auth, crypto, readVars>>

-----------------------------------------------------------------------------
(* X.224 negotiation.                                                      *)

\* A server without RDP negotiation answers with no protocol, which is RDP.
X224Selects ==
    /\ pc = "x224"
    /\ selected' \in Ask \cup {"RDP"}
    /\ Goto(IF goal = "first" /\ selected' = "RDP" THEN "mcs" ELSE "tls")
    /\ UNCHANGED <<call, goal, attempt, tls, cssp, credErr, refused,
                   sockVars, crypto, readVars>>

\* RDP_NEG_FAILURE: the next weaker protocol set, on a fresh connection.
X224Rejects ==
    /\ pc = "x224" /\ goal = "first" /\ attempt < 3
    /\ attempt' = attempt + 1
    /\ open' = open \ {conn}
    /\ Goto("dial")
    /\ UNCHANGED <<call, goal, tls, cssp, selected, credErr, refused,
                   dials, conn, tlsOn, auth, crypto, readVars>>

\* A rejection of the last set, an I/O error or a PDU that does not parse.
X224Fails ==
    /\ pc = "x224"
    /\ IF goal = "first" THEN Fail /\ UNCHANGED <<tls, cssp, goal>>
                         ELSE ReconnectFails(open)
    /\ UNCHANGED <<call, attempt, selected, credErr, refused,
                   dials, conn, tlsOn, auth, crypto, readVars>>

-----------------------------------------------------------------------------
(* TLS, CredSSP and the probe.                                             *)

TLSSucceeds_SkipsNLA ==
    /\ pc = "tls"
    /\ tlsOn' = conn
    /\ Goto(IF goal = "nla" THEN "cssp" ELSE "mcs")
    /\ UNCHANGED <<call, negVars, dials, conn, open, auth, crypto, readVars>>
TLSSucceeds ==
    /\ pc = "tls"
    /\ tlsOn' = conn
    /\ Goto(IF goal = "nla" \/ (goal = "first" /\ selected = "Hybrid")
            THEN "cssp" ELSE "mcs")
    /\ UNCHANGED <<call, negVars, dials, conn, open, auth, crypto, readVars>>

StartProbe == goal' = "nla" /\ tls' = 1 /\ cssp' = 1 /\ Goto("dial")

TLSFails ==
    /\ pc = "tls"
    /\ IF goal # "first" THEN ReconnectFails(open) /\ UNCHANGED credErr
       ELSE IF selected = "Hybrid"
            THEN StartProbe /\ credErr' = "tls" /\ UNCHANGED open
            ELSE Fail /\ UNCHANGED <<goal, tls, cssp, credErr>>
    /\ UNCHANGED <<call, attempt, selected, refused,
                   dials, conn, tlsOn, auth, crypto, readVars>>

\* The probe ends with credsspVersion reset; the pinned TLS version stays.
CredSSPSucceeds ==
    /\ pc = "cssp"
    /\ auth' = conn /\ cssp' = 0 /\ credErr' = "none"
    /\ Goto("mcs")
    /\ UNCHANGED <<call, goal, attempt, tls, selected, refused,
                   dials, conn, open, tlsOn, crypto, readVars>>

\* credsspAuth formats the error of nla.Authenticate with %v, so that what
\* errors.Is finds of it is ErrAuthFailed, whatever the server has said.
Wrapped(status) == "auth"

NextProbe ==
    IF goal = "first" THEN StartProbe
    ELSE IF cssp < NumCSSP
         THEN cssp' = cssp + 1 /\ Goto("dial") /\ UNCHANGED <<goal, tls>>
         ELSE SkipVersion

CredSSPFails ==
    /\ pc = "cssp"
    /\ \E status \in {"retry", "fatal"} :
           /\ credErr' = Wrapped(status)
           /\ refused' = (refused \/ status = "fatal")
           /\ IF credErr' = "fatal" THEN Fail /\ UNCHANGED <<goal, tls, cssp>>
                                    ELSE NextProbe /\ UNCHANGED open
    /\ UNCHANGED <<call, attempt, selected, dials, conn, tlsOn, auth,
                   crypto, readVars>>

-----------------------------------------------------------------------------
(* The phases over the negotiated connection.                              *)

Talk(from, to) ==
    /\ pc = from /\ Goto(to)
    /\ UNCHANGED <<call, negVars, sockVars>>

\* Any write, read or PDU of a phase may be wrong: Connect closes and returns.
\* securityExchange does nothing that can fail unless the protocol is RDP.
PhaseFails ==
    /\ pc \in (PublicPcs \cup PrivatePcs) \ {"up"}
    /\ pc = "security" => selected = "RDP"
    /\ Fail
    /\ UNCHANGED <<call, negVars, dials, conn, tlsOn, auth, crypto, readVars>>

McsConnect == Talk("mcs", "attach") /\ UNCHANGED <<crypto, readVars>>

AttachUser == Talk("attach", "join") /\ joined' = 0 /\ UNCHANGED <<crypto, reads, got>>

JoinChannel ==
    /\ Talk("join", IF joined + 1 = NumChannels THEN "security" ELSE "join")
    /\ joined' = joined + 1
    /\ UNCHANGED <<crypto, reads, got>>

SecurityExchange_NoKeys ==
    /\ Talk("security", "info") /\ UNCHANGED <<crypto, readVars>>
SecurityExchange ==
    /\ Talk("security", "info")
    /\ crypto' = IF selected = "RDP" THEN conn ELSE crypto
    /\ UNCHANGED readVars

SendClientInfo == Talk("info", "license1") /\ UNCHANGED <<crypto, readVars>>

\* handleLicensing: STATUS_VALID_CLIENT ends it at any message, a license
\* request and a platform challenge are answered, a new license ends it.
LicenseValid ==
    /\ \E step \in {"license1", "license2", "license3"} : Talk(step, "caps")
    /\ UNCHANGED <<crypto, readVars>>
LicenseRequest == Talk("license1", "license2") /\ UNCHANGED <<crypto, readVars>>
PlatformChallenge_AsksAgain ==
    Talk("license2", "license1") /\ UNCHANGED <<crypto, readVars>>
PlatformChallenge == Talk("license2", "license3") /\ UNCHANGED <<crypto, readVars>>

DemandActive ==
    /\ Talk("caps", "sync")
    /\ reads' = 0 /\ got' = {} /\ UNCHANGED <<crypto, joined>>

\* handleFinalization, first loop: until Synchronize and Control, or MaxReads.
\* "other" is a PDU the loop ignores or hands to a virtual channel; fast-path
\* updates are handled before the loop sees them and do not count.
ReadSync_OffByOne ==
    /\ reads <= MaxReads
    /\ \E m \in {"sync", "control", "other"} :
           LET now == got \cup ({m} \ {"other"})
               all == now = {"sync", "control"}
           IN /\ Talk("sync", IF all THEN "font" ELSE "sync")
              /\ got' = now /\ reads' = IF all THEN 0 ELSE reads + 1
    /\ UNCHANGED <<crypto, joined>>
ReadSync ==
    /\ reads < MaxReads
    /\ \E m \in {"sync", "control", "other"} :
           LET now == got \cup ({m} \ {"other"})
               all == now = {"sync", "control"}
           IN /\ Talk("sync", IF all THEN "font" ELSE "sync")
              /\ got' = now /\ reads' = IF all THEN 0 ELSE reads + 1
    /\ UNCHANGED <<crypto, joined>>

ReadOther == /\ Talk("font", "font") /\ reads < MaxReads /\ reads' = reads + 1
             /\ UNCHANGED <<crypto, joined, got>>

FontMap == /\ Talk("font", "up") /\ reads < MaxReads
           /\ UNCHANGED <<crypto, readVars>>

-----------------------------------------------------------------------------
(* The connection is lost, or an attempt to reconnect has failed, and      *)
(* reconnectLoop calls resetForReconnect and Connect.                      *)

Reset ==
    /\ pc = "up" \/ (pc = "failed" /\ call > 1)
    /\ call < MaxCalls /\ call' = call + 1
    /\ goal' = "first" /\ attempt' = 1 /\ tls' = 0 /\ cssp' = 0
    /\ selected' = "RDP" /\ credErr' = "none" /\ refused' = FALSE
    /\ dials' = 0 /\ conn' = NoConn /\ open' = {} /\ tlsOn' = NoConn
    /\ auth' = NoConn /\ crypto' = NoConn
    /\ joined' = 0 /\ reads' = 0 /\ got' = {}
    /\ Goto("dial")

Step ==
    \/ DialSucceeds \/ DialFails
    \/ X224Selects \/ X224Rejects \/ X224Fails
    \/ TLSSucceeds \/ TLSFails \/ CredSSPSucceeds \/ CredSSPFails
    \/ PhaseFails \/ McsConnect \/ AttachUser \/ JoinChannel
    \/ SecurityExchange \/ SendClientInfo
    \/ LicenseValid \/ LicenseRequest \/ PlatformChallenge
    \/ DemandActive \/ ReadSync \/ ReadOther \/ FontMap

Next == Step \/ Reset

\* Connect is one goroutine; the server is assumed to answer or to fail.
Spec == Init /\ [][Next]_vars /\ WF_vars(Step)

-----------------------------------------------------------------------------
(* Properties.                                                             *)

\* Once the Client Info PDU is sent, what carries it and everything after it
\* is TLS over, or keys derived on, the connection in use: never those of a
\* connection that the probe or a reconnection has replaced.
InfoProtected ==
    /\ pc \in PrivatePcs => conn \in {tlsOn, crypto}
    /\ pc \in PublicPcs \cup PrivatePcs => {tlsOn, crypto} \subseteq {conn, NoConn}

\* A session that runs with the Hybrid protocol has authenticated on its own
\* connection, not on one that a probe has tried before.
NLAAuthenticated ==
    pc \in PublicPcs \cup PrivatePcs /\ selected = "Hybrid" => auth = conn

\* The connection in use is the only open one, whichever of the fallbacks
\* and probes produced it, and a first Connect that fails leaves none.
SocketsOwned ==
    /\ open \subseteq {conn}
    /\ pc \in Pcs \ {"dial", "failed"} => open = {conn}
    /\ pc = "failed" /\ call = 1 => open = {}

\* One call dials at most once, once for each pair of versions, and once for
\* each TLS-only attempt (18 times at most): the fallbacks do not multiply.
DialsBounded == dials <= MaxDials

\* The parts of the inductive invariant.  Each probe is one dial, so the place
\* in the probe bounds the dials already made.
Place(t, c) == (t - 1) * NumCSSP + c
Undialled == IF pc = "dial" THEN 1 ELSE 0
Negotiating == pc \in {"dial", "x224", "tls", "cssp"}
Counted ==
    Negotiating =>
        /\ goal = "first" => dials + Undialled <= attempt /\ tls = 0 /\ cssp = 0
        /\ goal = "nla" => /\ tls >= 1 /\ cssp >= 1
                           /\ dials + Undialled <= Place(tls, cssp) + 1
        /\ goal = "tlsOnly" => dials + Undialled <= ProbeDials + tls + 2
\* Only the first connection asks for anything but TLS and NLA.
Asked ==
    /\ goal # "first" => attempt = 1
    /\ pc = "tls" /\ goal = "first" => selected \in Ask /\ selected # "RDP"
    /\ goal = "tlsOnly" /\ pc \notin {"dial", "x224"} => selected # "Hybrid" \/ pc = "failed"
    /\ pc = "cssp" => goal \in {"first", "nla"} /\ attempt = 1
Layered ==
    /\ conn = IF dials = 0 THEN NoConn ELSE <<call, dials>>
    /\ pc \notin {"dial", "failed"} => dials > 0
    /\ pc \in {"x224", "tls"} => tlsOn = NoConn
    /\ pc = "dial" /\ goal = "first" => tlsOn = NoConn
    /\ pc = "cssp" => tlsOn = conn
    /\ pc \in PublicPcs \cup PrivatePcs =>
           /\ tlsOn \in {conn, NoConn} /\ crypto \in {conn, NoConn}
           /\ selected # "RDP" => tlsOn = conn
    /\ pc \in Pcs \ (PrivatePcs \cup {"info", "failed"}) => crypto = NoConn
    /\ pc \in PrivatePcs \cup {"info"} /\ selected = "RDP" => crypto = conn
Joining == pc = "join" => joined < NumChannels
IInv == TypeOK /\ SocketsOwned /\ NLAAuthenticated /\ Counted /\ Asked /\ Layered /\ Joining

\* A call of Connect ends if the server answers each time or breaks off.
ConnectEnds == pc \notin {"up", "failed"} ~> pc \in {"up", "failed"}

\* However it negotiates, Connect has one socket and its failure leaves none
\* open that the next resetForReconnect does not close.
Outcome == INSTANCE ConnectOutcome WITH
    phase <- IF pc \in {"up", "failed"} THEN pc ELSE "opening",
    socket <- open # {}, again <- call > 1
OneConnection == Outcome!OSpec

\* "Callers should stop probing and report the error immediately": when the
\* server has refused the credentials no further connection is dialled.
RefusalStops == [][refused => dials' <= dials]_vars
=============================================================================
