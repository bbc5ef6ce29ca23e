----------------------- MODULE ConnectSequenceProofs -----------------------
(***************************************************************************)
(* Proofs about ConnectSequence, for any number of TLS and CredSSP         *)
(* versions, channels, reads and reconnections.                            *)
(***************************************************************************)
EXTENDS ConnectSequence, TLAPS

\* The constants one by one.
LEMMA Constants ==
    /\ NumTLS \in Nat \ {0} /\ NumCSSP \in Nat \ {0} /\ NumChannels \in Nat \ {0}
    /\ MaxReads \in Nat \ {0} /\ MaxCalls \in Nat \ {0}
BY ConnectAssumption DEF ConnectAssumption

\* The order of the probe: the places of its pairs of versions are the numbers
\* from 1 to ProbeDials (the loops of Connect).
LEMMA ProbeOrder ==
    ASSUME NEW t \in 1 .. NumTLS, NEW c \in 1 .. NumCSSP
    PROVE  /\ Place(t, c) \in 1 .. ProbeDials
           /\ c < NumCSSP => Place(t, c + 1) = Place(t, c) + 1
           /\ t < NumTLS => Place(t + 1, 1) >= Place(t, c) + 1
PROOF
<1> USE ConnectAssumption DEF Place, ProbeDials
<1>1. NumTLS \in Nat \ {0} /\ NumCSSP \in Nat \ {0}
  OBVIOUS
<1>2. (t - 1) * NumCSSP \in Nat /\ (t - 1) * NumCSSP + NumCSSP = t * NumCSSP
  BY <1>1, SMT
<1>3. (NumTLS - t) * NumCSSP \in Nat
      /\ t * NumCSSP + (NumTLS - t) * NumCSSP = NumTLS * NumCSSP
  BY <1>1, SMT
<1>4. ((t + 1) - 1) * NumCSSP = t * NumCSSP
  BY <1>1, SMT
<1> QED
  BY <1>1, <1>2, <1>3, <1>4, SMT

\* The first place of the probe, and the count of its places.
LEMMA ProbeStart ==
    /\ Place(1, 1) = 1 /\ ProbeDials \in Nat \ {0}
    /\ MaxDials \in Nat /\ MaxDials = ProbeDials + NumTLS + 2
PROOF
<1>1. Place(1, 1) = 1
  BY ConnectAssumption, SMT DEF Place
<1>2. 1 \in 1 .. NumTLS /\ 1 \in 1 .. NumCSSP
  BY ConnectAssumption
<1>3. Place(1, 1) \in 1 .. ProbeDials
  BY <1>2, ProbeOrder
<1>4. ProbeDials \in Nat
  BY ConnectAssumption, SMT DEF ProbeDials
<1> QED
  BY <1>1, <1>3, <1>4, Constants DEF MaxDials

\* The initial state satisfies the invariant (NewClient, before Connect).
LEMMA InitHolds == Init => IInv
PROOF
<1> USE Constants, ProbeStart
<1> SUFFICES ASSUME Init PROVE IInv
  OBVIOUS
<1>1. TypeOK
  <2>1. /\ call \in 1 .. MaxCalls /\ attempt \in 1 .. 3
        /\ tls \in 0 .. NumTLS /\ cssp \in 0 .. NumCSSP /\ dials \in 0 .. MaxDials
        /\ joined \in 0 .. NumChannels /\ reads \in 0 .. MaxReads
    BY SMT DEF Init
  <2>2. {conn, tlsOn, auth, crypto} \subseteq ConnIds /\ open \subseteq ConnIds
    BY DEF Init, ConnIds
  <2>3. /\ pc \in Pcs /\ goal \in Goals /\ selected \in Protocols
        /\ credErr \in {"none", "tls", "auth", "fatal"} /\ refused \in BOOLEAN
        /\ got \subseteq {"sync", "control"}
    BY DEF Init, Pcs, Goals, Protocols
  <2> QED
    BY <2>1, <2>2, <2>3 DEF TypeOK
<1>2. SocketsOwned /\ NLAAuthenticated
  BY DEF Init, SocketsOwned, NLAAuthenticated, PublicPcs, PrivatePcs
<1>3. Counted /\ Asked /\ Layered /\ Joining
  BY SMT DEF Init, Counted, Undialled, Negotiating, Asked, Layered, Joining, Pcs, PublicPcs, PrivatePcs
<1> QED
  BY <1>1, <1>2, <1>3 DEF IInv

\* Every step of Connect, and the reset before the next, keeps the invariant.
LEMMA StepHolds == ASSUME IInv, [Next]_vars PROVE IInv'
PROOF
<1> USE Constants, ProbeStart, ProbeOrder
    DEF IInv, TypeOK, SocketsOwned, NLAAuthenticated, Counted, Asked, Layered, Joining,
        Undialled, Negotiating, Pcs, PublicPcs, PrivatePcs, Goals, Protocols,
        ConnIds, NoConn, Goto, Talk, negVars, sockVars, readVars
<1>1. CASE DialSucceeds
  BY <1>1, SMTT(60) DEF DialSucceeds
<1>2. CASE DialFails
  BY <1>2, SMTT(60) DEF DialFails, ReconnectFails, SkipVersion
<1>3. CASE X224Selects
  BY <1>3, SMTT(60) DEF X224Selects, Ask, Requested
<1>4. CASE X224Rejects
  BY <1>4, SMTT(60) DEF X224Rejects
<1>5. CASE X224Fails
  BY <1>5, SMTT(60) DEF X224Fails, ReconnectFails, SkipVersion, Fail
<1>6. CASE TLSSucceeds
  BY <1>6, SMTT(60) DEF TLSSucceeds, Ask, Requested
<1>7. CASE TLSFails
  BY <1>7, SMTT(60) DEF TLSFails, ReconnectFails, SkipVersion, Fail, StartProbe, Ask, Requested
<1>8. CASE CredSSPSucceeds
  BY <1>8, SMTT(60) DEF CredSSPSucceeds
<1>9. CASE CredSSPFails
  BY <1>9, SMTT(60) DEF CredSSPFails, NextProbe, SkipVersion, StartProbe, Fail, Wrapped
<1>10. CASE PhaseFails
  BY <1>10, SMTT(60) DEF PhaseFails, Fail
<1>11. CASE McsConnect
  BY <1>11, SMTT(60) DEF McsConnect
<1>12. CASE AttachUser
  BY <1>12, SMTT(60) DEF AttachUser
<1>13. CASE JoinChannel
  BY <1>13, SMTT(60) DEF JoinChannel
<1>14. CASE SecurityExchange
  BY <1>14, SMTT(60) DEF SecurityExchange
<1>15. CASE SendClientInfo
  BY <1>15, SMTT(60) DEF SendClientInfo
<1>16. CASE LicenseValid
  BY <1>16, SMTT(60) DEF LicenseValid
<1>17. CASE LicenseRequest
  BY <1>17, SMTT(60) DEF LicenseRequest
<1>18. CASE PlatformChallenge
  BY <1>18, SMTT(60) DEF PlatformChallenge
<1>19. CASE DemandActive
  BY <1>19, SMTT(60) DEF DemandActive
<1>20. CASE ReadSync
  BY <1>20, SMTT(60) DEF ReadSync
<1>21. CASE ReadOther
  BY <1>21, SMTT(60) DEF ReadOther
<1>22. CASE FontMap
  BY <1>22, SMTT(60) DEF FontMap
<1>23. CASE Reset
  <2>1. call' \in 1 .. MaxCalls
    BY <1>23, SMT DEF Reset
  <2>2. /\ pc' = "dial" /\ goal' = "first" /\ attempt' = 1 /\ tls' = 0 /\ cssp' = 0
        /\ selected' = "RDP" /\ credErr' = "none" /\ refused' = FALSE
        /\ dials' = 0 /\ conn' = NoConn /\ open' = {} /\ tlsOn' = NoConn
        /\ auth' = NoConn /\ crypto' = NoConn
        /\ joined' = 0 /\ reads' = 0 /\ got' = {}
    BY <1>23 DEF Reset
  <2>3. {conn', tlsOn', auth', crypto'} \subseteq ConnIds /\ open' \subseteq ConnIds
    BY <2>2 DEF ConnIds
  <2>4. TypeOK'
    <3>1. /\ attempt' \in 1 .. 3 /\ tls' \in 0 .. NumTLS /\ cssp' \in 0 .. NumCSSP
          /\ dials' \in 0 .. MaxDials
          /\ joined' \in 0 .. NumChannels /\ reads' \in 0 .. MaxReads
      BY <2>2, SMT
    <3>2. /\ pc' \in Pcs /\ goal' \in Goals /\ selected' \in Protocols
          /\ credErr' \in {"none", "tls", "auth", "fatal"} /\ refused' \in BOOLEAN
          /\ got' \subseteq {"sync", "control"}
      BY <2>2 DEF Pcs, Goals, Protocols
    <3> QED
      BY <2>1, <2>3, <3>1, <3>2, Zenon DEF TypeOK
  <2>5. SocketsOwned' /\ NLAAuthenticated'
    BY <2>2 DEF SocketsOwned, NLAAuthenticated
  <2>6. Counted' /\ Asked' /\ Layered' /\ Joining'
    BY <2>2, SMT DEF Counted, Asked, Layered, Joining
  <2> QED
    BY <2>4, <2>5, <2>6 DEF IInv
<1>24. CASE UNCHANGED vars
  BY <1>24, SMTT(60) DEF vars, Ask
<1> QED
  BY <1>1, <1>2, <1>3, <1>4, <1>5, <1>6, <1>7, <1>8, <1>9, <1>10, <1>11, <1>12, <1>13, <1>14, <1>15, <1>16, <1>17, <1>18, <1>19, <1>20, <1>21, <1>22, <1>23, <1>24 DEF Next, Step

\* The invariant holds throughout.
LEMMA Invariance == Spec => []IInv
PROOF
<1>1. Init => IInv
  BY InitHolds
<1>2. IInv /\ [Next]_vars => IInv'
  BY StepHolds
<1> QED
  BY <1>1, <1>2, PTL DEF Spec

\* The type invariant, the bounds of the probe and of the reads included.
THEOREM ConnectTypeCorrect == Spec => []TypeOK
PROOF
<1>1. IInv => TypeOK
  BY DEF IInv
<1> QED
  BY <1>1, Invariance, PTL

\* One socket, the one in use, and none left by a first Connect that fails.
THEOREM OneSocket == Spec => []SocketsOwned
PROOF
<1>1. IInv => SocketsOwned
  BY DEF IInv
<1> QED
  BY <1>1, Invariance, PTL

\* The Client Info PDU and what follows it travel under TLS or under keys of
\* the connection in use (sendClientInfo, readDecryptedPDU).
THEOREM InfoIsProtected == Spec => []InfoProtected
PROOF
<1>1. IInv => InfoProtected
  BY SMT DEF IInv, TypeOK, Layered, InfoProtected, PublicPcs, PrivatePcs, Pcs, Protocols
<1> QED
  BY <1>1, Invariance, PTL

\* With the Hybrid protocol the connection in use is the authenticated one.
THEOREM NLAIsAuthenticated == Spec => []NLAAuthenticated
PROOF
<1>1. IInv => NLAAuthenticated
  BY DEF IInv
<1> QED
  BY <1>1, Invariance, PTL

\* The fallbacks and the probe of a call dial at most MaxDials times.
THEOREM DialsAreBounded == Spec => []DialsBounded
PROOF
<1>1. IInv => DialsBounded
  BY Constants, ProbeStart DEF IInv, TypeOK, DialsBounded
<1> QED
  BY <1>1, Invariance, PTL

\* Connect refines ConnectOutcome: one connection, closed when it fails.
THEOREM ConnectRefines == Spec => OneConnection
PROOF
<1>1. Init => Outcome!OInit
  BY DEF Init, Outcome!OInit
<1>2. ASSUME IInv, IInv', [Next]_vars PROVE [Outcome!ONext]_(Outcome!oVars)
  <2> USE DEF Outcome!ONext, Outcome!oVars, Goto, negVars, sockVars
  <2>1. CASE pc \in {"up", "failed"} /\ ~Reset
    <3>1. UNCHANGED <<pc, call, open>>
      BY <1>2, <2>1 DEF Next, Step, vars, Talk, DialSucceeds, DialFails, X224Selects,
         X224Rejects, X224Fails, TLSSucceeds, TLSFails, CredSSPSucceeds,
         CredSSPFails, PhaseFails, PublicPcs, PrivatePcs, McsConnect, AttachUser,
         JoinChannel, SecurityExchange, SendClientInfo, LicenseValid,
         LicenseRequest, PlatformChallenge, DemandActive, ReadSync, ReadOther, FontMap
    <3> QED
      BY <3>1
  <2>2. CASE Reset
    BY <1>2, <2>2, SMT DEF Reset, IInv, TypeOK, Outcome!Retry
  <2>3. CASE pc \notin {"up", "failed"} /\ ~Reset
    <3>1. /\ call' = call
          /\ pc' = "up" => pc = "font" /\ open' = open
          /\ pc' = "failed" => open' \subseteq open
      BY <1>2, <2>3 DEF Next, Step, vars, Talk, DialSucceeds, DialFails, X224Selects,
         X224Rejects, X224Fails, TLSSucceeds, TLSFails, CredSSPSucceeds,
         CredSSPFails, PhaseFails, McsConnect, AttachUser, ReconnectFails,
         SkipVersion, StartProbe, NextProbe, Fail, JoinChannel, SecurityExchange,
         SendClientInfo, LicenseValid, LicenseRequest, PlatformChallenge,
         DemandActive, ReadSync, ReadOther, FontMap
    <3>2. pc' = "up" => open # {} /\ open' = open
      BY <1>2, <3>1 DEF IInv, SocketsOwned, Pcs, PrivatePcs
    <3>3. pc' = "failed" /\ call = 1 => open' = {}
      BY <1>2, <3>1 DEF IInv, SocketsOwned
    <3>5. (call > 1) = (call # 1)
      BY <1>2, SMT DEF IInv, TypeOK
    <3>6. CASE pc' \notin {"up", "failed"}
      BY <2>3, <3>1, <3>6 DEF Outcome!Opening
    <3>7. CASE pc' = "up"
      BY <2>3, <3>1, <3>2, <3>7 DEF Outcome!Establish
    <3>8. CASE pc' = "failed"
      BY <2>3, <3>1, <3>3, <3>5, <3>8 DEF Outcome!Fail
    <3> QED
      BY <3>6, <3>7, <3>8
  <2> QED
    BY <2>1, <2>2, <2>3
<1> QED
  BY <1>1, <1>2, Invariance, PTL DEF Spec, OneConnection, Outcome!OSpec
=============================================================================
