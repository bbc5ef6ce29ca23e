---------------------------- MODULE ConnectOutcome ----------------------------
(***************************************************************************)
(* What a call of Connect promises, whatever it tries on the way: it has   *)
(* at most one socket, it ends connected with that socket or failed, and a *)
(* failure leaves a socket only to the resetForReconnect of the next       *)
(* attempt.                                                                *)
(***************************************************************************)
VARIABLES phase,   \* "opening", "up", "failed"
          socket,  \* a socket is open
          again    \* this call is one of an automatic reconnection

oVars == <<phase, socket, again>>

OInit == phase = "opening" /\ socket = FALSE /\ again = FALSE

\* Dial, or give up a connection to dial another one.
Opening == phase = "opening" /\ socket' \in BOOLEAN /\ UNCHANGED <<phase, again>>

Establish == phase = "opening" /\ socket /\ phase' = "up" /\ UNCHANGED <<socket, again>>

Fail == /\ phase = "opening" /\ phase' = "failed"
        /\ socket' \in {FALSE, again} /\ UNCHANGED again

Retry == /\ phase = "up" \/ (phase = "failed" /\ again)
         /\ phase' = "opening" /\ socket' = FALSE /\ again' = TRUE

ONext == Opening \/ Establish \/ Fail \/ Retry

OSpec == OInit /\ [][ONext]_oVars
=============================================================================
