----------------------------- MODULE AppSession -----------------------------
(***************************************************************************)
(* What an rdp.Client promises to the application that uses it: the order  *)
(* in which onReconnecting, onReconnected and onDisconnect may be called,  *)
(* and silence once Close has closed the client.                           *)
(***************************************************************************)
VARIABLE phase

Init == phase = "up"

Lose == phase = "up" /\ phase' \in {"reconnecting", "ended"}
Recover == phase = "reconnecting" /\ phase' = "up"
GiveUp == phase = "reconnecting" /\ phase' = "ended"
Close == phase = "up" /\ phase' = "closed"

Next == Lose \/ Recover \/ GiveUp \/ Close

Spec == Init /\ [][Next]_phase
=============================================================================
