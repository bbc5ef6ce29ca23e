-------------------------- MODULE MCClientLifecycle --------------------------
(***************************************************************************)
(* Model values and symmetry for the runs of ClientLifecycle.              *)
(***************************************************************************)
EXTENDS ClientLifecycle, TLC

\* The goroutines that reconnect are interchangeable, App is not.
Symmetry == Permutations(Goroutines \ {App})
=============================================================================
