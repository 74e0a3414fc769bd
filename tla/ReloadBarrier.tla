--------------------------- MODULE ReloadBarrier ---------------------------
(***************************************************************************)
(* What the reload of the application promises its clients, whatever the   *)
(* components are: a request is answered by at most one serverReloaded, at *)
(* the moment when the last component that had not reloaded since that     *)
(* request has done it; a newer request takes the place of a waiting one.  *)
(***************************************************************************)
CONSTANT Comps

VARIABLES
  waiting,  \* a request was made and serverReloaded was not sent
  behind    \* components that have not reloaded since that request

vars == <<waiting, behind>>

Init == waiting = FALSE /\ behind = {}

\* A reload is requested, and some components do it at once.
Request ==
  /\ waiting' = TRUE
  /\ behind' \subseteq Comps /\ behind' # {}

\* Some components have reloaded, and others are still behind.
Reload ==
  /\ waiting
  /\ behind' \subseteq behind /\ behind' # {}
  /\ UNCHANGED waiting

\* The last ones have reloaded, and the clients are told.
Tell ==
  /\ waiting
  /\ waiting' = FALSE
  /\ behind' = {}

Next == Request \/ Reload \/ Tell

Spec == Init /\ [][Next]_vars
============================================================================
