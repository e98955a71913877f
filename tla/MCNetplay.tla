----------------------------- MODULE MCNetplay -----------------------------
(***************************************************************************)
(* Netplay for TLC: a run that has reached its bound, and in which every   *)
(* thread waits for something that cannot come, stutters here.  Any other  *)
(* standstill is a deadlock and TLC reports it.                            *)
(***************************************************************************)
EXTENDS Netplay

\* All frames are closed and played, or the game is over and everybody who
\* is left has been told.
Finished ==
  /\ \/ gpc = "top" /\ ~stop /\ frame = MaxFrame
     \/ gpc = "stopped"
  /\ \A p \in Players : \/ epc[p] \in {"offline", "gone"}
                        \/ epc[p] = "wait" /\ eframe[p] = MaxFrame + 1
  /\ UNCHANGED vars

MCNext == Next \/ Finished
MCSpec == Init /\ [][MCNext]_vars
MCFairSpec == MCSpec /\ Fairness
=============================================================================
