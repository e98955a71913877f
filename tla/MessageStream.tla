--------------------------- MODULE MessageStream ---------------------------
(***************************************************************************)
(* What a netplay connection promises in one direction, and a pipe between *)
(* two threads: the messages that are sent arrive whole, once, and in the  *)
(* order in which they were sent.                                          *)
(***************************************************************************)
EXTENDS Naturals, Sequences

CONSTANT Messages

VARIABLES accepted,   \* the messages sent, in order
          delivered   \* the messages that have arrived, in order

Init == accepted = << >> /\ delivered = << >>

Send == /\ \E m \in Messages : accepted' = Append(accepted, m)
        /\ UNCHANGED delivered

Deliver == /\ Len(delivered) < Len(accepted)
           /\ delivered' = Append(delivered, accepted[Len(delivered) + 1])
           /\ UNCHANGED accepted

Next == Send \/ Deliver

Spec == Init /\ [][Next]_<<accepted, delivered>>
=============================================================================
