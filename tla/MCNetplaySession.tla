-------------------------- MODULE MCNetplaySession --------------------------
(***************************************************************************)
(* The headers that connections send to the server in the runs of          *)
(* NetplaySession: players with two versions of the emulator, a player who *)
(* comes back for the first seat, one without its key, and connections     *)
(* that ask for no seat.                                                   *)
(***************************************************************************)
EXTENDS NetplaySession

NewPlayer(v) == [kind |-> "new", version |-> v]
Again(k) == [kind |-> "again", slot |-> 0, key |-> k]

PlayersOnly == {NewPlayer(1)}
AllHeaders == {NewPlayer(1), NewPlayer(2), Again(TRUE), Again(FALSE),
               [kind |-> "other"]}
=============================================================================
