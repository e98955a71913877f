------------------------------ MODULE Lockstep ------------------------------
(***************************************************************************)
(* What a netplay game promises its players, with no server threads, no    *)
(* sockets and no queues: there is one log of input events cut into frames *)
(* by frame marks, every player applies that log in order, a player only   *)
(* applies the inputs of a frame it has announced, and the log never runs  *)
(* more than MaxDrift + 1 frames ahead of the slowest player.              *)
(*                                                                         *)
(* Netplay implements this module (see Netplay!LockstepRefinement).        *)
(***************************************************************************)
EXTENDS Naturals, Sequences, FiniteSets

CONSTANTS NumClients,   \* how many players the game has
          Events,       \* the input events a player can cause
          MaxDrift      \* frames the log may be ahead before it has to wait

Players == 0 .. NumClients - 1

Input(e)     == [type |-> "input", val |-> e]
FrameMark(n) == [type |-> "frame", val |-> n]

VARIABLES log,        \* the inputs and frame marks of the game, in order
          announced,  \* per player: the last frame it announced
          applied     \* per player: the part of the log it has applied

vars == <<log, announced, applied>>

\* How many frame marks a piece of the log holds.
Frames(s) == Cardinality({i \in 1 .. Len(s) : s[i].type = "frame"})

Init == /\ log = << >>
        /\ announced = [p \in Players |-> 0]
        /\ applied = [p \in Players |-> << >>]

\* A player's input joins the frame that is being collected.
Submit(e) == /\ log' = Append(log, Input(e))
             /\ UNCHANGED <<announced, applied>>

\* The frame being collected is closed, unless some player is too far behind.
CloseFrame == /\ \A p \in Players : Frames(log) <= announced[p] + MaxDrift
              /\ log' = Append(log, FrameMark(Frames(log) + 1))
              /\ UNCHANGED <<announced, applied>>

\* A player that has applied every frame it announced announces the next one,
\* which must be closed.
Announce(p) == /\ announced[p] = Frames(applied[p])
               /\ announced[p] < Frames(log)
               /\ announced' = [announced EXCEPT ![p] = @ + 1]
               /\ UNCHANGED <<log, applied>>

\* A player applies the next entry of a frame it has announced.
Apply(p) == /\ Frames(applied[p]) < announced[p]
            /\ applied' = [applied EXCEPT ![p] = Append(@, log[Len(@) + 1])]
            /\ UNCHANGED <<log, announced>>

Next == \/ \E e \in Events : Submit(e)
        \/ CloseFrame
        \/ \E p \in Players : Announce(p) \/ Apply(p)

Spec == Init /\ [][Next]_vars
=============================================================================
