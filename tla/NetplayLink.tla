---------------------------- MODULE NetplayLink ----------------------------
(***************************************************************************)
(* The TCP connections between the game server and the emulators of the    *)
(* players: one FIFO stream of messages each way per player, and the state *)
(* of the two ends.  Messages that only feed the display (player tags,     *)
(* pings, lags, chat) are left out.                                        *)
(***************************************************************************)
EXTENDS Naturals, Sequences, FiniteSets

CONSTANTS NumClients,   \* num_clients: players the server waits for
          Events        \* input events a player can cause

ASSUME NumClientsAssumption == NumClients \in Nat \ {0}

\* The player number is the client's index in game.clients.
Players == 0 .. NumClients - 1

VARIABLES
  down,     \* per player: messages on the way to the emulator
  up,       \* per player: messages on the way to the server
  link,     \* per player: the server's socket: "open"; "reset", the peer has
            \* gone and every call on it raises; "closed" by the server
  present   \* per player: the emulator has not closed its end

linkVars == <<down, up, link, present>>

Msg(t, v)   == [type |-> t, val |-> v]
InputMsg(e) == Msg("input", e)
FrameMsg(n) == Msg("frame", n)
CheckMsg(d) == Msg("check", d)   \* RND_CHECK and MEM_CHECK of one frame
ErrorMsg    == Msg("error", 0)   \* any of the server's error numbers

LinkInit == /\ down = [p \in Players |-> << >>]
            /\ up = [p \in Players |-> << >>]
            /\ link = [p \in Players |-> "open"]
            /\ present = [p \in Players |-> TRUE]

\* Data reached the closed socket of an emulator that has gone: the peer's
\* TCP answers with a reset.
Reset(p) == /\ link[p] = "open"
            /\ ~present[p]
            /\ down[p] # << >>
            /\ link' = [link EXCEPT ![p] = "reset"]
            /\ UNCHANGED <<down, up, present>>
=============================================================================
