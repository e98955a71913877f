--------------------------- MODULE NetplayClient ---------------------------
(***************************************************************************)
(* The netplay side of a player's emulator (netplay.c): the receive thread,*)
(* the emulation thread, which waits for the server's frame, announces it  *)
(* and takes the frame's inputs from the netplay queue, and the thread on  *)
(* which the user's input arrives.                                         *)
(*                                                                         *)
(* The emulation thread's position epc follows the callers and the body of *)
(* fs_emu_netplay_wait_for_frame:                                          *)
(*   enter    emulating; the next call is for eframe + 1                   *)
(*   wait     in the loop on g_frame                                       *)
(*   check    about to send RND_CHECK and MEM_CHECK                        *)
(*   ack      about to send FRAME                                          *)
(*   drain    taking the frame's inputs from the netplay queue             *)
(*   offline  emulating without netplay                                    *)
(*   failed   exit(1) after a synchronization error                        *)
(*   gone     the process has ended                                        *)
(***************************************************************************)
EXTENDS NetplayLink

CONSTANTS MaxInputs,   \* bound of the model: input events sent in all
          Quitters,    \* players whose emulator may end at any time
          Divergent    \* players whose emulation may diverge

ASSUME ClientAssumption == /\ MaxInputs \in Nat
                           /\ Quitters \subseteq Players
                           /\ Divergent \subseteq Players

VARIABLES
  epc,        \* where the emulation thread is
  eframe,     \* the frame it is at: event_handler's static frame
  gframe,     \* g_frame, the last frame the receive thread has signalled
  hand,       \* the frame whose sentinel is queued but not signalled, else 0
  queue,      \* g_input_event_queue: inputs and sentinels
  receiving,  \* the receive thread runs
  online,     \* netplay is enabled and connected
  diverged,   \* the emulated machine's state has left the common one
  inputs,     \* how many input events were sent, for MaxInputs
  applied,    \* history: what the emulation thread took from the queue
  sums        \* history: the checksums it computed, one per frame

emuVars    == <<epc, eframe, applied, sums>>
recvrVars  == <<gframe, hand, receiving>>
clientVars == <<emuVars, recvrVars, queue, online, diverged, inputs>>

ClientInit ==
  /\ epc = [p \in Players |-> "enter"]
  /\ eframe = [p \in Players |-> 0]
  /\ gframe = [p \in Players |-> 0]
  /\ hand = [p \in Players |-> 0]
  /\ queue = [p \in Players |-> << >>]
  /\ receiving = [p \in Players |-> TRUE]
  /\ online = [p \in Players |-> TRUE]
  /\ diverged = [p \in Players |-> FALSE]
  /\ inputs = 0
  /\ applied = [p \in Players |-> << >>]
  /\ sums = [p \in Players |-> << >>]

-----------------------------------------------------------------------------
(* Sending.  On a closed connection the data is lost; when send reports it *)
(* the emulator goes offline.                                              *)
Send(p, m) ==
  IF link[p] = "open" /\ present[p]
  THEN up' = [up EXCEPT ![p] = Append(@, m)] /\ UNCHANGED online
  ELSE /\ UNCHANGED up
       /\ \/ UNCHANGED online
          \/ online' = [online EXCEPT ![p] = FALSE]

\* The user presses something while netplay is on: the event goes to the
\* server, not to this emulator.
SendInputAndEcho(p, e) ==
  /\ online[p] /\ epc[p] \notin {"failed", "gone"}
  /\ inputs < MaxInputs /\ inputs' = inputs + 1
  /\ Send(p, InputMsg(e))
  /\ queue' = [queue EXCEPT ![p] = Append(@, InputMsg(e))]
  /\ UNCHANGED <<emuVars, recvrVars, diverged, down, link, present>>
SendInput(p, e) ==
  /\ online[p] /\ epc[p] \notin {"failed", "gone"}
  /\ inputs < MaxInputs /\ inputs' = inputs + 1
  /\ Send(p, InputMsg(e))
  /\ UNCHANGED <<emuVars, recvrVars, queue, diverged, down, link, present>>

-----------------------------------------------------------------------------
(* The receive thread *)

Incoming(p, t) == /\ receiving[p] /\ hand[p] = 0
                  /\ down[p] # << >> /\ Head(down[p]).type = t
                  /\ down' = [down EXCEPT ![p] = Tail(@)]

RecvInput(p) ==
  /\ Incoming(p, "input")
  /\ queue' = [queue EXCEPT ![p] = Append(@, Head(down[p]))]
  /\ UNCHANGED <<emuVars, recvrVars, online, diverged, inputs,
                 up, link, present>>

\* The sentinel is queued first ...
RecvFrame(p) ==
  /\ Incoming(p, "frame")
  /\ queue' = [queue EXCEPT ![p] = Append(@, Head(down[p]))]
  /\ hand' = [hand EXCEPT ![p] = Head(down[p]).val]
  /\ UNCHANGED <<emuVars, gframe, receiving, online, diverged, inputs,
                 up, link, present>>

\* ... and the emulation thread is told afterwards.
SignalFrame(p) ==
  /\ receiving[p] /\ hand[p] # 0
  /\ gframe' = [gframe EXCEPT ![p] = hand[p]]
  /\ hand' = [hand EXCEPT ![p] = 0]
  /\ UNCHANGED <<emuVars, receiving, queue, online, diverged, inputs,
                 linkVars>>

\* An error from the server: the socket is closed, netplay goes off, and the
\* next recv on the closed socket ends the thread.
RecvError(p) ==
  /\ Incoming(p, "error")
  /\ present' = [present EXCEPT ![p] = FALSE]
  /\ online' = [online EXCEPT ![p] = FALSE]
  /\ receiving' = [receiving EXCEPT ![p] = FALSE]
  /\ UNCHANGED <<emuVars, gframe, hand, queue, diverged, inputs, up, link>>

\* recv fails after the server has closed its end, possibly with a reset
\* that discards what was still on the way.
RecvFails(p) ==
  /\ receiving[p] /\ hand[p] = 0 /\ link[p] = "closed"
  /\ online' = [online EXCEPT ![p] = FALSE]
  /\ receiving' = [receiving EXCEPT ![p] = FALSE]
  /\ UNCHANGED <<emuVars, gframe, hand, queue, diverged, inputs, linkVars>>

ReceiveThread(p) == \/ RecvInput(p) \/ RecvFrame(p) \/ SignalFrame(p)
                    \/ RecvError(p) \/ RecvFails(p)

-----------------------------------------------------------------------------
(* The emulation thread *)

Goto(p, from, to) == epc[p] = from /\ epc' = [epc EXCEPT ![p] = to]

\* event_handler calls fs_emu_netplay_wait_for_frame for the next frame.
EmuEnter(p) ==
  /\ Goto(p, "enter", IF online[p] THEN "wait" ELSE "offline")
  /\ eframe' = [eframe EXCEPT ![p] = @ + 1]
  /\ UNCHANGED <<applied, sums, recvrVars, queue, online, diverged, inputs,
                 linkVars>>

\* The loop ends when the frame is there, or when netplay is found off after
\* the timed wait in it.
ArrivedEarly(p) == gframe[p] + 1 >= eframe[p]
ArrivedLate(p) == gframe[p] > eframe[p]
Arrived(p) == gframe[p] >= eframe[p]

EmuWake(p) ==
  /\ \/ Arrived(p) /\ Goto(p, "wait", "check")
     \/ ~online[p] /\ Goto(p, "wait", "offline")
  /\ UNCHANGED <<eframe, applied, sums, recvrVars, queue, online, diverged,
                 inputs, linkVars>>

\* The checksum of the emulated machine's state; the common state counts as 0.
Checksum(p) == IF diverged[p] THEN p + 1 ELSE 0

EmuCheck(p) ==
  /\ Goto(p, "check", "ack")
  /\ sums' = [sums EXCEPT ![p] = Append(@, Checksum(p))]
  /\ Send(p, CheckMsg(Checksum(p)))
  /\ UNCHANGED <<eframe, applied, recvrVars, queue, diverged, inputs,
                 down, link, present>>

EmuAck(p) ==
  /\ Goto(p, "ack", "drain")
  /\ Send(p, FrameMsg(eframe[p]))
  /\ UNCHANGED <<eframe, applied, sums, recvrVars, queue, diverged, inputs,
                 down, link, present>>

\* Inputs are handed to the emulator until the frame's sentinel comes up; a
\* sentinel of another frame ends the process, an empty queue the loop.
EmuDrain(p) ==
  /\ IF queue[p] = << >>
     THEN Goto(p, "drain", "enter") /\ UNCHANGED <<queue, applied>>
     ELSE /\ queue' = [queue EXCEPT ![p] = Tail(@)]
          /\ applied' = [applied EXCEPT ![p] = Append(@, Head(queue[p]))]
          /\ Goto(p, "drain",
               CASE Head(queue[p]).type # "frame"         -> "drain"
                 [] Head(queue[p]) = FrameMsg(eframe[p])  -> "enter"
                 [] OTHER                                 -> "failed")
  /\ UNCHANGED <<eframe, sums, recvrVars, online, diverged, inputs, linkVars>>

EmuThread(p) == \/ EmuEnter(p) \/ EmuWake(p) \/ EmuCheck(p)
                \/ EmuAck(p) \/ EmuDrain(p)

-----------------------------------------------------------------------------
(* What can happen to an emulator *)

\* The process is gone, and with it its end of the connection.
Ends(p) == /\ epc[p] # "gone"
           /\ epc' = [epc EXCEPT ![p] = "gone"]
           /\ present' = [present EXCEPT ![p] = FALSE]
           /\ online' = [online EXCEPT ![p] = FALSE]
           /\ receiving' = [receiving EXCEPT ![p] = FALSE]
           /\ UNCHANGED <<eframe, applied, sums, gframe, hand, queue,
                          diverged, inputs, down, up, link>>

\* The user ends it.
Quit(p) == p \in Quitters /\ Ends(p)

\* It sends on a connection that the server has closed: where the system
\* raises SIGPIPE, which nothing in the emulator ignores, that is its end.
BrokenPipe(p) == /\ link[p] = "closed" /\ present[p]
                 /\ online[p] \/ epc[p] \in {"check", "ack"}
                 /\ Ends(p)

\* Emulating a frame takes it somewhere the other players are not.
Diverge(p) == /\ p \in Divergent /\ ~diverged[p] /\ epc[p] = "enter"
              /\ diverged' = [diverged EXCEPT ![p] = TRUE]
              /\ UNCHANGED <<emuVars, recvrVars, queue, online, inputs,
                             linkVars>>
=============================================================================
