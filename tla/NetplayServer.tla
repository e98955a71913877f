--------------------------- MODULE NetplayServer ---------------------------
(***************************************************************************)
(* The game server of a running netplay game (game.py): the game loop      *)
(* thread, which closes a frame every 20 ms, compares the checksums of the *)
(* players and waits for slow ones, and one receive thread per player.     *)
(*                                                                         *)
(* The game loop's position gpc follows __game_loop:                       *)
(*   top      the loop head, where game.stop is tested                     *)
(*   tick     past the test, before the frame is broadcast                 *)
(*   scan     __check_frame_status at the start of __check_game            *)
(*   compare  inside check_synchronization                                 *)
(*   sleep    the drift loop, between two looks at the players             *)
(*   rescan   __check_frame_status inside the drift loop                   *)
(*   raised   an exception has left the loop, stop is not yet set          *)
(*   stopped  the game thread has ended                                    *)
(* Loops over game.clients hold game.lock and go by player number; what    *)
(* the receive threads write without that lock can change between two of   *)
(* their iterations, so each iteration is a step.                          *)
(***************************************************************************)
EXTENDS NetplayLink, Integers

CONSTANTS MaxDrift,      \* max_drift
          RingSize,      \* slots of Client.memcheck and Client.rndcheck
          FlushAt,       \* len(messages) at which queue_message flushes
          MaxFrame,      \* bound of the model: the last frame closed
          CanInterrupt   \* the operator may interrupt the server

ASSUME ServerAssumption == /\ MaxDrift \in Nat
                           /\ RingSize \in Nat \ {0}
                           /\ FlushAt \in Nat \ {0}
                           /\ MaxFrame \in Nat
                           /\ CanInterrupt \in BOOLEAN

VARIABLES
  gpc,          \* where the game loop is
  frame,        \* Game.frame
  idx, oldest,  \* loop index and result of __check_frame_status
  seen,         \* check slots met so far by check_synchronization
  verified,     \* Game.verified_frame
  stop,         \* Game.stop
  clientFrame,  \* Client.frame
  memcheck,     \* Client.memcheck
  messages,     \* Client.messages
  log           \* history: every message broadcast to the players

loopVars   == <<gpc, frame, idx, oldest, seen, verified>>
recvVars   == <<clientFrame, memcheck>>
castVars   == <<messages, log>>
serverVars == <<loopVars, recvVars, castVars, stop>>

Slot(d, f) == [data |-> d, frame |-> f]

ServerInit ==
  /\ gpc = "top" /\ frame = 0 /\ idx = 0 /\ oldest = 0 /\ seen = {}
  /\ verified = -1 /\ stop = FALSE
  /\ clientFrame = [p \in Players |-> 0]
  /\ memcheck = [p \in Players |-> [i \in 0 .. RingSize - 1 |-> Slot(0, 0)]]
  /\ messages = [p \in Players |-> << >>]
  /\ log = << >>

\* game.lock is held across these positions of the game loop.
LockFree == gpc \notin {"scan", "rescan", "compare"}

-----------------------------------------------------------------------------
(* Broadcasting.  queue_message appends to the player's buffer and writes  *)
(* the buffer to the socket when it is full or when the caller forces it.  *)
(* The write raises if the socket is not open: the players after that one  *)
(* get nothing, and its own buffer has been emptied already.               *)

Flushes(p, force) == force \/ Len(messages[p]) + 1 = FlushAt

\* The player at which a broadcast raises; NumClients if it does not.
CutAt(cut, force) ==
  /\ \A p \in Players : p < cut => ~(Flushes(p, force) /\ link[p] # "open")
  /\ cut < NumClients => Flushes(cut, force) /\ link[cut] # "open"

\* What a write of p's buffer with m queued last puts on the wire.
WrittenOutOfOrder(p, m) == <<m>> \o messages[p]
Written(p, m) == Append(messages[p], m)

SendToClients(m, force, cut) ==
  /\ messages' = [p \in Players |->
       IF p > cut THEN messages[p]
       ELSE IF Flushes(p, force) THEN << >> ELSE Append(messages[p], m)]
  /\ down' = [p \in Players |->
       IF p < cut /\ Flushes(p, force)
       THEN down[p] \o Written(p, m) ELSE down[p]]
  /\ log' = Append(log, m)

-----------------------------------------------------------------------------
(* The game loop *)

\* Not stopping: sleep until the frame is due.
NextIteration == /\ gpc = "top" /\ ~stop
                 /\ frame < MaxFrame
                 /\ gpc' = "tick"
                 /\ UNCHANGED <<frame, idx, oldest, seen, verified,
                                recvVars, castVars, stop, linkVars>>

\* Stopping: every player whose socket still works is sent the error.
StopGame == /\ gpc = "top" /\ stop
            /\ down' = [p \in Players |->
                 IF link[p] = "open" THEN Append(down[p], ErrorMsg)
                 ELSE down[p]]
            /\ gpc' = "stopped"
            /\ UNCHANGED <<frame, idx, oldest, seen, verified,
                           recvVars, castVars, stop, up, link, present>>

\* The frame is closed and its number sent to all; an exception ends the loop.
Tick == /\ gpc = "tick"
        /\ frame' = frame + 1
        /\ \E cut \in 0 .. NumClients :
             /\ CutAt(cut, TRUE)
             /\ SendToClients(FrameMsg(frame + 1), TRUE, cut)
             /\ IF cut = NumClients
                THEN gpc' = "scan" /\ oldest' = frame + 1
                ELSE gpc' = "raised" /\ UNCHANGED oldest
        /\ idx' = 0
        /\ UNCHANGED <<seen, verified, recvVars, stop,
                       up, link, present>>

\* Where __check_game goes with o as the oldest frame and everything up to v
\* counted as verified: to the next frame to verify, else back to the loop
\* head if no player lags too far, else into the drift loop.
ProceedOneTooLate(o, v) == IF o > v THEN "compare"
                           ELSE IF frame - o <= MaxDrift + 1
                                THEN "top" ELSE "sleep"
Proceed(o, v) == IF o > v THEN "compare"
                 ELSE IF frame - o <= MaxDrift THEN "top" ELSE "sleep"

LastClient == idx + 1 = NumClients

\* The oldest frame, having looked at a player that has announced f.
OlderExclusive(f) == IF f < oldest THEN f - 1 ELSE oldest
Older(f) == IF f < oldest THEN f ELSE oldest

\* One iteration of __check_frame_status, where next is what its caller goes on
\* to when it returns the oldest frame.
Scan(next(_)) ==
  LET o == Older(clientFrame[idx])
  IN  /\ oldest' = o
      /\ idx' = IF LastClient THEN 0 ELSE idx + 1
      /\ gpc' = IF LastClient THEN next(o) ELSE gpc
      /\ UNCHANGED <<frame, seen, verified,
                     recvVars, castVars, stop, linkVars>>

ScanClient == /\ gpc = "scan"
              /\ Scan(LAMBDA o : Proceed(o, verified))

\* The frame that check_synchronization is called for.
CheckFrame == verified + 1

\* The check of CheckFrame arrives with the frame after it.
NotYetLax(f) == f < CheckFrame
NotYet(f) == f <= CheckFrame

\* "cannot check yet": it returns, and the caller counts the frame as verified.
CannotCheckYet == /\ gpc = "compare" /\ idx < NumClients
                  /\ NotYet(clientFrame[idx])
                  /\ verified' = CheckFrame
                  /\ gpc' = Proceed(oldest, CheckFrame)
                  /\ idx' = 0 /\ seen' = {}
                  /\ UNCHANGED <<frame, oldest,
                                 recvVars, castVars, stop, linkVars>>

CollectCheck == /\ gpc = "compare" /\ idx < NumClients
                /\ ~NotYet(clientFrame[idx])
                /\ seen' = seen \cup {memcheck[idx][CheckFrame % RingSize]}
                /\ idx' = idx + 1
                /\ UNCHANGED <<gpc, frame, oldest, verified,
                               recvVars, castVars, stop, linkVars>>

CheckPassed == /\ gpc = "compare" /\ idx = NumClients
               /\ Cardinality(seen) = 1
               /\ verified' = CheckFrame
               /\ gpc' = Proceed(oldest, CheckFrame)
               /\ idx' = 0 /\ seen' = {}
               /\ UNCHANGED <<frame, oldest,
                              recvVars, castVars, stop, linkVars>>

\* The checks differ: all players are told, then what they are still owed is
\* written, and the exception ends the loop.
CheckFailedUntold ==
  /\ gpc = "compare" /\ idx = NumClients
  /\ Cardinality(seen) # 1
  /\ gpc' = "raised"
  /\ UNCHANGED <<frame, idx, oldest, seen, verified,
                 recvVars, castVars, stop, linkVars>>
CheckFailed ==
  /\ gpc = "compare" /\ idx = NumClients
  /\ Cardinality(seen) # 1
  /\ \E cut \in 0 .. NumClients :
       /\ \A p \in Players : p < cut => link[p] = "open"
       /\ cut < NumClients => link[cut] # "open"
       /\ down' = [p \in Players |->
            IF p < cut THEN Append(down[p], ErrorMsg) \o messages[p]
            ELSE down[p]]
       /\ messages' = [p \in Players |->
            IF p < cut THEN << >> ELSE messages[p]]
  /\ gpc' = "raised"
  /\ UNCHANGED <<frame, idx, oldest, seen, verified,
                 recvVars, log, stop, up, link, present>>

\* The drift loop: it ends when the game stops or the players have caught up.
Rescan == /\ gpc = "sleep"
          /\ idx' = 0
          /\ IF stop THEN gpc' = "top" /\ UNCHANGED oldest
             ELSE gpc' = "rescan" /\ oldest' = frame
          /\ UNCHANGED <<frame, seen, verified,
                         recvVars, castVars, stop, linkVars>>

RescanForever == /\ gpc = "rescan"
                 /\ Scan(LAMBDA o : IF frame >= o THEN "sleep" ELSE "top")
RescanClient == /\ gpc = "rescan"
                /\ Scan(LAMBDA o : IF frame > o THEN "sleep" ELSE "top")

\* The game thread's exception handler.
LoopRaised == /\ gpc = "raised"
              /\ stop' = TRUE /\ gpc' = "stopped"
              /\ UNCHANGED <<frame, idx, oldest, seen, verified,
                             recvVars, castVars, linkVars>>

GameLoop == \/ NextIteration \/ StopGame \/ Tick \/ ScanClient
            \/ CannotCheckYet \/ CollectCheck \/ CheckPassed \/ CheckFailed
            \/ Rescan \/ RescanClient \/ LoopRaised

-----------------------------------------------------------------------------
(* The receive threads.  receive_loop tests game.stop after each message;  *)
(* when the thread ends it closes the player's socket.                     *)

CloseIf(p, b) == link' = IF b THEN [link EXCEPT ![p] = "closed"] ELSE link

\* A check is filed under the last frame the player has announced.
ReceiveCheck(p) ==
  /\ link[p] = "open" /\ up[p] # << >> /\ Head(up[p]).type = "check"
  /\ memcheck' = [memcheck EXCEPT ![p][clientFrame[p] % RingSize] =
                    Slot(Head(up[p]).val, clientFrame[p])]
  /\ up' = [up EXCEPT ![p] = Tail(@)]
  /\ CloseIf(p, stop)
  /\ UNCHANGED <<loopVars, clientFrame, castVars, stop, down, present>>

ReceiveFrame(p) ==
  /\ link[p] = "open" /\ up[p] # << >> /\ Head(up[p]).type = "frame"
  /\ clientFrame' = [clientFrame EXCEPT ![p] = Head(up[p]).val]
  /\ up' = [up EXCEPT ![p] = Tail(@)]
  /\ CloseIf(p, stop)
  /\ UNCHANGED <<loopVars, memcheck, castVars, stop, down, present>>

\* add_input_event: the event goes to every player, its sender included.
ReceiveInput(p) ==
  /\ link[p] = "open" /\ up[p] # << >> /\ Head(up[p]).type = "input"
  /\ LockFree
  /\ \E cut \in 0 .. NumClients :
       /\ CutAt(cut, FALSE)
       /\ SendToClients(Head(up[p]), FALSE, cut)
       /\ stop' = (stop \/ cut < NumClients)
  /\ up' = [up EXCEPT ![p] = Tail(@)]
  /\ CloseIf(p, stop')
  /\ UNCHANGED <<loopVars, recvVars, present>>

\* recv raises on a reset connection, and the thread stops the game.  At the
\* end of the stream recv returns nothing and the thread spins until a stop.
ReceiverEnds(p) ==
  /\ \/ link[p] = "reset" /\ stop' = TRUE
     \/ /\ link[p] = "open" /\ ~present[p] /\ up[p] = << >>
        /\ stop /\ UNCHANGED stop
  /\ CloseIf(p, TRUE)
  /\ UNCHANGED <<loopVars, recvVars, castVars, down, up, present>>

Receiver(p) == \/ ReceiveCheck(p) \/ ReceiveFrame(p)
               \/ ReceiveInput(p) \/ ReceiverEnds(p)

\* The operator interrupts run_server.
Interrupt == /\ CanInterrupt /\ ~stop
             /\ stop' = TRUE
             /\ UNCHANGED <<loopVars, recvVars, castVars, linkVars>>
=============================================================================
