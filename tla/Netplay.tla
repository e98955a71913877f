------------------------------ MODULE Netplay ------------------------------
(***************************************************************************)
(* A running netplay game: the game server, the emulators of its players   *)
(* and the connections between them, from the moment the game has started. *)
(***************************************************************************)
EXTENDS NetplayServer, NetplayClient

vars == <<serverVars, clientVars, linkVars>>

Init == LinkInit /\ ServerInit /\ ClientInit

ServerNext == \/ GameLoop
              \/ \E p \in Players : Receiver(p)
              \/ Interrupt

ClientNext == \E p \in Players :
                \/ ReceiveThread(p)
                \/ EmuThread(p)
                \/ \E e \in Events : SendInput(p, e)
                \/ Quit(p) \/ BrokenPipe(p)
                \/ Diverge(p)

Next == \/ ServerNext /\ UNCHANGED clientVars
        \/ ClientNext /\ UNCHANGED serverVars
        \/ (\E p \in Players : Reset(p)) /\ UNCHANGED <<serverVars, clientVars>>

Spec == Init /\ [][Next]_vars

\* Every thread that can run does.  A receive thread that waits for game.lock
\* gets it although the drift loop takes the lock again and again: the loop
\* sleeps 20 ms without it each time, hence strong fairness.
Fairness ==
  /\ WF_vars(GameLoop /\ UNCHANGED clientVars)
  /\ \A p \in Players :
       /\ WF_vars(Receiver(p) /\ UNCHANGED clientVars)
       /\ SF_vars(ReceiveInput(p) /\ UNCHANGED clientVars)
       /\ WF_vars(ReceiveThread(p) /\ UNCHANGED serverVars)
       /\ WF_vars(EmuThread(p) /\ UNCHANGED serverVars)
       /\ WF_vars(Reset(p) /\ UNCHANGED <<serverVars, clientVars>>)

FairSpec == Spec /\ Fairness

-----------------------------------------------------------------------------
LogMessages  == [type : {"input"}, val : Events]
                  \cup [type : {"frame"}, val : Nat]
DownMessages == LogMessages \cup {ErrorMsg}
UpMessages   == LogMessages \cup [type : {"check"}, val : Nat]
Slots        == [data : Nat, frame : Nat]

LinkTypeOK == /\ down \in [Players -> Seq(DownMessages)]
              /\ up \in [Players -> Seq(UpMessages)]
              /\ link \in [Players -> {"open", "reset", "closed"}]
              /\ present \in [Players -> BOOLEAN]

LoopTypeOK == /\ gpc \in {"top", "tick", "scan", "compare", "sleep",
                          "rescan", "raised", "stopped"}
              /\ frame \in Nat /\ oldest \in Nat
              /\ idx \in 0 .. NumClients
              /\ gpc \in {"scan", "rescan"} => idx < NumClients
              /\ seen \subseteq Slots
              /\ verified \in Int /\ verified >= -1

RecvTypeOK == /\ clientFrame \in [Players -> Nat]
              /\ memcheck \in [Players -> [0 .. RingSize - 1 -> Slots]]

CastTypeOK == /\ messages \in [Players -> Seq(LogMessages)]
              /\ log \in Seq(LogMessages)

EmuTypeOK == /\ epc \in [Players -> {"enter", "wait", "check", "ack", "drain",
                                     "offline", "failed", "gone"}]
             /\ eframe \in [Players -> Nat]
             /\ applied \in [Players -> Seq(LogMessages)]
             /\ sums \in [Players -> Seq(Nat)]
             /\ diverged \in [Players -> BOOLEAN]

RecvrTypeOK == /\ gframe \in [Players -> Nat]
               /\ hand \in [Players -> Nat]
               /\ queue \in [Players -> Seq(LogMessages)]
               /\ receiving \in [Players -> BOOLEAN]
               /\ online \in [Players -> BOOLEAN]
               /\ inputs \in Nat

\* Types of the server's, the connections' and the emulators' state.
TypeOK == /\ LinkTypeOK /\ LoopTypeOK /\ RecvTypeOK /\ CastTypeOK
          /\ EmuTypeOK /\ RecvrTypeOK /\ stop \in BOOLEAN

-----------------------------------------------------------------------------
(* Safety *)

\* Draining the queue for a frame meets exactly that frame's sentinel: the
\* sentinel is already queued when the emulation thread starts to drain, so
\* no frame is emulated on part of its inputs, and the exit(1) marked "should
\* not happen.." is never reached (netplay.c wait_for_frame, handle_message).
SentinelInStep ==
  \A p \in Players :
    /\ epc[p] # "failed"
    /\ epc[p] = "drain" =>
         \E i \in 1 .. Len(queue[p]) : /\ queue[p][i] = FrameMsg(eframe[p])
                                       /\ \A j \in 1 .. i - 1 :
                                            queue[p][j].type # "frame"

\* Any two emulators have been given the same inputs in the same frames, one
\* of them possibly further on, whatever was lost when the game came down.
Agreement ==
  \A p, q \in Players :
    Len(applied[p]) <= Len(applied[q]) =>
      applied[p] = SubSeq(applied[q], 1, Len(applied[p]))

\* The server is never more than max_drift + 1 frames ahead of what any player
\* has announced, however stale the frame numbers that __check_game works on.
DriftBounded ==
  \A p \in Players : frame <= clientFrame[p] + MaxDrift + 1

\* Why it is so (NetplayProofs).  The frames a player has announced reach the
\* server in increasing order and never go beyond the frame it is at ...
Announces(p) ==
  LET notYet == epc[p] \in {"wait", "check", "ack"}
  IN  /\ clientFrame[p] <= eframe[p]
      /\ notYet => clientFrame[p] < eframe[p]
      /\ \A i \in 1 .. Len(up[p]) : up[p][i].type = "frame" =>
           /\ clientFrame[p] < up[p][i].val
           /\ up[p][i].val <= eframe[p]
           /\ notYet => up[p][i].val < eframe[p]
           /\ \A j \in 1 .. i - 1 : up[p][j].type = "frame" =>
                up[p][j].val < up[p][i].val

AnnouncedInOrder == \A p \in Players : Announces(p)

\* ... and a stale look at the players only errs on the safe side.
ScanSound ==
  /\ gpc \in {"scan", "rescan"} =>
       /\ oldest <= frame
       /\ \A p \in Players : p < idx => oldest <= clientFrame[p]
  /\ gpc \in {"compare", "sleep"} =>
       \A p \in Players : oldest <= clientFrame[p]
  /\ (gpc = "tick" \/ (gpc = "top" /\ ~stop)) =>
       \A p \in Players : frame <= clientFrame[p] + MaxDrift

DriftInv == AnnouncedInOrder /\ ScanSound /\ DriftBounded

\* When all check slots of a frame have been collected, every player has
\* computed its checksum after that frame, and the slots are equal exactly if
\* those checksums are: the ring never hands check_synchronization the slot of
\* another frame, although the receive threads fill it without the lock and
\* players run ahead.
ComparisonExact ==
  (gpc = "compare" /\ idx = NumClients) =>
    /\ \A p \in Players : CheckFrame < Len(sums[p])
    /\ Cardinality(seen) = 1 <=>
         \A p, q \in Players : sums[p][CheckFrame + 1] = sums[q][CheckFrame + 1]

\* Nobody waits in a circle: a player that waits for a frame which is not on
\* its way, and whose last announcement has reached the server, has announced
\* all the frames the server has closed, so that the drift loop does not wait
\* for it (wait_for_frame in netplay.c, __check_game in game.py).
NoMarks(s) == \A i \in 1 .. Len(s) : s[i].type # "frame"
WaitsIdly(p) == /\ link[p] = "open" /\ present[p]
                /\ epc[p] = "wait" /\ ~Arrived(p) /\ hand[p] = 0
                /\ NoMarks(down[p]) /\ NoMarks(up[p])
NoCircularWait ==
  gpc \notin {"raised", "stopped"} =>
    \A p \in Players : WaitsIdly(p) => clientFrame[p] = frame

-----------------------------------------------------------------------------
(* The game implements Lockstep: a player announces a frame by sending the  *)
(* checks and then FRAME, and applies what it takes from the netplay queue. *)

Abstract == INSTANCE Lockstep
              WITH announced <- [p \in Players |-> Len(sums[p])]

LockstepRefinement == Abstract!Spec

-----------------------------------------------------------------------------
(* Liveness *)

Over == gpc \in {"raised", "stopped"}

\* The drift loop and the waits of the emulators never wait for each other:
\* in a game that does not end, every player gets through every frame, and so
\* (SentinelInStep) through every input broadcast before the last one.
GamePlaysOn ==
  []~Over => <>(\A p \in Players : epc[p] = "wait" /\ eframe[p] = MaxFrame + 1)

\* A difference that the comparison has found is told to every player, which
\* sees it behind what is still in its buffer and on its way, waiting for a
\* frame or not, and plays on offline.  That takes a game which nothing but its
\* own loop stops: after an interrupt or a lost connection a broadcast may raise
\* at one player, and those after it are told nothing (check_synchronization;
\* README, section 6).
Differs == gpc = "compare" /\ idx = NumClients /\ Cardinality(seen) # 1
DesyncIsTold ==
  [](stop => gpc = "stopped") => (Differs ~> (\A p \in Players : ~online[p]))
=============================================================================
