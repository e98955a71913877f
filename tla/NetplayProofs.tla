--------------------------- MODULE NetplayProofs ---------------------------
(***************************************************************************)
(* Theorems about a running netplay game, for every number of players,     *)
(* every drift, ring and buffer size, and without the bounds of the runs   *)
(* (they are constants of any size).                                       *)
(*                                                                         *)
(* The first part is about the types, how far the players drift apart, and *)
(* the order in which frames are marked.  In the second, every player is   *)
(* given the log of the game, in its order and without gaps, as far as it  *)
(* is given anything: the game implements Lockstep.  In the third, the     *)
(* server compares the checksums that the players computed after the same  *)
(* frame, for the ring in which the receive threads file them never hands  *)
(* the game loop another frame's; and the waits never form a circle.       *)
(***************************************************************************)
EXTENDS Netplay, SequenceTheorems, FiniteSetTheorems, TLAPS

USE NumClientsAssumption, ServerAssumption, ClientAssumption DEF Players

-----------------------------------------------------------------------------
(* Messages *)

LEMMA MsgTypes ==
  /\ \A e \in Events : InputMsg(e) \in LogMessages /\ InputMsg(e) \in UpMessages
  /\ \A n \in Nat : FrameMsg(n) \in LogMessages /\ FrameMsg(n) \in UpMessages
  /\ \A d \in Nat : CheckMsg(d) \in UpMessages
  /\ ErrorMsg \in DownMessages
  /\ \A m \in UpMessages : m.type = "input" => m \in LogMessages
  /\ \A m \in UpMessages : m.type # "input" => m.val \in Nat
  /\ \A m \in LogMessages : m.type = "frame" => m.val \in Nat
  /\ \A m \in DownMessages : m.type # "error" => m \in LogMessages
  /\ \A m \in LogMessages : m \in DownMessages /\ m.type # "error"
BY DEF InputMsg, FrameMsg, CheckMsg, ErrorMsg, Msg, LogMessages, UpMessages,
       DownMessages

\* A buffer of broadcast messages can be written to a socket.
LEMMA LogSeqIsDownSeq == Seq(LogMessages) \subseteq Seq(DownMessages)
BY SeqMonotonic DEF DownMessages

\* Appending to one player's queue keeps its type.
LEMMA AppendAt ==
  ASSUME NEW S, NEW f \in [Players -> Seq(S)], NEW p \in Players, NEW m \in S
  PROVE  [f EXCEPT ![p] = Append(@, m)] \in [Players -> Seq(S)]
<1>1. Append(f[p], m) \in Seq(S)
  OBVIOUS
<1> QED
  BY <1>1

LEMMA SlotType == \A d, f \in Nat : Slot(d, f) \in Slots
BY DEF Slot, Slots

-----------------------------------------------------------------------------
(* Types *)

LEMMA InitType == Init => TypeOK
<1> SUFFICES ASSUME Init PROVE TypeOK
  OBVIOUS
<1> USE DEF Init, LinkInit, ServerInit, ClientInit
<1>1. LinkTypeOK
  BY DEF LinkTypeOK
<1>2. LoopTypeOK
  BY DEF LoopTypeOK
<1>3. RecvTypeOK
  BY SlotType DEF RecvTypeOK
<1>4. CastTypeOK
  BY DEF CastTypeOK
<1>5. EmuTypeOK
  BY DEF EmuTypeOK
<1>6. RecvrTypeOK
  BY DEF RecvrTypeOK
<1>7. stop \in BOOLEAN
  BY Zenon
<1>8. QED
  BY <1>1, <1>2, <1>3, <1>4, <1>5, <1>6, <1>7 DEF TypeOK

-----------------------------------------------------------------------------
(* Steps of the game loop *)

LEMMA SendType ==
  ASSUME LinkTypeOK, CastTypeOK, NEW m \in LogMessages,
         NEW force \in BOOLEAN, NEW cut \in 0 .. NumClients,
         SendToClients(m, force, cut)
  PROVE  /\ CastTypeOK'
         /\ down' \in [Players -> Seq(DownMessages)]
<1> DEFINE full(p) == Append(messages[p], m)
<1>1. \A p \in Players : full(p) \in Seq(LogMessages)
  BY DEF CastTypeOK
<1>2. \A p \in Players : full(p) \in Seq(DownMessages)
  BY <1>1, LogSeqIsDownSeq
<1>3. \A p \in Players : down[p] \o full(p) \in Seq(DownMessages)
  <2> SUFFICES ASSUME NEW p \in Players
               PROVE  down[p] \o full(p) \in Seq(DownMessages)
    OBVIOUS
  <2>1. down[p] \in Seq(DownMessages) /\ full(p) \in Seq(DownMessages)
    BY <1>2 DEF LinkTypeOK
  <2> HIDE DEF full
  <2> QED
    BY <2>1
<1>4. down' \in [Players -> Seq(DownMessages)]
  BY <1>3 DEF SendToClients, Written, LinkTypeOK
<1>5. messages' \in [Players -> Seq(LogMessages)]
  BY <1>1 DEF SendToClients, CastTypeOK
<1>6. log' \in Seq(LogMessages)
  BY DEF SendToClients, CastTypeOK
<1> QED
  BY <1>4, <1>5, <1>6 DEF CastTypeOK

\* The positions Proceed leads to are positions of the loop.
LEMMA ProceedType ==
  ASSUME NEW o \in Nat, NEW v \in Int
  PROVE  Proceed(o, v) \in {"top", "compare", "sleep"}
BY DEF Proceed

LEMMA LoopStepType ==
  ASSUME TypeOK, GameLoop, UNCHANGED clientVars
  PROVE  TypeOK'
<1> USE DEF loopVars, recvVars, castVars, linkVars
<1>1. EmuTypeOK' /\ RecvrTypeOK'
  BY DEF TypeOK, EmuTypeOK, RecvrTypeOK, clientVars, emuVars, recvrVars
<1>a. stop \in BOOLEAN
  BY DEF TypeOK
<1>b. LinkTypeOK /\ LoopTypeOK /\ RecvTypeOK /\ CastTypeOK
  BY DEF TypeOK
<1>c. ASSUME UNCHANGED linkVars PROVE LinkTypeOK'
  BY <1>b, <1>c DEF LinkTypeOK
<1>d. ASSUME UNCHANGED recvVars PROVE RecvTypeOK'
  BY <1>b, <1>d DEF RecvTypeOK
<1>e. ASSUME UNCHANGED castVars PROVE CastTypeOK'
  BY <1>b, <1>e DEF CastTypeOK
<1>f. ASSUME UNCHANGED stop PROVE stop' \in BOOLEAN
  BY <1>a, <1>f
<1>2. CASE NextIteration
  <2>1. LoopTypeOK'
    BY <1>2, <1>b DEF NextIteration, LoopTypeOK
  <2>2. UNCHANGED linkVars /\ UNCHANGED recvVars /\ UNCHANGED castVars
        /\ UNCHANGED stop
    BY <1>2 DEF NextIteration
  <2> QED
    BY <1>1, <1>c, <1>d, <1>e, <1>f, <2>1, <2>2 DEF TypeOK
<1>3. CASE StopGame
  <2>1. LoopTypeOK'
    BY <1>3, <1>b DEF StopGame, LoopTypeOK
  <2>2. UNCHANGED recvVars /\ UNCHANGED castVars /\ UNCHANGED stop
    BY <1>3 DEF StopGame
  <2>3. LinkTypeOK'
    BY <1>3, <1>b, MsgTypes DEF StopGame, LinkTypeOK
  <2> QED
    BY <1>1, <1>d, <1>e, <1>f, <2>1, <2>2, <2>3 DEF TypeOK
<1>4. CASE Tick
  <2>1. LoopTypeOK'
    BY <1>4, <1>b DEF Tick, LoopTypeOK
  <2>2. UNCHANGED recvVars /\ UNCHANGED stop
    BY <1>4 DEF Tick
  <2>3. LinkTypeOK' /\ CastTypeOK'
    <3>1. PICK cut \in 0 .. NumClients :
            SendToClients(FrameMsg(frame + 1), TRUE, cut)
      BY <1>4 DEF Tick
    <3>2. FrameMsg(frame + 1) \in LogMessages
      BY <1>b, MsgTypes DEF LoopTypeOK
    <3>3. CastTypeOK' /\ down' \in [Players -> Seq(DownMessages)]
      BY <1>b, <3>1, <3>2, SendType
    <3> QED
      BY <1>4, <1>b, <3>3 DEF Tick, LinkTypeOK
  <2> QED
    BY <1>1, <1>d, <1>f, <2>1, <2>2, <2>3 DEF TypeOK
<1>5. CASE ScanClient \/ RescanClient
  <2>1. UNCHANGED <<linkVars, recvVars, castVars, stop, frame, seen,
                    verified>>
    BY <1>5 DEF ScanClient, RescanClient, Scan
  <2>2. oldest' \in Nat /\ idx' \in 0 .. NumClients
    BY <1>5, <1>b DEF ScanClient, RescanClient, Scan, Older, LastClient,
                      LoopTypeOK, RecvTypeOK
  <2>3. /\ gpc' \in {"top", "scan", "compare", "sleep", "rescan"}
        /\ gpc' \in {"scan", "rescan"} => idx' < NumClients
    BY <1>5, <1>b, <2>2, ProceedType
       DEF ScanClient, RescanClient, Scan, LastClient, LoopTypeOK
  <2>4. LoopTypeOK'
    BY <1>b, <2>1, <2>2, <2>3 DEF LoopTypeOK
  <2> QED
    BY <1>1, <1>c, <1>d, <1>e, <1>f, <2>1, <2>4 DEF TypeOK
<1>6. CASE CannotCheckYet \/ CheckPassed
  <2>1. /\ UNCHANGED <<linkVars, recvVars, castVars, stop, frame, oldest>>
        /\ verified' = verified + 1
        /\ gpc' = Proceed(oldest, verified + 1)
        /\ idx' = 0 /\ seen' = {}
    BY <1>6 DEF CannotCheckYet, CheckPassed, CheckFrame
  <2>2. gpc' \in {"top", "compare", "sleep"}
    BY <1>b, <2>1, ProceedType DEF LoopTypeOK
  <2>3. LoopTypeOK'
    BY <1>b, <2>1, <2>2 DEF LoopTypeOK
  <2> QED
    BY <1>1, <1>c, <1>d, <1>e, <1>f, <2>1, <2>3 DEF TypeOK
<1>7. CASE CollectCheck
  <2>1. UNCHANGED <<linkVars, recvVars, castVars, stop>>
    BY <1>7 DEF CollectCheck
  <2>2. memcheck[idx][CheckFrame % RingSize] \in Slots
    <3>1. CheckFrame \in Nat
      BY <1>b DEF CheckFrame, LoopTypeOK
    <3>2. CheckFrame % RingSize \in 0 .. RingSize - 1
      BY <3>1
    <3> QED
      BY <1>7, <1>b, <3>2 DEF CollectCheck, LoopTypeOK, RecvTypeOK
  <2>3. LoopTypeOK'
    BY <1>7, <1>b, <2>2 DEF CollectCheck, LoopTypeOK
  <2> QED
    BY <1>1, <1>c, <1>d, <1>e, <1>f, <2>1, <2>3 DEF TypeOK
<1>8. CASE CheckFailed
  <2>1. UNCHANGED <<recvVars, stop, log, up, link, present>>
    BY <1>8 DEF CheckFailed
  <2>2. LoopTypeOK'
    BY <1>8, <1>b DEF CheckFailed, CheckFrame, LoopTypeOK
  <2>3. LinkTypeOK'
    <3>1. \A p \in Players :
            /\ Append(down[p], ErrorMsg) \in Seq(DownMessages)
            /\ messages[p] \in Seq(DownMessages)
      BY <1>b, MsgTypes, LogSeqIsDownSeq DEF LinkTypeOK, CastTypeOK
    <3>2. \A p \in Players :
            Append(down[p], ErrorMsg) \o messages[p] \in Seq(DownMessages)
      BY <3>1, ConcatProperties
    <3>3. down' \in [Players -> Seq(DownMessages)]
      BY <1>8, <1>b, <3>2 DEF CheckFailed, LinkTypeOK
    <3> QED
      BY <1>b, <2>1, <3>3 DEF LinkTypeOK
  <2>4. CastTypeOK'
    BY <1>8, <1>b DEF CheckFailed, CastTypeOK
  <2> QED
    BY <1>1, <1>d, <1>f, <2>1, <2>2, <2>3, <2>4 DEF TypeOK
<1>9. CASE Rescan
  <2>1. UNCHANGED <<linkVars, recvVars, castVars, stop>>
    BY <1>9 DEF Rescan
  <2>2. LoopTypeOK'
    BY <1>9, <1>b DEF Rescan, LoopTypeOK
  <2> QED
    BY <1>1, <1>c, <1>d, <1>e, <1>f, <2>1, <2>2 DEF TypeOK
<1>10. CASE LoopRaised
  <2>1. UNCHANGED <<linkVars, recvVars, castVars>> /\ stop' = TRUE
    BY <1>10 DEF LoopRaised
  <2>2. LoopTypeOK'
    BY <1>10, <1>b DEF LoopRaised, LoopTypeOK
  <2> QED
    BY <1>1, <1>c, <1>d, <1>e, <2>1, <2>2 DEF TypeOK
<1> QED
  BY <1>2, <1>3, <1>4, <1>5, <1>6, <1>7, <1>8, <1>9, <1>10 DEF GameLoop
-----------------------------------------------------------------------------
(* Steps of the server's receive threads *)

LEMMA ReceiverStepType ==
  ASSUME TypeOK, NEW p \in Players, Receiver(p), UNCHANGED clientVars
  PROVE  TypeOK'
<1> USE DEF loopVars, recvVars, castVars
<1>1. EmuTypeOK' /\ RecvrTypeOK'
  BY DEF TypeOK, EmuTypeOK, RecvrTypeOK, clientVars, emuVars, recvrVars
<1>a. LinkTypeOK /\ LoopTypeOK /\ RecvTypeOK /\ CastTypeOK
  BY DEF TypeOK
<1>b. stop \in BOOLEAN
  BY DEF TypeOK
<1>c. LoopTypeOK'
  <2>1. UNCHANGED loopVars
    BY DEF Receiver, ReceiveCheck, ReceiveFrame, ReceiveInput, ReceiverEnds
  <2> QED
    BY <1>a, <2>1 DEF LoopTypeOK
<1>d. \A b : CloseIf(p, b) => link' \in [Players -> {"open", "reset", "closed"}]
  BY <1>a DEF CloseIf, LinkTypeOK
<1>e. up[p] # << >> => Head(up[p]) \in UpMessages /\ Tail(up[p]) \in Seq(UpMessages)
  BY <1>a DEF LinkTypeOK
<1>2. CASE ReceiveCheck(p)
  <2>1. LinkTypeOK'
    BY <1>2, <1>a, <1>d, <1>e DEF ReceiveCheck, LinkTypeOK
  <2>2. RecvTypeOK'
    <3>1. Slot(Head(up[p]).val, clientFrame[p]) \in Slots
      BY <1>2, <1>a, <1>e, MsgTypes, SlotType DEF ReceiveCheck, RecvTypeOK
    <3>2. clientFrame[p] % RingSize \in 0 .. RingSize - 1
      BY <1>a DEF RecvTypeOK
    <3> QED
      BY <1>2, <1>a, <3>1, <3>2 DEF ReceiveCheck, RecvTypeOK
  <2>3. CastTypeOK'
    BY <1>2, <1>a DEF ReceiveCheck, CastTypeOK
  <2>4. stop' = stop
    BY <1>2 DEF ReceiveCheck
  <2> QED
    BY <1>1, <1>b, <1>c, <2>1, <2>2, <2>3, <2>4 DEF TypeOK
<1>3. CASE ReceiveFrame(p)
  <2>1. LinkTypeOK'
    BY <1>3, <1>a, <1>d, <1>e DEF ReceiveFrame, LinkTypeOK
  <2>2. RecvTypeOK'
    BY <1>3, <1>a, <1>e, MsgTypes DEF ReceiveFrame, RecvTypeOK
  <2>3. CastTypeOK'
    BY <1>3, <1>a DEF ReceiveFrame, CastTypeOK
  <2>4. stop' = stop
    BY <1>3 DEF ReceiveFrame
  <2> QED
    BY <1>1, <1>b, <1>c, <2>1, <2>2, <2>3, <2>4 DEF TypeOK
<1>4. CASE ReceiveInput(p)
  <2>1. PICK cut \in 0 .. NumClients :
          /\ SendToClients(Head(up[p]), FALSE, cut)
          /\ stop' = (stop \/ cut < NumClients)
    BY <1>4 DEF ReceiveInput
  <2>2. Head(up[p]) \in LogMessages
    BY <1>4, <1>e, MsgTypes DEF ReceiveInput
  <2>3. CastTypeOK' /\ down' \in [Players -> Seq(DownMessages)]
    BY <1>a, <2>1, <2>2, SendType
  <2>4. LinkTypeOK'
    BY <1>4, <1>a, <1>d, <1>e, <2>3 DEF ReceiveInput, LinkTypeOK
  <2>5. RecvTypeOK'
    BY <1>4, <1>a DEF ReceiveInput, RecvTypeOK
  <2>6. stop' \in BOOLEAN
    BY <2>1
  <2> QED
    BY <1>1, <1>c, <2>3, <2>4, <2>5, <2>6 DEF TypeOK
<1>5. CASE ReceiverEnds(p)
  <2>1. LinkTypeOK'
    BY <1>5, <1>a, <1>d DEF ReceiverEnds, LinkTypeOK
  <2>2. RecvTypeOK' /\ CastTypeOK'
    BY <1>5, <1>a DEF ReceiverEnds, RecvTypeOK, CastTypeOK
  <2>3. stop' \in BOOLEAN
    BY <1>5, <1>b DEF ReceiverEnds
  <2> QED
    BY <1>1, <1>c, <2>1, <2>2, <2>3 DEF TypeOK
<1> QED
  BY <1>2, <1>3, <1>4, <1>5 DEF Receiver

-----------------------------------------------------------------------------
(* Steps of the emulators *)

LEMMA SendUpType ==
  ASSUME LinkTypeOK, RecvrTypeOK, NEW p \in Players, NEW m \in UpMessages,
         Send(p, m)
  PROVE  /\ up' \in [Players -> Seq(UpMessages)]
         /\ online' \in [Players -> BOOLEAN]
<1>1. up' \in [Players -> Seq(UpMessages)]
  <2>1. up' = up \/ up' = [up EXCEPT ![p] = Append(@, m)]
    BY Zenon DEF Send
  <2>2. up \in [Players -> Seq(UpMessages)]
    BY DEF LinkTypeOK
  <2>3. [up EXCEPT ![p] = Append(@, m)] \in [Players -> Seq(UpMessages)]
    BY <2>2, AppendAt
  <2> QED
    BY <2>1, <2>2, <2>3, Zenon
<1>2. online' = online \/ online' = [online EXCEPT ![p] = FALSE]
  BY Zenon DEF Send
<1>3. online' \in [Players -> BOOLEAN]
  BY <1>2 DEF RecvrTypeOK
<1> QED
  BY <1>1, <1>3

LEMMA EmulatorStepType ==
  ASSUME TypeOK, NEW p \in Players, UNCHANGED serverVars,
         \/ ReceiveThread(p) \/ EmuThread(p) \/ Ends(p) \/ Diverge(p)
         \/ \E e \in Events : SendInput(p, e)
  PROVE  TypeOK'
<1> USE DEF emuVars, recvrVars, linkVars, clientVars
<1>1. LoopTypeOK' /\ RecvTypeOK' /\ CastTypeOK' /\ stop' \in BOOLEAN
  <2>1. UNCHANGED loopVars /\ UNCHANGED recvVars /\ UNCHANGED castVars
        /\ stop' = stop
    BY DEF serverVars
  <2> QED
    BY <2>1 DEF TypeOK, LoopTypeOK, RecvTypeOK, CastTypeOK,
                loopVars, recvVars, castVars
<1>a. LinkTypeOK /\ EmuTypeOK /\ RecvrTypeOK
  BY DEF TypeOK
<1>2. CASE ReceiveThread(p)
  <2>1. down[p] # << >> => /\ Head(down[p]) \in DownMessages
                           /\ Tail(down[p]) \in Seq(DownMessages)
    BY <1>a DEF LinkTypeOK
  <2>2. EmuTypeOK'
    BY <1>2, <1>a DEF ReceiveThread, RecvInput, RecvFrame, SignalFrame,
                      RecvError, RecvFails, EmuTypeOK
  <2>3. LinkTypeOK'
    BY <1>2, <1>a, <2>1, ZenonT(20)
       DEF ReceiveThread, RecvInput, RecvFrame, SignalFrame, RecvError,
           RecvFails, Incoming, LinkTypeOK
  <2>4. CASE RecvInput(p) \/ RecvFrame(p)
    <3>1. Head(down[p]) \in LogMessages
      BY <2>1, <2>4, MsgTypes DEF RecvInput, RecvFrame, Incoming
    <3>2. queue' \in [Players -> Seq(LogMessages)]
      <4>1. queue' = [queue EXCEPT ![p] = Append(@, Head(down[p]))]
        BY <2>4, Zenon DEF RecvInput, RecvFrame
      <4>2. Append(queue[p], Head(down[p])) \in Seq(LogMessages)
        BY <1>a, <3>1 DEF RecvrTypeOK
      <4> QED
        BY <1>a, <4>1, <4>2 DEF RecvrTypeOK
    <3>3. hand' \in [Players -> Nat]
      BY <2>4, <1>a, <3>1, MsgTypes, ZenonT(20)
         DEF RecvInput, RecvFrame, Incoming, RecvrTypeOK
    <3>4. UNCHANGED <<gframe, receiving, online, inputs>>
      BY <2>4 DEF RecvInput, RecvFrame
    <3>5. RecvrTypeOK'
      BY <1>a, <3>2, <3>3, <3>4 DEF RecvrTypeOK
    <3> QED
      BY <1>1, <2>2, <2>3, <3>5 DEF TypeOK
  <2>5. CASE SignalFrame(p) \/ RecvError(p) \/ RecvFails(p)
    <3>1. gframe' \in [Players -> Nat] /\ hand' \in [Players -> Nat]
      <4>1. gframe \in [Players -> Nat] /\ hand \in [Players -> Nat]
        BY <1>a DEF RecvrTypeOK
      <4>2. \/ UNCHANGED <<gframe, hand>>
            \/ /\ gframe' = [gframe EXCEPT ![p] = hand[p]]
               /\ hand' = [hand EXCEPT ![p] = 0]
        BY <2>5 DEF SignalFrame, RecvError, RecvFails
      <4>3. hand[p] \in Nat
        BY <4>1
      <4>4. /\ [gframe EXCEPT ![p] = hand[p]] \in [Players -> Nat]
            /\ [hand EXCEPT ![p] = 0] \in [Players -> Nat]
        BY <4>1, <4>3
      <4> QED
        BY <4>1, <4>2, <4>4, Zenon
    <3>2. /\ receiving' \in [Players -> BOOLEAN]
          /\ online' \in [Players -> BOOLEAN]
      BY <2>5, <1>a DEF SignalFrame, RecvError, RecvFails, RecvrTypeOK
    <3>3. UNCHANGED <<queue, inputs>>
      BY <2>5 DEF SignalFrame, RecvError, RecvFails
    <3>4. RecvrTypeOK'
      BY <1>a, <3>1, <3>2, <3>3 DEF RecvrTypeOK
    <3> QED
      BY <1>1, <2>2, <2>3, <3>4 DEF TypeOK
  <2> QED
    BY <1>2, <2>4, <2>5 DEF ReceiveThread
<1>3. CASE EmuEnter(p) \/ EmuWake(p)
  <2>1. LinkTypeOK' /\ RecvrTypeOK'
    BY <1>3, <1>a DEF EmuEnter, EmuWake, LinkTypeOK, RecvrTypeOK
  <2>2. \E pc \in {"wait", "check", "offline"} : epc' = [epc EXCEPT ![p] = pc]
    BY <1>3 DEF EmuEnter, EmuWake, Goto
  <2>3. eframe' \in [Players -> Nat] /\ UNCHANGED <<applied, sums, diverged>>
    <3>1. CASE EmuEnter(p)
      BY <1>a, <3>1, SMTT(20) DEF EmuEnter, EmuTypeOK
    <3>2. CASE EmuWake(p)
      BY <1>a, <3>2 DEF EmuWake, EmuTypeOK
    <3> QED
      BY <1>3, <3>1, <3>2
  <2>4. EmuTypeOK'
    BY <1>a, <2>2, <2>3 DEF EmuTypeOK
  <2> QED
    BY <1>1, <2>1, <2>4 DEF TypeOK
<1>4. CASE EmuCheck(p)
  <2>1. Checksum(p) \in Nat
    BY DEF Checksum
  <2>2. /\ up' \in [Players -> Seq(UpMessages)]
        /\ online' \in [Players -> BOOLEAN]
    BY <1>4, <1>a, <2>1, MsgTypes, SendUpType DEF EmuCheck
  <2>3. LinkTypeOK' /\ RecvrTypeOK'
    BY <1>4, <1>a, <2>2 DEF EmuCheck, LinkTypeOK, RecvrTypeOK
  <2>4. sums' \in [Players -> Seq(Nat)]
    <3>1. sums' = [sums EXCEPT ![p] = Append(@, Checksum(p))]
      BY <1>4 DEF EmuCheck
    <3>2. Append(sums[p], Checksum(p)) \in Seq(Nat)
      BY <1>a, <2>1 DEF EmuTypeOK
    <3> QED
      BY <1>a, <3>1, <3>2 DEF EmuTypeOK
  <2>5. epc' \in [Players -> {"enter", "wait", "check", "ack", "drain",
                              "offline", "failed", "gone"}]
    <3>1. epc' = [epc EXCEPT ![p] = "ack"]
      BY <1>4 DEF EmuCheck, Goto
    <3> QED
      BY <1>a, <3>1 DEF EmuTypeOK
  <2>6. UNCHANGED <<eframe, applied, diverged>>
    BY <1>4 DEF EmuCheck
  <2>7. EmuTypeOK'
    BY <1>a, <2>4, <2>5, <2>6 DEF EmuTypeOK
  <2> QED
    BY <1>1, <2>3, <2>7 DEF TypeOK
<1>5. CASE EmuAck(p)
  <2>1. FrameMsg(eframe[p]) \in UpMessages
    BY <1>a, MsgTypes DEF EmuTypeOK
  <2>2. /\ up' \in [Players -> Seq(UpMessages)]
        /\ online' \in [Players -> BOOLEAN]
    BY <1>5, <1>a, <2>1, SendUpType DEF EmuAck
  <2>3. LinkTypeOK' /\ RecvrTypeOK'
    BY <1>5, <1>a, <2>2 DEF EmuAck, LinkTypeOK, RecvrTypeOK
  <2>4. EmuTypeOK'
    BY <1>5, <1>a DEF EmuAck, Goto, EmuTypeOK
  <2> QED
    BY <1>1, <2>3, <2>4 DEF TypeOK
<1>6. CASE EmuDrain(p)
  <2>1. queue[p] # << >> => /\ Head(queue[p]) \in LogMessages
                            /\ Tail(queue[p]) \in Seq(LogMessages)
    BY <1>a DEF RecvrTypeOK
  <2>2. LinkTypeOK'
    BY <1>6, <1>a DEF EmuDrain, LinkTypeOK
  <2>3. RecvrTypeOK'
    BY <1>6, <1>a, <2>1 DEF EmuDrain, RecvrTypeOK
  <2>4. applied' \in [Players -> Seq(LogMessages)]
    <3>1. CASE queue[p] = << >>
      BY <1>6, <1>a, <3>1 DEF EmuDrain, EmuTypeOK
    <3>2. CASE queue[p] # << >>
      <4>1. applied' = [applied EXCEPT ![p] = Append(@, Head(queue[p]))]
        BY <1>6, <3>2 DEF EmuDrain
      <4> QED
        BY <1>a, <2>1, <3>2, <4>1 DEF EmuTypeOK
    <3> QED
      BY <3>1, <3>2
  <2>5. \E pc \in {"drain", "enter", "failed"} : epc' = [epc EXCEPT ![p] = pc]
    BY <1>6 DEF EmuDrain, Goto
  <2>6. EmuTypeOK'
    BY <1>6, <1>a, <2>4, <2>5 DEF EmuDrain, EmuTypeOK
  <2> QED
    BY <1>1, <2>2, <2>3, <2>6 DEF TypeOK
<1>7. CASE Ends(p) \/ Diverge(p)
  <2>1. LinkTypeOK'
    BY <1>7, <1>a DEF Ends, Diverge, LinkTypeOK
  <2>2. RecvrTypeOK'
    BY <1>7, <1>a DEF Ends, Diverge, RecvrTypeOK
  <2>3. EmuTypeOK'
    BY <1>7, <1>a DEF Ends, Diverge, EmuTypeOK
  <2> QED
    BY <1>1, <2>1, <2>2, <2>3 DEF TypeOK
<1>8. CASE \E e \in Events : SendInput(p, e)
  <2>1. PICK e \in Events : SendInput(p, e)
    BY <1>8
  <2>2. /\ up' \in [Players -> Seq(UpMessages)]
        /\ online' \in [Players -> BOOLEAN]
    BY <1>a, <2>1, MsgTypes, SendUpType DEF SendInput
  <2>3. LinkTypeOK' /\ EmuTypeOK'
    BY <1>a, <2>1, <2>2 DEF SendInput, LinkTypeOK, EmuTypeOK
  <2>4. RecvrTypeOK'
    <3>1. UNCHANGED <<gframe, hand, queue, receiving>> /\ inputs' = inputs + 1
      BY <2>1 DEF SendInput
    <3>2. inputs' \in Nat
      BY <1>a, <3>1 DEF RecvrTypeOK
    <3> QED
      BY <1>a, <2>2, <3>1, <3>2 DEF RecvrTypeOK
  <2> QED
    BY <1>1, <2>3, <2>4 DEF TypeOK
<1> QED
  BY <1>2, <1>3, <1>4, <1>5, <1>6, <1>7, <1>8 DEF EmuThread

-----------------------------------------------------------------------------
LEMMA StepType == TypeOK /\ [Next]_vars => TypeOK'
<1> SUFFICES ASSUME TypeOK, [Next]_vars PROVE TypeOK'
  OBVIOUS
<1>1. CASE ServerNext /\ UNCHANGED clientVars
  <2>1. CASE Interrupt
    <3>1. stop' = TRUE /\ UNCHANGED <<loopVars, recvVars, castVars, linkVars>>
      BY <2>1 DEF Interrupt
    <3> QED
      BY <1>1, <3>1
         DEF TypeOK, LinkTypeOK, LoopTypeOK, RecvTypeOK, CastTypeOK, EmuTypeOK,
             RecvrTypeOK, loopVars, recvVars, castVars, linkVars, clientVars,
             emuVars, recvrVars
  <2> QED
    BY <1>1, <2>1, LoopStepType, ReceiverStepType DEF ServerNext
<1>2. CASE ClientNext /\ UNCHANGED serverVars
  BY <1>2, EmulatorStepType DEF ClientNext, Quit, BrokenPipe
<1>3. CASE (\E p \in Players : Reset(p)) /\ UNCHANGED <<serverVars, clientVars>>
  BY <1>3 DEF Reset, TypeOK, LinkTypeOK, LoopTypeOK, RecvTypeOK, CastTypeOK,
              EmuTypeOK, RecvrTypeOK, serverVars, loopVars, recvVars, castVars,
              clientVars, emuVars, recvrVars
<1>4. CASE UNCHANGED vars
  BY <1>4 DEF vars, TypeOK, LinkTypeOK, LoopTypeOK, RecvTypeOK, CastTypeOK,
              EmuTypeOK, RecvrTypeOK, serverVars, loopVars, recvVars, castVars,
              clientVars, emuVars, recvrVars, linkVars
<1> QED
  BY <1>1, <1>2, <1>3, <1>4 DEF Next

\* Every variable of the server, the connections and the emulators keeps its
\* type, in particular nothing but inputs and frame marks reaches a netplay
\* queue and the message buffers.
THEOREM TypeCorrect == Spec => []TypeOK
  BY InitType, StepType, PTL DEF Spec

-----------------------------------------------------------------------------
(* The drift bound.  DriftInv is inductive together with TypeOK: the bound *)
(* holds because the oldest frame that __check_game works with is never    *)
(* beyond what any player has announced, and that is so because what a     *)
(* player announces only grows.                                            *)

\* Taking the first message off a player's stream.
LEMMA TakeAnnounced ==
  ASSUME TypeOK, NEW p \in Players, Announces(p), up[p] # << >>,
         up'[p] = Tail(up[p]), UNCHANGED <<epc, eframe>>,
         clientFrame'[p] = IF Head(up[p]).type = "frame"
                           THEN Head(up[p]).val ELSE clientFrame[p]
  PROVE  Announces(p)' /\ clientFrame[p] <= clientFrame'[p]
<1>1. /\ up[p] \in Seq(UpMessages)
      /\ \A i \in 1 .. Len(up[p]) : up[p][i] \in UpMessages
  BY DEF TypeOK, LinkTypeOK
<1>2. /\ clientFrame[p] \in Nat /\ eframe[p] \in Nat
      /\ \A i \in 1 .. Len(up[p]) : up[p][i].type = "frame" => up[p][i].val \in Nat
  BY <1>1, MsgTypes DEF TypeOK, RecvTypeOK, EmuTypeOK
<1>3. /\ Len(up'[p]) = Len(up[p]) - 1 /\ 1 \in 1 .. Len(up[p])
      /\ Head(up[p]) = up[p][1]
      /\ \A i \in 1 .. Len(up'[p]) : i + 1 \in 1 .. Len(up[p])
                                     /\ up'[p][i] = up[p][i + 1]
  BY <1>1
<1> DEFINE notYet == epc[p] \in {"wait", "check", "ack"}
<1>4. \A i \in 1 .. Len(up[p]) : up[p][i].type = "frame" =>
        /\ clientFrame[p] < up[p][i].val
        /\ up[p][i].val <= eframe[p]
        /\ notYet => up[p][i].val < eframe[p]
        /\ \A j \in 1 .. i - 1 : up[p][j].type = "frame" =>
             up[p][j].val < up[p][i].val
  BY DEF Announces
<1>5. /\ clientFrame'[p] \in Nat /\ clientFrame[p] <= clientFrame'[p]
      /\ clientFrame'[p] <= eframe[p]
      /\ notYet => clientFrame'[p] < eframe[p]
  BY <1>2, <1>3, <1>4 DEF Announces
<1>6. ASSUME NEW i \in 1 .. Len(up'[p]), up'[p][i].type = "frame"
      PROVE  /\ clientFrame'[p] < up'[p][i].val
             /\ up'[p][i].val <= eframe[p]
             /\ notYet => up'[p][i].val < eframe[p]
             /\ \A j \in 1 .. i - 1 : up'[p][j].type = "frame" =>
                  up'[p][j].val < up'[p][i].val
  <2>1. /\ i + 1 \in 1 .. Len(up[p]) /\ up'[p][i] = up[p][i + 1]
        /\ 1 \in 1 .. (i + 1) - 1 /\ i \in Nat
    BY <1>3, <1>6
  <2>2. clientFrame'[p] < up'[p][i].val
    BY <1>2, <1>3, <1>4, <1>6, <2>1
  <2>3. ASSUME NEW j \in 1 .. i - 1, up'[p][j].type = "frame"
        PROVE  up'[p][j].val < up'[p][i].val
    <3>1. j \in 1 .. Len(up'[p]) /\ j + 1 \in 1 .. (i + 1) - 1
      BY <1>3, <2>1
    <3> QED
      BY <1>3, <1>4, <1>6, <2>1, <2>3, <3>1
  <2> QED
    BY <1>4, <1>6, <2>1, <2>2, <2>3
<1> QED
  BY <1>5, <1>6 DEF Announces

\* Adding a message to a player's stream.
LEMMA AddAnnounced ==
  ASSUME TypeOK, NEW p \in Players, Announces(p), NEW m \in UpMessages,
         up'[p] = up[p] \/ up'[p] = Append(up[p], m),
         clientFrame'[p] = clientFrame[p], eframe'[p] = eframe[p],
         \/ m.type # "frame"
         \/ /\ epc[p] = "ack" /\ m.val = eframe[p],
         epc'[p] \in {"wait", "check", "ack"} =>
           epc[p] \in {"wait", "check", "ack"} /\ m.type # "frame"
  PROVE  Announces(p)'
<1>1. /\ up[p] \in Seq(UpMessages)
      /\ \A i \in 1 .. Len(up[p]) : up[p][i] \in UpMessages
  BY DEF TypeOK, LinkTypeOK
<1>2. /\ clientFrame[p] \in Nat /\ eframe[p] \in Nat
      /\ \A i \in 1 .. Len(up[p]) : up[p][i].type = "frame" => up[p][i].val \in Nat
  BY <1>1, MsgTypes DEF TypeOK, RecvTypeOK, EmuTypeOK
<1>3. CASE up'[p] = up[p]
  BY <1>2, <1>3 DEF Announces
<1>4. CASE up'[p] = Append(up[p], m)
  <2>1. /\ Len(up'[p]) = Len(up[p]) + 1
        /\ up'[p][Len(up[p]) + 1] = m
        /\ \A i \in 1 .. Len(up[p]) : up'[p][i] = up[p][i]
    BY <1>1, <1>4
  <2> DEFINE notYet == epc[p] \in {"wait", "check", "ack"}
  <2>2. /\ clientFrame'[p] <= eframe'[p]
        /\ notYet' => clientFrame'[p] < eframe'[p] /\ notYet /\ m.type # "frame"
    BY <1>2 DEF Announces
  <2>3. ASSUME NEW i \in 1 .. Len(up'[p]), up'[p][i].type = "frame"
        PROVE  /\ clientFrame'[p] < up'[p][i].val
               /\ up'[p][i].val <= eframe'[p]
               /\ notYet' => up'[p][i].val < eframe'[p]
               /\ \A j \in 1 .. i - 1 : up'[p][j].type = "frame" =>
                    up'[p][j].val < up'[p][i].val
    <3>1. CASE i \in 1 .. Len(up[p])
      <4>1. up'[p][i] = up[p][i] /\ up[p][i].type = "frame"
        BY <2>1, <2>3, <3>1
      <4>2. /\ clientFrame[p] < up[p][i].val
            /\ up[p][i].val <= eframe[p]
            /\ notYet => up[p][i].val < eframe[p]
            /\ \A j \in 1 .. i - 1 : up[p][j].type = "frame" =>
                 up[p][j].val < up[p][i].val
        BY <3>1, <4>1 DEF Announces
      <4>3. \A j \in 1 .. i - 1 : up'[p][j] = up[p][j]
        BY <1>1, <2>1, <3>1
      <4> QED
        BY <2>2, <4>1, <4>2, <4>3
    <3>2. CASE i = Len(up[p]) + 1
      <4>1. m.type = "frame" /\ epc[p] = "ack" /\ m.val = eframe[p]
        BY <2>1, <2>3, <3>2
      <4>2. /\ clientFrame[p] < eframe[p]
            /\ \A j \in 1 .. Len(up[p]) : up[p][j].type = "frame" =>
                 up[p][j].val < eframe[p]
        BY <4>1 DEF Announces
      <4>3. Len(up[p]) \in Nat /\ i - 1 = Len(up[p])
        BY <1>1, <3>2
      <4>4. \A j \in 1 .. i - 1 : up'[p][j] = up[p][j]
        BY <2>1, <4>3
      <4>5. up'[p][i] = m
        BY <2>1, <3>2
      <4>6. ~notYet'
        BY <2>2, <4>1
      <4>7. clientFrame'[p] < up'[p][i].val /\ up'[p][i].val <= eframe'[p]
        BY <1>2, <4>1, <4>2, <4>5
      <4>8. ASSUME NEW j \in 1 .. i - 1, up'[p][j].type = "frame"
            PROVE  up'[p][j].val < up'[p][i].val
        <5>1. j \in 1 .. Len(up[p]) /\ up[p][j].type = "frame"
          BY <4>3, <4>4, <4>8
        <5> QED
          BY <4>1, <4>2, <4>4, <4>5, <5>1
      <4> QED
        BY <4>6, <4>7, <4>8
    <3> QED
      BY <1>1, <2>1, <3>1, <3>2
  <2> HIDE DEF notYet
  <2>4. Announces(p)' =
          (/\ clientFrame'[p] <= eframe'[p]
           /\ notYet' => clientFrame'[p] < eframe'[p]
           /\ \A i \in 1 .. Len(up'[p]) : up'[p][i].type = "frame" =>
                /\ clientFrame'[p] < up'[p][i].val
                /\ up'[p][i].val <= eframe'[p]
                /\ notYet' => up'[p][i].val < eframe'[p]
                /\ \A j \in 1 .. i - 1 : up'[p][j].type = "frame" =>
                     up'[p][j].val < up'[p][i].val)
    BY DEF Announces, notYet
  <2> QED
    BY <2>2, <2>3, <2>4
<1> QED
  BY <1>3, <1>4

LEMMA AnnouncedStep ==
  ASSUME TypeOK, AnnouncedInOrder, [Next]_vars
  PROVE  AnnouncedInOrder' /\ \A q \in Players : clientFrame[q] <= clientFrame'[q]
<1> DEFINE Same(q) == /\ up'[q] = up[q] /\ clientFrame'[q] = clientFrame[q]
                      /\ eframe'[q] = eframe[q] /\ epc'[q] = epc[q]
           Good(q) == Announces(q)' /\ clientFrame[q] <= clientFrame'[q]
<1>1. ASSUME NEW q \in Players PROVE Announces(q) /\ clientFrame[q] \in Nat
                                     /\ eframe[q] \in Nat
  BY DEF AnnouncedInOrder, TypeOK, RecvTypeOK, EmuTypeOK
<1>2. ASSUME NEW q \in Players, Same(q) PROVE Good(q)
  BY <1>1, <1>2 DEF Announces
<1>3. ASSUME NEW p \in Players, \A q \in Players : q # p => Same(q), Good(p)
      PROVE  \A q \in Players : Good(q)
  BY <1>2, <1>3
<1>4. SUFFICES \A q \in Players : Good(q)
  BY DEF AnnouncedInOrder
<1>5. CASE UNCHANGED <<up, clientFrame, eframe, epc>>
  BY <1>2, <1>5
<1>6. CASE (GameLoop \/ Interrupt) /\ UNCHANGED clientVars
  <2>1. UNCHANGED <<up, clientFrame>>
    BY <1>6 DEF GameLoop, NextIteration, StopGame, Tick, ScanClient, Scan,
                CannotCheckYet, CollectCheck, CheckPassed, CheckFailed, Rescan,
                RescanClient, LoopRaised, Interrupt, recvVars, linkVars
  <2> QED
    BY <1>5, <1>6, <2>1 DEF clientVars, emuVars
<1>7. ASSUME NEW p \in Players, Receiver(p), UNCHANGED clientVars
      PROVE  \A q \in Players : Good(q)
  <2>1. UNCHANGED <<eframe, epc>>
    BY <1>7 DEF clientVars, emuVars
  <2>2. CASE ReceiverEnds(p)
    BY <1>5, <2>1, <2>2 DEF ReceiverEnds, recvVars
  <2>3. CASE ReceiveCheck(p) \/ ReceiveFrame(p) \/ ReceiveInput(p)
    <3>1. up[p] # << >> /\ up' = [up EXCEPT ![p] = Tail(@)]
      BY <2>3 DEF ReceiveCheck, ReceiveFrame, ReceiveInput
    <3>2. clientFrame' = IF Head(up[p]).type = "frame"
                         THEN [clientFrame EXCEPT ![p] = Head(up[p]).val]
                         ELSE clientFrame
      BY <2>3 DEF ReceiveCheck, ReceiveFrame, ReceiveInput, recvVars
    <3>3. \A q \in Players : q # p => Same(q)
      BY <2>1, <3>1, <3>2 DEF TypeOK, LinkTypeOK, RecvTypeOK
    <3>4. /\ up'[p] = Tail(up[p])
          /\ clientFrame'[p] = IF Head(up[p]).type = "frame"
                               THEN Head(up[p]).val ELSE clientFrame[p]
      BY <3>1, <3>2 DEF TypeOK, LinkTypeOK, RecvTypeOK
    <3>5. Good(p)
      BY <1>1, <2>1, <3>1, <3>4, TakeAnnounced
    <3> QED
      BY <1>3, <3>3, <3>5
  <2> QED
    BY <1>7, <2>2, <2>3 DEF Receiver
<1>8. ASSUME NEW p \in Players, UNCHANGED serverVars,
             \/ EmuCheck(p) \/ EmuAck(p) \/ \E e \in Events : SendInput(p, e)
      PROVE  \A q \in Players : Good(q)
  <2>1. UNCHANGED <<clientFrame, eframe>>
    BY <1>8 DEF serverVars, recvVars, EmuCheck, EmuAck, SendInput, emuVars
  <2>2. PICK m \in UpMessages :
          /\ Send(p, m)
          /\ \/ m.type = "check" /\ Goto(p, "check", "ack")
             \/ m.type = "frame" /\ m.val = eframe[p] /\ Goto(p, "ack", "drain")
             \/ m.type = "input" /\ epc' = epc
    <3>1. CASE EmuCheck(p)
      <4>1. Checksum(p) \in Nat
        BY DEF Checksum
      <4>2. CheckMsg(Checksum(p)) \in UpMessages
        BY <4>1, MsgTypes
      <4> QED
        BY <3>1, <4>2 DEF EmuCheck, CheckMsg, Msg
    <3>2. CASE EmuAck(p)
      <4>1. FrameMsg(eframe[p]) \in UpMessages
        BY <1>1, MsgTypes
      <4> QED
        BY <3>2, <4>1 DEF EmuAck, FrameMsg, Msg
    <3>3. CASE \E e \in Events : SendInput(p, e)
      <4>1. PICK e \in Events : SendInput(p, e)
        BY <3>3
      <4>2. InputMsg(e) \in UpMessages
        BY MsgTypes
      <4> QED
        BY <4>1, <4>2 DEF SendInput, InputMsg, Msg, emuVars
    <3> QED
      BY <1>8, <3>1, <3>2, <3>3
  <2>3. up' = up \/ up' = [up EXCEPT ![p] = Append(@, m)]
    BY <2>2, Zenon DEF Send
  <2>4. \A q \in Players : q # p => Same(q)
    BY <2>1, <2>2, <2>3 DEF Goto, TypeOK, LinkTypeOK, EmuTypeOK
  <2>5. up'[p] = up[p] \/ up'[p] = Append(up[p], m)
    BY <2>3 DEF TypeOK, LinkTypeOK
  <2>6. Announces(p)'
    BY <1>1, <2>1, <2>2, <2>5, AddAnnounced DEF Goto, TypeOK, EmuTypeOK
  <2> QED
    BY <1>1, <1>3, <2>1, <2>4, <2>6
<1>9. ASSUME NEW p \in Players, UNCHANGED serverVars,
             EmuEnter(p) \/ EmuWake(p) \/ EmuDrain(p) \/ Ends(p)
      PROVE  \A q \in Players : Good(q)
  <2>1. UNCHANGED <<up, clientFrame>>
    BY <1>9 DEF EmuEnter, EmuWake, EmuDrain, Ends, linkVars, serverVars, recvVars
  <2>2. \/ /\ eframe' = [eframe EXCEPT ![p] = @ + 1]
           /\ \E pc \in {"wait", "offline"} : epc' = [epc EXCEPT ![p] = pc]
        \/ /\ eframe' = eframe /\ epc[p] = "wait"
           /\ \E pc \in {"check", "offline"} : epc' = [epc EXCEPT ![p] = pc]
        \/ /\ eframe' = eframe
           /\ \E pc \in {"drain", "enter", "failed", "gone"} :
                epc' = [epc EXCEPT ![p] = pc]
    <3>1. CASE EmuEnter(p)
      BY <3>1 DEF EmuEnter, Goto
    <3>2. CASE EmuWake(p)
      BY <3>2 DEF EmuWake, Goto
    <3>3. CASE EmuDrain(p)
      BY <3>3 DEF EmuDrain, Goto
    <3>4. CASE Ends(p)
      BY <3>4 DEF Ends
    <3> QED
      BY <1>9, <3>1, <3>2, <3>3, <3>4
  <2>3. \A q \in Players : q # p => Same(q)
    BY <2>1, <2>2 DEF TypeOK, EmuTypeOK
  <2>4. Good(p)
    <3>1. \/ eframe'[p] = eframe[p] + 1
          \/ eframe'[p] = eframe[p] /\ epc[p] = "wait"
          \/ eframe'[p] = eframe[p] /\ epc'[p] \notin {"wait", "check", "ack"}
      BY <2>2 DEF TypeOK, EmuTypeOK
    <3>2. \A i \in 1 .. Len(up[p]) : up[p][i].type = "frame" => up[p][i].val \in Nat
      BY MsgTypes DEF TypeOK, LinkTypeOK
    <3> QED
      BY <1>1, <2>1, <3>1, <3>2 DEF Announces
  <2> QED
    BY <1>3, <2>3, <2>4
<1> QED
  <2>1. CASE ServerNext /\ UNCHANGED clientVars
    BY <1>6, <1>7, <2>1 DEF ServerNext
  <2>2. ASSUME NEW p \in Players, UNCHANGED serverVars,
               ReceiveThread(p) \/ Diverge(p)
        PROVE  UNCHANGED <<up, clientFrame, eframe, epc>>
    BY <2>2 DEF ReceiveThread, RecvInput, RecvFrame, SignalFrame, RecvError,
                RecvFails, Diverge, linkVars, serverVars, recvVars, emuVars
  <2>3. CASE ClientNext /\ UNCHANGED serverVars
    <3>1. PICK p \in Players : \/ ReceiveThread(p) \/ EmuThread(p)
                               \/ \E e \in Events : SendInput(p, e)
                               \/ Ends(p) \/ Diverge(p)
      BY <2>3 DEF ClientNext, Quit, BrokenPipe
    <3> QED
      BY <1>5, <1>8, <1>9, <2>2, <2>3, <3>1 DEF EmuThread
  <2>4. CASE (\E p \in Players : Reset(p)) /\ UNCHANGED <<serverVars, clientVars>>
    BY <1>5, <2>4 DEF Reset, serverVars, recvVars, clientVars, emuVars
  <2>5. CASE UNCHANGED vars
    BY <1>5, <2>5 DEF vars, serverVars, recvVars, clientVars, emuVars, linkVars
  <2> QED
    BY <2>1, <2>3, <2>4, <2>5 DEF Next

-----------------------------------------------------------------------------
(* The drift bound.  The oldest frame found by a look at the players is at   *)
(* most what each of them has announced since, as announcements only grow.   *)

\* The game is never taken back from a stop.
LEMMA StopStays ==
  ASSUME [Next]_vars
  PROVE  ~stop' => ~stop
<1>1. CASE GameLoop
  BY <1>1, Zenon DEF GameLoop, NextIteration, StopGame, Tick, ScanClient, Scan,
    CannotCheckYet, CollectCheck, CheckPassed, CheckFailed, Rescan,
    RescanClient, LoopRaised
<1>2. ASSUME NEW p \in Players, Receiver(p) PROVE ~stop' => ~stop
  BY <1>2, Zenon DEF Receiver, ReceiveCheck, ReceiveFrame, ReceiveInput, ReceiverEnds
<1>3. CASE Interrupt
  BY <1>3, Zenon DEF Interrupt
<1>4. CASE UNCHANGED serverVars
  BY <1>4, Zenon DEF serverVars
<1> QED
  BY <1>1, <1>2, <1>3, <1>4, Zenon DEF Next, ServerNext, vars

\* Looking at one more player.
LEMMA OlderSound ==
  ASSUME TypeOK, ScanSound, gpc \in {"scan", "rescan"}
  PROVE  LET o == Older(clientFrame[idx])
         IN  /\ o \in Nat /\ o <= oldest
             /\ \A p \in Players : p <= idx => o <= clientFrame[p]
<1>1. /\ idx \in Players /\ oldest \in Nat /\ clientFrame[idx] \in Nat
      /\ \A p \in Players : clientFrame[p] \in Nat
  BY DEF TypeOK, LoopTypeOK, RecvTypeOK
<1>2. \A p \in Players : p < idx => oldest <= clientFrame[p]
  BY DEF ScanSound
<1> QED
  BY <1>1, <1>2 DEF Older

\* Where the game loop goes with an oldest frame that is not too new.
LEMMA ProceedSound ==
  ASSUME TypeOK, NEW o \in Nat, NEW v,
         \A p \in Players : o <= clientFrame[p]
  PROVE  /\ Proceed(o, v) \in {"compare", "top", "sleep"}
         /\ Proceed(o, v) = "top" =>
              \A p \in Players : frame <= clientFrame[p] + MaxDrift
<1>1. \A p \in Players : clientFrame[p] \in Nat
  BY DEF TypeOK, RecvTypeOK
<1>2. frame \in Nat
  BY DEF TypeOK, LoopTypeOK
<1> QED
  BY <1>1, <1>2 DEF Proceed

LEMMA DriftStep ==
  ASSUME TypeOK, DriftInv, [Next]_vars
  PROVE  DriftInv'
<1> USE DEF DriftInv
<1>1. AnnouncedInOrder' /\ \A q \in Players : clientFrame[q] <= clientFrame'[q]
  BY AnnouncedStep
<1>2. /\ frame \in Nat /\ oldest \in Nat
      /\ \A q \in Players : clientFrame[q] \in Nat /\ clientFrame'[q] \in Nat
  BY StepType DEF TypeOK, LoopTypeOK, RecvTypeOK
<1>3. ~stop' => ~stop
  BY StopStays
<1> DEFINE Ready == gpc = "tick" \/ (gpc = "top" /\ ~stop)
           Close == \A p \in Players : frame <= clientFrame[p] + MaxDrift
<1>4. /\ Ready => Close
      /\ DriftBounded
  BY DEF ScanSound
<1>5. CASE UNCHANGED loopVars
  <2>1. Ready' => Ready
    BY <1>3, <1>5, Zenon DEF loopVars
  <2>2. Ready' => Close'
    BY <1>1, <1>2, <1>4, <1>5, <2>1 DEF loopVars
  <2>3. DriftBounded'
    BY <1>1, <1>2, <1>4, <1>5 DEF loopVars, DriftBounded
  <2>4. /\ gpc' \in {"scan", "rescan"} =>
              /\ oldest' <= frame'
              /\ \A p \in Players : p < idx' => oldest' <= clientFrame'[p]
        /\ gpc' \in {"compare", "sleep"} =>
              \A p \in Players : oldest' <= clientFrame'[p]
    BY <1>1, <1>2, <1>5 DEF loopVars, ScanSound
  <2> QED
    BY <1>1, <2>2, <2>3, <2>4, Zenon DEF ScanSound
<1>6. ASSUME clientFrame' = clientFrame, frame' = frame,
             gpc' \in {"top", "tick", "scan", "compare", "sleep", "rescan",
                       "raised", "stopped"},
             gpc' \in {"scan", "rescan"} =>
               /\ oldest' <= frame
               /\ \A p \in Players : p < idx' => oldest' <= clientFrame[p],
             gpc' \in {"compare", "sleep"} =>
               \A p \in Players : oldest' <= clientFrame[p],
             Ready' => Close
      PROVE  DriftInv'
  <2>1. DriftBounded'
    BY <1>4, <1>6 DEF DriftBounded
  <2>2. Ready' => Close'
    BY <1>6
  <2> QED
    BY <1>1, <1>6, <2>1, <2>2, Zenon DEF ScanSound
<1>7. CASE GameLoop
  <2>1. clientFrame' = clientFrame
    BY <1>7 DEF GameLoop, NextIteration, StopGame, Tick, ScanClient, Scan,
      CannotCheckYet, CollectCheck, CheckPassed, CheckFailed, Rescan,
      RescanClient, LoopRaised, recvVars
  <2>2. CASE NextIteration
    <3>1. Ready /\ gpc' = "tick" /\ frame' = frame
      BY <2>2, Zenon DEF NextIteration
    <3> QED
      BY <1>4, <1>6, <2>1, <3>1
  <2>3. CASE StopGame \/ CheckFailed \/ LoopRaised
    <3>1. gpc' \in {"stopped", "raised"} /\ frame' = frame
      BY <2>3, Zenon DEF StopGame, CheckFailed, LoopRaised
    <3> QED
      BY <1>6, <2>1, <3>1
  <2>4. CASE Tick
    <3>1. /\ gpc = "tick" /\ frame' = frame + 1 /\ idx' = 0
          /\ (gpc' = "scan" /\ oldest' = frame + 1) \/ gpc' = "raised"
      BY <2>4 DEF Tick
    <3>2. DriftBounded'
      BY <1>2, <1>4, <2>1, <3>1 DEF DriftBounded
    <3>3. /\ gpc' \in {"scan", "rescan"} =>
                /\ oldest' <= frame'
                /\ \A p \in Players : p < idx' => oldest' <= clientFrame'[p]
          /\ gpc' \notin {"compare", "sleep", "tick", "top"}
      BY <1>2, <3>1
    <3> QED
      BY <1>1, <3>2, <3>3, Zenon DEF ScanSound
  <2>5. CASE ScanClient \/ RescanClient
    <3> DEFINE o == Older(clientFrame[idx])
               next == IF gpc = "scan" THEN Proceed(o, verified)
                       ELSE IF frame > o THEN "sleep" ELSE "top"
    <3>1. /\ gpc \in {"scan", "rescan"} /\ oldest' = o /\ frame' = frame
          /\ idx' = (IF LastClient THEN 0 ELSE idx + 1)
          /\ gpc' = (IF LastClient THEN next ELSE gpc)
      BY <2>5 DEF ScanClient, RescanClient, Scan
    <3>2. /\ o \in Nat /\ o <= oldest
          /\ \A p \in Players : p <= idx => o <= clientFrame[p]
      BY <3>1, OlderSound
    <3> HIDE DEF o
    <3>3. idx \in Nat
      BY <3>1 DEF TypeOK, LoopTypeOK
    <3>4. CASE LastClient
      <4>1. \A p \in Players : o <= clientFrame[p]
        BY <3>2, <3>3, <3>4 DEF LastClient
      <4>2. gpc' \in {"compare", "top", "sleep"} /\ (gpc' = "top" => Close)
        BY <1>2, <3>1, <3>2, <3>4, <4>1, ProceedSound
      <4> QED
        BY <1>6, <2>1, <3>1, <4>1, <4>2
    <3>5. CASE ~LastClient
      <4>1. oldest <= frame
        BY <3>1 DEF ScanSound
      <4>2. gpc' = gpc /\ idx' = idx + 1 /\ oldest' <= frame
        BY <1>2, <3>1, <3>2, <3>5, <4>1
      <4>3. \A p \in Players : p < idx' => oldest' <= clientFrame[p]
        BY <3>1, <3>2, <3>3, <4>2
      <4> QED
        BY <1>6, <2>1, <3>1, <4>2, <4>3
    <3> QED
      BY <3>4, <3>5
  <2>6. CASE CannotCheckYet \/ CheckPassed
    <3>1. /\ gpc = "compare" /\ oldest' = oldest /\ frame' = frame
          /\ gpc' = Proceed(oldest, CheckFrame)
      BY <2>6 DEF CannotCheckYet, CheckPassed
    <3>2. \A p \in Players : oldest <= clientFrame[p]
      BY <3>1 DEF ScanSound
    <3>3. gpc' \in {"compare", "top", "sleep"} /\ (gpc' = "top" => Close)
      BY <1>2, <3>1, <3>2, ProceedSound
    <3> QED
      BY <1>6, <2>1, <3>1, <3>2, <3>3
  <2>7. CASE CollectCheck
    <3>1. /\ gpc = "compare" /\ gpc' = gpc /\ oldest' = oldest /\ frame' = frame
      BY <2>7 DEF CollectCheck
    <3>2. \A p \in Players : oldest <= clientFrame[p]
      BY <3>1 DEF ScanSound
    <3> QED
      BY <1>6, <2>1, <3>1, <3>2
  <2>8. CASE Rescan
    <3>1. /\ frame' = frame
          /\ \/ gpc' = "top" /\ stop'
             \/ gpc' = "rescan" /\ oldest' = frame /\ idx' = 0
      BY <2>8, Zenon DEF Rescan
    <3>2. ~Ready' /\ gpc' \in {"top", "rescan"}
      BY <3>1, Zenon
    <3>3. gpc' = "rescan" =>
            /\ oldest' <= frame
            /\ \A p \in Players : p < idx' => oldest' <= clientFrame[p]
      BY <1>2, <3>1
    <3> QED
      BY <1>6, <2>1, <3>1, <3>2, <3>3
  <2> QED
    BY <1>7, <2>2, <2>3, <2>4, <2>5, <2>6, <2>7, <2>8 DEF GameLoop
<1>8. ASSUME NEW p \in Players, Receiver(p)
      PROVE  UNCHANGED loopVars
  BY <1>8 DEF Receiver, ReceiveCheck, ReceiveFrame, ReceiveInput, ReceiverEnds
<1>9. CASE Interrupt \/ UNCHANGED serverVars
  BY <1>5, <1>9 DEF Interrupt, serverVars
<1> QED
  BY <1>5, <1>7, <1>8, <1>9 DEF Next, ServerNext, vars

LEMMA DriftInit ==
  ASSUME Init
  PROVE  DriftInv
<1>1. AnnouncedInOrder
  BY DEF Init, LinkInit, ServerInit, ClientInit, AnnouncedInOrder, Announces
<1>2. ScanSound /\ DriftBounded
  BY DEF Init, ServerInit, ScanSound, DriftBounded
<1> QED
  BY <1>1, <1>2 DEF DriftInv

\* The server is never more than max_drift + 1 frames ahead of what a player
\* has announced, although __check_game works on frame numbers that the
\* receive threads go on changing.
THEOREM DriftBound == Spec => []DriftBounded
<1>1. Spec => []TypeOK
  BY TypeCorrect
<1>2. Init => DriftInv
  BY DriftInit
<1>3. TypeOK /\ DriftInv /\ [Next]_vars => DriftInv'
  BY DriftStep
<1>4. DriftInv => DriftBounded
  BY DEF DriftInv
<1> QED
  BY <1>1, <1>2, <1>3, <1>4, PTL DEF Spec

HIDE DEF Players

-----------------------------------------------------------------------------
(* Sequences *)

LEMMA JoinAppend ==
  ASSUME NEW S, NEW s \in Seq(S), NEW t \in Seq(S), NEW m \in S
  PROVE  s \o Append(t, m) = Append(s \o t, m)
<1>1. Append(t, m) = t \o <<m>> /\ <<m>> \in Seq(S)
  BY AppendIsConcat
<1>2. s \o t \in Seq(S)
  BY ConcatProperties
<1>3. Append(s \o t, m) = (s \o t) \o <<m>>
  BY <1>2, AppendIsConcat
<1> DEFINE u == <<m>>
<1>a. u \in Seq(S)
  BY <1>1
<1> HIDE DEF u
<1>b. (s \o t) \o u = s \o (t \o u)
  BY <1>a, ConcatAssociative
<1>4. (s \o t) \o <<m>> = s \o (t \o <<m>>)
  BY <1>b DEF u
<1> QED
  BY <1>1, <1>3, <1>4, Zenon

\* What leaves the head of one sequence for the end of another before it.
LEMMA MoveHead ==
  ASSUME NEW S, NEW s \in Seq(S), NEW t \in Seq(S), t # << >>
  PROVE  Append(s, Head(t)) \o Tail(t) = s \o t
<1> DEFINE h == Head(t)
           r == Tail(t)
<1>1. /\ h \in S /\ r \in Seq(S) /\ Len(r) = Len(t) - 1
      /\ h = t[1] /\ \A i \in 1 .. Len(r) : r[i] = t[i + 1]
  BY HeadTailProperties
<1> HIDE DEF h, r
<1>2. /\ Append(s, h) \in Seq(S) /\ Len(Append(s, h)) = Len(s) + 1
      /\ \A i \in 1 .. Len(s) : Append(s, h)[i] = s[i]
      /\ Append(s, h)[Len(s) + 1] = h
  BY <1>1, AppendProperties
<1> DEFINE a == Append(s, h)
           x == a \o r
           y == s \o t
<1> HIDE DEF a
<1>a. a \in Seq(S)
  BY <1>2 DEF a
<1>3. /\ x \in Seq(S) /\ Len(x) = Len(a) + Len(r)
      /\ \A i \in 1 .. Len(a) + Len(r) :
           x[i] = IF i <= Len(a) THEN a[i] ELSE r[i - Len(a)]
  BY <1>1, <1>a, ConcatProperties
<1>4. /\ y \in Seq(S) /\ Len(y) = Len(s) + Len(t)
      /\ \A i \in 1 .. Len(s) + Len(t) :
           y[i] = IF i <= Len(s) THEN s[i] ELSE t[i - Len(s)]
  BY ConcatProperties
<1>5. /\ Len(s) \in Nat /\ Len(t) \in Nat /\ Len(a) = Len(s) + 1
      /\ \A i \in 1 .. Len(s) : a[i] = s[i]
      /\ a[Len(s) + 1] = h
  BY <1>2 DEF a
<1> HIDE DEF x, y
<1>6. Len(x) = Len(y)
  BY <1>1, <1>3, <1>4, <1>5
<1>7. ASSUME NEW i \in 1 .. Len(x) PROVE x[i] = y[i]
  <2>1. CASE i <= Len(s)
    <3>1. x[i] = a[i] /\ a[i] = s[i]
      BY <1>1, <1>3, <1>5, <2>1
    <3>2. y[i] = s[i]
      BY <1>3, <1>4, <1>5, <1>6, <2>1
    <3> QED
      BY <3>1, <3>2
  <2>2. CASE i = Len(s) + 1
    <3>1. x[i] = h
      BY <1>1, <1>3, <1>5, <2>2
    <3>2. y[i] = t[1]
      BY <1>1, <1>3, <1>4, <1>5, <1>6, <2>2
    <3> QED
      BY <1>1, <3>1, <3>2
  <2>3. CASE i > Len(s) + 1
    <3>1. x[i] = r[i - (Len(s) + 1)] /\ i - (Len(s) + 1) \in 1 .. Len(r)
      BY <1>1, <1>3, <1>5, <2>3
    <3>2. r[i - (Len(s) + 1)] = t[i - (Len(s) + 1) + 1]
      BY <1>1, <3>1
    <3>3. y[i] = t[i - Len(s)] /\ i - (Len(s) + 1) + 1 = i - Len(s)
      BY <1>1, <1>3, <1>4, <1>5, <1>6, <2>3
    <3> QED
      BY <3>1, <3>2, <3>3
  <2> QED
    BY <1>3, <1>5, <2>1, <2>2, <2>3
<1>8. x = y
  BY <1>3, <1>4, <1>6, <1>7, SeqEqual
<1> QED
  BY <1>8 DEF x, y, a, h, r

-----------------------------------------------------------------------------
(* Pieces of a stream whose frame marks are lo, lo + 1, ..., hi *)

Run(s, lo, hi) ==
  /\ \A i \in 1 .. Len(s) : s[i].type = "frame" => s[i].val \in lo .. hi
  /\ \A i, j \in 1 .. Len(s) :
       i < j /\ s[i].type = "frame" /\ s[j].type = "frame" =>
         s[i].val < s[j].val
  /\ \A v \in lo .. hi : \E i \in 1 .. Len(s) : s[i] = FrameMsg(v)

LEMMA MarkIs ==
  /\ \A v : FrameMsg(v).type = "frame" /\ FrameMsg(v).val = v
  /\ \A m \in DownMessages : m.type = "frame" =>
       m.val \in Nat /\ m = FrameMsg(m.val)
BY DEF FrameMsg, Msg, DownMessages, LogMessages, ErrorMsg

LEMMA RunNone == \A lo, hi \in Nat : lo > hi => Run(<< >>, lo, hi)
BY DEF Run

\* A message that is no mark changes nothing.
LEMMA RunOther ==
  ASSUME NEW S, NEW s \in Seq(S), NEW lo \in Nat, NEW hi \in Nat,
         Run(s, lo, hi), NEW m \in S, m.type # "frame"
  PROVE  Run(Append(s, m), lo, hi)
<1> DEFINE t == Append(s, m)
<1>1. /\ t \in Seq(S) /\ Len(t) = Len(s) + 1 /\ t[Len(s) + 1] = m
      /\ \A i \in 1 .. Len(s) : t[i] = s[i]
  BY AppendProperties
<1> HIDE DEF t
<1>2. \A i \in 1 .. Len(t) : t[i].type = "frame" =>
        i \in 1 .. Len(s) /\ t[i] = s[i]
  BY <1>1
<1>3. \A i \in 1 .. Len(s) : i \in 1 .. Len(t) /\ t[i] = s[i]
  BY <1>1
<1>4. Run(t, lo, hi)
  BY <1>2, <1>3 DEF Run
<1> QED
  BY <1>4 DEF t

\* The next mark.
LEMMA RunMark ==
  ASSUME NEW S, NEW s \in Seq(S), NEW lo \in Nat, NEW hi \in Nat,
         Run(s, lo, hi), lo <= hi + 1, FrameMsg(hi + 1) \in S
  PROVE  Run(Append(s, FrameMsg(hi + 1)), lo, hi + 1)
<1> DEFINE m == FrameMsg(hi + 1)
           t == Append(s, m)
<1>1. m \in S /\ m.type = "frame" /\ m.val = hi + 1
  BY MarkIs
<1>2. /\ t \in Seq(S) /\ Len(t) = Len(s) + 1 /\ t[Len(s) + 1] = m
      /\ \A i \in 1 .. Len(s) : t[i] = s[i]
  BY <1>1, AppendProperties
<1>a. m = FrameMsg(hi + 1)
  OBVIOUS
<1> HIDE DEF t, m
<1>3. \A i \in 1 .. Len(t) : \/ i \in 1 .. Len(s) /\ t[i] = s[i]
                             \/ i = Len(t) /\ t[i] = m
  BY <1>2
<1>4. \A i \in 1 .. Len(t) : t[i].type = "frame" => t[i].val \in lo .. hi + 1
  BY <1>1, <1>3 DEF Run
<1>5. ASSUME NEW i \in 1 .. Len(t), NEW j \in 1 .. Len(t),
             i < j, t[i].type = "frame", t[j].type = "frame"
      PROVE  t[i].val < t[j].val
  <2>1. i \in 1 .. Len(s) /\ t[i] = s[i]
    BY <1>2, <1>5
  <2>2. s[i].val \in lo .. hi
    BY <1>5, <2>1 DEF Run
  <2>3. CASE j \in 1 .. Len(s) /\ t[j] = s[j]
    BY <1>5, <2>1, <2>3 DEF Run
  <2>4. CASE t[j] = m
    BY <1>1, <2>1, <2>2, <2>4
  <2> QED
    BY <1>3, <2>3, <2>4
<1>6. ASSUME NEW v \in lo .. hi + 1
      PROVE  \E i \in 1 .. Len(t) : t[i] = FrameMsg(v)
  <2>1. CASE v = hi + 1
    <3>1. Len(t) \in 1 .. Len(t) /\ t[Len(t)] = m
      BY <1>2
    <3> QED
      BY <1>a, <2>1, <3>1
  <2>2. CASE v \in lo .. hi
    <3>1. PICK i \in 1 .. Len(s) : s[i] = FrameMsg(v)
      BY <2>2 DEF Run
    <3>2. i \in 1 .. Len(t) /\ t[i] = FrameMsg(v)
      BY <1>2, <3>1
    <3> QED
      BY <3>2
  <2> QED
    BY <2>1, <2>2
<1>7. Run(t, lo, hi + 1)
  BY <1>4, <1>5, <1>6 DEF Run
<1> QED
  BY <1>7 DEF t, m

\* Many messages that are no marks.
LEMMA RunJoin ==
  ASSUME NEW s \in Seq(DownMessages), NEW lo \in Nat, NEW hi \in Nat,
         Run(s, lo, hi), NEW r \in Seq(DownMessages),
         \A i \in 1 .. Len(r) : r[i].type # "frame"
  PROVE  Run(s \o r, lo, hi)
<1> DEFINE t == s \o r
<1>1. /\ t \in Seq(DownMessages) /\ Len(t) = Len(s) + Len(r)
      /\ \A i \in 1 .. Len(s) + Len(r) :
           t[i] = IF i <= Len(s) THEN s[i] ELSE r[i - Len(s)]
  BY ConcatProperties
<1>2. Len(s) \in Nat /\ Len(r) \in Nat
  OBVIOUS
<1> HIDE DEF t
<1>3. \A i \in 1 .. Len(t) : t[i].type = "frame" =>
        i \in 1 .. Len(s) /\ t[i] = s[i]
  BY <1>1, <1>2
<1>4. \A i \in 1 .. Len(s) : i \in 1 .. Len(t) /\ t[i] = s[i]
  BY <1>1, <1>2
<1>5. Run(t, lo, hi)
  BY <1>3, <1>4 DEF Run
<1> QED
  BY <1>5 DEF t

\* What comes first is taken.
LEMMA RunTake ==
  ASSUME NEW S, NEW s \in Seq(S), NEW lo \in Nat, NEW hi \in Nat,
         Run(s, lo, hi), s # << >>
  PROVE  /\ Head(s) \in S /\ Tail(s) \in Seq(S)
         /\ Head(s).type # "frame" => Run(Tail(s), lo, hi)
         /\ Head(s).type = "frame" => /\ lo <= hi /\ Head(s) = FrameMsg(lo)
                                      /\ Run(Tail(s), lo + 1, hi)
<1> DEFINE t == Tail(s)
<1>1. /\ Head(s) \in S /\ Head(s) = s[1] /\ 1 \in 1 .. Len(s)
      /\ t \in Seq(S) /\ Len(t) = Len(s) - 1
      /\ \A i \in 1 .. Len(t) : t[i] = s[i + 1]
  BY HeadTailProperties
<1>2. Len(s) \in Nat
  OBVIOUS
<1>a. \A i \in 1 .. Len(s) : s[i] \in S
  OBVIOUS
<1> HIDE DEF t
<1>3. \A i \in 1 .. Len(t) : i + 1 \in 1 .. Len(s) /\ t[i] = s[i + 1]
  BY <1>1, <1>2
<1>4. \A i \in 1 .. Len(s) : i # 1 => i - 1 \in 1 .. Len(t) /\ t[i - 1] = s[i]
  BY <1>1, <1>2
<1>5. \A i \in 1 .. Len(t) : t[i].type = "frame" => t[i].val \in lo .. hi
  BY <1>3 DEF Run
<1>6. ASSUME NEW i \in 1 .. Len(t), NEW j \in 1 .. Len(t), i < j,
             t[i].type = "frame", t[j].type = "frame"
      PROVE  t[i].val < t[j].val
  <2>1. i + 1 < j + 1
    BY <1>6
  <2> QED
    BY <1>3, <1>6, <2>1 DEF Run
<1>7. ASSUME Head(s).type # "frame" PROVE Run(t, lo, hi)
  <2>1. ASSUME NEW v \in lo .. hi
        PROVE  \E i \in 1 .. Len(t) : t[i] = FrameMsg(v)
    <3>1. PICK i \in 1 .. Len(s) : s[i] = FrameMsg(v)
      BY DEF Run
    <3>2. i # 1
      BY <1>1, <1>7, <3>1, MarkIs
    <3> QED
      BY <1>4, <3>1, <3>2
  <2> QED
    BY <1>5, <1>6, <2>1 DEF Run
<1>8. ASSUME Head(s).type = "frame"
      PROVE  lo <= hi /\ Head(s) = FrameMsg(lo) /\ Run(t, lo + 1, hi)
  <2>1. s[1].type = "frame" /\ s[1].val \in lo .. hi /\ lo <= hi
    BY <1>1, <1>8 DEF Run
  <2>2. PICK k \in 1 .. Len(s) : s[k] = FrameMsg(lo)
    BY <2>1 DEF Run
  <2>3. s[k].type = "frame" /\ s[k].val = lo
    BY <2>2, MarkIs
  <2>4. k = 1
    <3>1. ASSUME k # 1 PROVE FALSE
      <4>1. 1 < k
        BY <3>1, <1>2
      <4>2. s[1].val < s[k].val
        BY <1>1, <2>1, <2>3, <4>1 DEF Run
      <4> QED
        BY <2>1, <2>3, <4>2
    <3> QED
      BY <3>1
  <2>5. ASSUME NEW i \in 1 .. Len(t), t[i].type = "frame"
        PROVE  t[i].val \in lo + 1 .. hi
    <3>1. i + 1 \in 1 .. Len(s) /\ 1 < i + 1 /\ t[i] = s[i + 1]
      BY <1>3
    <3>2. s[1].val < s[i + 1].val
      BY <1>1, <2>1, <2>5, <3>1 DEF Run
    <3> QED
      BY <1>5, <2>3, <2>4, <2>5, <3>1, <3>2
  <2>6. ASSUME NEW v \in lo + 1 .. hi
        PROVE  \E i \in 1 .. Len(t) : t[i] = FrameMsg(v)
    <3>1. v \in lo .. hi /\ v # lo
      OBVIOUS
    <3>2. PICK i \in 1 .. Len(s) : s[i] = FrameMsg(v)
      BY <3>1 DEF Run
    <3>3. i # 1
      BY <2>3, <2>4, <3>1, <3>2, MarkIs
    <3> QED
      BY <1>4, <3>2, <3>3
  <2>7. Run(t, lo + 1, hi)
    BY <1>6, <2>5, <2>6 DEF Run
  <2> QED
    BY <1>1, <2>1, <2>2, <2>4, <2>7
<1> QED
  BY <1>1, <1>7, <1>8 DEF t

-----------------------------------------------------------------------------
(* Frame marks on their way to a player *)

Live(p) == epc[p] \in {"enter", "wait", "check", "ack", "drain"}

\* The mark that ends the frame the player is to drain next, and the last one
\* its receive thread has taken.
NextMark(p) == IF epc[p] = "enter" THEN eframe[p] + 1 ELSE eframe[p]
Received(p) == IF hand[p] # 0 THEN hand[p] ELSE gframe[p]

\* A player has applied all marks before the next, the queue holds those from
\* it to the last received, and it drains only what it was signalled.
QueueInOrder(p) ==
  /\ epc[p] # "failed"
  /\ hand[p] # 0 => hand[p] = gframe[p] + 1
  /\ Live(p) => /\ NextMark(p) <= Received(p) + 1
                /\ Run(queue[p], NextMark(p), Received(p))
                /\ Run(applied[p], 1, NextMark(p) - 1)
                /\ Len(sums[p]) = IF epc[p] \in {"wait", "check"}
                                  THEN eframe[p] - 1 ELSE eframe[p]
                /\ epc[p] # "enter" => eframe[p] > 0
  /\ epc[p] \in {"check", "ack", "drain"} => eframe[p] <= gframe[p]

LoopOver == gpc \in {"raised", "stopped"}

\* The connection holds the marks after those, up to the server's frame unless
\* the game is coming to its end.
DownInOrder(p) ==
  \E last \in Received(p) .. frame :
    /\ ~LoopOver => last = frame
    /\ Run(down[p], Received(p) + 1, last)

\* The log holds all, and a mark is never left in a buffer.
LogInOrder ==
  /\ Run(log, 1, frame)
  /\ \A p \in Players : \A i \in 1 .. Len(messages[p]) :
       messages[p][i].type # "frame"

OrderInv == /\ LogInOrder
            /\ \A p \in Players : QueueInOrder(p) /\ DownInOrder(p)

LEMMA OrderInit == Init => OrderInv
<1> SUFFICES ASSUME Init PROVE OrderInv
  OBVIOUS
<1> USE DEF Init, LinkInit, ServerInit, ClientInit
<1>1. LogInOrder
  BY RunNone DEF LogInOrder
<1>2. ASSUME NEW p \in Players PROVE QueueInOrder(p)
  <2>1. NextMark(p) = 1 /\ Received(p) = 0 /\ hand[p] = 0
    BY DEF NextMark, Received
  <2>2. Run(queue[p], 1, 0) /\ Run(applied[p], 1, 0)
    BY RunNone
  <2> QED
    BY <2>1, <2>2 DEF QueueInOrder
<1>3. ASSUME NEW p \in Players PROVE DownInOrder(p)
  <2>1. Received(p) = 0 /\ frame = 0 /\ Run(down[p], 1, 0)
    BY RunNone DEF Received
  <2> QED
    BY <2>1 DEF DownInOrder
<1> QED
  BY <1>1, <1>2, <1>3 DEF OrderInv

LEMMA OrderTypes ==
  ASSUME TypeOK, NEW p \in Players
  PROVE  /\ NextMark(p) \in Nat /\ Received(p) \in Nat /\ frame \in Nat
         /\ eframe[p] \in Nat /\ gframe[p] \in Nat /\ hand[p] \in Nat
         /\ down[p] \in Seq(DownMessages)
         /\ queue[p] \in Seq(LogMessages) /\ queue[p] \in Seq(DownMessages)
         /\ applied[p] \in Seq(LogMessages)
         /\ applied[p] \in Seq(DownMessages)
         /\ messages[p] \in Seq(LogMessages)
         /\ messages[p] \in Seq(DownMessages)
         /\ log \in Seq(LogMessages) /\ log \in Seq(DownMessages)
<1>1. /\ eframe[p] \in Nat /\ gframe[p] \in Nat /\ hand[p] \in Nat
      /\ frame \in Nat /\ down[p] \in Seq(DownMessages)
      /\ queue[p] \in Seq(LogMessages) /\ applied[p] \in Seq(LogMessages)
      /\ messages[p] \in Seq(LogMessages) /\ log \in Seq(LogMessages)
  BY DEF TypeOK, LinkTypeOK, LoopTypeOK, EmuTypeOK, RecvrTypeOK, CastTypeOK
<1>2. NextMark(p) \in Nat /\ Received(p) \in Nat
  BY <1>1 DEF NextMark, Received
<1> QED
  BY <1>1, <1>2, LogSeqIsDownSeq

-----------------------------------------------------------------------------
(* Steps of the server *)

\* A broadcast puts what was waiting and the message on the wire, or neither.
LEMMA SentInOrder ==
  ASSUME TypeOK, LogInOrder, NEW m \in LogMessages, NEW force \in BOOLEAN,
         NEW cut \in 0 .. NumClients, SendToClients(m, force, cut),
         NEW p \in Players, NEW lo \in Nat, NEW hi \in Nat,
         Run(down[p], lo, hi), lo <= hi + 1
  PROVE  /\ m.type # "frame" => Run(down'[p], lo, hi)
         /\ m = FrameMsg(hi + 1) /\ p < cut /\ force
              => Run(down'[p], lo, hi + 1)
         /\ p >= cut => Run(down'[p], lo, hi)
<1> DEFINE w == messages[p]
           d == down[p] \o w
<1>1. /\ down[p] \in Seq(DownMessages) /\ w \in Seq(DownMessages)
      /\ m \in DownMessages /\ \A i \in 1 .. Len(w) : w[i].type # "frame"
      /\ m.type = "frame" \/ m.type # "frame"
  BY OrderTypes, MsgTypes DEF LogInOrder
<1>2. d \in Seq(DownMessages) /\ Run(d, lo, hi)
  <2> HIDE DEF w
  <2> QED
    BY <1>1, RunJoin, ConcatProperties
<1>3. down[p] \o Append(w, m) = Append(d, m)
  <2>1. /\ down[p] \in Seq(DownMessages) /\ w \in Seq(DownMessages)
        /\ m \in DownMessages
    BY <1>1
  <2> DEFINE e == down[p]
  <2>2. e \in Seq(DownMessages)
    BY <2>1
  <2> HIDE DEF w, e
  <2>3. e \o Append(w, m) = Append(e \o w, m)
    BY <2>1, <2>2, JoinAppend
  <2> QED
    BY <2>3 DEF e
<1> HIDE DEF d
<1>4. down'[p] = IF p < cut /\ Flushes(p, force) THEN Append(d, m)
                 ELSE down[p]
  BY <1>3 DEF SendToClients, Written
<1> HIDE DEF w
<1>5. m.type # "frame" => Run(Append(d, m), lo, hi)
  BY <1>1, <1>2, RunOther
<1>6. m = FrameMsg(hi + 1) => Run(Append(d, m), lo, hi + 1)
  BY <1>1, <1>2, RunMark
<1>7. force => Flushes(p, force)
  BY DEF Flushes
<1>8. cut \in Nat /\ p \in Nat
  BY NumClientsAssumption DEF Players
<1>9. CASE p < cut /\ Flushes(p, force)
  BY <1>4, <1>5, <1>6, <1>8, <1>9
<1>10. CASE ~(p < cut /\ Flushes(p, force))
  BY <1>4, <1>7, <1>8, <1>10
<1> QED
  BY <1>9, <1>10

\* The marks of the log, and the buffers without.
LEMMA LoggedInOrder ==
  ASSUME TypeOK, LogInOrder, NEW m \in LogMessages, NEW force \in BOOLEAN,
         NEW cut \in 0 .. NumClients, SendToClients(m, force, cut),
         \/ m.type # "frame" /\ frame' = frame
         \/ m = FrameMsg(frame + 1) /\ force /\ frame' = frame + 1
  PROVE  LogInOrder'
<1>1. /\ frame \in Nat /\ log \in Seq(DownMessages) /\ m \in DownMessages
      /\ 1 \in Nat /\ 1 <= frame + 1
  BY MsgTypes, LogSeqIsDownSeq DEF TypeOK, LoopTypeOK, CastTypeOK
<1>2. Run(log', 1, frame')
  <2>1. log' = Append(log, m) /\ Run(log, 1, frame)
    BY DEF LogInOrder, SendToClients
  <2>2. CASE m.type # "frame" /\ frame' = frame
    BY <1>1, <2>1, <2>2, RunOther
  <2>3. CASE m = FrameMsg(frame + 1) /\ frame' = frame + 1
    BY <1>1, <2>1, <2>3, RunMark
  <2> QED
    BY <2>2, <2>3
<1>3. ASSUME NEW p \in Players, NEW i \in 1 .. Len(messages'[p])
      PROVE  messages'[p][i].type # "frame"
  <2>1. /\ messages[p] \in Seq(LogMessages)
        /\ \A j \in 1 .. Len(messages[p]) : messages[p][j].type # "frame"
    BY OrderTypes DEF LogInOrder
  <2>2. \/ messages'[p] = messages[p] \/ messages'[p] = << >>
        \/ messages'[p] = Append(messages[p], m) /\ ~force
    BY DEF SendToClients, Flushes
  <2>3. ASSUME messages'[p] = Append(messages[p], m), ~force
        PROVE  messages'[p][i].type # "frame"
    <3>1. m.type # "frame"
      BY <2>3
    <3>2. /\ Len(messages'[p]) = Len(messages[p]) + 1
          /\ \A j \in 1 .. Len(messages[p]) : messages'[p][j] = messages[p][j]
          /\ messages'[p][Len(messages[p]) + 1] = m
      BY <2>1, <2>3, AppendProperties
    <3>3. i \in 1 .. Len(messages[p]) \/ i = Len(messages[p]) + 1
      BY <2>1, <3>2
    <3> QED
      BY <2>1, <3>1, <3>2, <3>3
  <2> QED
    BY <2>1, <2>2, <2>3
<1> QED
  BY <1>2, <1>3 DEF LogInOrder

LEMMA ServerOrder ==
  ASSUME TypeOK, OrderInv, ServerNext, UNCHANGED clientVars
  PROVE  OrderInv'
<1>a. \A p \in Players : /\ QueueInOrder(p)' /\ Received(p)' = Received(p)
  BY DEF OrderInv, QueueInOrder, Live, NextMark, Received, clientVars, emuVars,
         recvrVars
<1>b. LogInOrder /\ frame \in Nat
  BY DEF OrderInv, TypeOK, LoopTypeOK
<1>c. ASSUME NEW p \in Players
      PROVE  \E lo, last \in Nat :
               /\ lo = Received(p) + 1 /\ lo <= last + 1 /\ last <= frame
               /\ ~LoopOver => last = frame
               /\ Run(down[p], lo, last)
  <2>1. PICK last \in Received(p) .. frame :
               /\ ~LoopOver => last = frame
               /\ Run(down[p], Received(p) + 1, last)
    BY DEF OrderInv, DownInOrder
  <2>2. Received(p) \in Nat /\ last \in Nat
    BY <1>b, OrderTypes
  <2> QED
    BY <2>1, <2>2
\* ... and so afterwards.
<1>d. ASSUME NEW p \in Players, NEW last \in Nat, frame' \in Nat,
             Received(p) + 1 <= last + 1, last <= frame',
             ~LoopOver' => last = frame',
             Run(down'[p], Received(p) + 1, last)
      PROVE  DownInOrder(p)'
  <2>1. Received(p) \in Nat /\ last \in Received(p) .. frame'
    BY <1>d, OrderTypes
  <2> QED
    BY <1>a, <1>d, <2>1 DEF DownInOrder
<1>1. CASE Tick
  <2>1. PICK cut \in 0 .. NumClients :
          /\ SendToClients(FrameMsg(frame + 1), TRUE, cut)
          /\ IF cut = NumClients THEN gpc' = "scan" ELSE gpc' = "raised"
    BY <1>1 DEF Tick
  <2>2. frame' = frame + 1 /\ gpc = "tick" /\ FrameMsg(frame + 1) \in LogMessages
    BY <1>1, <1>b, MsgTypes DEF Tick
  <2>3. LogInOrder'
    BY <1>b, <2>1, <2>2, LoggedInOrder
  <2>4. ASSUME NEW p \in Players PROVE DownInOrder(p)'
    <3>1. PICK lo, last \in Nat :
            /\ lo = Received(p) + 1 /\ lo <= last + 1 /\ last = frame
            /\ Run(down[p], lo, last)
      BY <1>c, <2>2 DEF LoopOver
    <3>2. /\ p < cut => Run(down'[p], lo, last + 1)
          /\ p >= cut => Run(down'[p], lo, last)
      BY <1>b, <2>1, <2>2, <3>1, SentInOrder
    <3>3. p < cut \/ (p >= cut /\ LoopOver')
      <4>1. p < cut \/ (p >= cut /\ cut # NumClients)
        BY NumClientsAssumption DEF Players
      <4> QED
        BY <2>1, <4>1 DEF LoopOver
    <3>4. CASE p < cut
      BY <1>b, <1>d, <2>2, <3>1, <3>2, <3>4
    <3>5. CASE p >= cut /\ LoopOver'
      BY <1>b, <1>d, <2>2, <3>1, <3>2, <3>5
    <3> QED
      BY <3>3, <3>4, <3>5
  <2> QED
    BY <1>a, <2>3, <2>4 DEF OrderInv
<1>2. ASSUME NEW p \in Players, ReceiveInput(p) PROVE OrderInv'
  <2>1. PICK cut \in 0 .. NumClients : SendToClients(Head(up[p]), FALSE, cut)
    BY <1>2 DEF ReceiveInput
  <2>2. Head(up[p]) \in LogMessages /\ Head(up[p]).type # "frame"
    <3>1. up[p] \in Seq(UpMessages) /\ up[p] # << >> /\ Head(up[p]).type = "input"
      BY <1>2 DEF ReceiveInput, TypeOK, LinkTypeOK
    <3> QED
      BY <3>1, MsgTypes, HeadTailProperties
  <2>3. UNCHANGED <<frame, gpc>>
    BY <1>2 DEF ReceiveInput, loopVars
  <2>4. LogInOrder'
    BY <1>b, <2>1, <2>2, <2>3, LoggedInOrder
  <2>5. ASSUME NEW q \in Players PROVE DownInOrder(q)'
    <3>1. PICK lo, last \in Nat :
               /\ lo = Received(q) + 1 /\ lo <= last + 1 /\ last <= frame
               /\ ~LoopOver => last = frame
               /\ Run(down[q], lo, last)
      BY <1>c
    <3>2. Run(down'[q], lo, last)
      BY <1>b, <2>1, <2>2, <3>1, SentInOrder
    <3>3. LoopOver' = LoopOver
      BY <2>3 DEF LoopOver
    <3> QED
      BY <1>b, <1>d, <2>3, <3>1, <3>2, <3>3
  <2> QED
    BY <1>a, <2>4, <2>5 DEF OrderInv
<1>3. CASE CheckFailed \/ StopGame
  <2>1. UNCHANGED <<log, frame>> /\ LoopOver'
    BY <1>3 DEF CheckFailed, StopGame, LoopOver, castVars
  <2>2. \A p \in Players : messages'[p] = messages[p] \/ messages'[p] = << >>
    BY <1>3 DEF CheckFailed, StopGame, castVars
  <2>3. LogInOrder'
    BY <1>b, <2>1, <2>2 DEF LogInOrder
  <2>4. ASSUME NEW p \in Players PROVE DownInOrder(p)'
    <3>1. PICK lo, last \in Nat :
               /\ lo = Received(p) + 1 /\ lo <= last + 1 /\ last <= frame
               /\ Run(down[p], lo, last)
      BY <1>c
    <3>2. /\ down[p] \in Seq(DownMessages) /\ messages[p] \in Seq(DownMessages)
          /\ ErrorMsg \in DownMessages /\ ErrorMsg.type # "frame"
          /\ \A i \in 1 .. Len(messages[p]) : messages[p][i].type # "frame"
      BY <1>b, OrderTypes, MsgTypes DEF LogInOrder, ErrorMsg, Msg
    <3>3. /\ Append(down[p], ErrorMsg) \in Seq(DownMessages)
          /\ Run(Append(down[p], ErrorMsg), lo, last)
      BY <3>1, <3>2, RunOther
    <3>4. Run(Append(down[p], ErrorMsg) \o messages[p], lo, last)
      BY <3>1, <3>2, <3>3, RunJoin
    <3>5. \/ down'[p] = down[p] \/ down'[p] = Append(down[p], ErrorMsg)
          \/ down'[p] = Append(down[p], ErrorMsg) \o messages[p]
      BY <1>3 DEF CheckFailed, StopGame
    <3>6. Run(down'[p], lo, last)
      BY <3>1, <3>3, <3>4, <3>5
    <3> QED
      BY <1>b, <1>d, <2>1, <3>1, <3>6
  <2> QED
    BY <1>a, <2>3, <2>4 DEF OrderInv
<1>4. ASSUME UNCHANGED <<log, frame, messages, down>>, LoopOver => LoopOver'
      PROVE  OrderInv'
  <2>1. LogInOrder'
    BY <1>4, <1>b DEF LogInOrder
  <2>2. ASSUME NEW p \in Players PROVE DownInOrder(p)'
    <3>1. PICK lo, last \in Nat :
               /\ lo = Received(p) + 1 /\ lo <= last + 1 /\ last <= frame
               /\ ~LoopOver => last = frame
               /\ Run(down[p], lo, last)
      BY <1>c
    <3> QED
      BY <1>4, <1>b, <1>d, <3>1
  <2> QED
    BY <1>a, <2>1, <2>2 DEF OrderInv
<1>5. CASE \/ NextIteration \/ ScanClient \/ CannotCheckYet \/ CollectCheck
           \/ CheckPassed \/ Rescan \/ RescanClient \/ LoopRaised \/ Interrupt
  <2>1. UNCHANGED <<log, frame, messages, down>>
    BY <1>5 DEF NextIteration, ScanClient, CannotCheckYet, CollectCheck,
       CheckPassed, Rescan, RescanClient, LoopRaised, Interrupt, Scan,
       loopVars, castVars, linkVars
  <2>2. LoopOver => LoopOver'
    BY <1>5 DEF NextIteration, ScanClient, CannotCheckYet, CollectCheck,
       CheckPassed, Rescan, RescanClient, LoopRaised, Interrupt, LoopOver,
       loopVars
  <2> QED
    BY <1>4, <2>1, <2>2
<1>6. ASSUME NEW p \in Players,
             ReceiveCheck(p) \/ ReceiveFrame(p) \/ ReceiverEnds(p)
      PROVE  OrderInv'
  <2>1. UNCHANGED <<log, frame, messages, down, gpc>>
    BY <1>6 DEF ReceiveCheck, ReceiveFrame, ReceiverEnds, loopVars, castVars
  <2> QED
    BY <1>4, <2>1 DEF LoopOver
<1> QED
  BY <1>1, <1>2, <1>3, <1>5, <1>6 DEF ServerNext, GameLoop, Receiver

-----------------------------------------------------------------------------
(* Steps of the emulators *)

EmulatorSteps(p) == \/ ReceiveThread(p) \/ EmuThread(p) \/ Ends(p) \/ Diverge(p)
                    \/ \E e \in Events : SendInput(p, e)

\* A player's step leaves the others alone.
LEMMA OthersKeep ==
  ASSUME TypeOK, NEW p \in Players, EmulatorSteps(p), NEW q \in Players, q # p
  PROVE  /\ epc'[q] = epc[q] /\ eframe'[q] = eframe[q]
         /\ gframe'[q] = gframe[q] /\ hand'[q] = hand[q]
         /\ queue'[q] = queue[q] /\ applied'[q] = applied[q]
         /\ sums'[q] = sums[q] /\ down'[q] = down[q]
<1> USE DEF emuVars, recvrVars, linkVars, clientVars
<1>1. CASE ReceiveThread(p)
  BY <1>1 DEF ReceiveThread, RecvInput, RecvFrame, SignalFrame, RecvError,
     RecvFails, Incoming, TypeOK, LinkTypeOK, EmuTypeOK, RecvrTypeOK
<1>2. CASE EmuThread(p)
  <2>1. CASE EmuEnter(p) \/ EmuWake(p) \/ EmuCheck(p) \/ EmuAck(p)
    BY <2>1 DEF EmuEnter, EmuWake, EmuCheck, EmuAck, Goto, TypeOK, EmuTypeOK
  <2>2. CASE EmuDrain(p)
    BY <2>2 DEF EmuDrain, Goto, TypeOK, EmuTypeOK, RecvrTypeOK
  <2> QED
    BY <1>2, <2>1, <2>2 DEF EmuThread
<1>3. CASE Ends(p)
  BY <1>3 DEF Ends, TypeOK, EmuTypeOK
<1>4. CASE Diverge(p)
  BY <1>4 DEF Diverge
<1>5. CASE \E e \in Events : SendInput(p, e)
  BY <1>5 DEF SendInput
<1> QED
  BY <1>1, <1>2, <1>3, <1>4, <1>5 DEF EmulatorSteps

\* What holds of the connection after a mark or another message was taken.
LEMMA TakeInOrder ==
  ASSUME TypeOK, OrderInv, NEW p \in Players, down[p] # << >>,
         hand[p] = 0
  PROVE  /\ Head(down[p]) \in DownMessages
         /\ Head(down[p]).type # "frame" =>
              \E last \in Received(p) .. frame :
                /\ ~LoopOver => last = frame
                /\ Run(Tail(down[p]), Received(p) + 1, last)
         /\ Head(down[p]).type = "frame" =>
              /\ Head(down[p]) = FrameMsg(gframe[p] + 1)
              /\ \E last \in gframe[p] + 1 .. frame :
                   /\ ~LoopOver => last = frame
                   /\ Run(Tail(down[p]), gframe[p] + 2, last)
<1>1. PICK last \in Received(p) .. frame :
        /\ ~LoopOver => last = frame
        /\ Run(down[p], Received(p) + 1, last)
  BY DEF OrderInv, DownInOrder
<1>2. /\ Received(p) \in Nat /\ last \in Nat /\ down[p] \in Seq(DownMessages)
      /\ Received(p) = gframe[p] /\ gframe[p] \in Nat /\ frame \in Nat
  <2>1. Received(p) \in Nat /\ frame \in Nat /\ down[p] \in Seq(DownMessages)
    BY OrderTypes
  <2> QED
    BY <2>1 DEF Received
<1> DEFINE lo == gframe[p] + 1
<1>3. lo \in Nat /\ Run(down[p], lo, last)
  BY <1>1, <1>2
<1>4. lo + 1 = gframe[p] + 2 /\ (lo <= last => last \in gframe[p] + 1 .. frame)
  BY <1>1, <1>2
<1> HIDE DEF lo
<1>5. /\ Head(down[p]) \in DownMessages
      /\ Head(down[p]).type # "frame" => Run(Tail(down[p]), lo, last)
      /\ Head(down[p]).type = "frame" => /\ lo <= last
                                         /\ Head(down[p]) = FrameMsg(lo)
                                         /\ Run(Tail(down[p]), lo + 1, last)
  BY <1>2, <1>3, RunTake
<1> QED
  BY <1>1, <1>2, <1>4, <1>5 DEF lo

\* The receive thread queues a mark before it tells the emulation thread.
LEMMA ReceiveOrder ==
  ASSUME TypeOK, OrderInv, NEW p \in Players, ReceiveThread(p),
         UNCHANGED serverVars
  PROVE  QueueInOrder(p)' /\ DownInOrder(p)'
<1>a. /\ QueueInOrder(p) /\ DownInOrder(p)
      /\ epc'[p] = epc[p] /\ eframe'[p] = eframe[p]
      /\ applied'[p] = applied[p] /\ sums'[p] = sums[p]
      /\ frame' = frame /\ LoopOver' = LoopOver /\ NextMark(p)' = NextMark(p)
  BY DEF ReceiveThread, RecvInput, RecvFrame, SignalFrame, RecvError, RecvFails,
     emuVars, serverVars, loopVars, LoopOver, NextMark, OrderInv, clientVars
<1>b. /\ NextMark(p) \in Nat /\ Received(p) \in Nat /\ gframe[p] \in Nat
      /\ queue[p] \in Seq(DownMessages) /\ hand[p] \in Nat /\ eframe[p] \in Nat
  BY OrderTypes
<1>1. CASE RecvInput(p)
  <2>1. /\ down[p] # << >> /\ Head(down[p]).type = "input" /\ hand[p] = 0
        /\ down'[p] = Tail(down[p])
        /\ queue'[p] = Append(queue[p], Head(down[p]))
        /\ gframe' = gframe /\ hand' = hand
    BY <1>1 DEF RecvInput, Incoming, recvrVars, TypeOK, LinkTypeOK, RecvrTypeOK
  <2>2. Received(p)' = Received(p)
    BY <2>1 DEF Received
  <2>3. Head(down[p]) \in DownMessages /\ Head(down[p]).type # "frame"
    BY <2>1, TakeInOrder
  <2>4. DownInOrder(p)'
    BY <1>a, <2>1, <2>2, <2>3, TakeInOrder DEF DownInOrder
  <2>5. Live(p) => Run(queue'[p], NextMark(p), Received(p))
    BY <1>a, <1>b, <2>1, <2>3, RunOther DEF QueueInOrder
  <2>6. QueueInOrder(p)'
    BY <1>a, <2>1, <2>2, <2>5 DEF QueueInOrder, Live
  <2> QED
    BY <2>4, <2>6
<1>2. CASE RecvFrame(p)
  <2>1. /\ down[p] # << >> /\ Head(down[p]).type = "frame" /\ hand[p] = 0
        /\ down'[p] = Tail(down[p])
        /\ queue'[p] = Append(queue[p], Head(down[p]))
        /\ gframe' = gframe /\ hand'[p] = Head(down[p]).val
    BY <1>2 DEF RecvFrame, Incoming, TypeOK, LinkTypeOK, RecvrTypeOK
  <2>2. /\ Head(down[p]) = FrameMsg(gframe[p] + 1)
        /\ \E last \in gframe[p] + 1 .. frame :
             /\ ~LoopOver => last = frame
             /\ Run(down'[p], gframe[p] + 2, last)
    BY <2>1, TakeInOrder
  <2>3. hand'[p] = gframe[p] + 1 /\ hand'[p] # 0
    BY <1>b, <2>1, <2>2, MarkIs
  <2>4. /\ Received(p) = gframe[p] /\ Received(p)' = gframe[p] + 1
        /\ Received(p)' + 1 = gframe[p] + 2
    BY <1>b, <2>1, <2>3 DEF Received
  <2>5. DownInOrder(p)'
    BY <1>a, <2>2, <2>4 DEF DownInOrder
  <2>6. Live(p) => /\ Run(queue[p], NextMark(p), gframe[p])
                   /\ NextMark(p) <= gframe[p] + 1
    BY <1>a, <2>4 DEF QueueInOrder
  <2>7. Live(p) => Run(queue'[p], NextMark(p), gframe[p] + 1)
    <3>1. FrameMsg(gframe[p] + 1) \in DownMessages
      BY <1>b, MsgTypes
    <3> QED
      BY <1>b, <2>1, <2>2, <2>6, <3>1, RunMark
  <2>8. QueueInOrder(p)'
    BY <1>a, <1>b, <2>1, <2>3, <2>4, <2>6, <2>7 DEF QueueInOrder, Live
  <2> QED
    BY <2>5, <2>8
<1>3. CASE SignalFrame(p)
  <2>1. /\ hand[p] # 0 /\ gframe'[p] = hand[p] /\ hand'[p] = 0
        /\ down' = down /\ queue' = queue
    BY <1>3 DEF SignalFrame, linkVars, TypeOK, RecvrTypeOK
  <2>2. Received(p)' = Received(p)
    BY <2>1 DEF Received
  <2>3. DownInOrder(p)'
    BY <1>a, <2>1, <2>2 DEF DownInOrder
  <2>4. eframe[p] <= gframe[p] => eframe[p] <= gframe'[p]
    BY <1>a, <1>b, <2>1 DEF QueueInOrder
  <2>5. QueueInOrder(p)'
    BY <1>a, <2>1, <2>2, <2>4 DEF QueueInOrder, Live
  <2> QED
    BY <2>3, <2>5
<1>4. CASE RecvError(p)
  <2>1. /\ down[p] # << >> /\ Head(down[p]).type # "frame" /\ hand[p] = 0
        /\ down'[p] = Tail(down[p])
        /\ queue' = queue /\ gframe' = gframe /\ hand' = hand
    BY <1>4 DEF RecvError, Incoming, TypeOK, LinkTypeOK
  <2>2. Received(p)' = Received(p)
    BY <2>1 DEF Received
  <2>3. DownInOrder(p)'
    BY <1>a, <2>1, <2>2, TakeInOrder DEF DownInOrder
  <2>4. QueueInOrder(p)'
    BY <1>a, <2>1, <2>2 DEF QueueInOrder, Live
  <2> QED
    BY <2>3, <2>4
<1>5. CASE RecvFails(p)
  <2>1. UNCHANGED <<queue, gframe, hand, down>>
    BY <1>5 DEF RecvFails, linkVars
  <2>2. Received(p)' = Received(p)
    BY <2>1 DEF Received
  <2> QED
    BY <1>a, <2>1, <2>2 DEF QueueInOrder, Live, DownInOrder
<1> QED
  BY <1>1, <1>2, <1>3, <1>4, <1>5 DEF ReceiveThread

\* Draining meets the mark of the frame, and no other.
LEMMA DrainOrder ==
  ASSUME TypeOK, OrderInv, NEW p \in Players, epc[p] = "drain"
  PROVE  /\ queue[p] # << >>
         /\ Head(queue[p]) \in DownMessages
         /\ Tail(queue[p]) \in Seq(DownMessages)
         /\ Head(queue[p]).type # "frame" =>
              /\ Run(Tail(queue[p]), eframe[p], Received(p))
              /\ Run(Append(applied[p], Head(queue[p])), 1, eframe[p] - 1)
         /\ Head(queue[p]).type = "frame" =>
              /\ Head(queue[p]) = FrameMsg(eframe[p])
              /\ eframe[p] <= Received(p)
              /\ Run(Tail(queue[p]), eframe[p] + 1, Received(p))
              /\ Run(Append(applied[p], Head(queue[p])), 1, eframe[p])
<1>1. /\ eframe[p] \in Nat /\ eframe[p] > 0 /\ gframe[p] \in Nat
      /\ Received(p) \in Nat /\ NextMark(p) = eframe[p]
      /\ queue[p] \in Seq(DownMessages) /\ applied[p] \in Seq(DownMessages)
  BY OrderTypes DEF OrderInv, QueueInOrder, Live, NextMark
<1>2. /\ Run(queue[p], eframe[p], Received(p))
      /\ Run(applied[p], 1, eframe[p] - 1)
      /\ eframe[p] <= gframe[p]
  BY <1>1 DEF OrderInv, QueueInOrder, Live
<1>3. eframe[p] <= Received(p)
  BY <1>1, <1>2 DEF OrderInv, QueueInOrder, Received
<1>4. queue[p] # << >>
  <2>1. eframe[p] \in eframe[p] .. Received(p)
    BY <1>1, <1>3
  <2>2. \E i \in 1 .. Len(queue[p]) : TRUE
    BY <1>2, <2>1 DEF Run
  <2> QED
    BY <2>2
<1>5. /\ Head(queue[p]) \in DownMessages
      /\ Tail(queue[p]) \in Seq(DownMessages)
      /\ Head(queue[p]).type # "frame" =>
           Run(Tail(queue[p]), eframe[p], Received(p))
      /\ Head(queue[p]).type = "frame" =>
           /\ Head(queue[p]) = FrameMsg(eframe[p])
           /\ Run(Tail(queue[p]), eframe[p] + 1, Received(p))
  BY <1>1, <1>2, <1>4, RunTake
<1> DEFINE k == eframe[p] - 1
<1>6. k \in Nat /\ 1 \in Nat /\ 1 <= k + 1 /\ eframe[p] = k + 1
  BY <1>1
<1>7. Run(applied[p], 1, k)
  BY <1>2
<1> HIDE DEF k
<1>8. Head(queue[p]).type # "frame" =>
        Run(Append(applied[p], Head(queue[p])), 1, k)
  BY <1>1, <1>5, <1>6, <1>7, RunOther
<1>9. Head(queue[p]).type = "frame" =>
        Run(Append(applied[p], Head(queue[p])), 1, k + 1)
  BY <1>1, <1>5, <1>6, <1>7, RunMark
<1> QED
  BY <1>3, <1>4, <1>5, <1>6, <1>8, <1>9 DEF k

LEMMA EmulateOrder ==
  ASSUME TypeOK, OrderInv, NEW p \in Players, UNCHANGED serverVars,
         \/ EmuThread(p) \/ Ends(p) \/ Diverge(p)
         \/ \E e \in Events : SendInput(p, e)
  PROVE  QueueInOrder(p)' /\ DownInOrder(p)'
<1>a. /\ QueueInOrder(p) /\ DownInOrder(p) /\ epc \in [Players -> {"enter",
           "wait", "check", "ack", "drain", "offline", "failed", "gone"}]
      /\ eframe \in [Players -> Nat] /\ gframe[p] \in Nat
      /\ applied \in [Players -> Seq(LogMessages)]
      /\ queue \in [Players -> Seq(LogMessages)]
      /\ sums \in [Players -> Seq(Nat)]
  BY OrderTypes DEF OrderInv, TypeOK, EmuTypeOK, RecvrTypeOK
<1>b. UNCHANGED <<gframe, hand, down, frame>> /\ LoopOver' = LoopOver
  BY DEF EmuThread, EmuEnter, EmuWake, EmuCheck, EmuAck, EmuDrain, Ends, Diverge,
     SendInput, recvrVars, linkVars, serverVars, loopVars, LoopOver
<1>c. Received(p)' = Received(p) /\ DownInOrder(p)'
  BY <1>a, <1>b DEF Received, DownInOrder
<1>1. CASE EmuEnter(p)
  <2>1. /\ epc[p] = "enter" /\ epc'[p] \in {"wait", "offline"}
        /\ eframe'[p] = eframe[p] + 1
        /\ UNCHANGED <<applied, sums, queue>>
    BY <1>1, <1>a DEF EmuEnter, Goto
  <2>2. epc'[p] = "wait" => NextMark(p)' = NextMark(p)
    BY <2>1 DEF NextMark
  <2> QED
    BY <1>a, <1>b, <1>c, <2>1, <2>2 DEF QueueInOrder, Live
<1>2. CASE EmuWake(p)
  <2>1. /\ epc[p] = "wait" /\ UNCHANGED <<eframe, applied, sums, queue>>
        /\ \/ epc'[p] = "check" /\ gframe[p] >= eframe[p]
           \/ epc'[p] = "offline"
    BY <1>2, <1>a DEF EmuWake, Goto, Arrived
  <2>2. epc'[p] = "check" => NextMark(p)' = NextMark(p)
    BY <2>1 DEF NextMark
  <2> QED
    BY <1>a, <1>b, <1>c, <2>1, <2>2 DEF QueueInOrder, Live
<1>3. CASE EmuCheck(p)
  <2>1. /\ epc[p] = "check" /\ epc'[p] = "ack"
        /\ UNCHANGED <<eframe, applied, queue>>
        /\ sums'[p] = Append(sums[p], Checksum(p))
    BY <1>3, <1>a DEF EmuCheck, Goto
  <2>2. NextMark(p)' = NextMark(p)
    BY <2>1 DEF NextMark
  <2>3. Len(sums'[p]) = Len(sums[p]) + 1
    BY <1>a, <2>1
  <2> QED
    BY <1>a, <1>b, <1>c, <2>1, <2>2, <2>3 DEF QueueInOrder, Live
<1>4. CASE EmuAck(p)
  <2>1. /\ epc[p] = "ack" /\ epc'[p] = "drain"
        /\ UNCHANGED <<eframe, applied, sums, queue>>
    BY <1>4, <1>a DEF EmuAck, Goto
  <2>2. NextMark(p)' = NextMark(p)
    BY <2>1 DEF NextMark
  <2> QED
    BY <1>a, <1>b, <1>c, <2>1, <2>2 DEF QueueInOrder, Live
<1>5. CASE EmuDrain(p)
  <2>1. /\ epc[p] = "drain" /\ queue[p] # << >>
        /\ UNCHANGED <<eframe, sums>>
        /\ queue'[p] = Tail(queue[p])
        /\ applied'[p] = Append(applied[p], Head(queue[p]))
        /\ epc'[p] = CASE Head(queue[p]).type # "frame" -> "drain"
                       [] Head(queue[p]) = FrameMsg(eframe[p])  -> "enter"
                       [] OTHER                                 -> "failed"
    <3>1. epc[p] = "drain"
      BY <1>5 DEF EmuDrain, Goto
    <3>2. queue[p] # << >>
      BY <3>1, DrainOrder
    <3> QED
      BY <1>5, <1>a, <3>1, <3>2 DEF EmuDrain, Goto
  <2>2. CASE Head(queue[p]).type # "frame"
    <3>0. Head(queue[p]) # FrameMsg(eframe[p])
      BY <2>2, MarkIs
    <3>1. epc'[p] = "drain" /\ NextMark(p)' = NextMark(p)
      BY <2>1, <2>2, <3>0 DEF NextMark
    <3>2. /\ Run(queue'[p], eframe[p], Received(p))
          /\ Run(applied'[p], 1, eframe[p] - 1)
      BY <2>1, <2>2, DrainOrder
    <3>3. NextMark(p) = eframe[p]
      BY <2>1 DEF NextMark
    <3> QED
      BY <1>a, <1>b, <1>c, <2>1, <3>1, <3>2, <3>3 DEF QueueInOrder, Live
  <2>3. CASE Head(queue[p]).type = "frame"
    <3>1. /\ Head(queue[p]) = FrameMsg(eframe[p]) /\ eframe[p] <= Received(p)
          /\ Run(queue'[p], eframe[p] + 1, Received(p))
          /\ Run(applied'[p], 1, eframe[p])
      BY <2>1, <2>3, DrainOrder
    <3>2. epc'[p] = "enter"
      BY <2>1, <2>3, <3>1
    <3>3. NextMark(p)' = eframe[p] + 1 /\ eframe'[p] = eframe[p]
      BY <2>1, <3>2 DEF NextMark
    <3>4. /\ NextMark(p)' <= Received(p) + 1 /\ eframe[p] \in Nat
          /\ NextMark(p)' - 1 = eframe[p] /\ Len(sums[p]) = eframe[p]
      <4>1. eframe[p] \in Nat /\ Received(p) \in Nat
        BY OrderTypes
      <4>2. Len(sums[p]) = eframe[p]
        BY <1>a, <2>1 DEF QueueInOrder, Live
      <4> QED
        BY <3>1, <3>3, <4>1, <4>2
    <3> QED
      BY <1>a, <1>b, <1>c, <2>1, <3>1, <3>2, <3>3, <3>4
         DEF QueueInOrder, Live
  <2> QED
    BY <1>c, <2>2, <2>3
<1>6. CASE Ends(p)
  <2>1. epc'[p] = "gone" /\ UNCHANGED <<gframe, hand>>
    BY <1>6, <1>a DEF Ends
  <2> QED
    BY <1>a, <1>c, <2>1 DEF QueueInOrder, Live
<1>7. CASE Diverge(p) \/ \E e \in Events : SendInput(p, e)
  <2>1. UNCHANGED <<epc, eframe, applied, sums, queue>>
    BY <1>7 DEF Diverge, SendInput, emuVars
  <2>2. NextMark(p)' = NextMark(p)
    BY <2>1 DEF NextMark
  <2> QED
    BY <1>a, <1>b, <1>c, <2>1, <2>2 DEF QueueInOrder, Live
<1> QED
  BY <1>1, <1>2, <1>3, <1>4, <1>5, <1>6, <1>7 DEF EmuThread

LEMMA OrderStep == TypeOK /\ OrderInv /\ [Next]_vars => OrderInv'
<1> SUFFICES ASSUME TypeOK, OrderInv, [Next]_vars PROVE OrderInv'
  OBVIOUS
<1>1. CASE ServerNext /\ UNCHANGED clientVars
  BY <1>1, ServerOrder
<1>2. CASE ClientNext /\ UNCHANGED serverVars
  <2>1. PICK p \in Players : EmulatorSteps(p)
    BY <1>2 DEF ClientNext, Quit, BrokenPipe, EmulatorSteps
  <2>2. UNCHANGED <<log, frame, messages>> /\ LoopOver' = LoopOver
    BY <1>2 DEF serverVars, loopVars, castVars, LoopOver
  <2>3. LogInOrder'
    BY <2>2 DEF OrderInv, LogInOrder
  <2>4. QueueInOrder(p)' /\ DownInOrder(p)'
    BY <1>2, <2>1, ReceiveOrder, EmulateOrder DEF EmulatorSteps
  <2>5. ASSUME NEW q \in Players, q # p
        PROVE  QueueInOrder(q)' /\ DownInOrder(q)'
    <3>1. /\ epc'[q] = epc[q] /\ eframe'[q] = eframe[q]
          /\ gframe'[q] = gframe[q] /\ hand'[q] = hand[q]
          /\ queue'[q] = queue[q] /\ applied'[q] = applied[q]
          /\ sums'[q] = sums[q] /\ down'[q] = down[q]
      BY <2>1, <2>5, OthersKeep
    <3>2. NextMark(q)' = NextMark(q) /\ Received(q)' = Received(q)
      BY <3>1 DEF NextMark, Received
    <3>3. QueueInOrder(q) /\ DownInOrder(q)
      BY DEF OrderInv
    <3> QED
      BY <2>2, <3>1, <3>2, <3>3 DEF QueueInOrder, DownInOrder, Live
  <2> QED
    BY <2>3, <2>4, <2>5 DEF OrderInv
<1>3. CASE \/ (\E p \in Players : Reset(p)) /\ UNCHANGED <<serverVars, clientVars>>
           \/ UNCHANGED vars
  <2>1. UNCHANGED <<log, frame, messages, gpc, down, epc, eframe, gframe, hand,
                    queue, applied, sums>>
    BY <1>3 DEF Reset, vars, serverVars, loopVars, castVars, clientVars, emuVars,
       recvrVars, linkVars
  <2> QED
    BY <2>1 DEF OrderInv, LogInOrder, QueueInOrder, DownInOrder, Live, NextMark,
       Received, LoopOver
<1> QED
  BY <1>1, <1>2, <1>3 DEF Next

\* A player that drains its queue for a frame meets that frame's sentinel and
\* no other, and the exit marked "should not happen.." is never taken.
THEOREM SentinelsInStep == Spec => []SentinelInStep
<1>1. TypeOK /\ OrderInv => SentinelInStep
  <2> SUFFICES ASSUME TypeOK, OrderInv, NEW p \in Players
               PROVE  /\ epc[p] # "failed"
                      /\ epc[p] = "drain" =>
                           \E i \in 1 .. Len(queue[p]) :
                             /\ queue[p][i] = FrameMsg(eframe[p])
                             /\ \A j \in 1 .. i - 1 :
                                  queue[p][j].type # "frame"
    BY DEF SentinelInStep
  <2>1. epc[p] # "failed"
    BY DEF OrderInv, QueueInOrder
  <2>2. ASSUME epc[p] = "drain"
        PROVE  \E i \in 1 .. Len(queue[p]) :
                 /\ queue[p][i] = FrameMsg(eframe[p])
                 /\ \A j \in 1 .. i - 1 : queue[p][j].type # "frame"
    <3>1. /\ Run(queue[p], eframe[p], Received(p)) /\ eframe[p] \in Nat
          /\ eframe[p] <= Received(p) /\ Received(p) \in Nat
          /\ queue[p] \in Seq(DownMessages)
      BY <2>2, OrderTypes
         DEF OrderInv, QueueInOrder, Live, NextMark, Received
    <3>a. eframe[p] \in eframe[p] .. Received(p)
      BY <3>1
    <3>2. PICK i \in 1 .. Len(queue[p]) : queue[p][i] = FrameMsg(eframe[p])
      BY <3>1, <3>a, Zenon DEF Run
    <3>3. ASSUME NEW j \in 1 .. i - 1, queue[p][j].type = "frame" PROVE FALSE
      <4>1. j \in 1 .. Len(queue[p]) /\ j < i
        BY <3>1
      <4>2. queue[p][j].val < eframe[p]
        <5>1. queue[p][i].type = "frame" /\ queue[p][i].val = eframe[p]
          BY <3>2, MarkIs
        <5>2. \A k, l \in 1 .. Len(queue[p]) :
                k < l /\ queue[p][k].type = "frame" /\ queue[p][l].type = "frame"
                  => queue[p][k].val < queue[p][l].val
          BY <3>1, Zenon DEF Run
        <5> QED
          BY <3>3, <4>1, <5>1, <5>2
      <4>3. queue[p][j].val \in eframe[p] .. Received(p)
        BY <3>1, <3>3, <4>1 DEF Run
      <4> QED
        BY <3>1, <4>2, <4>3
    <3> QED
      BY <3>2, <3>3
  <2> QED
    BY <2>1, <2>2
<1> QED
  BY InitType, StepType, OrderInit, OrderStep, <1>1, PTL DEF Spec

HIDE NumClientsAssumption
HIDE ServerAssumption
HIDE ClientAssumption
HIDE ServerAssumption
HIDE ClientAssumption
HIDE ServerAssumption
HIDE NumClientsAssumption

-----------------------------------------------------------------------------
(* What a player has been sent, and the log *)

Stream(p) == (applied[p] \o queue[p]) \o down[p]

\* The first n messages of s are those of l.
Agrees(s, l, n) == n <= Len(l) /\ \A j \in 1 .. n : s[j] = l[j]

MarksAgree(s, l) ==
  \A i \in 1 .. Len(s) : s[i].type = "frame" => Agrees(s, l, i)

\* The server's errors come at the end of a game, and no mark after them.
ErrorsLast(p) ==
  /\ ~LoopOver => \A i \in 1 .. Len(down[p]) : down[p][i].type # "error"
  /\ \A i, j \in 1 .. Len(down[p]) :
       i < j /\ down[p][i].type = "error" => down[p][j].type # "frame"

\* A broadcast that is cut off at a player is lost to those after it, too.
NothingLost(p) == ~LoopOver /\ \A k \in 0 .. p : link[k] = "open"

\* Whatever precedes a frame mark is the log; what a broadcast that was cut off
\* has left out is followed by no mark.
Fed(p) == /\ Agrees(applied[p], log, Len(applied[p]))
          /\ MarksAgree(Stream(p), log)
          /\ NothingLost(p) => Stream(p) \o messages[p] = log
          /\ ErrorsLast(p)

FedInv == \A p \in Players : Fed(p)

LEMMA FedInit == Init => FedInv
<1> SUFFICES ASSUME Init, NEW p \in Players PROVE Fed(p)
  BY DEF FedInv
<1> USE DEF Init, LinkInit, ServerInit, ClientInit
<1>1. /\ applied[p] = << >> /\ queue[p] = << >> /\ down[p] = << >>
      /\ messages[p] = << >> /\ log = << >>
  OBVIOUS
<1>2. Stream(p) = << >> /\ Stream(p) \o messages[p] = log
  BY <1>1 DEF Stream
<1> QED
  BY <1>1, <1>2 DEF Fed, Agrees, MarksAgree, ErrorsLast

-----------------------------------------------------------------------------
(* Joining *)

LEMMA ThreeParts ==
  ASSUME NEW s \in Seq(DownMessages), NEW t \in Seq(DownMessages),
         NEW u \in Seq(DownMessages)
  PROVE  s \o (t \o u) = (s \o t) \o u
BY ConcatAssociative, SMTT(30)

LEMMA MarksJoin ==
  ASSUME NEW s \in Seq(DownMessages), NEW r \in Seq(DownMessages), NEW l,
         MarksAgree(s, l), \A i \in 1 .. Len(r) : r[i].type # "frame"
  PROVE  MarksAgree(s \o r, l)
<1> DEFINE t == s \o r
<1>1. /\ t \in Seq(DownMessages) /\ Len(t) = Len(s) + Len(r)
      /\ \A i \in 1 .. Len(s) + Len(r) :
           t[i] = IF i <= Len(s) THEN s[i] ELSE r[i - Len(s)]
      /\ Len(s) \in Nat /\ Len(r) \in Nat
  BY ConcatProperties
<1> HIDE DEF t
<1>2. SUFFICES ASSUME NEW i \in 1 .. Len(t), t[i].type = "frame"
               PROVE  Agrees(t, l, i)
  BY DEF MarksAgree, t
<1>3. i <= Len(s) /\ i \in 1 .. Len(s) /\ t[i] = s[i]
  BY <1>1, <1>2
<1>4. Agrees(s, l, i)
  BY <1>2, <1>3 DEF MarksAgree
<1>5. \A j \in 1 .. i : t[j] = s[j]
  BY <1>1, <1>3
<1> QED
  BY <1>4, <1>5 DEF Agrees

\* The log grows.
LEMMA LogGrows ==
  ASSUME NEW l \in Seq(DownMessages), NEW m \in DownMessages
  PROVE  /\ \A s : \A n \in Nat : Agrees(s, l, n) => Agrees(s, Append(l, m), n)
         /\ \A s : MarksAgree(s, l) => MarksAgree(s, Append(l, m))
         /\ MarksAgree(Append(l, m), Append(l, m))
<1> DEFINE g == Append(l, m)
<1>1. /\ g \in Seq(DownMessages) /\ Len(g) = Len(l) + 1
      /\ \A i \in 1 .. Len(l) : g[i] = l[i]
  BY AppendProperties
<1> HIDE DEF g
<1>2. ASSUME NEW s, NEW n \in Nat, Agrees(s, l, n) PROVE Agrees(s, g, n)
  <2>1. n <= Len(l) /\ n <= Len(g) /\ Len(l) \in Nat
    BY <1>1, <1>2 DEF Agrees
  <2> QED
    BY <1>1, <1>2, <2>1 DEF Agrees
<1>3. ASSUME NEW s, MarksAgree(s, l) PROVE MarksAgree(s, g)
  BY <1>2, <1>3 DEF MarksAgree
<1>4. MarksAgree(g, g)
  BY <1>1 DEF MarksAgree, Agrees
<1> QED
  BY <1>2, <1>3, <1>4 DEF g

LEMMA ErrorsJoin ==
  ASSUME TypeOK, NEW p \in Players, ErrorsLast(p), NEW r \in Seq(DownMessages),
         down'[p] = down[p] \o r, LoopOver => LoopOver',
         \/ LoopOver'
         \/ \A i \in 1 .. Len(r) : r[i].type # "error",
         \/ \A i \in 1 .. Len(r) : r[i].type # "frame"
         \/ ~LoopOver /\ \A i \in 1 .. Len(r) : r[i].type # "error"
  PROVE  ErrorsLast(p)'
<1> DEFINE d == down[p]
           t == d \o r
<1>1. d \in Seq(DownMessages)
  BY OrderTypes
<1>2. /\ t \in Seq(DownMessages) /\ Len(t) = Len(d) + Len(r)
      /\ \A i \in 1 .. Len(d) + Len(r) :
           t[i] = IF i <= Len(d) THEN d[i] ELSE r[i - Len(d)]
      /\ Len(d) \in Nat /\ Len(r) \in Nat
  BY <1>1, ConcatProperties
<1>3. down'[p] = t
  OBVIOUS
<1>4. /\ ~LoopOver => \A i \in 1 .. Len(d) : d[i].type # "error"
      /\ \A i, j \in 1 .. Len(d) :
           i < j /\ d[i].type = "error" => d[j].type # "frame"
  BY DEF ErrorsLast
<1> HIDE DEF d, t
<1>5. \A i \in 1 .. Len(t) :
        \/ i \in 1 .. Len(d) /\ t[i] = d[i]
        \/ i > Len(d) /\ i - Len(d) \in 1 .. Len(r) /\ t[i] = r[i - Len(d)]
  BY <1>2
<1>6. ~LoopOver' => \A i \in 1 .. Len(t) : t[i].type # "error"
  BY <1>4, <1>5
<1>7. ASSUME NEW i \in 1 .. Len(t), NEW j \in 1 .. Len(t), i < j,
             t[i].type = "error"
      PROVE  t[j].type # "frame"
  <2>1. CASE \A k \in 1 .. Len(r) : r[k].type # "frame"
    <3>1. CASE j > Len(d)
      <4>1. j \notin 1 .. Len(d)
        BY <1>2, <3>1
      <4> QED
        BY <1>5, <2>1, <4>1
    <3>2. CASE j <= Len(d)
      <4>1. i \in 1 .. Len(d) /\ j \in 1 .. Len(d) /\ t[i] = d[i] /\ t[j] = d[j]
        BY <1>2, <1>5, <1>7, <3>2
      <4> QED
        BY <1>4, <1>7, <4>1
    <3> QED
      BY <1>2, <3>1, <3>2
  <2>2. CASE ~LoopOver /\ \A k \in 1 .. Len(r) : r[k].type # "error"
    BY <1>4, <1>5, <1>7, <2>2
  <2> QED
    BY <2>1, <2>2
<1> QED
  BY <1>3, <1>6, <1>7 DEF ErrorsLast

-----------------------------------------------------------------------------
(* Steps of the server *)

\* Nothing is lost only as long as it has not been.
LEMMA LostStays ==
  ASSUME NEW p \in Players, LoopOver => LoopOver',
         \A k \in Players : link'[k] = "open" => link[k] = "open"
  PROVE  NothingLost(p)' => NothingLost(p)
<1>1. \A k \in 0 .. p : k \in Players
  BY NumClientsAssumption DEF Players
<1> QED
  BY <1>1 DEF NothingLost

LEMMA NoneOf ==
  ASSUME NEW s \in Seq(DownMessages), NEW m \in DownMessages, NEW t,
         \A i \in 1 .. Len(s) : s[i].type # t, m.type # t
  PROVE  \A i \in 1 .. Len(Append(s, m)) : Append(s, m)[i].type # t
<1> DEFINE r == Append(s, m)
<1>1. /\ Len(r) = Len(s) + 1 /\ r[Len(s) + 1] = m
      /\ \A i \in 1 .. Len(s) : r[i] = s[i]
  BY AppendProperties
<1>2. Len(s) \in Nat
  OBVIOUS
<1> HIDE DEF r
<1>3. \A i \in 1 .. Len(r) : i \in 1 .. Len(s) \/ i = Len(s) + 1
  BY <1>1, <1>2
<1> QED
  BY <1>1, <1>3 DEF r

LEMMA NoneJoin ==
  ASSUME NEW s \in Seq(DownMessages), NEW r \in Seq(DownMessages),
         NoMarks(s), NoMarks(r)
  PROVE  s \o r \in Seq(DownMessages) /\ NoMarks(s \o r)
<1> DEFINE t == s \o r
<1>1. /\ t \in Seq(DownMessages) /\ Len(t) = Len(s) + Len(r)
      /\ \A i \in 1 .. Len(s) + Len(r) :
           t[i] = IF i <= Len(s) THEN s[i] ELSE r[i - Len(s)]
      /\ Len(s) \in Nat /\ Len(r) \in Nat
  BY ConcatProperties
<1> HIDE DEF t
<1>2. ASSUME NEW i \in 1 .. Len(t) PROVE t[i].type # "frame"
  <2>1. CASE i <= Len(s)
    BY <1>1, <2>1 DEF NoMarks
  <2>2. CASE i > Len(s)
    <3>1. t[i] = r[i - Len(s)] /\ i - Len(s) \in 1 .. Len(r)
      BY <1>1, <2>2
    <3> QED
      BY <3>1 DEF NoMarks
  <2> QED
    BY <1>1, <2>1, <2>2
<1> QED
  BY <1>1, <1>2 DEF NoMarks, t

\* A write of m after the buffer w, to a player that has taken a and is to
\* take d, when the log is l: no mark unless nothing was lost before.
Follows(a, d, w, m, l) == /\ NoMarks(w) /\ MarksAgree(a \o d, l)
                          /\ m.type # "frame" \/ (a \o d) \o w = l

Feeds(a, d, w, m, l) ==
  LET stream == a \o (d \o Append(w, m))
  IN  /\ MarksAgree(stream, Append(l, m))
      /\ (a \o d) \o w = l => stream = Append(l, m)

LEMMA WriteFeeds ==
  ASSUME NEW a \in Seq(DownMessages), NEW d \in Seq(DownMessages),
         NEW w \in Seq(DownMessages), NEW m \in DownMessages,
         NEW l \in Seq(DownMessages), Follows(a, d, w, m, l)
  PROVE  Feeds(a, d, w, m, l)
<1> DEFINE s == a \o d
           x == Append(w, m)
           y == a \o (d \o x)
<1>1. s \in Seq(DownMessages) /\ x \in Seq(DownMessages)
  BY ConcatProperties, AppendProperties
<1>2. y = s \o x
  <2> HIDE DEF x
  <2> QED
    BY <1>1, ThreeParts, SMTT(30)
<1> HIDE DEF s, y
<1>3. s \o x = Append(s \o w, m)
  BY <1>1, JoinAppend
<1>4. s \o w = l => y = Append(l, m)
  BY <1>2, <1>3
<1>5. MarksAgree(y, Append(l, m))
  <2>1. CASE m.type # "frame"
    <3>1. \A i \in 1 .. Len(x) : x[i].type # "frame"
      BY <2>1, NoneOf DEF NoMarks, Follows
    <3> HIDE DEF x
    <3>2. MarksAgree(s, l)
      BY DEF s, Follows
    <3>3. MarksAgree(s \o x, l)
      BY <1>1, <3>1, <3>2, MarksJoin
    <3> QED
      BY <1>2, <3>3, LogGrows
  <2>2. CASE s \o w = l
    BY <1>4, <2>2, LogGrows
  <2> QED
    BY <2>1, <2>2 DEF s, Follows
<1> QED
  BY <1>4, <1>5 DEF s, y, Feeds

LEMMA FedSend ==
  ASSUME TypeOK, LogInOrder, NEW p \in Players, Fed(p), UNCHANGED clientVars,
         NEW m \in LogMessages, NEW force \in BOOLEAN,
         NEW cut \in 0 .. NumClients,
         CutAt(cut, force), SendToClients(m, force, cut),
         m.type # "frame" \/ (force /\ ~LoopOver),
         LoopOver => LoopOver',
         \A k \in Players : link'[k] = "open" => link[k] = "open"
  PROVE  Fed(p)'
<1>a. /\ applied[p] \o queue[p] \in Seq(DownMessages)
      /\ down[p] \in Seq(DownMessages)
      /\ messages[p] \in Seq(DownMessages) /\ messages[p] \in Seq(LogMessages)
      /\ m \in DownMessages /\ log \in Seq(DownMessages)
      /\ m.type # "error" /\ Len(applied[p]) \in Nat
  <2>1. applied[p] \in Seq(DownMessages) /\ queue[p] \in Seq(DownMessages)
    BY OrderTypes
  <2>2. applied[p] \o queue[p] \in Seq(DownMessages)
    BY <2>1, ConcatProperties
  <2> QED
    BY <2>1, <2>2, OrderTypes, MsgTypes DEF LogMessages
<1>b. cut \in Nat /\ p \in Nat /\ NumClients \in Nat /\ p < NumClients
  BY NumClientsAssumption DEF Players
<1>c. NothingLost(p)' => NothingLost(p)
  BY LostStays
<1>d. /\ applied'[p] = applied[p] /\ queue'[p] = queue[p]
      /\ log' = Append(log, m)
      /\ down'[p] = IF p < cut /\ Flushes(p, force)
                    THEN down[p] \o Append(messages[p], m) ELSE down[p]
      /\ messages'[p] = IF p > cut THEN messages[p]
                        ELSE IF Flushes(p, force) THEN << >>
                        ELSE Append(messages[p], m)
  BY DEF clientVars, emuVars, SendToClients, Written
<1>e. /\ MarksAgree((applied[p] \o queue[p]) \o down[p], log)
      /\ NothingLost(p) =>
           ((applied[p] \o queue[p]) \o down[p]) \o messages[p] = log
      /\ Agrees(applied[p], log, Len(applied[p])) /\ ErrorsLast(p)
      /\ Stream(p)' = (applied[p] \o queue[p]) \o down'[p]
  BY <1>d DEF Stream, Fed
<1>f. /\ \A i \in 1 .. Len(messages[p]) : messages[p][i].type # "frame"
      /\ \A i \in 1 .. Len(messages[p]) : messages[p][i].type # "error"
  <2>1. \A i \in 1 .. Len(messages[p]) : messages[p][i] \in LogMessages
    BY <1>a, ElementOfSeq
  <2>2. \A x \in LogMessages : x.type # "error"
    BY DEF LogMessages
  <2> QED
    BY <2>1, <2>2 DEF LogInOrder
<1> DEFINE A == applied[p] \o queue[p]
           D == down[p]
           M == messages[p]
           W == Append(M, m)
           S == Stream(p)'
<1>1. Agrees(applied[p], log, Len(applied[p]))'
  BY <1>a, <1>d, <1>e, LogGrows
<1>2. W \in Seq(DownMessages) /\ \A i \in 1 .. Len(W) : W[i].type # "error"
  <2>1. W \in Seq(DownMessages)
    BY <1>a, AppendProperties
  <2>2. \A i \in 1 .. Len(W) : W[i].type # "error"
    BY <1>a, <1>f, NoneOf
  <2> QED
    BY <2>1, <2>2
<1>3. m.type # "frame" => \A i \in 1 .. Len(W) : W[i].type # "frame"
  BY <1>a, <1>f, NoneOf
<1>4. ErrorsLast(p)'
  <2>1. CASE down'[p] = D \o W
    <3> HIDE DEF W
    <3>1. down'[p] = down[p] \o W
      BY <2>1
    <3> QED
      BY <1>e, <1>2, <1>3, <3>1, ErrorsJoin
  <2>2. CASE down'[p] = D
    <3> HIDE DEF W
    <3> QED
      BY <1>e, <2>2 DEF ErrorsLast
  <2> QED
    BY <1>d, <2>1, <2>2
<1>g. /\ A \in Seq(DownMessages) /\ D \in Seq(DownMessages)
      /\ M \in Seq(DownMessages) /\ MarksAgree(A \o D, log)
      /\ NothingLost(p) => (A \o D) \o M = log
      /\ S = A \o down'[p]
      /\ down'[p] = IF p < cut /\ Flushes(p, force) THEN D \o W ELSE D
      /\ messages'[p] = IF p > cut THEN M
                        ELSE IF Flushes(p, force) THEN << >> ELSE W
      /\ \A i \in 1 .. Len(M) : M[i].type # "frame"
  BY <1>a, <1>d, <1>e, <1>f
<1>h. W = Append(M, m) /\ m \in DownMessages /\ log \in Seq(DownMessages)
      /\ log' = Append(log, m)
  BY <1>a, <1>d
<1> HIDE DEF A, D, M, S, W
<1>5. CASE p < cut /\ Flushes(p, force)
  <2>1. S = A \o (D \o W) /\ messages'[p] = << >>
    BY <1>b, <1>g, <1>5
  <2>2. m.type # "frame" \/ (A \o D) \o M = log
    <3>1. ASSUME force, ~LoopOver PROVE NothingLost(p)
      <4>1. ASSUME NEW k \in 0 .. p PROVE k \in Players /\ k < cut
        BY <1>b, <1>5 DEF Players
      <4> QED
        BY <3>1, <4>1 DEF CutAt, Flushes, NothingLost
    <3> QED
      BY <1>g, <3>1
  <2>3. /\ MarksAgree(S, log')
        /\ (A \o D) \o M = log => S = log'
    <3>1. Follows(A, D, M, m, log)
      BY <1>g, <2>2 DEF Follows, NoMarks
    <3>2. Feeds(A, D, M, m, log)
      BY <1>g, <1>h, <3>1, WriteFeeds
    <3> QED
      BY <1>h, <2>1, <3>2 DEF Feeds
  <2>4. NothingLost(p)' => S \o messages'[p] = log'
    <3>1. log' \in Seq(DownMessages)
      BY <1>a, <1>d, AppendProperties
    <3> QED
      BY <1>c, <1>g, <2>1, <2>3, <3>1, ConcatEmptySeq
  <2> QED
    BY <1>1, <1>4, <2>3, <2>4 DEF Fed, S
<1>6. CASE ~(p < cut /\ Flushes(p, force))
  <2>1. S = A \o D /\ A \o D \in Seq(DownMessages)
    BY <1>g, <1>6, ConcatProperties
  <2>2. MarksAgree(S, log')
    BY <1>a, <1>d, <1>g, <2>1, LogGrows
  <2>3. ASSUME NothingLost(p)' PROVE S \o messages'[p] = log'
    <3>1. (A \o D) \o M = log /\ \A k \in 0 .. p : link[k] = "open"
      BY <1>c, <1>g, <2>3 DEF NothingLost
    <3>2. p < cut
      <4>1. ASSUME p >= cut PROVE FALSE
        <5>1. cut \in 0 .. p /\ cut < NumClients
          BY <1>b, <4>1
        <5> QED
          BY <3>1, <5>1 DEF CutAt
      <4> QED
        BY <1>b, <4>1
    <3>3. messages'[p] = W
      BY <1>b, <1>g, <1>6, <3>2
    <3>4. (A \o D) \o Append(M, m) = Append((A \o D) \o M, m)
      <4> DEFINE E == A \o D
      <4>1. E \in Seq(DownMessages)
        BY <2>1
      <4> HIDE DEF E
      <4>2. M \in Seq(DownMessages)
        BY <1>g
      <4>3. E \o Append(M, m) = Append(E \o M, m)
        BY <1>h, <4>1, <4>2, JoinAppend
      <4> QED
        BY <4>3 DEF E
    <3> QED
      BY <1>h, <2>1, <3>1, <3>3, <3>4
  <2> QED
    BY <1>1, <1>4, <2>2, <2>3 DEF Fed, S
<1> QED
  BY <1>5, <1>6

\* The server's last words.
LEMMA FedTold ==
  ASSUME TypeOK, NEW p \in Players, Fed(p), UNCHANGED clientVars, log' = log,
         LoopOver', NEW r \in Seq(DownMessages), NoMarks(r),
         down'[p] = down[p] \o r
  PROVE  Fed(p)'
<1>a. /\ applied'[p] = applied[p] /\ queue'[p] = queue[p]
      /\ applied[p] \o queue[p] \in Seq(DownMessages)
      /\ down[p] \in Seq(DownMessages)
  BY OrderTypes, ConcatProperties DEF clientVars, emuVars
<1> DEFINE A == applied[p] \o queue[p]
           D == down[p]
<1>1. Stream(p) = A \o D /\ Stream(p)' = A \o (D \o r)
  BY <1>a DEF Stream
<1>2. A \in Seq(DownMessages) /\ D \in Seq(DownMessages)
  BY <1>a
<1>3. MarksAgree(A \o D, log)
  BY <1>1 DEF Fed
<1> HIDE DEF A, D
<1>4. A \o (D \o r) = (A \o D) \o r /\ A \o D \in Seq(DownMessages)
  BY <1>2, ThreeParts, ConcatProperties
<1>5. MarksAgree((A \o D) \o r, log)
  <2> DEFINE S == A \o D
  <2>1. S \in Seq(DownMessages) /\ MarksAgree(S, log)
    BY <1>3, <1>4
  <2> HIDE DEF S
  <2>2. MarksAgree(S \o r, log)
    BY <2>1, MarksJoin DEF NoMarks
  <2> QED
    BY <2>2 DEF S
<1>6. MarksAgree(Stream(p)', log)
  <2> DEFINE x == Stream(p)'
             y == A \o (D \o r)
             z == (A \o D) \o r
  <2>1. x = y /\ y = z /\ MarksAgree(z, log)
    BY <1>1, <1>4, <1>5
  <2> HIDE DEF x, y, z
  <2>2. MarksAgree(x, log)
    BY <2>1
  <2> QED
    BY <2>2 DEF x
<1>7. ErrorsLast(p)'
  BY ErrorsJoin DEF Fed, NoMarks
<1>8. ~NothingLost(p)'
  BY DEF NothingLost
<1> QED
  BY <1>a, <1>6, <1>7, <1>8 DEF Fed

LEMMA FedServer ==
  ASSUME TypeOK, OrderInv, FedInv, ServerNext, UNCHANGED clientVars,
         NEW p \in Players
  PROVE  Fed(p)'
<1>a. Fed(p) /\ LogInOrder /\ frame \in Nat
  BY DEF FedInv, OrderInv, TypeOK, LoopTypeOK
<1>1. CASE Tick
  <2>1. PICK cut \in 0 .. NumClients :
          CutAt(cut, TRUE) /\ SendToClients(FrameMsg(frame + 1), TRUE, cut)
    BY <1>1 DEF Tick
  <2>2. FrameMsg(frame + 1) \in LogMessages /\ ~LoopOver /\ link' = link
    BY <1>1, <1>a, MsgTypes DEF Tick, LoopOver
  <2> QED
    BY <1>a, <2>1, <2>2, FedSend
<1>2. ASSUME NEW q \in Players, ReceiveInput(q) PROVE Fed(p)'
  <2>1. PICK cut \in 0 .. NumClients :
          CutAt(cut, FALSE) /\ SendToClients(Head(up[q]), FALSE, cut)
    BY <1>2 DEF ReceiveInput
  <2>2. Head(up[q]) \in LogMessages /\ Head(up[q]).type # "frame"
    <3>1. up[q] \in Seq(UpMessages) /\ up[q] # << >> /\ Head(up[q]).type = "input"
      BY <1>2 DEF ReceiveInput, TypeOK, LinkTypeOK
    <3> QED
      BY <3>1, MsgTypes, HeadTailProperties
  <2>3. /\ LoopOver' = LoopOver
        /\ \A k \in Players : link'[k] = "open" => link[k] = "open"
    BY <1>2 DEF ReceiveInput, CloseIf, loopVars, LoopOver, TypeOK, LinkTypeOK
  <2> QED
    BY <1>a, <2>1, <2>2, <2>3, FedSend
<1>3. ASSUME UNCHANGED <<log, messages, down>>, LoopOver => LoopOver',
             \A k \in Players : link'[k] = "open" => link[k] = "open"
      PROVE  Fed(p)'
  <2>1. NothingLost(p)' => NothingLost(p)
    BY <1>3, LostStays
  <2>2. ErrorsLast(p)'
    BY <1>3, <1>a DEF Fed, ErrorsLast
  <2>3. Stream(p)' = Stream(p) /\ applied'[p] = applied[p]
    BY <1>3 DEF Stream, clientVars, emuVars
  <2> QED
    BY <1>3, <1>a, <2>1, <2>2, <2>3 DEF Fed
<1>4. CASE CheckFailed \/ StopGame
  <2>1. LoopOver' /\ log' = log /\ link' = link
    BY <1>4 DEF CheckFailed, StopGame, LoopOver, castVars
  <2>2. /\ messages[p] \in Seq(DownMessages) /\ ErrorMsg \in DownMessages
        /\ ErrorMsg.type # "frame" /\ NoMarks(messages[p])
        /\ down[p] \in Seq(DownMessages)
    BY <1>a, OrderTypes, MsgTypes DEF ErrorMsg, Msg, LogInOrder, NoMarks
  <2> DEFINE e == <<ErrorMsg>>
             w == messages[p]
             D == down[p]
  <2>3. e \in Seq(DownMessages) /\ NoMarks(e)
    BY <2>2 DEF NoMarks
  <2>4. Append(D, ErrorMsg) = D \o e
    BY <2>2, AppendIsConcat
  <2>5. \/ down'[p] = D \/ down'[p] = D \o e \/ down'[p] = (D \o e) \o w
    <3>1. \/ down'[p] = down[p] \/ down'[p] = Append(down[p], ErrorMsg)
          \/ down'[p] = Append(down[p], ErrorMsg) \o messages[p]
      BY <1>4 DEF CheckFailed, StopGame
    <3> HIDE DEF e
    <3> QED
      BY <2>4, <3>1, Zenon
  <2>6. CASE down'[p] = D
    <3>1. Stream(p)' = Stream(p) /\ applied'[p] = applied[p]
      BY <2>6 DEF Stream, clientVars, emuVars
    <3>2. ErrorsLast(p)' /\ ~NothingLost(p)'
      BY <1>a, <2>1, <2>6 DEF Fed, ErrorsLast, NothingLost
    <3> QED
      BY <1>a, <2>1, <3>1, <3>2 DEF Fed
  <2>7. CASE down'[p] = D \o e
    <3> HIDE DEF e
    <3> QED
      BY <1>a, <2>1, <2>3, <2>7, FedTold
  <2>8. CASE down'[p] = (D \o e) \o w
    <3>1. D \in Seq(DownMessages) /\ w \in Seq(DownMessages) /\ NoMarks(w)
      BY <2>2
    <3> DEFINE r == e \o w
    <3> HIDE DEF e, w, D
    <3>2. (D \o e) \o w = D \o r
      BY <2>3, <3>1, ThreeParts
    <3>3. r \in Seq(DownMessages) /\ NoMarks(r)
      BY <2>3, <3>1, NoneJoin DEF NoMarks
    <3> HIDE DEF r
    <3>4. down'[p] = down[p] \o r
      BY <2>8, <3>2 DEF D
    <3> QED
      BY <1>a, <2>1, <3>3, <3>4, FedTold
  <2> QED
    BY <2>5, <2>6, <2>7, <2>8
<1>5. CASE \/ NextIteration \/ ScanClient \/ CannotCheckYet \/ CollectCheck
           \/ CheckPassed \/ Rescan \/ RescanClient \/ LoopRaised \/ Interrupt
  <2>1. UNCHANGED <<log, messages, down, link>>
    BY <1>5 DEF NextIteration, ScanClient, CannotCheckYet, CollectCheck,
       CheckPassed, Rescan, RescanClient, LoopRaised, Interrupt, Scan,
       loopVars, castVars, linkVars
  <2>2. LoopOver => LoopOver'
    BY <1>5 DEF NextIteration, ScanClient, CannotCheckYet, CollectCheck,
       CheckPassed, Rescan, RescanClient, LoopRaised, Interrupt, LoopOver,
       loopVars
  <2> QED
    BY <1>3, <2>1, <2>2
<1>6. ASSUME NEW q \in Players,
             ReceiveCheck(q) \/ ReceiveFrame(q) \/ ReceiverEnds(q)
      PROVE  Fed(p)'
  <2>1. UNCHANGED <<log, messages, down, gpc>>
    BY <1>6 DEF ReceiveCheck, ReceiveFrame, ReceiverEnds, loopVars, castVars
  <2>2. \A k \in Players : link'[k] = "open" => link[k] = "open"
    BY <1>6 DEF ReceiveCheck, ReceiveFrame, ReceiverEnds, CloseIf, TypeOK,
       LinkTypeOK
  <2> QED
    BY <1>3, <2>1, <2>2 DEF LoopOver
<1> QED
  BY <1>1, <1>2, <1>4, <1>5, <1>6 DEF ServerNext, GameLoop, Receiver

-----------------------------------------------------------------------------
(* Steps of the emulators *)

\* A message that goes from one queue to the next stays where it was.
LEMMA Passed ==
  ASSUME NEW a \in Seq(DownMessages), NEW q \in Seq(DownMessages),
         NEW d \in Seq(DownMessages)
  PROVE  /\ d # << >> => (a \o Append(q, Head(d))) \o Tail(d) = (a \o q) \o d
         /\ q # << >> => Append(a, Head(q)) \o Tail(q) = a \o q
<1>1. ASSUME d # << >>
      PROVE  (a \o Append(q, Head(d))) \o Tail(d) = (a \o q) \o d
  <2> DEFINE h == Head(d)
             r == Tail(d)
             x == a \o q
  <2>1. h \in DownMessages /\ x \in Seq(DownMessages)
    BY <1>1, HeadTailProperties, ConcatProperties
  <2> HIDE DEF h
  <2>2. a \o Append(q, h) = Append(x, h)
    BY <2>1, JoinAppend
  <2> HIDE DEF x
  <2>3. Append(x, Head(d)) \o Tail(d) = x \o d
    BY <1>1, <2>1, MoveHead
  <2> QED
    BY <2>2, <2>3, Zenon DEF h, x
<1>2. ASSUME q # << >> PROVE Append(a, Head(q)) \o Tail(q) = a \o q
  BY <1>2, MoveHead
<1> QED
  BY <1>1, <1>2

\* What marks say of a whole they say of its beginning.
LEMMA MarksBefore ==
  ASSUME NEW s \in Seq(DownMessages), NEW r \in Seq(DownMessages), NEW l,
         MarksAgree(s \o r, l)
  PROVE  MarksAgree(s, l)
<1> DEFINE t == s \o r
<1>1. /\ Len(t) = Len(s) + Len(r)
      /\ \A i \in 1 .. Len(s) + Len(r) :
           t[i] = IF i <= Len(s) THEN s[i] ELSE r[i - Len(s)]
      /\ Len(s) \in Nat /\ Len(r) \in Nat /\ MarksAgree(t, l)
  BY ConcatProperties
<1> HIDE DEF t
<1>2. ASSUME NEW i \in 1 .. Len(s), s[i].type = "frame" PROVE Agrees(s, l, i)
  <2>1. i \in 1 .. Len(t) /\ t[i] = s[i]
    BY <1>1
  <2>2. Agrees(t, l, i)
    BY <1>1, <1>2, <2>1 DEF MarksAgree
  <2>3. \A j \in 1 .. i : t[j] = s[j]
    BY <1>1
  <2> QED
    BY <2>2, <2>3 DEF Agrees
<1> QED
  BY <1>2 DEF MarksAgree

\* A player is given what precedes a mark it has been sent.
LEMMA MarkAhead ==
  ASSUME NEW a \in Seq(DownMessages), NEW q \in Seq(DownMessages),
         NEW l \in Seq(DownMessages), MarksAgree(a \o q, l),
         NEW i \in 1 .. Len(q), q[i].type = "frame"
  PROVE  Agrees(Append(a, Head(q)), l, Len(Append(a, Head(q))))
<1> DEFINE t == a \o q
           b == Append(a, Head(q))
<1>1. /\ Len(t) = Len(a) + Len(q)
      /\ \A j \in 1 .. Len(a) + Len(q) :
           t[j] = IF j <= Len(a) THEN a[j] ELSE q[j - Len(a)]
      /\ Len(a) \in Nat /\ Len(q) \in Nat /\ MarksAgree(t, l)
  BY ConcatProperties
<1>2. /\ q # << >> /\ Head(q) = q[1] /\ Head(q) \in DownMessages
  BY HeadTailProperties
<1>3. /\ Len(b) = Len(a) + 1 /\ b[Len(a) + 1] = q[1]
      /\ \A j \in 1 .. Len(a) : b[j] = a[j]
  BY <1>2, AppendProperties
<1> HIDE DEF t, b
<1>4. Len(a) + i \in 1 .. Len(t) /\ t[Len(a) + i] = q[i]
  BY <1>1
<1>5. Agrees(t, l, Len(a) + i)
  BY <1>1, <1>4 DEF MarksAgree
<1>6. \A j \in 1 .. Len(a) + 1 : b[j] = t[j] /\ j \in 1 .. Len(a) + i
  <2>1. ASSUME NEW j \in 1 .. Len(a) PROVE b[j] = t[j] /\ j \in 1 .. Len(a) + i
    BY <1>1, <1>3
  <2>2. b[Len(a) + 1] = t[Len(a) + 1] /\ Len(a) + 1 \in 1 .. Len(a) + i
    BY <1>1, <1>3
  <2> QED
    BY <1>1, <2>1, <2>2
<1>7. \A j \in 1 .. Len(a) + i : t[j] = l[j]
  BY <1>5 DEF Agrees
<1>8. Len(a) + 1 <= Len(l)
  <2>1. Len(a) + i <= Len(l)
    BY <1>5 DEF Agrees
  <2>2. Len(a) + i >= Len(a) + 1
    BY <1>1
  <2> QED
    BY <2>1, <2>2, <1>1
<1>9. Agrees(b, l, Len(a) + 1)
  BY <1>6, <1>7, <1>8 DEF Agrees
<1> QED
  BY <1>3, <1>9 DEF b

\* The receive thread and the game's end.
LEMMA ErrorsTail ==
  ASSUME TypeOK, NEW p \in Players, ErrorsLast(p), down[p] # << >>,
         down'[p] = Tail(down[p]), LoopOver' = LoopOver
  PROVE  /\ ErrorsLast(p)'
         /\ Head(down[p]).type = "error" => NoMarks(Tail(down[p])) /\ LoopOver
<1> DEFINE d == down[p]
           t == Tail(d)
<1>1. d \in Seq(DownMessages) /\ d # << >>
  BY OrderTypes
<1>2. /\ Len(d) \in Nat /\ Len(t) = Len(d) - 1 /\ d[1] = Head(d)
      /\ 1 \in 1 .. Len(d) /\ \A i \in 1 .. Len(t) : t[i] = d[i + 1]
  <2> HIDE DEF d
  <2> QED
    BY <1>1, HeadTailProperties
<1>3. /\ ~LoopOver => \A i \in 1 .. Len(d) : d[i].type # "error"
      /\ \A i, j \in 1 .. Len(d) :
           i < j /\ d[i].type = "error" => d[j].type # "frame"
  BY DEF ErrorsLast
<1>4. down'[p] = t
  OBVIOUS
<1> HIDE DEF d, t
<1>5. \A i \in 1 .. Len(t) : i + 1 \in 1 .. Len(d) /\ t[i] = d[i + 1]
  BY <1>2
<1>6. ~LoopOver => \A i \in 1 .. Len(t) : t[i].type # "error"
  BY <1>3, <1>5
<1>7. ASSUME NEW i \in 1 .. Len(t), NEW j \in 1 .. Len(t), i < j,
             t[i].type = "error"
      PROVE  t[j].type # "frame"
  <2>1. i + 1 < j + 1
    BY <1>7
  <2> QED
    BY <1>3, <1>5, <1>7, <2>1
<1>8. ASSUME Head(d).type = "error" PROVE NoMarks(t) /\ LoopOver
  <2>1. LoopOver
    BY <1>2, <1>3, <1>8
  <2>2. ASSUME NEW i \in 1 .. Len(t) PROVE t[i].type # "frame"
    <3>1. 1 < i + 1
      OBVIOUS
    <3> QED
      BY <1>2, <1>3, <1>5, <1>8, <3>1
  <2> QED
    BY <2>1, <2>2 DEF NoMarks
<1> QED
  BY <1>4, <1>6, <1>7, <1>8 DEF ErrorsLast, d, t

\* The same stream, the same connections: the same is true of it.
LEMMA FedSame ==
  ASSUME NEW p \in Players, Fed(p),
         UNCHANGED <<log, messages, link>>, LoopOver' = LoopOver,
         Stream(p)' = Stream(p), ErrorsLast(p)',
         Agrees(applied'[p], log, Len(applied'[p]))
  PROVE  Fed(p)'
<1>1. NothingLost(p)' = NothingLost(p)
  BY DEF NothingLost
<1> QED
  BY <1>1 DEF Fed

LEMMA FedClient ==
  ASSUME TypeOK, OrderInv, FedInv, NEW p \in Players, EmulatorSteps(p),
         UNCHANGED serverVars
  PROVE  Fed(p)'
<1>a. /\ Fed(p) /\ UNCHANGED <<log, messages>> /\ LoopOver' = LoopOver
      /\ UNCHANGED link
      /\ Agrees(applied[p], log, Len(applied[p]))
  BY DEF FedInv, Fed, serverVars, loopVars, castVars, LoopOver, EmulatorSteps,
     ReceiveThread, RecvInput, RecvFrame, SignalFrame, RecvError, RecvFails,
     EmuThread, EmuEnter, EmuWake, EmuCheck, EmuAck, EmuDrain, Ends, Diverge,
     SendInput, linkVars
<1>b. /\ applied[p] \in Seq(DownMessages) /\ queue[p] \in Seq(DownMessages)
      /\ down[p] \in Seq(DownMessages) /\ log \in Seq(DownMessages)
      /\ applied[p] \o queue[p] \in Seq(DownMessages)
  BY OrderTypes, ConcatProperties
<1>1. ASSUME applied'[p] = applied[p], queue'[p] = queue[p], down'[p] = down[p]
      PROVE  Fed(p)'
  <2>1. Stream(p)' = Stream(p)
    BY <1>1 DEF Stream
  <2>2. ErrorsLast(p)'
    BY <1>1, <1>a DEF Fed, ErrorsLast
  <2> QED
    BY <1>1, <1>a, <2>1, <2>2, FedSame
<1>2. CASE RecvInput(p) \/ RecvFrame(p)
  <2>1. /\ down[p] # << >> /\ down'[p] = Tail(down[p])
        /\ queue'[p] = Append(queue[p], Head(down[p]))
        /\ applied'[p] = applied[p]
    BY <1>2 DEF RecvInput, RecvFrame, Incoming, emuVars, TypeOK, LinkTypeOK,
       RecvrTypeOK
  <2>2. (applied[p] \o Append(queue[p], Head(down[p]))) \o Tail(down[p])
          = (applied[p] \o queue[p]) \o down[p]
    <3> DEFINE a == applied[p]
               q == queue[p]
               d == down[p]
    <3>1. /\ a \in Seq(DownMessages) /\ q \in Seq(DownMessages)
          /\ d \in Seq(DownMessages) /\ d # << >>
      BY <1>b, <2>1
    <3> HIDE DEF a, q, d
    <3>2. (a \o Append(q, Head(d))) \o Tail(d) = (a \o q) \o d
      BY <3>1, Passed
    <3> QED
      BY <3>2, Zenon DEF a, q, d
  <2>3. Stream(p)' = Stream(p)
    BY <2>1, <2>2, Zenon DEF Stream
  <2>4. ErrorsLast(p)'
    BY <1>a, <2>1, ErrorsTail DEF Fed
  <2> QED
    BY <1>a, <2>1, <2>3, <2>4, FedSame
<1>3. CASE RecvError(p)
  <2>1. /\ down[p] # << >> /\ down'[p] = Tail(down[p])
        /\ Head(down[p]).type = "error"
        /\ queue'[p] = queue[p] /\ applied'[p] = applied[p]
    BY <1>3 DEF RecvError, Incoming, emuVars, TypeOK, LinkTypeOK
  <2>2. ErrorsLast(p)' /\ NoMarks(Tail(down[p])) /\ LoopOver
    BY <1>a, <2>1, ErrorsTail DEF Fed
  <2> DEFINE A == applied[p] \o queue[p]
             D == down[p]
             R == Tail(D)
  <2>3. /\ A \in Seq(DownMessages) /\ D \in Seq(DownMessages) /\ D # << >>
        /\ MarksAgree(A \o D, log) /\ Stream(p)' = A \o R
        /\ NoMarks(R)
    BY <1>a, <1>b, <2>1, <2>2 DEF Fed, Stream
  <2>4. R \in Seq(DownMessages)
    <3> HIDE DEF D
    <3> QED
      BY <2>3, HeadTailProperties
  <2>5. MarksAgree(A \o R, log)
    <3> HIDE DEF A, D, R
    <3>1. MarksAgree(A, log)
      BY <2>3, MarksBefore
    <3> QED
      BY <2>3, <2>4, <3>1, MarksJoin DEF NoMarks
  <2>6. MarksAgree(Stream(p)', log)
    <3> DEFINE x == Stream(p)'
               y == A \o R
    <3>1. x = y /\ MarksAgree(y, log)
      BY <2>3, <2>5
    <3> HIDE DEF x, y
    <3>2. MarksAgree(x, log)
      BY <3>1
    <3> QED
      BY <3>2 DEF x
  <2>7. ~NothingLost(p)'
    BY <1>a, <2>2 DEF NothingLost
  <2> QED
    BY <1>a, <2>1, <2>2, <2>6, <2>7 DEF Fed
<1>4. CASE EmuDrain(p)
  <2>1. epc[p] = "drain" /\ queue[p] # << >>
    <3>1. epc[p] = "drain"
      BY <1>4 DEF EmuDrain, Goto
    <3> QED
      BY <3>1, DrainOrder
  <2>2. /\ queue'[p] = Tail(queue[p]) /\ down'[p] = down[p]
        /\ applied'[p] = Append(applied[p], Head(queue[p]))
    BY <1>4, <2>1 DEF EmuDrain, TypeOK, EmuTypeOK, RecvrTypeOK, linkVars
  <2> DEFINE a == applied[p]
             q == queue[p]
             D == down[p]
  <2>3. /\ a \in Seq(DownMessages) /\ q \in Seq(DownMessages) /\ q # << >>
        /\ D \in Seq(DownMessages) /\ a \o q \in Seq(DownMessages)
        /\ MarksAgree((a \o q) \o D, log)
        /\ queue'[p] = Tail(q) /\ applied'[p] = Append(a, Head(q))
        /\ down'[p] = D
    BY <1>a, <1>b, <2>1, <2>2 DEF Fed, Stream
  <2>4. PICK i \in 1 .. Len(q) : q[i].type = "frame"
    <3>1. PICK i \in 1 .. Len(queue[p]) : queue[p][i] = FrameMsg(eframe[p])
      <4>1. /\ Run(queue[p], eframe[p], Received(p)) /\ eframe[p] \in Nat
            /\ eframe[p] <= Received(p) /\ Received(p) \in Nat
        BY <2>1, OrderTypes
           DEF OrderInv, QueueInOrder, Live, NextMark, Received
      <4> QED
        BY <4>1 DEF Run
    <3> QED
      BY <3>1, MarkIs
  <2>5. Stream(p)' = (Append(a, Head(q)) \o Tail(q)) \o D
    BY <2>3, Zenon DEF Stream
  <2>6. Stream(p) = (a \o q) \o D
    BY DEF Stream
  <2>7. ErrorsLast(p)'
    BY <1>a, <2>2 DEF Fed, ErrorsLast
  <2> HIDE DEF a, q, D
  <2>8. Append(a, Head(q)) \o Tail(q) = a \o q
    BY <2>3, Passed
  <2>9. Stream(p)' = Stream(p)
    BY <2>5, <2>6, <2>8, Zenon
  <2>10. MarksAgree(a \o q, log)
    <3> DEFINE s == a \o q
    <3>1. s \in Seq(DownMessages) /\ MarksAgree(s \o D, log)
      BY <2>3
    <3> HIDE DEF s
    <3>2. MarksAgree(s, log)
      BY <2>3, <3>1, MarksBefore
    <3> QED
      BY <3>2 DEF s
  <2>11. Agrees(applied'[p], log, Len(applied'[p]))
    <3>1. Agrees(Append(a, Head(q)), log, Len(Append(a, Head(q))))
      BY <1>b, <2>3, <2>4, <2>10, MarkAhead
    <3> QED
      BY <2>3, <3>1, Zenon
  <2> QED
    BY <1>a, <2>7, <2>9, <2>11, FedSame
<1>5. CASE \/ SignalFrame(p) \/ RecvFails(p) \/ EmuEnter(p) \/ EmuWake(p)
           \/ EmuCheck(p) \/ EmuAck(p) \/ Ends(p) \/ Diverge(p)
           \/ \E e \in Events : SendInput(p, e)
  <2>1. applied'[p] = applied[p] /\ queue'[p] = queue[p] /\ down'[p] = down[p]
    BY <1>5 DEF SignalFrame, RecvFails, EmuEnter, EmuWake, EmuCheck, EmuAck,
       Ends, Diverge, SendInput, emuVars, linkVars
  <2> QED
    BY <1>1, <2>1
<1> QED
  BY <1>2, <1>3, <1>4, <1>5 DEF EmulatorSteps, ReceiveThread, EmuThread

LEMMA FedStep == TypeOK /\ OrderInv /\ FedInv /\ [Next]_vars => FedInv'
<1> SUFFICES ASSUME TypeOK, OrderInv, FedInv, [Next]_vars, NEW q \in Players
             PROVE  Fed(q)'
  BY DEF FedInv
<1>1. CASE ServerNext /\ UNCHANGED clientVars
  BY <1>1, FedServer
<1>2. ASSUME UNCHANGED <<log, messages>>, LoopOver' = LoopOver,
             NothingLost(q)' => NothingLost(q),
             applied'[q] = applied[q], queue'[q] = queue[q], down'[q] = down[q]
      PROVE  Fed(q)'
  <2>1. Fed(q) /\ Stream(q)' = Stream(q)
    BY <1>2 DEF FedInv, Stream
  <2>2. ErrorsLast(q)'
    BY <1>2, <2>1 DEF Fed, ErrorsLast
  <2> QED
    BY <1>2, <2>1, <2>2 DEF Fed
<1>3. CASE ClientNext /\ UNCHANGED serverVars
  <2>1. PICK p \in Players : EmulatorSteps(p)
    BY <1>3 DEF ClientNext, Quit, BrokenPipe, EmulatorSteps
  <2>2. CASE q = p
    BY <1>3, <2>1, <2>2, FedClient
  <2>3. CASE q # p
    <3>1. applied'[q] = applied[q] /\ queue'[q] = queue[q] /\ down'[q] = down[q]
      BY <2>1, <2>3, OthersKeep
    <3>2. UNCHANGED <<log, messages, link>> /\ LoopOver' = LoopOver
      BY <1>3, <2>1 DEF serverVars, loopVars, castVars, LoopOver, EmulatorSteps,
         ReceiveThread, RecvInput, RecvFrame, SignalFrame, RecvError, RecvFails,
         EmuThread, EmuEnter, EmuWake, EmuCheck, EmuAck, EmuDrain, Ends,
         Diverge, SendInput, linkVars
    <3>3. NothingLost(q)' = NothingLost(q)
      BY <3>2 DEF NothingLost
    <3> QED
      BY <1>2, <3>1, <3>2, <3>3
  <2> QED
    BY <2>2, <2>3
<1>4. CASE \/ (\E p \in Players : Reset(p)) /\ UNCHANGED <<serverVars, clientVars>>
           \/ UNCHANGED vars
  <2>1. UNCHANGED <<log, messages, gpc, down, queue, applied>>
    BY <1>4 DEF Reset, vars, serverVars, loopVars, castVars, clientVars, emuVars,
       linkVars
  <2>2. \A k \in Players : link'[k] = "open" => link[k] = "open"
    BY <1>4 DEF Reset, vars, linkVars, TypeOK, LinkTypeOK
  <2>3. NothingLost(q)' => NothingLost(q)
    BY <2>1, <2>2, LostStays DEF LoopOver
  <2> QED
    BY <1>2, <2>1, <2>3 DEF LoopOver
<1> QED
  BY <1>1, <1>3, <1>4 DEF Next

\* Any two players have been given the same inputs in the same frames, however
\* far each is and whatever was lost when the game came down.
THEOREM PlayersAgree == Spec => []Agreement
<1>1. TypeOK /\ FedInv => Agreement
  <2> SUFFICES ASSUME TypeOK, FedInv, NEW p \in Players, NEW q \in Players,
                      Len(applied[p]) <= Len(applied[q])
               PROVE  applied[p] = SubSeq(applied[q], 1, Len(applied[p]))
    BY DEF Agreement
  <2> DEFINE a == applied[p]
             b == applied[q]
             n == Len(a)
             t == SubSeq(b, 1, n)
  <2>1. /\ a \in Seq(DownMessages) /\ b \in Seq(DownMessages)
        /\ Agrees(a, log, Len(a)) /\ Agrees(b, log, Len(b)) /\ Len(a) <= Len(b)
    BY OrderTypes DEF FedInv, Fed
  <2> HIDE DEF a, b
  <2>2. Len(a) \in Nat /\ Len(b) \in Nat
    BY <2>1
  <2>3. /\ t \in Seq(DownMessages) /\ Len(t) = n
        /\ \A i \in 1 .. n : t[i] = b[i]
    BY <2>1, <2>2, SubSeqProperties
  <2>4. \A i \in 1 .. n : a[i] = b[i]
    BY <2>1, <2>2 DEF Agrees
  <2>5. a = t
    <3> HIDE DEF t
    <3> QED
      BY <2>1, <2>2, <2>3, <2>4, SeqEqual
  <2> QED
    BY <2>5 DEF a, b
<1>2. Init => TypeOK /\ OrderInv /\ FedInv
  BY InitType, OrderInit, FedInit
<1> QED
  BY <1>1, <1>2, StepType, OrderStep, FedStep, PTL DEF Spec

-----------------------------------------------------------------------------
(* What the server is told a player has announced *)

AnnouncedInSums(p) ==
  /\ clientFrame[p] <= Len(sums[p])
  /\ \A i \in 1 .. Len(up[p]) :
       up[p][i].type = "frame" => up[p][i].val <= Len(sums[p])

SumsInv == \A p \in Players : AnnouncedInSums(p)

LEMMA SumsInit == Init => SumsInv
BY DEF Init, LinkInit, ServerInit, ClientInit, SumsInv, AnnouncedInSums

LEMMA SumsKeep ==
  ASSUME TypeOK, NEW p \in Players, AnnouncedInSums(p),
         Len(sums'[p]) \in Nat, Len(sums[p]) <= Len(sums'[p]),
         \/ clientFrame'[p] = clientFrame[p]
         \/ /\ up[p] # << >> /\ Head(up[p]).type = "frame"
            /\ clientFrame'[p] = Head(up[p]).val,
         \/ up'[p] = up[p]
         \/ up[p] # << >> /\ up'[p] = Tail(up[p])
         \/ \E m \in UpMessages :
              /\ up'[p] = Append(up[p], m)
              /\ m.type = "frame" => m.val <= Len(sums[p])
  PROVE  AnnouncedInSums(p)'
<1>1. /\ up[p] \in Seq(UpMessages) /\ sums[p] \in Seq(Nat)
      /\ clientFrame[p] \in Nat
  BY DEF TypeOK, LinkTypeOK, RecvTypeOK, EmuTypeOK
<1> DEFINE u == up[p]
           n == Len(sums[p])
           k == Len(sums'[p])
<1>2. /\ u \in Seq(UpMessages) /\ n \in Nat /\ k \in Nat /\ n <= k
      /\ clientFrame[p] <= n
      /\ \A i \in 1 .. Len(u) : u[i].type = "frame" => u[i].val <= n
      /\ \A i \in 1 .. Len(u) : u[i].type = "frame" => u[i].val \in Nat
  BY <1>1, MsgTypes, ElementOfSeq DEF AnnouncedInSums
<1>3. clientFrame'[p] <= k
  <2>1. CASE clientFrame'[p] = clientFrame[p]
    BY <1>1, <1>2, <2>1
  <2>2. CASE /\ u # << >> /\ Head(u).type = "frame"
             /\ clientFrame'[p] = Head(u).val
    <3>1. Head(u) = u[1] /\ 1 \in 1 .. Len(u)
      BY <1>2, <2>2
    <3> HIDE DEF u, n, k
    <3> QED
      BY <1>2, <2>2, <3>1
  <2> QED
    BY <2>1, <2>2
<1>4. \A i \in 1 .. Len(up'[p]) : up'[p][i].type = "frame" => up'[p][i].val <= k
  <2>1. CASE up'[p] = u
    <3> HIDE DEF n, k
    <3> QED
      BY <1>2, <2>1
  <2>2. CASE u # << >> /\ up'[p] = Tail(u)
    <3> DEFINE t == Tail(u)
    <3>1. \A i \in 1 .. Len(t) : i + 1 \in 1 .. Len(u) /\ t[i] = u[i + 1]
      BY <1>2, <2>2
    <3> HIDE DEF u, n, k, t
    <3>2. ASSUME NEW i \in 1 .. Len(t), t[i].type = "frame"
          PROVE  t[i].val <= k
      <4>1. i + 1 \in 1 .. Len(u) /\ t[i] = u[i + 1]
        BY <3>1
      <4>2. u[i + 1].val <= n /\ u[i + 1].val \in Nat
        BY <1>2, <3>2, <4>1, Zenon
      <4>3. n \in Nat /\ k \in Nat /\ n <= k
        BY <1>2
      <4> QED
        BY <4>1, <4>2, <4>3
    <3> QED
      BY <2>2, <3>2 DEF t
  <2>3. ASSUME NEW m \in UpMessages, up'[p] = Append(u, m),
               m.type = "frame" => m.val <= n
        PROVE  \A i \in 1 .. Len(up'[p]) :
                 up'[p][i].type = "frame" => up'[p][i].val <= k
    <3> DEFINE t == Append(u, m)
    <3>1. /\ Len(t) = Len(u) + 1 /\ t[Len(u) + 1] = m /\ Len(u) \in Nat
          /\ \A i \in 1 .. Len(u) : t[i] = u[i]
      BY <1>2, AppendProperties
    <3>2. m.type = "frame" => m.val \in Nat
      BY MsgTypes
    <3> HIDE DEF u, n, k, t
    <3>3. \A i \in 1 .. Len(t) : i \in 1 .. Len(u) \/ i = Len(u) + 1
      BY <3>1
    <3>4. \A i \in 1 .. Len(t) : t[i].type = "frame" => t[i].val <= k
      BY <1>2, <2>3, <3>1, <3>2, <3>3
    <3> QED
      BY <2>3, <3>4 DEF t
  <2> QED
    BY <2>1, <2>2, <2>3
<1> QED
  BY <1>3, <1>4 DEF AnnouncedInSums

LEMMA SumsStep == TypeOK /\ OrderInv /\ SumsInv /\ [Next]_vars => SumsInv'
<1> SUFFICES ASSUME TypeOK, OrderInv, SumsInv, [Next]_vars, NEW p \in Players
             PROVE  AnnouncedInSums(p)'
  BY DEF SumsInv
<1>a. /\ AnnouncedInSums(p) /\ sums \in [Players -> Seq(Nat)]
      /\ up \in [Players -> Seq(UpMessages)]
      /\ clientFrame \in [Players -> Nat] /\ Len(sums[p]) \in Nat
  BY DEF SumsInv, TypeOK, EmuTypeOK, LinkTypeOK, RecvTypeOK
<1>1. ASSUME sums'[p] = sums[p], up'[p] = up[p], clientFrame'[p] = clientFrame[p]
      PROVE  AnnouncedInSums(p)'
  BY <1>1, <1>a DEF AnnouncedInSums
<1>2. ASSUME ServerNext, UNCHANGED clientVars PROVE AnnouncedInSums(p)'
  <2>1. sums' = sums
    BY <1>2 DEF clientVars, emuVars
  <2>2. CASE GameLoop \/ Interrupt
    <3>1. up' = up /\ clientFrame' = clientFrame
      BY <2>2 DEF GameLoop, Interrupt, NextIteration, StopGame, Tick, ScanClient,
         CannotCheckYet, CollectCheck, CheckPassed, CheckFailed, Rescan,
         RescanClient, LoopRaised, Scan, recvVars, linkVars
    <3> QED
      BY <1>1, <2>1, <3>1
  <2>3. ASSUME NEW q \in Players, Receiver(q) PROVE AnnouncedInSums(p)'
    <3>1. \/ up' = up /\ clientFrame' = clientFrame
          \/ /\ up[q] # << >> /\ up' = [up EXCEPT ![q] = Tail(@)]
             /\ \/ clientFrame' = clientFrame
                \/ /\ Head(up[q]).type = "frame"
                   /\ clientFrame' = [clientFrame EXCEPT ![q] = Head(up[q]).val]
      BY <2>3 DEF Receiver, ReceiveCheck, ReceiveFrame, ReceiveInput,
         ReceiverEnds, recvVars
    <3>2. CASE q = p
      <4>1. /\ Len(sums'[p]) \in Nat /\ Len(sums[p]) <= Len(sums'[p])
            /\ \/ clientFrame'[p] = clientFrame[p]
               \/ /\ up[p] # << >> /\ Head(up[p]).type = "frame"
                  /\ clientFrame'[p] = Head(up[p]).val
            /\ \/ up'[p] = up[p]
               \/ up[p] # << >> /\ up'[p] = Tail(up[p])
        BY <1>a, <2>1, <3>1, <3>2
      <4> QED
        BY <1>a, <4>1, SumsKeep
    <3>3. CASE q # p
      <4>1. up'[p] = up[p] /\ clientFrame'[p] = clientFrame[p]
        BY <1>a, <3>1, <3>3
      <4> QED
        BY <1>1, <2>1, <4>1
    <3> QED
      BY <3>2, <3>3
  <2> QED
    BY <1>2, <2>2, <2>3 DEF ServerNext
<1>3. ASSUME ClientNext, UNCHANGED serverVars PROVE AnnouncedInSums(p)'
  <2>1. PICK q \in Players : EmulatorSteps(q)
    BY <1>3 DEF ClientNext, Quit, BrokenPipe, EmulatorSteps
  <2>2. clientFrame' = clientFrame
    BY <1>3 DEF serverVars, recvVars
  <2>3. ASSUME sums' = sums, up' = up PROVE AnnouncedInSums(p)'
    BY <1>1, <2>2, <2>3
  <2>4. ASSUME NEW m \in UpMessages, Send(q, m),
               m.type = "frame" => m.val <= Len(sums[q]),
               \/ sums' = sums
               \/ \E d \in Nat : sums' = [sums EXCEPT ![q] = Append(@, d)]
        PROVE  AnnouncedInSums(p)'
    <3>1. \/ up' = up \/ up' = [up EXCEPT ![q] = Append(@, m)]
      BY <2>4 DEF Send
    <3>2. CASE q # p
      <4>1. up'[p] = up[p] /\ sums'[p] = sums[p]
        BY <1>a, <2>4, <3>1, <3>2
      <4> QED
        BY <1>1, <2>2, <4>1
    <3>3. CASE q = p
      <4>1. up'[p] = up[p] \/ up'[p] = Append(up[p], m)
        BY <1>a, <3>1, <3>3
      <4>2. Len(sums'[p]) \in Nat /\ Len(sums[p]) <= Len(sums'[p])
        <5>1. CASE sums' = sums
          BY <1>a, <5>1
        <5>2. ASSUME NEW d \in Nat, sums' = [sums EXCEPT ![q] = Append(@, d)]
              PROVE  Len(sums'[p]) \in Nat /\ Len(sums[p]) <= Len(sums'[p])
          <6>1. sums'[p] = Append(sums[p], d) /\ sums[p] \in Seq(Nat)
            BY <1>a, <3>3, <5>2
          <6>2. Len(sums'[p]) = Len(sums[p]) + 1
            BY <6>1, AppendProperties
          <6> QED
            BY <1>a, <6>2
        <5> QED
          BY <2>4, <5>1, <5>2
      <4>3. \/ up'[p] = up[p]
            \/ \E x \in UpMessages : /\ up'[p] = Append(up[p], x)
                                     /\ x.type = "frame" => x.val <= Len(sums[p])
        BY <2>4, <3>3, <4>1
      <4> QED
        BY <1>a, <2>2, <4>2, <4>3, SumsKeep
    <3> QED
      BY <3>2, <3>3
  <2>5. CASE \E e \in Events : SendInput(q, e)
    <3>1. PICK e \in Events : SendInput(q, e)
      BY <2>5
    <3>2. Send(q, InputMsg(e)) /\ sums' = sums
      BY <3>1 DEF SendInput, emuVars
    <3>3. InputMsg(e) \in UpMessages /\ InputMsg(e).type # "frame"
      BY MsgTypes DEF InputMsg, Msg
    <3> QED
      BY <2>4, <3>2, <3>3
  <2>6. CASE EmuCheck(q)
    <3>1. /\ Send(q, CheckMsg(Checksum(q))) /\ Checksum(q) \in Nat
          /\ sums' = [sums EXCEPT ![q] = Append(@, Checksum(q))]
      BY <2>6, NumClientsAssumption DEF EmuCheck, Checksum, Players
    <3>2. /\ CheckMsg(Checksum(q)) \in UpMessages
          /\ CheckMsg(Checksum(q)).type # "frame"
      BY <3>1, MsgTypes DEF CheckMsg, Msg
    <3> QED
      BY <2>4, <3>1, <3>2
  <2>7. CASE EmuAck(q)
    <3>1. Send(q, FrameMsg(eframe[q])) /\ sums' = sums /\ epc[q] = "ack"
      BY <2>7 DEF EmuAck, Goto
    <3>2. eframe[q] \in Nat /\ Len(sums[q]) = eframe[q]
      BY <3>1, OrderTypes DEF OrderInv, QueueInOrder, Live
    <3>3. FrameMsg(eframe[q]) \in UpMessages /\ FrameMsg(eframe[q]).val = eframe[q]
      BY <3>2, MsgTypes, MarkIs
    <3> QED
      BY <2>4, <3>1, <3>2, <3>3
  <2>8. CASE \/ ReceiveThread(q) \/ EmuEnter(q) \/ EmuWake(q) \/ EmuDrain(q)
             \/ Ends(q) \/ Diverge(q)
    <3>1. sums' = sums /\ up' = up
      BY <2>8 DEF ReceiveThread, RecvInput, RecvFrame, SignalFrame, RecvError,
         RecvFails, EmuEnter, EmuWake, EmuDrain, Ends, Diverge, emuVars, linkVars
    <3> QED
      BY <2>3, <3>1
  <2> QED
    BY <2>1, <2>5, <2>6, <2>7, <2>8 DEF EmulatorSteps, EmuThread
<1>4. CASE \/ (\E q \in Players : Reset(q)) /\ UNCHANGED <<serverVars, clientVars>>
           \/ UNCHANGED vars
  <2>1. sums' = sums /\ up' = up /\ clientFrame' = clientFrame
    BY <1>4 DEF Reset, vars, serverVars, recvVars, clientVars, emuVars, linkVars
  <2> QED
    BY <1>1, <2>1
<1> QED
  BY <1>2, <1>3, <1>4 DEF Next

-----------------------------------------------------------------------------
(* The game implements Lockstep *)

\* A piece that holds the marks 1, ..., n holds n frames.
LEMMA FramesOf ==
  ASSUME NEW s \in Seq(DownMessages), NEW n \in Nat, Run(s, 1, n)
  PROVE  Abstract!Frames(s) = n
<1> DEFINE I == {i \in 1 .. Len(s) : s[i].type = "frame"}
           f == [v \in 1 .. n |-> CHOOSE i \in I : s[i] = FrameMsg(v)]
<1>1. ASSUME NEW v \in 1 .. n
      PROVE  f[v] \in I /\ s[f[v]] = FrameMsg(v)
  <2>1. PICK i \in 1 .. Len(s) : s[i] = FrameMsg(v)
    BY DEF Run
  <2>2. i \in I
    BY <2>1, MarkIs
  <2> QED
    BY <2>1, <2>2
<1>2. f \in [1 .. n -> I]
  BY <1>1
<1>3. ASSUME NEW v \in 1 .. n, NEW w \in 1 .. n, f[v] = f[w] PROVE v = w
  <2>1. FrameMsg(v) = FrameMsg(w)
    BY <1>1, <1>3
  <2> QED
    BY <2>1, MarkIs
<1>4. ASSUME NEW i \in I PROVE \E v \in 1 .. n : f[v] = i
  <2>1. i \in 1 .. Len(s) /\ s[i].type = "frame" /\ s[i].val \in 1 .. n
    BY DEF Run
  <2> DEFINE v == s[i].val
             j == f[v]
  <2>2. /\ j \in 1 .. Len(s) /\ s[j].type = "frame" /\ s[j] = FrameMsg(v)
    BY <1>1, <2>1
  <2>3. s[j].val = s[i].val /\ s[i].val \in Nat
    BY <2>1, <2>2, MarkIs
  <2> HIDE DEF j
  <2>4. ~(i < j) /\ ~(j < i)
    BY <2>1, <2>2, <2>3 DEF Run
  <2>5. i = j
    BY <2>1, <2>2, <2>4
  <2> QED
    BY <2>1, <2>5 DEF j
<1> HIDE DEF f, I
<1>5. f \in Bijection(1 .. n, I)
  BY <1>2, <1>3, <1>4 DEF Bijection, Injection, Surjection, IsInjective
<1>6. IsFiniteSet(1 .. n) /\ Cardinality(1 .. n) = n
  BY FS_Interval
<1>7. Cardinality(I) = n
  BY <1>5, <1>6, FS_Bijection DEF ExistsBijection
<1>8. Abstract!Frames(s) = Cardinality(I)
  BY Zenon DEF Abstract!Frames, I, Abstract!Cardinality, Cardinality
<1> QED
  BY <1>7, <1>8

LEMMA InitLockstep == Init => Abstract!Init
BY DEF Init, LinkInit, ServerInit, ClientInit, Abstract!Init, Abstract!Players,
       Players

\* What a step of the game does to the log and the players.
Announced == [p \in Players |-> Len(sums[p])]

LEMMA StepLockstep ==
  ASSUME TypeOK, TypeOK', DriftInv, OrderInv, FedInv, FedInv', SumsInv,
         [Next]_vars
  PROVE  [Abstract!Next]_<<log, Announced, applied>>
<1>a. Abstract!Players = Players
  BY DEF Abstract!Players, Players
<1>b. log \in Seq(DownMessages) /\ frame \in Nat /\ Abstract!Frames(log) = frame
  <2>1. log \in Seq(DownMessages) /\ frame \in Nat
    BY LogSeqIsDownSeq DEF TypeOK, CastTypeOK, LoopTypeOK
  <2>2. Run(log, 1, frame)
    BY DEF OrderInv, LogInOrder
  <2> QED
    BY <2>1, <2>2, FramesOf
<1>c. ASSUME UNCHANGED <<log, applied, sums>>
      PROVE  UNCHANGED <<log, Announced, applied>>
  BY <1>c DEF Announced
<1>1. CASE ServerNext /\ UNCHANGED clientVars
  <2>1. applied' = applied /\ sums' = sums /\ Announced' = Announced
    BY <1>1 DEF clientVars, emuVars, Announced
  <2>2. CASE Tick
    <3>1. log' = Append(log, FrameMsg(frame + 1)) /\ gpc = "tick"
      BY <2>2 DEF Tick, SendToClients
    <3>2. \A p \in Players : frame <= Announced[p] + MaxDrift
      <4>1. ASSUME NEW p \in Players PROVE frame <= Announced[p] + MaxDrift
        <5>1. frame <= clientFrame[p] + MaxDrift
          BY <3>1 DEF DriftInv, ScanSound
        <5>2. clientFrame[p] <= Announced[p]
          BY DEF SumsInv, AnnouncedInSums, Announced
        <5>3. /\ clientFrame[p] \in Nat /\ Announced[p] \in Nat
              /\ MaxDrift \in Nat
          BY ServerAssumption DEF TypeOK, RecvTypeOK, EmuTypeOK, Announced
        <5> QED
          BY <1>b, <5>1, <5>2, <5>3
      <4> QED
        BY <4>1
    <3>3. FrameMsg(frame + 1) = Abstract!FrameMark(Abstract!Frames(log) + 1)
      BY <1>b DEF FrameMsg, Msg, Abstract!FrameMark
    <3>4. Abstract!CloseFrame
      BY <1>a, <1>b, <2>1, <3>1, <3>2, <3>3 DEF Abstract!CloseFrame, Announced
    <3> QED
      BY <3>4 DEF Abstract!Next
  <2>3. ASSUME NEW q \in Players, ReceiveInput(q)
        PROVE  Abstract!Next
    <3>1. /\ log' = Append(log, Head(up[q])) /\ up[q] # << >>
          /\ Head(up[q]).type = "input"
      BY <2>3 DEF ReceiveInput, SendToClients
    <3>2. Head(up[q]) \in UpMessages
      <4>1. up[q] \in Seq(UpMessages)
        BY DEF TypeOK, LinkTypeOK
      <4> QED
        BY <3>1, <4>1, HeadTailProperties
    <3>3. PICK e \in Events : Head(up[q]) = Abstract!Input(e)
      BY <3>1, <3>2 DEF UpMessages, LogMessages, Abstract!Input
    <3>4. Abstract!Submit(e)
      BY <2>1, <3>1, <3>3 DEF Abstract!Submit, Announced
    <3> QED
      BY <3>4 DEF Abstract!Next
  <2>4. CASE \/ NextIteration \/ ScanClient \/ CannotCheckYet \/ CollectCheck
             \/ CheckPassed \/ Rescan \/ RescanClient \/ LoopRaised \/ Interrupt
             \/ CheckFailed \/ StopGame
             \/ \E q \in Players : \/ ReceiveCheck(q) \/ ReceiveFrame(q)
                                   \/ ReceiverEnds(q)
    <3>1. log' = log
      BY <2>4 DEF NextIteration, ScanClient, CannotCheckYet, CollectCheck,
         CheckPassed, Rescan, RescanClient, LoopRaised, Interrupt, Scan,
         CheckFailed, StopGame, ReceiveCheck, ReceiveFrame, ReceiverEnds, castVars
    <3> QED
      BY <2>1, <3>1
  <2> QED
    BY <1>1, <2>2, <2>3, <2>4 DEF ServerNext, GameLoop, Receiver
<1>2. CASE ClientNext /\ UNCHANGED serverVars
  <2>1. PICK p \in Players : EmulatorSteps(p)
    BY <1>2 DEF ClientNext, Quit, BrokenPipe, EmulatorSteps
  <2>2. log' = log
    BY <1>2 DEF serverVars, castVars
  <2>3. /\ sums \in [Players -> Seq(Nat)]
        /\ applied \in [Players -> Seq(LogMessages)]
        /\ eframe[p] \in Nat /\ applied[p] \in Seq(DownMessages)
        /\ Received(p) \in Nat /\ gframe[p] \in Nat
    BY OrderTypes DEF TypeOK, EmuTypeOK
  <2>4. CASE EmuCheck(p)
    <3>1. /\ epc[p] = "check" /\ applied' = applied
          /\ sums' = [sums EXCEPT ![p] = Append(@, Checksum(p))]
      BY <2>4 DEF EmuCheck, Goto
    <3>2. /\ Run(applied[p], 1, eframe[p] - 1) /\ Len(sums[p]) = eframe[p] - 1
          /\ eframe[p] > 0 /\ eframe[p] <= gframe[p]
          /\ hand[p] # 0 => hand[p] = gframe[p] + 1
      BY <3>1 DEF OrderInv, QueueInOrder, Live, NextMark
    <3>3. Abstract!Frames(applied[p]) = eframe[p] - 1
      <4> DEFINE k == eframe[p] - 1
      <4>1. k \in Nat /\ Run(applied[p], 1, k)
        BY <2>3, <3>2
      <4> HIDE DEF k
      <4>2. Abstract!Frames(applied[p]) = k
        BY <2>3, <4>1, FramesOf
      <4> QED
        BY <4>2 DEF k
    <3>4. eframe[p] - 1 < frame
      <4>1. PICK last \in Received(p) .. frame : TRUE
        BY DEF OrderInv, DownInOrder
      <4>2. gframe[p] <= Received(p)
        BY <2>3, <3>2 DEF Received
      <4> QED
        BY <1>b, <2>3, <3>2, <4>1, <4>2
    <3>5. Announced' = [Announced EXCEPT ![p] = @ + 1]
      <4>1. Len(sums'[p]) = Len(sums[p]) + 1
        <5>1. Checksum(p) \in Nat
          BY NumClientsAssumption DEF Checksum, Players
        <5> QED
          BY <2>3, <3>1, <5>1, AppendProperties
      <4>2. \A q \in Players : q # p => sums'[q] = sums[q]
        BY <2>3, <3>1
      <4> QED
        BY <4>1, <4>2 DEF Announced
    <3>6. Announced[p] = eframe[p] - 1
      BY <3>2 DEF Announced
    <3>7. Abstract!Announce(p)
      BY <1>b, <2>2, <3>1, <3>3, <3>4, <3>5, <3>6 DEF Abstract!Announce, Announced
    <3> QED
      BY <1>a, <3>7 DEF Abstract!Next
  <2>5. CASE EmuDrain(p)
    <3>1. epc[p] = "drain" /\ sums' = sums
      BY <2>5 DEF EmuDrain, Goto
    <3>2. queue[p] # << >> /\ Head(queue[p]) \in DownMessages
      BY <3>1, DrainOrder
    <3>3. applied' = [applied EXCEPT ![p] = Append(@, Head(queue[p]))]
      BY <2>5, <3>2 DEF EmuDrain
    <3>4. /\ Run(applied[p], 1, eframe[p] - 1) /\ Len(sums[p]) = eframe[p]
          /\ eframe[p] > 0
      BY <3>1 DEF OrderInv, QueueInOrder, Live, NextMark
    <3>5. Abstract!Frames(applied[p]) = eframe[p] - 1
      <4> DEFINE k == eframe[p] - 1
      <4>1. k \in Nat /\ Run(applied[p], 1, k)
        BY <2>3, <3>4
      <4> HIDE DEF k
      <4>2. Abstract!Frames(applied[p]) = k
        BY <2>3, <4>1, FramesOf
      <4> QED
        BY <4>2 DEF k
    <3>6. Head(queue[p]) = log[Len(applied[p]) + 1]
      <4>1. Agrees(applied'[p], log', Len(applied'[p]))
        BY DEF FedInv, Fed
      <4> DEFINE a == applied[p]
                 h == Head(queue[p])
                 b == Append(a, h)
      <4>2. Agrees(b, log, Len(b)) /\ a \in Seq(DownMessages)
            /\ h \in DownMessages
        BY <2>2, <2>3, <3>2, <3>3, <4>1
      <4> HIDE DEF a, h
      <4>3. Len(b) = Len(a) + 1 /\ b[Len(a) + 1] = h /\ Len(a) \in Nat
        BY <4>2, AppendProperties
      <4> HIDE DEF b
      <4>4. Len(a) + 1 \in 1 .. Len(b)
        BY <4>3
      <4>5. b[Len(a) + 1] = log[Len(a) + 1]
        BY <4>2, <4>4 DEF Agrees
      <4> QED
        BY <4>3, <4>5 DEF a, h
    <3>7. Abstract!Frames(applied[p]) < Announced[p]
      BY <2>3, <3>4, <3>5 DEF Announced
    <3>8. applied' = [applied EXCEPT ![p] = Append(@, log[Len(@) + 1])]
      BY <3>3, <3>6
    <3>9. Announced' = Announced
      BY <3>1 DEF Announced
    <3>10. Abstract!Apply(p)
      BY <2>2, <3>7, <3>8, <3>9 DEF Abstract!Apply, Announced
    <3> QED
      BY <1>a, <3>10 DEF Abstract!Next
  <2>6. CASE \/ ReceiveThread(p) \/ EmuEnter(p) \/ EmuWake(p) \/ EmuAck(p)
             \/ Ends(p) \/ Diverge(p) \/ \E e \in Events : SendInput(p, e)
    <3>1. sums' = sums /\ applied' = applied
      BY <2>6 DEF ReceiveThread, RecvInput, RecvFrame, SignalFrame, RecvError,
         RecvFails, EmuEnter, EmuWake, EmuAck, Ends, Diverge, SendInput, emuVars
    <3> QED
      BY <1>c, <2>2, <3>1
  <2> QED
    BY <2>1, <2>4, <2>5, <2>6 DEF EmulatorSteps, EmuThread
<1>3. CASE \/ (\E q \in Players : Reset(q)) /\ UNCHANGED <<serverVars, clientVars>>
           \/ UNCHANGED vars
  <2>1. UNCHANGED <<log, applied, sums>>
    BY <1>3 DEF vars, serverVars, castVars, clientVars, emuVars
  <2> QED
    BY <1>c, <2>1
<1> QED
  BY <1>1, <1>2, <1>3 DEF Next

\* The game is a Lockstep: one log, from which every player takes whole frames
\* in order, each after announcing it, never more than MaxDrift + 1 behind.
THEOREM Implements == Spec => LockstepRefinement
<1> DEFINE Inv == TypeOK /\ DriftInv /\ OrderInv /\ FedInv /\ SumsInv
<1>1. Init => Inv
  BY InitType, DriftInit, OrderInit, FedInit, SumsInit
<1>2. Inv /\ [Next]_vars => Inv'
  BY StepType, DriftStep, OrderStep, FedStep, SumsStep
<1>3. Inv /\ Inv' /\ [Next]_vars => [Abstract!Next]_Abstract!vars
  BY StepLockstep DEF Abstract!vars, Announced
<1>4. Init => Abstract!Init
  BY InitLockstep
<1> QED
  BY <1>1, <1>2, <1>3, <1>4, PTL DEF Spec, LockstepRefinement, Abstract!Spec

-----------------------------------------------------------------------------
(* What a player has sent and the server has not read *)

\* What lies at i was sent between the announcements of the frames f and f + 1.
Apart(s, i, f) ==
  /\ \A j \in 1 .. Len(s) : j < i /\ s[j].type = "frame" => s[j].val <= f
  /\ \A j \in 1 .. Len(s) : i < j /\ s[j].type = "frame" => f < s[j].val

\* A check that lies there is the checksum l has for the frame after f.
Stamped(s, i, f, l) == f < Len(l) /\ s[i].val = l[f + 1] /\ Apart(s, i, f)

ChecksTrue(s, c, last, l) ==
  \A i \in 1 .. Len(s) : s[i].type = "check" =>
    \E f \in c .. last : Stamped(s, i, f, l)

ChecksCome(s, from, due) ==
  \A f \in from .. due - 1 :
    \E i \in 1 .. Len(s) : s[i].type = "check" /\ Apart(s, i, f)

\* The server has been told of frame c by a player with the checksums l, and s
\* is what the player has sent since: it announces the frames up to last and
\* holds the checks of all frames from c, or the next if c's has been read,
\* to the one before due.
Sent(s, c, from, last, due, l) ==
  /\ from \in {c, c + 1} /\ c <= last /\ due \in {last, last + 1} /\ due <= Len(l)
  /\ Run(s, c + 1, last)
  /\ ChecksTrue(s, c, last, l)
  /\ ChecksCome(s, from, due)

LEMMA SentMarkIs ==
  /\ \A m \in UpMessages : m.type = "frame" =>
       m.val \in Nat /\ m = FrameMsg(m.val)
  /\ \A m \in UpMessages : m.type \in {"input", "frame", "check"}
BY DEF FrameMsg, Msg, UpMessages, LogMessages

\* The first is read ...
LEMMA ApartTail ==
  ASSUME NEW s \in Seq(UpMessages), s # << >>, NEW i \in 1 .. Len(s),
         NEW f \in Nat, Apart(s, i, f)
  PROVE  /\ i # 1 => i - 1 \in 1 .. Len(Tail(s)) /\ Tail(s)[i - 1] = s[i]
                    /\ Apart(Tail(s), i - 1, f)
         /\ i # 1 /\ s[1].type = "frame" => s[1].val <= f
<1> DEFINE t == Tail(s)
<1>1. /\ Len(s) \in Nat /\ 1 \in 1 .. Len(s)
      /\ \A j \in 1 .. Len(t) : j + 1 \in 1 .. Len(s) /\ t[j] = s[j + 1]
      /\ Len(t) = Len(s) - 1
  BY HeadTailProperties
<1> HIDE DEF t
<1>2. ASSUME i # 1
      PROVE  i - 1 \in 1 .. Len(t) /\ t[i - 1] = s[i] /\ Apart(t, i - 1, f)
  <2>1. i - 1 \in 1 .. Len(t) /\ t[i - 1] = s[i]
    BY <1>1, <1>2
  <2>2. \A j \in 1 .. Len(t) : /\ j < i - 1 => j + 1 < i
                              /\ i - 1 < j => i < j + 1
    OBVIOUS
  <2>3. ASSUME NEW j \in 1 .. Len(t), t[j].type = "frame"
        PROVE  /\ j < i - 1 => t[j].val <= f
               /\ i - 1 < j => f < t[j].val
    <3>1. j + 1 \in 1 .. Len(s) /\ t[j] = s[j + 1]
      BY <1>1
    <3> QED
      BY <2>2, <2>3, <3>1 DEF Apart
  <2>4. Apart(t, i - 1, f)
    BY <2>3 DEF Apart
  <2> QED
    BY <2>1, <2>4
<1>3. i # 1 /\ s[1].type = "frame" => s[1].val <= f
  BY <1>1 DEF Apart
<1> QED
  BY <1>2, <1>3 DEF t

LEMMA TailSource ==
  ASSUME NEW s \in Seq(UpMessages), s # << >>, NEW i \in 1 .. Len(Tail(s))
  PROVE  i + 1 \in 1 .. Len(s) /\ Tail(s)[i] = s[i + 1] /\ i + 1 # 1
         /\ (i + 1) - 1 = i
BY HeadTailProperties

\* ... and the checks behind it stay in step, as seen from frame d, where d is
\* the frame the server has then been told of.
LEMMA TrueTail ==
  ASSUME NEW s \in Seq(UpMessages), s # << >>, NEW l \in Seq(Nat),
         NEW c \in Nat, NEW last \in Nat, ChecksTrue(s, c, last, l),
         NEW d \in Nat,
         d # c => s[1].type = "frame" /\ s[1].val = d
  PROVE  ChecksTrue(Tail(s), d, last, l)
<1> SUFFICES ASSUME NEW i \in 1 .. Len(Tail(s)), Tail(s)[i].type = "check"
             PROVE  \E f \in d .. last : Stamped(Tail(s), i, f, l)
  BY DEF ChecksTrue
<1>1. /\ i + 1 \in 1 .. Len(s) /\ Tail(s)[i] = s[i + 1] /\ i + 1 # 1
      /\ (i + 1) - 1 = i
  BY TailSource
<1>2. PICK f \in c .. last : Stamped(s, i + 1, f, l)
  BY <1>1 DEF ChecksTrue
<1>3. f \in Nat /\ Apart(s, i + 1, f)
  BY <1>2 DEF Stamped
<1>4. Apart(Tail(s), i, f)
  BY <1>1, <1>3, ApartTail
<1>5. f \in d .. last
  <2>1. CASE d = c
    BY <2>1
  <2>2. CASE d # c
    <3>1. d <= f
      BY <1>1, <1>3, <2>2, ApartTail
    <3> QED
      BY <1>2, <3>1
  <2> QED
    BY <2>1, <2>2
<1>6. Stamped(Tail(s), i, f, l)
  BY <1>1, <1>2, <1>4 DEF Stamped
<1> QED
  BY <1>5, <1>6

LEMMA ComeTail ==
  ASSUME NEW s \in Seq(UpMessages), s # << >>,
         NEW from \in Nat, NEW due \in Nat, ChecksCome(s, from, due),
         NEW next \in Nat, from <= next,
         \A f \in from .. due - 1 :
           s[1].type = "check" /\ Apart(s, 1, f) => f < next
  PROVE  ChecksCome(Tail(s), next, due)
<1> SUFFICES ASSUME NEW f \in next .. due - 1
             PROVE  \E i \in 1 .. Len(Tail(s)) :
                      Tail(s)[i].type = "check" /\ Apart(Tail(s), i, f)
  BY DEF ChecksCome
<1>1. f \in from .. due - 1 /\ f \in Nat /\ ~(f < next)
  OBVIOUS
<1>2. PICK i \in 1 .. Len(s) : s[i].type = "check" /\ Apart(s, i, f)
  BY <1>1 DEF ChecksCome
<1>3. i # 1
  BY <1>1, <1>2
<1> QED
  BY <1>1, <1>2, <1>3, ApartTail

\* The server reads an input, a check, or the announcement of a frame.
LEMMA InputRead ==
  ASSUME NEW s \in Seq(UpMessages), s # << >>, NEW l \in Seq(Nat),
         NEW c \in Nat, NEW from \in Nat, NEW last \in Nat, NEW due \in Nat,
         Sent(s, c, from, last, due, l), Head(s).type = "input"
  PROVE  Sent(Tail(s), c, from, last, due, l)
<1>1. /\ from \in {c, c + 1} /\ c <= last /\ due \in {last, last + 1} /\ due <= Len(l)
      /\ Run(s, c + 1, last)
      /\ ChecksTrue(s, c, last, l) /\ ChecksCome(s, from, due)
      /\ c + 1 \in Nat /\ s[1].type = "input"
  BY DEF Sent
<1>2. Run(Tail(s), c + 1, last)
  BY <1>1, RunTake
<1>3. ChecksTrue(Tail(s), c, last, l)
  BY <1>1, TrueTail
<1>4. ChecksCome(Tail(s), from, due)
  BY <1>1, ComeTail
<1> QED
  BY <1>1, <1>2, <1>3, <1>4 DEF Sent

LEMMA CheckRead ==
  ASSUME NEW s \in Seq(UpMessages), s # << >>, NEW l \in Seq(Nat),
         NEW c \in Nat, NEW from \in Nat, NEW last \in Nat, NEW due \in Nat,
         Sent(s, c, from, last, due, l), Head(s).type = "check"
  PROVE  /\ c < Len(l) /\ Head(s).val = l[c + 1]
         /\ Sent(Tail(s), c, c + 1, last, due, l)
<1>1. /\ from \in {c, c + 1} /\ c <= last /\ due \in {last, last + 1} /\ due <= Len(l)
      /\ Run(s, c + 1, last)
      /\ ChecksTrue(s, c, last, l) /\ ChecksCome(s, from, due)
      /\ c + 1 \in Nat /\ s[1] = Head(s) /\ s[1].type = "check"
      /\ 1 \in 1 .. Len(s)
  BY DEF Sent
<1>2. ASSUME NEW f \in c .. last, Apart(s, 1, f) PROVE f = c
  <2>1. SUFFICES ASSUME f # c PROVE FALSE
    OBVIOUS
  <2>a. c + 1 \in c + 1 .. last
    BY <1>2, <2>1
  <2>2. PICK k \in 1 .. Len(s) : s[k] = FrameMsg(c + 1)
    BY <1>1, <2>a DEF Run
  <2>3. s[k].type = "frame" /\ s[k].val = c + 1 /\ k # 1
    BY <1>1, <2>2, MarkIs
  <2>4. 1 < k /\ k \in 1 .. Len(s)
    BY <2>2, <2>3
  <2>5. f < s[k].val
    BY <1>2, <2>3, <2>4 DEF Apart
  <2> QED
    BY <1>2, <2>1, <2>3, <2>5
<1>3. PICK f \in c .. last : Stamped(s, 1, f, l)
  BY <1>1 DEF ChecksTrue
<1>4. f = c
  BY <1>2, <1>3 DEF Stamped
<1>5. c < Len(l) /\ Head(s).val = l[c + 1]
  BY <1>1, <1>3, <1>4 DEF Stamped
<1>6. Run(Tail(s), c + 1, last)
  BY <1>1, RunTake
<1>7. ChecksTrue(Tail(s), c, last, l)
  BY <1>1, TrueTail
<1>8. ChecksCome(Tail(s), c + 1, due)
  <2>1. \A g \in from .. due - 1 : g \in c .. last
    BY <1>1
  <2>2. \A g \in from .. due - 1 :
          s[1].type = "check" /\ Apart(s, 1, g) => g < c + 1
    <3> SUFFICES ASSUME NEW g \in from .. due - 1, Apart(s, 1, g)
                 PROVE  g < c + 1
      OBVIOUS
    <3>1. g = c
      BY <1>2, <2>1
    <3> QED
      BY <3>1
  <2>3. from <= c + 1
    BY <1>1
  <2> QED
    BY <1>1, <2>2, <2>3, ComeTail
<1>9. c + 1 \in {c, c + 1}
  OBVIOUS
<1> QED
  BY <1>1, <1>5, <1>6, <1>7, <1>8, <1>9 DEF Sent

LEMMA FrameRead ==
  ASSUME NEW s \in Seq(UpMessages), s # << >>, NEW l \in Seq(Nat),
         NEW c \in Nat, NEW from \in Nat, NEW last \in Nat, NEW due \in Nat,
         Sent(s, c, from, last, due, l), Head(s).type = "frame"
  PROVE  /\ Head(s).val = c + 1 /\ from = c + 1 /\ c + 1 <= last
         /\ Sent(Tail(s), c + 1, c + 1, last, due, l)
<1>1. /\ from \in {c, c + 1} /\ c <= last /\ due \in {last, last + 1} /\ due <= Len(l)
      /\ Run(s, c + 1, last)
      /\ ChecksTrue(s, c, last, l) /\ ChecksCome(s, from, due)
      /\ c + 1 \in Nat /\ s[1] = Head(s) /\ s[1].type = "frame"
      /\ 1 \in 1 .. Len(s)
  BY DEF Sent
<1>2. /\ Head(s) = FrameMsg(c + 1) /\ c + 1 <= last
      /\ Run(Tail(s), (c + 1) + 1, last)
  BY <1>1, RunTake
<1>3. s[1].val = c + 1
  BY <1>1, <1>2, MarkIs
<1>4. from = c + 1
  <2> SUFFICES ASSUME from = c PROVE FALSE
    BY <1>1
  <2>1. c \in from .. due - 1
    BY <1>1, <1>2
  <2>2. PICK i \in 1 .. Len(s) : s[i].type = "check" /\ Apart(s, i, c)
    BY <1>1, <2>1 DEF ChecksCome
  <2>3. i # 1
    BY <1>1, <2>2
  <2>4. s[1].val <= c
    BY <1>1, <2>2, <2>3, ApartTail
  <2> QED
    BY <1>3, <2>4
<1>5. ChecksTrue(Tail(s), c + 1, last, l)
  BY <1>1, <1>3, TrueTail
<1>6. ChecksCome(Tail(s), c + 1, due)
  <2>1. s[1].type # "check" /\ from <= c + 1
    BY <1>1, <1>4
  <2> QED
    BY <1>1, <2>1, ComeTail
<1>7. c + 1 \in {c + 1, (c + 1) + 1}
  OBVIOUS
<1> QED
  BY <1>1, <1>2, <1>3, <1>4, <1>5, <1>6, <1>7 DEF Sent

\* The player sends.
LEMMA ApartAppend ==
  ASSUME NEW s \in Seq(UpMessages), NEW m \in UpMessages, NEW f \in Nat,
         NEW i \in 1 .. Len(s), Apart(s, i, f), m.type = "frame" => f < m.val
  PROVE  /\ i \in 1 .. Len(Append(s, m)) /\ Append(s, m)[i] = s[i]
         /\ Apart(Append(s, m), i, f)
<1> DEFINE t == Append(s, m)
<1>1. /\ Len(s) \in Nat /\ Len(t) = Len(s) + 1 /\ t[Len(s) + 1] = m
      /\ \A j \in 1 .. Len(s) : t[j] = s[j]
  BY AppendProperties
<1> HIDE DEF t
<1>2. \A j \in 1 .. Len(t) : \/ j \in 1 .. Len(s) /\ t[j] = s[j]
                             \/ j = Len(s) + 1 /\ t[j] = m
  BY <1>1
<1>3. Apart(t, i, f)
  <2>1. ASSUME NEW j \in 1 .. Len(t), t[j].type = "frame"
        PROVE  (j < i => t[j].val <= f) /\ (i < j => f < t[j].val)
    <3>1. CASE j \in 1 .. Len(s) /\ t[j] = s[j]
      BY <2>1, <3>1 DEF Apart
    <3>2. CASE j = Len(s) + 1 /\ t[j] = m
      BY <1>1, <2>1, <3>2
    <3> QED
      BY <1>2, <3>1, <3>2
  <2> QED
    BY <2>1 DEF Apart
<1> QED
  BY <1>1, <1>3 DEF t

\* The checks stay in step; upto is the last frame announced with what is sent.
LEMMA TrueAppend ==
  ASSUME NEW s \in Seq(UpMessages), NEW m \in UpMessages, NEW l \in Seq(Nat),
         NEW c \in Nat, NEW last \in Nat, NEW upto \in Nat,
         ChecksTrue(s, c, last, l), last <= upto,
         m.type = "frame" => last < m.val,
         m.type = "check" => upto < Len(l) /\ m.val = l[upto + 1]
                             /\ c <= upto
                             /\ \A j \in 1 .. Len(s) : s[j].type = "frame" =>
                                  s[j].val <= upto
  PROVE  ChecksTrue(Append(s, m), c, upto, l)
<1> DEFINE t == Append(s, m)
<1>1. /\ Len(s) \in Nat /\ Len(t) = Len(s) + 1 /\ t[Len(s) + 1] = m
      /\ \A j \in 1 .. Len(s) : t[j] = s[j]
  BY AppendProperties
<1> HIDE DEF t
<1>2. SUFFICES ASSUME NEW i \in 1 .. Len(t), t[i].type = "check"
               PROVE  \E f \in c .. upto : Stamped(t, i, f, l)
  BY DEF ChecksTrue, t
<1>3. CASE i \in 1 .. Len(s)
  <2>1. PICK f \in c .. last : Stamped(s, i, f, l)
    BY <1>1, <1>2, <1>3 DEF ChecksTrue
  <2>2. f \in Nat /\ f \in c .. upto /\ (m.type = "frame" => f < m.val)
    BY SentMarkIs
  <2>3. Stamped(t, i, f, l)
    BY <1>3, <2>1, <2>2, ApartAppend DEF Stamped, t
  <2> QED
    BY <2>2, <2>3
<1>4. CASE i = Len(s) + 1
  <2>1. m.type = "check" /\ t[i] = m
    BY <1>1, <1>2, <1>4
  <2>2. Apart(t, i, upto)
    <3>1. \A j \in 1 .. Len(t) : ~(i < j) /\ (j < i => j \in 1 .. Len(s))
      BY <1>1, <1>4
    <3>2. \A j \in 1 .. Len(t) : j < i /\ t[j].type = "frame" =>
            t[j].val <= upto
      BY <1>1, <2>1, <3>1
    <3> QED
      BY <3>1, <3>2 DEF Apart
  <2>3. Stamped(t, i, upto, l) /\ upto \in c .. upto
    BY <2>1, <2>2 DEF Stamped
  <2> QED
    BY <2>3
<1> QED
  BY <1>1, <1>2, <1>3, <1>4

LEMMA ComeAppend ==
  ASSUME NEW s \in Seq(UpMessages), NEW m \in UpMessages,
         NEW from \in Nat, NEW due \in Nat, ChecksCome(s, from, due), m.type = "frame" => due <= m.val
  PROVE  ChecksCome(Append(s, m), from, due)
<1> SUFFICES ASSUME NEW f \in from .. due - 1
             PROVE  \E i \in 1 .. Len(Append(s, m)) :
                      Append(s, m)[i].type = "check" /\ Apart(Append(s, m), i, f)
  BY DEF ChecksCome
<1>1. PICK i \in 1 .. Len(s) : s[i].type = "check" /\ Apart(s, i, f)
  BY DEF ChecksCome
<1>2. f \in Nat /\ (m.type = "frame" => f < m.val)
  BY SentMarkIs
<1> QED
  BY <1>1, <1>2, ApartAppend

LEMMA InputSent ==
  ASSUME NEW s \in Seq(UpMessages), NEW m \in UpMessages, NEW l \in Seq(Nat),
         NEW c \in Nat, NEW from \in Nat, NEW last \in Nat, NEW due \in Nat,
         Sent(s, c, from, last, due, l), m.type = "input"
  PROVE  Sent(Append(s, m), c, from, last, due, l)
<1>1. /\ from \in {c, c + 1} /\ c <= last /\ due \in {last, last + 1} /\ due <= Len(l)
      /\ Run(s, c + 1, last)
      /\ ChecksTrue(s, c, last, l) /\ ChecksCome(s, from, due)
      /\ c + 1 \in Nat /\ last <= last
      /\ m.type # "frame" /\ m.type # "check"
  BY DEF Sent
<1>2. Run(Append(s, m), c + 1, last)
  BY <1>1, RunOther
<1>3. ChecksTrue(Append(s, m), c, last, l)
  BY <1>1, TrueAppend
<1>4. ChecksCome(Append(s, m), from, due)
  BY <1>1, ComeAppend
<1> QED
  BY <1>1, <1>2, <1>3, <1>4 DEF Sent

LEMMA FrameSent ==
  ASSUME NEW s \in Seq(UpMessages), NEW l \in Seq(Nat),
         NEW c \in Nat, NEW from \in Nat, NEW last \in Nat,
         Sent(s, c, from, last, last + 1, l)
  PROVE  Sent(Append(s, FrameMsg(last + 1)), c, from, last + 1, last + 1, l)
<1> DEFINE m == FrameMsg(last + 1)
<1>1. /\ from \in {c, c + 1} /\ c <= last /\ last + 1 <= Len(l) /\ Run(s, c + 1, last)
      /\ ChecksTrue(s, c, last, l) /\ ChecksCome(s, from, last + 1)
      /\ c + 1 \in Nat /\ last + 1 \in Nat /\ c + 1 <= last + 1
      /\ last < last + 1 /\ last <= last + 1
  BY DEF Sent
<1>2. m \in UpMessages /\ m.type = "frame" /\ m.val = last + 1
      /\ m.type # "check"
  BY MsgTypes, MarkIs
<1>3. Run(Append(s, m), c + 1, last + 1)
  BY <1>1, <1>2, RunMark
<1> HIDE DEF m
<1>4. ChecksTrue(Append(s, m), c, last + 1, l)
  BY <1>1, <1>2, TrueAppend
<1>5. ChecksCome(Append(s, m), from, last + 1)
  BY <1>1, <1>2, ComeAppend
<1>6. c <= last + 1
  BY <1>1
<1>7. Sent(Append(s, m), c, from, last + 1, last + 1, l)
  BY <1>1, <1>3, <1>4, <1>5, <1>6 DEF Sent
<1> QED
  BY <1>7 DEF m

LEMMA SumsGrow ==
  ASSUME NEW s \in Seq(UpMessages), NEW l \in Seq(Nat), NEW d \in Nat,
         NEW c \in Nat, NEW from \in Nat, NEW last \in Nat, NEW due \in Nat,
         Sent(s, c, from, last, due, l)
  PROVE  Sent(s, c, from, last, due, Append(l, d))
<1> DEFINE k == Append(l, d)
<1>1. /\ k \in Seq(Nat) /\ Len(k) = Len(l) + 1 /\ Len(l) \in Nat
      /\ k[Len(l) + 1] = d /\ \A i \in 1 .. Len(l) : k[i] = l[i]
  BY AppendProperties
<1> HIDE DEF k
<1>2. ASSUME NEW i, NEW f \in Nat, Stamped(s, i, f, l)
      PROVE  Stamped(s, i, f, k)
  <2>1. f < Len(l) /\ f + 1 \in 1 .. Len(l)
    BY <1>1, <1>2 DEF Stamped
  <2>2. k[f + 1] = l[f + 1]
    BY <1>1, <2>1, Zenon
  <2>3. Len(k) = Len(l) + 1 /\ Len(l) \in Nat
    BY <1>1
  <2>4. f < Len(k)
    BY <2>1, <2>3
  <2> QED
    BY <1>2, <2>2, <2>4 DEF Stamped
<1>3. \A f \in c .. last : f \in Nat
  OBVIOUS
<1>4. ChecksTrue(s, c, last, k)
  BY <1>2, <1>3 DEF Sent, ChecksTrue
<1>5. due <= Len(k)
  BY <1>1 DEF Sent
<1>6. Sent(s, c, from, last, due, k)
  BY <1>4, <1>5 DEF Sent
<1> QED
  BY <1>6 DEF k

LEMMA CheckSent ==
  ASSUME NEW s \in Seq(UpMessages), NEW l \in Seq(Nat), NEW d \in Nat,
         NEW c \in Nat, NEW from \in Nat, NEW last \in Nat,
         Sent(s, c, from, last, last, l), last = Len(l)
  PROVE  Sent(Append(s, CheckMsg(d)), c, from, last, last + 1, Append(l, d))
<1> DEFINE m == CheckMsg(d)
           k == Append(l, d)
           t == Append(s, m)
<1>1. m \in UpMessages /\ m.type = "check" /\ m.val = d
      /\ m.type # "frame"
  BY MsgTypes DEF CheckMsg, Msg
<1>2. /\ k \in Seq(Nat) /\ Len(k) = Len(l) + 1 /\ k[Len(l) + 1] = d
  BY AppendProperties
<1>3. Sent(s, c, from, last, last, k)
  BY SumsGrow
<1> HIDE DEF m, k
<1>4. /\ from \in {c, c + 1} /\ c <= last /\ Run(s, c + 1, last)
      /\ ChecksTrue(s, c, last, k) /\ ChecksCome(s, from, last)
      /\ c + 1 \in Nat /\ last + 1 \in {last, last + 1} /\ last + 1 <= Len(k)
      /\ last < Len(k) /\ m.val = k[last + 1] /\ last <= last
      /\ c \in Nat /\ last \in Nat
  BY <1>1, <1>2, <1>3 DEF Sent
<1>5. \A j \in 1 .. Len(s) : s[j].type = "frame" => s[j].val <= last
  BY <1>4 DEF Run
<1>6. Run(t, c + 1, last)
  BY <1>1, <1>4, RunOther
<1>7. ChecksTrue(t, c, last, k)
  BY <1>1, <1>2, <1>4, <1>5, TrueAppend
<1>8. ChecksCome(t, from, last + 1)
  <2>1. ChecksCome(t, from, last)
    BY <1>1, <1>4, ComeAppend
  <2>2. /\ Len(s) \in Nat /\ Len(t) = Len(s) + 1 /\ t[Len(s) + 1] = m
        /\ \A j \in 1 .. Len(s) : t[j] = s[j]
    BY <1>1, AppendProperties
  <2> HIDE DEF t
  <2>3. Apart(t, Len(s) + 1, last)
    <3>1. \A j \in 1 .. Len(t) : ~(Len(s) + 1 < j)
                                 /\ (j < Len(s) + 1 => j \in 1 .. Len(s))
      BY <2>2
    <3>2. \A j \in 1 .. Len(t) : j < Len(s) + 1 /\ t[j].type = "frame" =>
            t[j].val <= last
      BY <1>5, <2>2, <3>1
    <3> QED
      BY <3>1, <3>2 DEF Apart
  <2>4. Len(s) + 1 \in 1 .. Len(t) /\ t[Len(s) + 1].type = "check"
    BY <1>1, <2>2
  <2>5. \A f \in from .. (last + 1) - 1 :
          f \in from .. last - 1 \/ f = last
    BY <1>4
  <2> QED
    BY <2>1, <2>3, <2>4, <2>5 DEF ChecksCome
<1>9. Sent(t, c, from, last, last + 1, k)
  BY <1>4, <1>6, <1>7, <1>8 DEF Sent
<1> QED
  BY <1>9 DEF t, m, k

-----------------------------------------------------------------------------
(* What has been filed *)

\* The slot in the ring for frame f holds the checksum computed after f.
Holds(p, f) == /\ f < Len(sums[p])
               /\ memcheck[p][f % RingSize] = Slot(sums[p][f + 1], f)

Connected(p) == link[p] = "open" /\ present[p]

InStep(p, from, last, due) ==
  /\ from \in Nat /\ last \in Nat /\ due \in Nat
  /\ Sent(up[p], clientFrame[p], from, last, due, sums[p])
  /\ clientFrame[p] < from => Holds(p, clientFrame[p])
  /\ Connected(p) /\ Live(p) =>
       /\ due = Len(sums[p])
       /\ last = IF epc[p] = "ack" THEN due - 1 ELSE due

ChecksInStep(p) == \E from, last, due : InStep(p, from, last, due)

\* The ring holds the checks of the last RingSize - 1 frames before the one the
\* player has announced.
RingHolds(p) ==
  \A f \in 0 .. clientFrame[p] - 1 :
    clientFrame[p] < f + RingSize => Holds(p, f)

RingInv == \A p \in Players : /\ ChecksInStep(p) /\ RingHolds(p)
                              /\ Len(sums[p]) <= frame

LEMMA RingInit == Init => RingInv
<1> SUFFICES ASSUME Init, NEW p \in Players
             PROVE  ChecksInStep(p) /\ RingHolds(p) /\ Len(sums[p]) <= frame
  BY DEF RingInv
<1>1. /\ up[p] = << >> /\ sums[p] = << >> /\ clientFrame[p] = 0 /\ frame = 0
      /\ epc[p] = "enter"
  BY DEF Init, LinkInit, ServerInit, ClientInit
<1>2. Run(<< >>, 0 + 1, 0)
  BY RunNone
<1>3. Sent(<< >>, 0, 0, 0, 0, << >>)
  BY <1>2 DEF Sent, ChecksTrue, ChecksCome
<1>4. InStep(p, 0, 0, 0)
  BY <1>1, <1>3 DEF InStep
<1>5. RingHolds(p)
  BY <1>1 DEF RingHolds
<1>6. Len(sums[p]) <= frame
  BY <1>1
<1> QED
  BY <1>4, <1>5, <1>6 DEF ChecksInStep

LEMMA RingTypes ==
  ASSUME TypeOK, NEW p \in Players
  PROVE  /\ up[p] \in Seq(UpMessages) /\ sums[p] \in Seq(Nat)
         /\ clientFrame[p] \in Nat /\ Len(sums[p]) \in Nat /\ frame \in Nat
         /\ memcheck[p] \in [0 .. RingSize - 1 -> Slots]
BY DEF TypeOK, LinkTypeOK, RecvTypeOK, EmuTypeOK, LoopTypeOK

\* Frames that share a slot are RingSize apart.
LEMMA SameRemainder ==
  ASSUME NEW a \in Nat, NEW b \in Nat, NEW r \in Nat, r > 0, a < b,
         a % r = b % r
  PROVE  b >= a + r
<1>1. a = r * (a \div r) + (a % r) /\ b = r * (b \div r) + (b % r)
  OBVIOUS
<1>2. b - a = r * ((b \div r) - (a \div r))
  BY <1>1
<1>3. (b \div r) - (a \div r) >= 1
  BY <1>2
<1> QED
  BY <1>2, <1>3

LEMMA SlotsApart ==
  ASSUME NEW f \in Nat, NEW g \in Nat, f < g, g < f + RingSize
  PROVE  f % RingSize # g % RingSize
<1>1. RingSize \in Nat /\ RingSize > 0
  BY ServerAssumption
<1> SUFFICES ASSUME f % RingSize = g % RingSize PROVE FALSE
  OBVIOUS
<1>2. g >= f + RingSize
  BY <1>1, SameRemainder
<1> QED
  BY <1>1, <1>2

LEMMA RingSame ==
  ASSUME TypeOK, NEW p \in Players, ChecksInStep(p), RingHolds(p),
         up'[p] = up[p], clientFrame'[p] = clientFrame[p],
         sums'[p] = sums[p], memcheck'[p] = memcheck[p],
         Connected(p)' /\ Live(p)' =>
           Connected(p) /\ Live(p) /\ (epc'[p] = "ack" <=> epc[p] = "ack")
  PROVE  ChecksInStep(p)' /\ RingHolds(p)'
<1>1. \A f : Holds(p, f)' <=> Holds(p, f)
  BY DEF Holds
<1>2. RingHolds(p)'
  BY <1>1 DEF RingHolds
<1>3. PICK from, last, due : InStep(p, from, last, due)
  BY DEF ChecksInStep
<1>4. InStep(p, from, last, due)'
  BY <1>1, <1>3 DEF InStep
<1> QED
  BY <1>2, <1>4 DEF ChecksInStep

\* The receive thread of a player files a check, and later counts it.
LEMMA RingReceive ==
  ASSUME TypeOK, NEW p \in Players, ChecksInStep(p), RingHolds(p),
         Receiver(p), UNCHANGED clientVars
  PROVE  ChecksInStep(p)' /\ RingHolds(p)'
<1> DEFINE s == up[p]
           c == clientFrame[p]
           l == sums[p]
<1>a. /\ s \in Seq(UpMessages) /\ l \in Seq(Nat) /\ c \in Nat
      /\ Len(l) \in Nat
      /\ memcheck \in [Players -> [0 .. RingSize - 1 -> Slots]]
      /\ up \in [Players -> Seq(UpMessages)]
      /\ clientFrame \in [Players -> Nat]
  BY RingTypes DEF TypeOK, LinkTypeOK, RecvTypeOK
<1>b. UNCHANGED <<sums, epc, present>>
  BY DEF clientVars, emuVars, Receiver, ReceiveCheck, ReceiveFrame,
     ReceiveInput, ReceiverEnds
<1>c. \A f \in Nat : f % RingSize \in 0 .. RingSize - 1
  BY ServerAssumption
<1>d. PICK from, last, due : InStep(p, from, last, due)
  BY DEF ChecksInStep
<1>e. /\ from \in Nat /\ last \in Nat /\ due \in Nat
      /\ Sent(s, c, from, last, due, l)
      /\ c < from => Holds(p, c)
      /\ Connected(p) /\ Live(p) =>
           /\ due = Len(l)
           /\ last = IF epc[p] = "ack" THEN due - 1 ELSE due
  BY <1>d DEF InStep
<1>h. /\ s \in Seq(UpMessages) /\ l \in Seq(Nat) /\ c \in Nat
      /\ from \in Nat /\ last \in Nat /\ due \in Nat
      /\ Sent(s, c, from, last, due, l)
  BY <1>a, <1>e
<1>f. link[p] = "open" => (Connected(p)' => Connected(p)) /\ Live(p)' = Live(p)
  BY <1>b DEF Connected, Live
<1> HIDE DEF s, c, l
<1>1. CASE ReceiveCheck(p)
  <2>a. s # << >> /\ Head(s).type = "check"
    BY <1>1 DEF ReceiveCheck, s
  <2>1. /\ link[p] = "open"
        /\ up'[p] = Tail(s) /\ clientFrame'[p] = c /\ sums'[p] = l
        /\ memcheck'[p] = [memcheck[p] EXCEPT ![c % RingSize] =
                             Slot(Head(s).val, c)]
    BY <1>1, <1>a, <1>b DEF ReceiveCheck, s, c, l
  <2>2. /\ c < Len(l) /\ Head(s).val = l[c + 1]
        /\ Sent(Tail(s), c, c + 1, last, due, l)
    BY <1>h, <2>a, CheckRead
  <2>3. Holds(p, c)'
    BY <1>a, <1>c, <2>1, <2>2 DEF Holds, s, c, l
  <2>4. InStep(p, c + 1, last, due)'
    BY <1>a, <1>b, <1>e, <1>f, <2>1, <2>2, <2>3 DEF InStep, s, c, l
  <2>5. ASSUME NEW f \in 0 .. c - 1, c < f + RingSize PROVE Holds(p, f)'
    <3>1. f % RingSize # c % RingSize
      BY <1>a, <2>5, SlotsApart
    <3>2. Holds(p, f)
      BY <2>5 DEF RingHolds, c
    <3>3. memcheck'[p][f % RingSize] = memcheck[p][f % RingSize]
      BY <1>a, <1>c, <2>1, <3>1
    <3> QED
      BY <1>b, <3>2, <3>3 DEF Holds
  <2>6. RingHolds(p)'
    BY <2>1, <2>5 DEF RingHolds, c
  <2> QED
    BY <2>4, <2>6 DEF ChecksInStep
<1>2. CASE ReceiveFrame(p)
  <2>a. s # << >> /\ Head(s).type = "frame"
    BY <1>2 DEF ReceiveFrame, s
  <2>1. /\ link[p] = "open"
        /\ up'[p] = Tail(s) /\ clientFrame'[p] = Head(s).val /\ sums'[p] = l
        /\ memcheck' = memcheck
    BY <1>2, <1>a, <1>b DEF ReceiveFrame, s, c, l
  <2>2. /\ Head(s).val = c + 1 /\ from = c + 1 /\ c + 1 <= last
        /\ Sent(Tail(s), c + 1, c + 1, last, due, l)
    BY <1>h, <2>a, FrameRead
  <2>3. \A f : Holds(p, f)' <=> Holds(p, f)
    BY <1>b, <2>1 DEF Holds
  <2>4. InStep(p, from, last, due)'
    BY <1>a, <1>b, <1>e, <1>f, <2>1, <2>2 DEF InStep, s, c, l
  <2>5. ASSUME NEW f \in 0 .. (c + 1) - 1, c + 1 < f + RingSize
        PROVE  Holds(p, f)
    <3>1. CASE f = c
      BY <1>e, <2>2, <3>1
    <3>2. CASE f # c
      <4>1. f \in 0 .. c - 1 /\ c < f + RingSize
        BY <1>a, <2>5, <3>2, ServerAssumption
      <4> QED
        BY <4>1 DEF RingHolds, c
    <3> QED
      BY <3>1, <3>2
  <2>6. RingHolds(p)'
    BY <2>1, <2>2, <2>3, <2>5 DEF RingHolds
  <2> QED
    BY <2>4, <2>6 DEF ChecksInStep
<1>3. CASE ReceiveInput(p)
  <2>a. s # << >> /\ Head(s).type = "input"
    BY <1>3 DEF ReceiveInput, s
  <2>1. /\ link[p] = "open"
        /\ up'[p] = Tail(s) /\ clientFrame'[p] = c /\ sums'[p] = l
        /\ memcheck' = memcheck
    BY <1>3, <1>a, <1>b DEF ReceiveInput, recvVars, s, c, l
  <2>2. Sent(Tail(s), c, from, last, due, l)
    BY <1>h, <2>a, InputRead
  <2>3. \A f : Holds(p, f)' <=> Holds(p, f)
    BY <1>b, <2>1 DEF Holds
  <2>4. InStep(p, from, last, due)'
    BY <1>b, <1>e, <1>f, <2>1, <2>2, <2>3 DEF InStep, s, c, l
  <2>5. RingHolds(p)'
    BY <2>1, <2>3 DEF RingHolds, c
  <2> QED
    BY <2>4, <2>5 DEF ChecksInStep
<1>4. CASE ReceiverEnds(p)
  <2>1. /\ up' = up /\ clientFrame' = clientFrame /\ memcheck' = memcheck
        /\ link'[p] = "closed"
    BY <1>4 DEF ReceiverEnds, CloseIf, recvVars, TypeOK, LinkTypeOK
  <2>2. ~Connected(p)'
    BY <2>1 DEF Connected
  <2> QED
    BY <1>b, <2>1, <2>2, RingSame
<1> QED
  BY <1>1, <1>2, <1>3, <1>4 DEF Receiver

\* The player computes a checksum and sends it, announces, or sends an input.
LEMMA RingSend ==
  ASSUME TypeOK, NEW p \in Players, ChecksInStep(p), RingHolds(p),
         QueueInOrder(p), UNCHANGED serverVars,
         \/ EmuCheck(p) \/ EmuAck(p) \/ \E e \in Events : SendInput(p, e)
  PROVE  ChecksInStep(p)' /\ RingHolds(p)'
<1> DEFINE s == up[p]
           c == clientFrame[p]
           l == sums[p]
<1>a. /\ s \in Seq(UpMessages) /\ l \in Seq(Nat) /\ c \in Nat
      /\ Len(l) \in Nat /\ eframe[p] \in Nat
      /\ up \in [Players -> Seq(UpMessages)]
      /\ epc \in [Players -> {"enter", "wait", "check", "ack", "drain",
                              "offline", "failed", "gone"}]
      /\ sums \in [Players -> Seq(Nat)]
  BY RingTypes DEF TypeOK, LinkTypeOK, EmuTypeOK
<1>b. /\ UNCHANGED <<clientFrame, memcheck, link, present>>
      /\ Connected(p)' = Connected(p)
  BY DEF serverVars, recvVars, EmuCheck, EmuAck, SendInput, Connected
<1>d. PICK from, last, due : InStep(p, from, last, due)
  BY DEF ChecksInStep
<1>e. /\ from \in Nat /\ last \in Nat /\ due \in Nat
      /\ Sent(s, c, from, last, due, l)
      /\ c < from => Holds(p, c)
      /\ Connected(p) /\ Live(p) =>
           /\ due = Len(l)
           /\ last = IF epc[p] = "ack" THEN due - 1 ELSE due
  BY <1>d DEF InStep
<1> HIDE DEF s, c, l
<1>1. CASE EmuCheck(p)
  <2> DEFINE d == Checksum(p)
  <2>1. d \in Nat
    BY NumClientsAssumption DEF Checksum, Players
  <2>2. /\ epc[p] = "check" /\ epc'[p] = "ack" /\ sums'[p] = Append(l, d)
        /\ Send(p, CheckMsg(d))
    BY <1>1, <1>a DEF EmuCheck, Goto, l
  <2> HIDE DEF d
  <2>3. /\ Append(l, d) \in Seq(Nat) /\ Len(Append(l, d)) = Len(l) + 1
        /\ \A i \in 1 .. Len(l) : Append(l, d)[i] = l[i]
    BY <1>a, <2>1, AppendProperties
  <2>4. ASSUME NEW f \in Nat, Holds(p, f) PROVE Holds(p, f)'
    <3>1. f < Len(l) /\ f + 1 \in 1 .. Len(l)
      BY <1>a, <2>4 DEF Holds, l
    <3>2. f < Len(sums'[p]) /\ sums'[p][f + 1] = l[f + 1]
      BY <1>a, <2>2, <2>3, <3>1
    <3> QED
      BY <1>b, <2>4, <3>2 DEF Holds, l
  <2>5. RingHolds(p)'
    BY <1>a, <1>b, <2>4 DEF RingHolds, c
  <2>6. CASE Connected(p)
    <3>1. up'[p] = Append(s, CheckMsg(d))
      BY <1>a, <2>2, <2>6 DEF Send, Connected, s
    <3>2. due = Len(l) /\ last = due
      BY <1>e, <2>2, <2>6 DEF Live
    <3>3. Sent(Append(s, CheckMsg(d)), c, from, last, last + 1, Append(l, d))
      BY <1>a, <1>e, <2>1, <3>2, CheckSent
    <3>4. InStep(p, from, last, last + 1)'
      BY <1>a, <1>b, <1>e, <2>2, <2>3, <2>4, <3>1, <3>2, <3>3
         DEF InStep, s, c, l
    <3> QED
      BY <2>5, <3>4 DEF ChecksInStep
  <2>7. CASE ~Connected(p)
    <3>1. up'[p] = s
      BY <2>2, <2>7 DEF Send, Connected, s
    <3>2. Sent(s, c, from, last, due, Append(l, d))
      BY <1>a, <1>e, <2>1, SumsGrow
    <3>3. InStep(p, from, last, due)'
      BY <1>a, <1>b, <1>e, <2>2, <2>4, <2>7, <3>1, <3>2 DEF InStep, s, c, l
    <3> QED
      BY <2>5, <3>3 DEF ChecksInStep
  <2> QED
    BY <2>6, <2>7
<1>2. CASE EmuAck(p)
  <2>1. /\ epc[p] = "ack" /\ epc'[p] = "drain" /\ sums' = sums
        /\ Send(p, FrameMsg(eframe[p]))
    BY <1>2, <1>a DEF EmuAck, Goto
  <2>2. CASE Connected(p)
    <3>1. up'[p] = Append(s, FrameMsg(eframe[p]))
      BY <1>a, <2>1, <2>2 DEF Send, Connected, s
    <3>2. due = Len(l) /\ last + 1 = due /\ eframe[p] = Len(l)
      BY <1>a, <1>e, <2>1, <2>2 DEF Live, QueueInOrder, l
    <3>3. Sent(Append(s, FrameMsg(last + 1)), c, from, last + 1, last + 1, l)
      BY <1>a, <1>e, <3>2, FrameSent
    <3>4. \A f : Holds(p, f)' <=> Holds(p, f)
      BY <1>b, <2>1 DEF Holds
    <3>5. InStep(p, from, last + 1, last + 1)'
      BY <1>a, <1>b, <1>e, <2>1, <3>1, <3>2, <3>3, <3>4 DEF InStep, s, c, l
    <3>6. RingHolds(p)'
      BY <1>b, <3>4 DEF RingHolds
    <3> QED
      BY <3>5, <3>6 DEF ChecksInStep
  <2>3. CASE ~Connected(p)
    <3>1. up'[p] = up[p]
      BY <2>1, <2>3 DEF Send, Connected
    <3> QED
      BY <1>b, <2>1, <2>3, <3>1, RingSame
  <2> QED
    BY <2>2, <2>3
<1>3. ASSUME NEW e \in Events, SendInput(p, e)
      PROVE  ChecksInStep(p)' /\ RingHolds(p)'
  <2>1. UNCHANGED <<sums, epc>> /\ Send(p, InputMsg(e))
    BY <1>3 DEF SendInput, emuVars
  <2>2. CASE Connected(p)
    <3>1. up'[p] = Append(s, InputMsg(e))
      BY <1>a, <2>1, <2>2 DEF Send, Connected, s
    <3>2. InputMsg(e) \in UpMessages /\ InputMsg(e).type = "input"
      BY MsgTypes DEF InputMsg, Msg
    <3>3. Sent(Append(s, InputMsg(e)), c, from, last, due, l)
      BY <1>a, <1>e, <3>2, InputSent
    <3>4. \A f : Holds(p, f)' <=> Holds(p, f)
      BY <1>b, <2>1 DEF Holds
    <3>5. InStep(p, from, last, due)'
      BY <1>b, <1>e, <2>1, <3>1, <3>3, <3>4 DEF InStep, Live, s, c, l
    <3>6. RingHolds(p)'
      BY <1>b, <3>4 DEF RingHolds
    <3> QED
      BY <3>5, <3>6 DEF ChecksInStep
  <2>3. CASE ~Connected(p)
    <3>1. up'[p] = up[p]
      BY <2>1, <2>3 DEF Send, Connected
    <3> QED
      BY <1>b, <2>1, <2>3, <3>1, RingSame
  <2> QED
    BY <2>2, <2>3
<1> QED
  BY <1>1, <1>2, <1>3

\* What a player computes is no further than the frame the server has closed.
LEMMA BehindServer ==
  ASSUME TypeOK, OrderInv, NEW p \in Players, epc[p] = "check"
  PROVE  Len(sums[p]) + 1 <= frame
<1>1. /\ eframe[p] \in Nat /\ gframe[p] \in Nat /\ hand[p] \in Nat
      /\ frame \in Nat /\ Received(p) \in Nat
  BY OrderTypes
<1>2. Len(sums[p]) = eframe[p] - 1 /\ eframe[p] <= gframe[p]
  BY DEF OrderInv, QueueInOrder, Live
<1>3. gframe[p] <= Received(p)
  BY <1>1 DEF OrderInv, QueueInOrder, Received
<1>4. Received(p) <= frame
  <2>1. PICK last \in Received(p) .. frame :
          /\ ~LoopOver => last = frame
          /\ Run(down[p], Received(p) + 1, last)
    BY DEF OrderInv, DownInOrder
  <2> QED
    BY <1>1, <2>1
<1> QED
  BY <1>1, <1>2, <1>3, <1>4

LEMMA RingStep == TypeOK /\ OrderInv /\ RingInv /\ [Next]_vars => RingInv'
<1> SUFFICES ASSUME TypeOK, OrderInv, RingInv, [Next]_vars, NEW p \in Players
             PROVE  /\ ChecksInStep(p)' /\ RingHolds(p)'
                    /\ Len(sums'[p]) <= frame'
  BY DEF RingInv
<1>a. /\ ChecksInStep(p) /\ RingHolds(p) /\ Len(sums[p]) <= frame
      /\ QueueInOrder(p) /\ frame \in Nat
      /\ sums \in [Players -> Seq(Nat)] /\ up \in [Players -> Seq(UpMessages)]
      /\ clientFrame \in [Players -> Nat]
      /\ memcheck \in [Players -> [0 .. RingSize - 1 -> Slots]]
      /\ link \in [Players -> {"open", "reset", "closed"}]
      /\ present \in [Players -> BOOLEAN]
      /\ epc \in [Players -> {"enter", "wait", "check", "ack", "drain",
                              "offline", "failed", "gone"}]
  BY DEF RingInv, OrderInv, TypeOK, LinkTypeOK, LoopTypeOK, RecvTypeOK, EmuTypeOK
<1>1. ASSUME ServerNext, UNCHANGED clientVars
      PROVE  ChecksInStep(p)' /\ RingHolds(p)' /\ Len(sums'[p]) <= frame'
  <2>1. UNCHANGED <<sums, epc>>
    BY <1>1 DEF clientVars, emuVars
  <2>2. CASE GameLoop \/ Interrupt
    <3>1. /\ UNCHANGED <<up, clientFrame, memcheck, link, present>>
          /\ frame' \in {frame, frame + 1}
      BY <2>2 DEF GameLoop, Interrupt, NextIteration, StopGame, Tick, ScanClient,
         CannotCheckYet, CollectCheck, CheckPassed, CheckFailed, Rescan,
         RescanClient, LoopRaised, Scan, recvVars, linkVars, loopVars
    <3>2. ChecksInStep(p)' /\ RingHolds(p)'
      BY <1>a, <2>1, <3>1, RingSame DEF Connected, Live
    <3> QED
      BY <1>a, <2>1, <3>1, <3>2, RingTypes
  <2>3. ASSUME NEW q \in Players, Receiver(q)
        PROVE  ChecksInStep(p)' /\ RingHolds(p)' /\ Len(sums'[p]) <= frame'
    <3>1. frame' = frame
      BY <2>3 DEF Receiver, ReceiveCheck, ReceiveFrame, ReceiveInput,
         ReceiverEnds, loopVars
    <3>2. CASE q = p
      BY <1>a, <1>1, <2>1, <2>3, <3>1, <3>2, RingReceive
    <3>3. CASE q # p
      <4>1. /\ up'[p] = up[p] /\ clientFrame'[p] = clientFrame[p]
            /\ memcheck'[p] = memcheck[p] /\ link'[p] = link[p]
            /\ present' = present
        BY <1>a, <2>3, <3>3 DEF Receiver, ReceiveCheck, ReceiveFrame,
           ReceiveInput, ReceiverEnds, CloseIf, recvVars
      <4>2. ChecksInStep(p)' /\ RingHolds(p)'
        BY <1>a, <2>1, <4>1, RingSame DEF Connected, Live
      <4> QED
        BY <1>a, <2>1, <3>1, <4>2
    <3> QED
      BY <3>2, <3>3
  <2> QED
    BY <1>1, <2>2, <2>3 DEF ServerNext
<1>2. ASSUME ClientNext, UNCHANGED serverVars
      PROVE  ChecksInStep(p)' /\ RingHolds(p)' /\ Len(sums'[p]) <= frame'
  <2>1. PICK q \in Players : EmulatorSteps(q)
    BY <1>2 DEF ClientNext, Quit, BrokenPipe, EmulatorSteps
  <2>2. UNCHANGED <<clientFrame, memcheck, frame>>
    BY <1>2 DEF serverVars, recvVars, loopVars
  <2>3. ASSUME up'[p] = up[p], sums'[p] = sums[p], link'[p] = link[p],
               present'[p] => present[p],
               Live(p)' => Live(p) /\ (epc'[p] = "ack" <=> epc[p] = "ack")
        PROVE  ChecksInStep(p)' /\ RingHolds(p)' /\ Len(sums'[p]) <= frame'
    <3>1. ChecksInStep(p)' /\ RingHolds(p)'
      BY <1>a, <2>2, <2>3, RingSame DEF Connected
    <3> QED
      BY <1>a, <2>2, <2>3, <3>1
  <2>4. CASE q # p
    <3>1. epc'[p] = epc[p] /\ sums'[p] = sums[p]
      BY <2>1, <2>4, OthersKeep
    <3>2. up'[p] = up[p] /\ link' = link /\ present'[p] = present[p]
      BY <1>a, <2>1, <2>4 DEF EmulatorSteps, ReceiveThread, RecvInput, RecvFrame,
         SignalFrame, RecvError, RecvFails, EmuThread, EmuEnter, EmuWake, EmuCheck,
         EmuAck, EmuDrain, Ends, Diverge, SendInput, Send, linkVars
    <3> QED
      BY <2>3, <3>1, <3>2 DEF Live
  <2>5. CASE q = p
    <3>1. CASE EmuCheck(p) \/ EmuAck(p) \/ \E e \in Events : SendInput(p, e)
      <4>1. ChecksInStep(p)' /\ RingHolds(p)'
        BY <1>2, <1>a, <3>1, RingSend
      <4>2. Len(sums'[p]) <= frame'
        <5>1. CASE EmuCheck(p)
          <6>1. epc[p] = "check" /\ sums'[p] = Append(sums[p], Checksum(p))
            BY <1>a, <5>1 DEF EmuCheck, Goto
          <6>2. Len(sums'[p]) = Len(sums[p]) + 1
            BY <1>a, <6>1
          <6> QED
            BY <2>2, <6>1, <6>2, BehindServer
        <5>2. CASE EmuAck(p) \/ \E e \in Events : SendInput(p, e)
          <6>1. sums' = sums
            BY <5>2 DEF EmuAck, SendInput, emuVars
          <6> QED
            BY <1>a, <2>2, <6>1
        <5> QED
          BY <3>1, <5>1, <5>2
      <4> QED
        BY <4>1, <4>2
    <3>2. CASE \/ ReceiveThread(p) \/ EmuEnter(p) \/ EmuWake(p) \/ EmuDrain(p)
               \/ Ends(p) \/ Diverge(p)
      <4>1. up' = up /\ sums' = sums /\ link' = link
        BY <3>2 DEF ReceiveThread, RecvInput, RecvFrame, SignalFrame, RecvError,
           RecvFails, EmuEnter, EmuWake, EmuDrain, Ends, Diverge, emuVars, linkVars
      <4>2. present'[p] => present[p]
        BY <1>a, <3>2 DEF ReceiveThread, RecvInput, RecvFrame, SignalFrame,
           RecvError, RecvFails, EmuEnter, EmuWake, EmuDrain, Ends, Diverge, linkVars
      <4>3. Live(p)' => Live(p) /\ (epc'[p] = "ack" <=> epc[p] = "ack")
        <5>1. CASE ReceiveThread(p) \/ Diverge(p)
          <6>1. epc' = epc
            BY <5>1 DEF ReceiveThread, RecvInput, RecvFrame, SignalFrame,
               RecvError, RecvFails, Diverge, emuVars
          <6> QED
            BY <6>1 DEF Live
        <5>2. CASE EmuEnter(p) \/ EmuWake(p) \/ EmuDrain(p) \/ Ends(p)
          <6>1. \/ epc[p] \in {"enter", "wait", "drain"} /\ epc'[p] # "ack"
                \/ epc'[p] = "gone"
            BY <1>a, <5>2 DEF EmuEnter, EmuWake, EmuDrain, Ends, Goto
          <6> QED
            BY <6>1 DEF Live
        <5> QED
          BY <3>2, <5>1, <5>2
      <4> QED
        BY <2>3, <4>1, <4>2, <4>3
    <3> QED
      BY <2>1, <2>5, <3>1, <3>2 DEF EmulatorSteps, EmuThread
  <2> QED
    BY <2>4, <2>5
<1>3. ASSUME \/ (\E q \in Players : Reset(q)) /\ UNCHANGED <<serverVars, clientVars>>
             \/ UNCHANGED vars
      PROVE  ChecksInStep(p)' /\ RingHolds(p)' /\ Len(sums'[p]) <= frame'
  <2>1. /\ UNCHANGED <<up, clientFrame, memcheck, sums, epc, frame>>
        /\ Connected(p)' => Connected(p)
    BY <1>3, <1>a DEF Reset, Connected, vars, serverVars, recvVars, loopVars,
       clientVars, emuVars, linkVars
  <2>2. ChecksInStep(p)' /\ RingHolds(p)'
    BY <1>a, <2>1, RingSame DEF Live
  <2> QED
    BY <1>a, <2>1, <2>2
<1> QED
  BY <1>1, <1>2, <1>3 DEF Next

-----------------------------------------------------------------------------
(* Waiting *)

LEMMA RunWithoutMarks ==
  ASSUME NEW s, NEW lo \in Nat, NEW hi \in Nat, Run(s, lo, hi), NoMarks(s)
  PROVE  hi < lo
BY MarkIs DEF Run, NoMarks

\* The server and a player never wait for each other: a player for which
\* nothing is under way, and from which nothing is, has announced every frame
\* the server has closed, in a game of any number of players, any drift and
\* any length.
THEOREM NoDeadlock == Spec => []NoCircularWait
<1> DEFINE Inv == TypeOK /\ OrderInv /\ DriftInv /\ RingInv
<1>1. Init => Inv
  BY InitType, OrderInit, DriftInit, RingInit
<1>2. Inv /\ [Next]_vars => Inv'
  BY StepType, OrderStep, DriftStep, RingStep
<1>3. Inv => NoCircularWait
  <2> SUFFICES ASSUME Inv, ~LoopOver, NEW p \in Players, WaitsIdly(p)
               PROVE  clientFrame[p] = frame
    BY DEF NoCircularWait, LoopOver
  <2>1. /\ frame \in Nat /\ clientFrame[p] \in Nat /\ gframe[p] \in Nat
        /\ eframe[p] \in Nat
    BY DEF TypeOK, LoopTypeOK, RecvTypeOK, RecvrTypeOK, EmuTypeOK
  <2>2. gframe[p] = frame
    <3>1. /\ Received(p) = gframe[p] /\ gframe[p] <= frame
          /\ Run(down[p], gframe[p] + 1, frame)
      BY <2>1 DEF OrderInv, DownInOrder, WaitsIdly, Received
    <3>2. frame < gframe[p] + 1
      BY <2>1, <3>1, RunWithoutMarks DEF WaitsIdly
    <3> QED
      BY <2>1, <3>1, <3>2
  <2>3. Len(sums[p]) = frame
    <3>1. /\ epc[p] = "wait" /\ hand[p] = 0 /\ gframe[p] < eframe[p]
          /\ Received(p) = gframe[p] /\ NextMark(p) = eframe[p]
      BY <2>1 DEF WaitsIdly, Arrived, Received, NextMark
    <3>2. QueueInOrder(p) /\ Live(p)
      BY <3>1 DEF OrderInv, Live
    <3>3. eframe[p] <= gframe[p] + 1 /\ Len(sums[p]) = eframe[p] - 1
      BY <3>1, <3>2 DEF QueueInOrder
    <3> QED
      BY <2>1, <2>2, <3>1, <3>3
  <2>4. clientFrame[p] <= frame /\ Run(up[p], clientFrame[p] + 1, frame)
    <3>1. PICK from, last, due : InStep(p, from, last, due)
      BY DEF RingInv, ChecksInStep
    <3>2. last = frame
      BY <2>3, <3>1 DEF InStep, WaitsIdly, Connected, Live
    <3> QED
      BY <3>1, <3>2 DEF InStep, Sent
  <2>5. frame < clientFrame[p] + 1
    BY <2>1, <2>4, RunWithoutMarks DEF WaitsIdly
  <2> QED
    BY <2>1, <2>4, <2>5
<1> QED
  BY <1>1, <1>2, <1>3, PTL DEF Spec

-----------------------------------------------------------------------------
(* What the game loop compares *)

\* The frame to be compared is not so old that the ring has lost it.
VerifiedInv ==
  /\ gpc \in {"top", "tick", "sleep", "rescan"} =>
       frame <= verified + MaxDrift + 1
  /\ gpc = "scan" => frame <= oldest + MaxDrift + 1
  /\ gpc \in {"scan", "compare"} => frame <= verified + MaxDrift + 2

\* What has been collected are the checks of that frame.
Collected == {q \in Players : q < idx}
CollectInv ==
  /\ gpc \in {"top", "tick", "scan", "sleep", "rescan"} => seen = {}
  /\ gpc = "compare" =>
       /\ \A q \in Collected : CheckFrame < Len(sums[q])
       /\ seen = {Slot(sums[q][CheckFrame + 1], CheckFrame) : q \in Collected}

LEMMA LoopTypes ==
  ASSUME TypeOK
  PROVE  /\ frame \in Nat /\ oldest \in Nat /\ idx \in 0 .. NumClients
         /\ verified \in Int /\ verified >= -1 /\ MaxDrift \in Nat
         /\ gpc \in {"scan", "rescan"} => idx < NumClients
BY ServerAssumption DEF TypeOK, LoopTypeOK

LEMMA LoopOnly ==
  ASSUME NEW p \in Players, Receiver(p) PROVE UNCHANGED loopVars
BY DEF Receiver, ReceiveCheck, ReceiveFrame, ReceiveInput, ReceiverEnds

LEMMA VerifiedStep ==
  ASSUME TypeOK, DriftBounded, VerifiedInv, [Next]_vars
  PROVE  VerifiedInv'
<1>a. /\ frame \in Nat /\ oldest \in Nat /\ idx \in 0 .. NumClients
      /\ verified \in Int /\ MaxDrift \in Nat
      /\ gpc \in {"scan", "rescan"} => idx < NumClients
  BY LoopTypes
<1>1. CASE UNCHANGED loopVars
  BY <1>1 DEF loopVars, VerifiedInv
<1>2. CASE GameLoop
  <2>1. CASE NextIteration \/ StopGame \/ LoopRaised \/ CheckFailed
    <3>1. /\ frame' = frame /\ verified' = verified
          /\ \/ gpc = "top" /\ gpc' = "tick"
             \/ gpc' \in {"stopped", "raised"}
      BY <2>1 DEF NextIteration, StopGame, LoopRaised, CheckFailed
    <3> QED
      BY <3>1 DEF VerifiedInv
  <2>2. CASE Tick
    <3>1. /\ gpc = "tick" /\ frame' = frame + 1 /\ verified' = verified
          /\ \/ gpc' = "scan" /\ oldest' = frame + 1
             \/ gpc' = "raised"
      BY <2>2 DEF Tick
    <3> QED
      BY <1>a, <3>1 DEF VerifiedInv
  <2>3. CASE ScanClient
    <3> DEFINE o == Older(clientFrame[idx])
    <3>1. /\ gpc = "scan" /\ frame' = frame /\ verified' = verified
          /\ oldest' = o
          /\ gpc' = IF LastClient THEN Proceed(o, verified) ELSE "scan"
      BY <2>3 DEF ScanClient, Scan
    <3>2. o \in Nat /\ frame <= o + MaxDrift + 1
      <4>1. idx \in Players /\ clientFrame[idx] \in Nat
        BY <1>a, <3>1, NumClientsAssumption DEF Players, TypeOK, RecvTypeOK
      <4>2. frame <= clientFrame[idx] + MaxDrift + 1
        BY <4>1 DEF DriftBounded
      <4> QED
        BY <1>a, <3>1, <4>1, <4>2 DEF Older, VerifiedInv
    <3> HIDE DEF o
    <3>3. frame <= verified + MaxDrift + 2
      BY <3>1 DEF VerifiedInv
    <3>4. /\ gpc' \in {"scan", "compare", "top", "sleep"}
          /\ gpc' \in {"top", "sleep"} => o <= verified
      BY <1>a, <3>1, <3>2 DEF Proceed
    <3>5. gpc' \in {"top", "sleep"} => frame <= verified + MaxDrift + 1
      BY <1>a, <3>2, <3>4
    <3> QED
      BY <3>1, <3>2, <3>3, <3>4, <3>5 DEF VerifiedInv
  <2>4. CASE CannotCheckYet \/ CheckPassed
    <3>1. /\ gpc = "compare" /\ frame' = frame /\ verified' = verified + 1
          /\ gpc' = Proceed(oldest, verified + 1)
      BY <2>4 DEF CannotCheckYet, CheckPassed, CheckFrame
    <3>2. frame <= verified' + MaxDrift + 1 /\ frame <= verified' + MaxDrift + 2
      BY <1>a, <3>1 DEF VerifiedInv
    <3>3. gpc' \in {"compare", "top", "sleep"}
      BY <3>1 DEF Proceed
    <3> QED
      BY <3>1, <3>2, <3>3 DEF VerifiedInv
  <2>5. CASE CollectCheck
    BY <2>5 DEF CollectCheck, VerifiedInv
  <2>6. CASE Rescan \/ RescanClient
    <3>1. /\ gpc \in {"sleep", "rescan"} /\ gpc' \in {"top", "rescan", "sleep"}
          /\ frame' = frame /\ verified' = verified
      BY <2>6 DEF Rescan, RescanClient, Scan
    <3> QED
      BY <3>1 DEF VerifiedInv
  <2> QED
    BY <1>2, <2>1, <2>2, <2>3, <2>4, <2>5, <2>6 DEF GameLoop
<1>3. CASE Interrupt \/ UNCHANGED serverVars
  BY <1>1, <1>3 DEF Interrupt, serverVars
<1> QED
  BY <1>1, <1>2, <1>3, LoopOnly DEF Next, ServerNext, vars

\* Checksums are only added.
LEMMA SumsStay ==
  ASSUME TypeOK, [Next]_vars, NEW q \in Players, NEW f \in Nat,
         f < Len(sums[q])
  PROVE  f < Len(sums'[q]) /\ sums'[q][f + 1] = sums[q][f + 1]
<1>a. sums \in [Players -> Seq(Nat)] /\ Len(sums[q]) \in Nat
      /\ f + 1 \in 1 .. Len(sums[q])
  BY RingTypes DEF TypeOK, EmuTypeOK
<1>1. CASE sums'[q] = sums[q]
  BY <1>1
<1>2. ASSUME NEW p \in Players, EmuCheck(p)
      PROVE  f < Len(sums'[q]) /\ sums'[q][f + 1] = sums[q][f + 1]
  <2>1. Checksum(p) \in Nat
    BY NumClientsAssumption DEF Checksum, Players
  <2>2. CASE p = q
    <3>1. sums'[q] = Append(sums[q], Checksum(q))
      BY <1>2, <1>a, <2>2 DEF EmuCheck
    <3>2. /\ Len(sums'[q]) = Len(sums[q]) + 1
          /\ \A i \in 1 .. Len(sums[q]) : sums'[q][i] = sums[q][i]
      BY <1>a, <2>1, <2>2, <3>1, AppendProperties
    <3> QED
      BY <1>a, <3>2
  <2>3. CASE p # q
    <3>1. sums'[q] = sums[q]
      BY <1>2, <1>a, <2>3 DEF EmuCheck
    <3> QED
      BY <1>1, <3>1
  <2> QED
    BY <2>2, <2>3
<1>3. CASE UNCHANGED clientVars
  BY <1>1, <1>3 DEF clientVars, emuVars
<1>4. CASE ClientNext
  <2>1. PICK p \in Players : EmulatorSteps(p)
    BY <1>4 DEF ClientNext, Quit, BrokenPipe, EmulatorSteps
  <2>2. EmuCheck(p) \/ sums' = sums
    BY <2>1 DEF EmulatorSteps, ReceiveThread, RecvInput, RecvFrame,
       SignalFrame, RecvError, RecvFails, EmuThread, EmuEnter, EmuWake, EmuAck,
       EmuDrain, Ends, Diverge, SendInput, emuVars
  <2> QED
    BY <1>1, <1>2, <2>2
<1> QED
  BY <1>3, <1>4 DEF Next, vars

\* The ring is longer than the server may be ahead of a player: 100 and 25.
RingLongEnough == RingSize > MaxDrift + 1

\* The slot that is collected is that of the frame to be compared.
LEMMA CollectedHolds ==
  ASSUME RingLongEnough, TypeOK, RingInv, VerifiedInv, NEW p \in Players,
         gpc = "compare", CheckFrame < clientFrame[p]
  PROVE  Holds(p, CheckFrame)
<1> DEFINE c == clientFrame[p]
           n == Len(sums[p])
<1>1. /\ c \in Nat /\ n \in Nat /\ frame \in Nat
      /\ verified \in Int /\ verified >= -1
      /\ MaxDrift \in Nat /\ RingSize \in Nat
  BY RingTypes, LoopTypes, ServerAssumption
<1>2. c <= n
  <2>1. PICK from, last, due : InStep(p, from, last, due)
    BY DEF RingInv, ChecksInStep
  <2>2. last \in Nat /\ due \in Nat /\ c <= last /\ due \in {last, last + 1} /\ due <= n
    BY <2>1 DEF InStep, Sent
  <2> QED
    BY <1>1, <2>2
<1>3. n <= frame /\ frame <= verified + MaxDrift + 2 /\ verified + 1 < c
  BY DEF RingInv, VerifiedInv, CheckFrame
<1> HIDE DEF n, c
<1>4. verified + 1 \in 0 .. c - 1 /\ c < (verified + 1) + RingSize
  BY <1>1, <1>2, <1>3 DEF RingLongEnough
<1> QED
  BY <1>4 DEF RingInv, RingHolds, CheckFrame, c

LEMMA CollectStep ==
  ASSUME RingLongEnough, TypeOK, RingInv, VerifiedInv, CollectInv, [Next]_vars
  PROVE  CollectInv'
<1>a. /\ idx \in 0 .. NumClients /\ verified \in Int /\ verified >= -1
      /\ CheckFrame \in Nat /\ \A q \in Players : q \in Nat
  BY LoopTypes, NumClientsAssumption DEF CheckFrame, Players
<1>1. CASE UNCHANGED loopVars
  <2>1. /\ gpc' = gpc /\ seen' = seen /\ CheckFrame' = CheckFrame
        /\ Collected' = Collected
    BY <1>1 DEF loopVars, CheckFrame, Collected
  <2>2. ASSUME gpc = "compare", NEW q \in Collected
        PROVE  /\ CheckFrame < Len(sums'[q])
               /\ sums'[q][CheckFrame + 1] = sums[q][CheckFrame + 1]
    <3>1. q \in Players /\ CheckFrame < Len(sums[q])
      BY <2>2 DEF CollectInv, Collected
    <3> QED
      BY <1>a, <3>1, SumsStay
  <2> QED
    BY <2>1, <2>2 DEF CollectInv
<1>2. CASE GameLoop /\ UNCHANGED clientVars
  <2>a. sums' = sums
    BY <1>2 DEF clientVars, emuVars
  <2>1. CASE \/ NextIteration \/ StopGame \/ Tick \/ CheckFailed \/ Rescan
             \/ RescanClient \/ LoopRaised
    <3>1. /\ seen' = seen
          /\ \/ /\ gpc \in {"top", "tick", "scan", "sleep", "rescan"}
                /\ gpc' \in {"top", "tick", "scan", "sleep", "rescan",
                             "stopped", "raised"}
             \/ gpc' \in {"stopped", "raised"}
      BY <2>1 DEF NextIteration, StopGame, Tick, CheckFailed, Rescan,
         RescanClient, LoopRaised, Scan
    <3> QED
      BY <3>1 DEF CollectInv
  <2>2. CASE ScanClient \/ CannotCheckYet \/ CheckPassed
    <3>1. /\ seen' = {}
          /\ gpc' = "compare" => idx' = 0
      BY <2>2 DEF ScanClient, CannotCheckYet, CheckPassed, Scan, CollectInv
    <3>2. gpc' = "compare" => Collected' = {}
      BY <1>a, <3>1 DEF Collected
    <3> QED
      BY <3>1, <3>2 DEF CollectInv
  <2>3. CASE CollectCheck
    <3>1. /\ gpc = "compare" /\ gpc' = gpc /\ idx' = idx + 1 /\ idx < NumClients
          /\ seen' = seen \cup {memcheck[idx][CheckFrame % RingSize]}
          /\ CheckFrame' = CheckFrame /\ ~NotYet(clientFrame[idx])
      BY <2>3 DEF CollectCheck, CheckFrame
    <3>2. idx \in Players /\ clientFrame[idx] \in Nat
      BY <1>a, <3>1, NumClientsAssumption DEF Players, TypeOK, RecvTypeOK
    <3>3. CheckFrame < clientFrame[idx]
      BY <1>a, <3>1, <3>2 DEF NotYet
    <3>4. Holds(idx, CheckFrame)
      BY <3>1, <3>2, <3>3, CollectedHolds
    <3>5. Collected' = Collected \cup {idx}
      <4>1. \A q \in Players : q < idx + 1 <=> q < idx \/ q = idx
        BY <1>a
      <4>2. Collected' = {q \in Players : q < idx + 1}
        BY <3>1 DEF Collected
      <4> QED
        BY <3>2, <4>1, <4>2 DEF Collected
    <3>6. /\ \A q \in Collected : CheckFrame < Len(sums[q])
          /\ seen = {Slot(sums[q][CheckFrame + 1], CheckFrame) : q \in Collected}
      BY <3>1 DEF CollectInv
    <3>7. /\ CheckFrame < Len(sums[idx])
          /\ memcheck[idx][CheckFrame % RingSize] =
               Slot(sums[idx][CheckFrame + 1], CheckFrame)
      BY <3>4 DEF Holds
    <3>8. /\ \A q \in Collected' : CheckFrame < Len(sums[q])
          /\ seen' = {Slot(sums[q][CheckFrame + 1], CheckFrame) : q \in Collected'}
      BY <3>1, <3>5, <3>6, <3>7
    <3> QED
      BY <2>a, <3>1, <3>8 DEF CollectInv
  <2> QED
    BY <1>2, <2>1, <2>2, <2>3 DEF GameLoop
<1>3. CASE Interrupt \/ UNCHANGED serverVars
  BY <1>1, <1>3 DEF Interrupt, serverVars
<1> QED
  BY <1>1, <1>2, <1>3, LoopOnly DEF Next, ServerNext, vars

LEMMA CompareInit == Init => VerifiedInv /\ CollectInv
BY ServerAssumption DEF Init, ServerInit, VerifiedInv, CollectInv

\* When every check has been collected they are compared for one frame, which
\* all players have been through.
LEMMA ExactAtEnd ==
  ASSUME TypeOK, CollectInv, gpc = "compare", idx = NumClients
  PROVE  /\ \A p \in Players : CheckFrame < Len(sums[p])
         /\ Cardinality(seen) = 1 <=>
              \A p, q \in Players :
                sums[p][CheckFrame + 1] = sums[q][CheckFrame + 1]
<1> DEFINE f == CheckFrame
           Of(q) == Slot(sums[q][f + 1], f)
<1>1. Collected = Players
  BY NumClientsAssumption DEF Collected, Players
<1>2. /\ \A p \in Players : f < Len(sums[p])
      /\ seen = {Of(q) : q \in Players}
  BY <1>1 DEF CollectInv
<1>3. IsFiniteSet(Players)
  BY FS_Interval, NumClientsAssumption DEF Players
<1>4. IsFiniteSet(seen)
  <2> DEFINE g == [q \in Players |-> Of(q)]
  <2>1. g \in Surjection(Players, seen)
    BY <1>2 DEF Surjection
  <2> QED
    BY <1>3, <2>1, FS_Surjection
<1>5. Cardinality(seen) = 1 <=> \E x : seen = {x}
  BY <1>4, FS_Singleton
<1>6. 0 \in Players
  BY NumClientsAssumption DEF Players
<1>7. ASSUME NEW x, seen = {x}, NEW p \in Players, NEW q \in Players
      PROVE  sums[p][f + 1] = sums[q][f + 1]
  <2>1. Of(p) = Of(q)
    BY <1>2, <1>7
  <2> QED
    BY <2>1 DEF Slot
<1>8. ASSUME \A p, q \in Players : sums[p][f + 1] = sums[q][f + 1]
      PROVE  seen = {Of(0)}
  BY <1>2, <1>6, <1>8
<1> QED
  BY <1>2, <1>5, <1>7, <1>8

\* The server compares the checksums the players computed after one and the
\* same frame, however far each has run ahead meanwhile, because the ring is
\* longer than the drift allowed.
THEOREM ChecksCompared == RingLongEnough => (Spec => []ComparisonExact)
<1> SUFFICES ASSUME RingLongEnough PROVE Spec => []ComparisonExact
  OBVIOUS
<1> DEFINE Inv == /\ TypeOK /\ OrderInv /\ DriftInv /\ RingInv
                  /\ VerifiedInv /\ CollectInv
<1>1. Init => Inv
  BY InitType, OrderInit, DriftInit, RingInit, CompareInit
<1>2. Inv /\ [Next]_vars => Inv'
  <2> SUFFICES ASSUME Inv, [Next]_vars PROVE Inv'
    OBVIOUS
  <2>1. TypeOK' /\ OrderInv' /\ DriftInv' /\ RingInv'
    BY StepType, OrderStep, DriftStep, RingStep
  <2>2. VerifiedInv'
    BY VerifiedStep DEF DriftInv
  <2>3. CollectInv'
    BY CollectStep
  <2> QED
    BY <2>1, <2>2, <2>3
<1>3. Inv => ComparisonExact
  BY ExactAtEnd DEF ComparisonExact
<1> QED
  BY <1>1, <1>2, <1>3, PTL DEF Spec
=============================================================================
