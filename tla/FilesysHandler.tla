-------------------------- MODULE FilesysHandler --------------------------
(***************************************************************************)
(* The file systems of directories of the host: DOS sends packets to the   *)
(* port of a process in the Amiga (the main loop in filesys.asm), which    *)
(* hands them to a thread of the host (filesys_handler and                 *)
(* filesys_iteration in filesys.cpp); the thread carries them out, marks   *)
(* them and has the interrupt server put the unit's one dummy message in   *)
(* the port, upon which the process replies the packets that are marked.   *)
(*                                                                         *)
(* Positions of the process:                                               *)
(*   get      before GetMsg              wait     in Wait                  *)
(*   enqueue  a packet was handed over   release  has the dummy message    *)
(*   scan     goes through the queue                                       *)
(* Positions of a unit's thread:                                           *)
(*   read     before a packet            taken    has read one             *)
(*   work     in handle_packet           free     in record_check_waiting  *)
(*   count    before cmds_sent++         ask, asking   sets the bit        *)
(*   dead     has read the death message                                   *)
(***************************************************************************)
EXTENDS Native2Amiga, FiniteSets, SequencesExt

CONSTANTS NumUnits,
          Packets,        \* the packets DOS can send
          Lockers,        \* those of them that lock a record, with a timeout
          MaxStarted,     \* packets of a unit with its thread: 20
          UnitPipeSize,   \* words in unit_pipe: 100
          Setups,         \* the emulators looked at, each with a bound: the
                          \* packets sent
          ResetInServer,  \* whether it may be reset in the interrupt server
          MaxResets       \* bound: resets of the Amiga

Units == 1 .. NumUnits
Modes == {"threads", "synchronous"}

ASSUME FilesysAssumption ==
  /\ NumUnits \in Nat \ {0}
  /\ Units \subseteq HostThreads /\ Units \subseteq Commands
  /\ Lockers \subseteq Packets
  /\ MaxStarted \in Nat \ {0}
  /\ Setups \subseteq [mode : Modes, cdtvscsi : BOOLEAN, expiring : BOOLEAN,
                      maxSends : Nat]
  /\ ResetInServer \in BOOLEAN
  /\ MaxResets \in Nat

\* Messages that are not packets: dummy_message, and the death message.
Dummy == "dummy"
Death == "death"
None == "none"

ASSUME PacketsAssumption == Packets \cap {Dummy, Death, None} = {}

\* The status field of a message that is in a queue of the process; in a port
\* the field is part of the port's list.
Linked == 2
Unstarted == 1
Started == 0
Done == -1
TimedOut == -2
Statuses == {Linked, Unstarted, Started, Done, TimedOut}

VARIABLES
  mode,       \* "synchronous": uae_synchronous_mode()
  expiring,   \* whether programs lock records with timeouts that run out
  maxSends,
  client,     \* per packet: idle, or the unit that was sent it
  status,     \* per packet, the status field of its message
  port,       \* per unit, the messages in the port of its process
  signals,    \* per unit, the signals its process has received
  queue,      \* per unit, the list at 4(a3), the newest packet first
  started,    \* per unit, d5: packets that were handed over
  process,    \* where the process is
  msg,        \* the packet it has in its hands
  doneValue,  \* d2: the status it looks for
  at,         \* its place in the queue
  unitPipe,   \* per unit, the packets for its thread
  thread,     \* where the thread is
  cmd,        \* the packet it has in its hands
  waiting,    \* per unit, waitingrecords: packets that wait for a record
  record,     \* the one the thread has found free
  expired,    \* the one record_timeout has found expired
  sent, acked, complete,   \* cmds_sent, cmds_acked, cmds_complete
  unitNo,     \* unit_no: the next unit the interrupt server looks at
  goDown,     \* per unit, reset_state = FS_GO_DOWN
  sends, resets

Idle == 0     \* in place of a unit: the packet is with its sender

setupVars   == <<mode, expiring, maxSends>>
portVars    == <<client, port, signals>>
queueVars   == <<queue, started>>
processVars == <<process, msg, doneValue, at>>
threadVars  == <<thread, cmd, record>>
countVars   == <<sent, acked, complete>>
fsVars == <<setupVars, portVars, queueVars, status, processVars, unitPipe,
            threadVars, waiting, expired, countVars, unitNo, goDown,
            sends, resets>>
vars == <<n2aVars, fsVars>>

EachUnit(x) == [u \in Units |-> x]

Init ==
  /\ N2AInit /\ sends = 0 /\ resets = 0
  /\ \E s \in Setups : /\ mode = s.mode /\ cdtvscsi = s.cdtvscsi
                        /\ expiring = s.expiring /\ maxSends = s.maxSends
  /\ client = [p \in Packets |-> Idle] /\ status = [p \in Packets |-> Linked]
  /\ port = EachUnit(<< >>) /\ signals = EachUnit({})
  /\ queue = EachUnit(<< >>) /\ started = EachUnit(0)
  /\ process = EachUnit("get") /\ msg = EachUnit(None)
  /\ doneValue = EachUnit(Done) /\ at = EachUnit(1)
  /\ unitPipe = EachUnit(<< >>)
  /\ thread = EachUnit("read") /\ cmd = EachUnit(None)
  /\ waiting = EachUnit({}) /\ record = EachUnit(None)
  /\ expired = EachUnit(None)
  /\ sent = EachUnit(0) /\ acked = EachUnit(0) /\ complete = EachUnit(0)
  /\ unitNo = 1 /\ goDown = EachUnit(FALSE)

-----------------------------------------------------------------------------
(* The Amiga: programs that send packets, and the process of a unit *)

PutMsg(u, m) == /\ port' = [port EXCEPT ![u] = Append(@, m)]
                /\ signals' = [signals EXCEPT ![u] = @ \cup {"port"}]

SendPacket(u, p) ==
  /\ AmigaRuns
  /\ client[p] = Idle
  /\ sends < maxSends /\ sends' = sends + 1
  /\ client' = [client EXCEPT ![p] = u]
  /\ PutMsg(u, p)
  /\ UNCHANGED <<n2aVars, setupVars, queueVars, status, processVars, unitPipe,
                 threadVars, waiting, expired, countVars, unitNo, goDown,
                 resets>>

ProcessTo(u, from, to) == /\ AmigaRuns
                          /\ process[u] = from
                          /\ process' = [process EXCEPT ![u] = to]

\* The scan of the queue starts, for packets marked with v.
StartScan(u, v) == /\ doneValue' = [doneValue EXCEPT ![u] = v]
                   /\ at' = [at EXCEPT ![u] = 1]

GetNothing(u) == /\ ProcessTo(u, "get", "wait") /\ port[u] = << >>
                 /\ UNCHANGED <<portVars, queueVars, status, msg, doneValue,
                                at, unitPipe, complete>>

\* GetMsg returns m.
Get(u, m) == /\ port[u] # << >> /\ m = Head(port[u])
             /\ port' = [port EXCEPT ![u] = Tail(@)]

GetDummy(u) ==
  /\ ProcessTo(u, "get", "release") /\ Get(u, Dummy)
  /\ UNCHANGED <<client, signals, queueVars, status, msg, doneValue, at,
                 unitPipe, complete>>

\* Wait returns for a message, or for SIGBREAK_CTRL_D.
WakeUp(u) == /\ ProcessTo(u, "wait", "scan") /\ signals[u] # {}
             /\ signals' = [signals EXCEPT ![u] = {}]
             /\ StartScan(u, TimedOut)
             /\ UNCHANGED <<client, port, queueVars, status, msg, unitPipe,
                            complete>>

\* exter_int_helper(1): the dummy message may be sent again.
ReleaseMessageLock(u) ==
  /\ ProcessTo(u, "release", "scan")
  /\ complete' = [complete EXCEPT ![u] = acked[u]]
  /\ StartScan(u, Done)
  /\ UNCHANGED <<portVars, queueVars, status, msg, unitPipe>>

\* filesys_handler: a packet goes to the thread (the unit is set up, so that
\* it does not reply the packet with an error at once) ...
HandOverUncounted(u) ==
  /\ ProcessTo(u, "get", "enqueue") /\ started[u] < MaxStarted
  /\ \E p \in Packets : /\ Get(u, p)
                       /\ msg' = [msg EXCEPT ![u] = p]
                       /\ status' = [status EXCEPT ![p] = Started]
                       /\ unitPipe' = [unitPipe EXCEPT ![u] = Append(@, p)]
  /\ UNCHANGED <<client, signals, queueVars, doneValue, at, complete>>
HandOverOneTooMany(u) ==
  /\ ProcessTo(u, "get", "enqueue") /\ started[u] <= MaxStarted
  /\ \E p \in Packets : /\ Get(u, p)
                       /\ msg' = [msg EXCEPT ![u] = p]
                       /\ status' = [status EXCEPT ![p] = Started]
                       /\ unitPipe' = [unitPipe EXCEPT ![u] = Append(@, p)]
  /\ started' = [started EXCEPT ![u] = @ + 1]
  /\ UNCHANGED <<client, signals, queue, doneValue, at, complete>>
HandOver(u) ==
  /\ ProcessTo(u, "get", "enqueue") /\ started[u] < MaxStarted
  /\ \E p \in Packets : /\ Get(u, p)
                       /\ msg' = [msg EXCEPT ![u] = p]
                       /\ status' = [status EXCEPT ![p] = Started]
                       /\ unitPipe' = [unitPipe EXCEPT ![u] = Append(@, p)]
  /\ started' = [started EXCEPT ![u] = @ + 1]
  /\ UNCHANGED <<client, signals, queue, doneValue, at, complete>>

\* ... unless: "Too many commands queued."
HoldBack(u) ==
  /\ ProcessTo(u, "get", "enqueue") /\ started[u] >= MaxStarted
  /\ \E p \in Packets : /\ Get(u, p)
                       /\ msg' = [msg EXCEPT ![u] = p]
                       /\ status' = [status EXCEPT ![p] = Unstarted]
  /\ UNCHANGED <<client, signals, queueVars, doneValue, at, unitPipe,
                 complete>>

Enqueue(u) == /\ ProcessTo(u, "enqueue", "get")
              /\ queue' = [queue EXCEPT ![u] = <<msg[u]>> \o @]
              /\ msg' = [msg EXCEPT ![u] = None]
              /\ UNCHANGED <<portVars, started, status, doneValue, at,
                             unitPipe, complete>>

\* FSML_check_old: the packet in the queue the process looks at.
Scanned(u) == queue[u][at[u]]

ReplyUnstarted(u) ==
  /\ ProcessTo(u, "scan", "scan") /\ at[u] <= Len(queue[u])
  /\ status[Scanned(u)] # Started
  /\ client' = [client EXCEPT ![Scanned(u)] = Idle]
  /\ status' = [status EXCEPT ![Scanned(u)] = Linked]
  /\ queue' = [queue EXCEPT ![u] = RemoveAt(@, at[u])]
  /\ started' = [started EXCEPT ![u] = @ - 1]
  /\ UNCHANGED <<port, signals, msg, doneValue, at, unitPipe, complete>>
ReplyOne(u) ==
  /\ ProcessTo(u, "scan", "scan") /\ at[u] <= Len(queue[u])
  /\ status[Scanned(u)] = doneValue[u]
  /\ client' = [client EXCEPT ![Scanned(u)] = Idle]
  /\ status' = [status EXCEPT ![Scanned(u)] = Linked]
  /\ queue' = [queue EXCEPT ![u] = RemoveAt(@, at[u])]
  /\ started' = [started EXCEPT ![u] = @ - 1]
  /\ UNCHANGED <<port, signals, msg, doneValue, at, unitPipe, complete>>

CheckNext(u) ==
  /\ ProcessTo(u, "scan", "scan") /\ at[u] <= Len(queue[u])
  /\ status[Scanned(u)] # doneValue[u]
  /\ at' = [at EXCEPT ![u] = @ + 1]
  /\ UNCHANGED <<portVars, queueVars, status, msg, doneValue, unitPipe,
                 complete>>

ScanEnds(u) ==
  /\ ProcessTo(u, "scan", "get") /\ at[u] > Len(queue[u])
  /\ StartScan(u, Done)
  /\ UNCHANGED <<portVars, queueVars, status, msg, unitPipe, complete>>

Process(u) ==
  /\ \/ GetNothing(u) \/ GetDummy(u) \/ WakeUp(u) \/ ReleaseMessageLock(u)
     \/ HandOver(u) \/ HoldBack(u) \/ Enqueue(u)
     \/ ReplyOne(u) \/ CheckNext(u) \/ ScanEnds(u)
  /\ UNCHANGED <<n2aVars, setupVars, threadVars, waiting, expired, sent,
                 acked, unitNo, goDown, sends, resets>>

-----------------------------------------------------------------------------
(* The thread of a unit: filesys_iteration *)

ThreadTo(u, from, to) == /\ thread[u] = from
                         /\ thread' = [thread EXCEPT ![u] = to]

ReadPacket(u) ==
  /\ ThreadTo(u, "read", "taken")
  /\ unitPipe[u] # << >> /\ unitPipe' = [unitPipe EXCEPT ![u] = Tail(@)]
  /\ cmd' = [cmd EXCEPT ![u] = Head(unitPipe[u])]
  /\ UNCHANGED <<bitVars, status, record, waiting, sent>>

\* When the unit is to go down only the death message counts.
Begin(u) ==
  /\ ThreadTo(u, "taken", IF ~goDown[u] THEN "work"
                          ELSE IF cmd[u] = Death THEN "dead" ELSE "read")
  /\ cmd' = [cmd EXCEPT ![u] = IF goDown[u] THEN None ELSE @]
  /\ UNCHANGED <<bitVars, status, unitPipe, record, waiting, sent>>

\* action_lock_record returns -1: the packet waits for the record.
WaitForRecord(u) ==
  /\ ThreadTo(u, "work", "count") /\ cmd[u] \in Lockers
  /\ waiting' = [waiting EXCEPT ![u] = @ \cup {cmd[u]}]
  /\ cmd' = [cmd EXCEPT ![u] = None]
  /\ UNCHANGED <<bitVars, status, unitPipe, record, sent>>

\* record_check_waiting: a record has become free ...
FindFreeRecord(u) ==
  /\ ThreadTo(u, "work", "free") /\ cmd[u] \notin Lockers
  /\ \E p \in waiting[u] : record' = [record EXCEPT ![u] = p]
  /\ UNCHANGED <<bitVars, status, unitPipe, cmd, waiting, sent>>

\* ... and the packet that waits for it is marked.
GrantKeepsWaiting(u) ==
  /\ ThreadTo(u, "free", "work")
  /\ status' = [status EXCEPT ![record[u]] = Done]
  /\ record' = [record EXCEPT ![u] = None]
  /\ UNCHANGED <<bitVars, unitPipe, cmd, waiting, sent>>
GrantRecord(u) ==
  /\ ThreadTo(u, "free", "work")
  /\ waiting' = [waiting EXCEPT ![u] = @ \ {record[u]}]
  /\ status' = [status EXCEPT ![record[u]] = Done]
  /\ record' = [record EXCEPT ![u] = None]
  /\ UNCHANGED <<bitVars, unitPipe, cmd, sent>>

MarkDone(u) ==
  /\ ThreadTo(u, "work", "count")
  /\ status' = [status EXCEPT ![cmd[u]] = Done]
  /\ cmd' = [cmd EXCEPT ![u] = None]
  /\ UNCHANGED <<bitVars, unitPipe, record, waiting, sent>>

CountSent(u) == /\ ThreadTo(u, "count", "ask")
                /\ sent' = [sent EXCEPT ![u] = @ + 1]
                /\ UNCHANGED <<bitVars, status, unitPipe, cmd, record,
                               waiting>>

AskForInterrupt(u) ==
  /\ \/ ThreadTo(u, "ask", "asking") /\ ReadBits(u)
     \/ ThreadTo(u, "asking", "read") /\ SetOurBit(u)
  /\ UNCHANGED <<status, unitPipe, cmd, record, waiting, sent>>

UnitThread(u) ==
  /\ mode = "threads"
  /\ \/ ReadPacket(u) \/ Begin(u) \/ WaitForRecord(u) \/ FindFreeRecord(u)
     \/ GrantRecord(u) \/ MarkDone(u) \/ CountSent(u) \/ AskForInterrupt(u)
  /\ UNCHANGED <<emu, server, intSem, pending, lineVars, setupVars, portVars,
                 queueVars, processVars, expired, acked, complete, unitNo,
                 goDown, sends, resets>>

-----------------------------------------------------------------------------
(* The emulation thread: the work of the units in synchronous mode, the     *)
(* interrupt server, expiring records, resets                               *)

\* filesys_hsync: one iteration of the thread's loop, between two lines.  A
\* packet that frees a record may grant it to packets that wait.
SynchronousIteration(u) ==
  /\ mode = "synchronous" /\ emu = "amiga"
  /\ unitPipe[u] # << >> /\ unitPipe' = [unitPipe EXCEPT ![u] = Tail(@)]
  /\ LET p == Head(unitPipe[u])
     IN  \/ /\ p \in Lockers
            /\ waiting' = [waiting EXCEPT ![u] = @ \cup {p}]
            /\ UNCHANGED status
         \/ \E granted \in SUBSET waiting[u] :
              /\ p \in Lockers => granted = {}
              /\ waiting' = [waiting EXCEPT ![u] = @ \ granted]
              /\ status' = [q \in Packets |->
                         IF q \in granted \cup {p} THEN Done ELSE status[q]]
  /\ sent' = [sent EXCEPT ![u] = @ + 1]
  /\ intRequested' = intRequested \cup {OurBit}
  /\ UNCHANGED <<emu, server, intSem, seen, pending, lineVars, setupVars,
                 portVars, queueVars, processVars, threadVars, expired, acked,
                 complete, unitNo, goDown, sends, resets>>

EnterServer == ServerEnters /\ unitNo' = 1
               /\ UNCHANGED <<setupVars, portVars, queueVars, status,
                              processVars, unitPipe, threadVars, waiting,
                              expired, countVars, goDown, sends, resets>>

\* A pending command is Signal(SIGBREAK_CTRL_D), for the process of a unit.
DeliverSignal ==
  /\ TakeCommand
  /\ signals' = [signals EXCEPT ![Head(pending)] = @ \cup {"ctrlD"}]
  /\ UNCHANGED <<setupVars, client, port, queueVars, status, processVars,
                 unitPipe, threadVars, waiting, expired, countVars, unitNo,
                 goDown, sends, resets>>

\* The unit has something to tell, and its dummy message is back.
HasNews(u) == acked[u] # sent[u]
NeedsMessage(u) == acked[u] = complete[u] /\ acked[u] # sent[u]

FindNoCommand == NoCommand /\ UNCHANGED fsVars

\* The unit is told, by its dummy message, or passed over.
DeliverDummy(u) ==
  /\ Message
  /\ u = unitNo /\ NeedsMessage(u) /\ unitNo' = u + 1
  /\ acked' = [acked EXCEPT ![u] = sent[u]]
  /\ PutMsg(u, Dummy)
  /\ UNCHANGED <<setupVars, client, queueVars, status, processVars, unitPipe,
                 threadVars, waiting, expired, sent, complete, goDown, sends,
                 resets>>

PassUnit(u) ==
  /\ ServerIs("units")
  /\ u = unitNo /\ ~NeedsMessage(u) /\ unitNo' = u + 1
  /\ UNCHANGED <<n2aVars, setupVars, portVars, queueVars, status, processVars,
                 unitPipe, threadVars, waiting, expired, countVars, goDown,
                 sends, resets>>

LeaveServer == ServerLeaves /\ unitNo > NumUnits /\ UNCHANGED fsVars

\* The interrupt server, and the line of the other device that shares the word.
Interrupts ==
  \/ EnterServer \/ DeliverSignal \/ FindNoCommand \/ LeaveServer
  \/ \E u \in Units : DeliverDummy(u) \/ PassUnit(u)
  \/ ServerClears /\ UNCHANGED fsVars
  \/ RethinkReads /\ UNCHANGED fsVars
  \/ RethinkWrites /\ UNCHANGED fsVars

\* record_timeout, at a vertical blank: a packet has waited long enough ...
FindExpired(u) ==
  /\ expiring
  /\ emu = "amiga" /\ emu' = "expire"
  /\ \E p \in waiting[u] : expired' = [expired EXCEPT ![u] = p]
  /\ UNCHANGED <<server, intSem, bitVars, pending, lineVars, setupVars,
                 portVars, queueVars, status, processVars, unitPipe,
                 threadVars, waiting, countVars, unitNo, goDown, sends,
                 resets>>

\* ... it is marked, and uae_Signal wakes the process.
ExpireRecord(u) ==
  /\ emu = "expire" /\ emu' = "amiga"
  /\ expired[u] # None /\ expired' = [expired EXCEPT ![u] = None]
  /\ status' = [status EXCEPT ![expired[u]] = TimedOut]
  /\ waiting' = [waiting EXCEPT ![u] = @ \ {expired[u]}]
  /\ pending' = Append(pending, u)
  /\ intRequested' = intRequested \cup {OurBit}
  /\ UNCHANGED <<server, intSem, seen, lineVars, setupVars, portVars,
                 queueVars, processVars, unitPipe, threadVars, countVars,
                 unitNo, goDown, sends, resets>>

\* The Amiga is reset, at any point of its program (uae_reset).
BeginReset ==
  /\ resets < MaxResets /\ resets' = resets + 1
  /\ server = "out" \/ ResetInServer
  /\ emu = "amiga" /\ emu' = "down"
  /\ UNCHANGED <<server, intSem, bitVars, pending, lineVars, setupVars,
                 portVars, queueVars, status, processVars, unitPipe,
                 threadVars, waiting, expired, countVars, unitNo, goDown,
                 sends>>

\* filesys_prepare_reset: each thread in turn is told to go down ...
SendDeath(u) ==
  /\ emu = "down" /\ ~goDown[u] /\ \A v \in 1 .. u - 1 : thread[v] = "dead"
  /\ goDown' = [goDown EXCEPT ![u] = TRUE]
  /\ IF mode = "threads"
     THEN unitPipe' = [unitPipe EXCEPT ![u] = Append(@, Death)]
          /\ UNCHANGED thread
     ELSE unitPipe' = [unitPipe EXCEPT ![u] = << >>]
          /\ thread' = [thread EXCEPT ![u] = "dead"]
  /\ UNCHANGED <<n2aVars, setupVars, portVars, queueVars, status, processVars,
                 cmd, record, waiting, expired, countVars, unitNo, sends,
                 resets>>

\* ... and when all have gone the units start afresh (filesys_reset2,
\* filesys_start_thread, startup_handler); the old packets are forgotten.
Restart ==
  /\ emu = "down" /\ \A u \in Units : thread[u] = "dead"
  /\ N2AReset
  /\ client' = [p \in Packets |-> Idle] /\ status' = [p \in Packets |-> Linked]
  /\ port' = EachUnit(<< >>) /\ signals' = EachUnit({})
  /\ queue' = EachUnit(<< >>) /\ started' = EachUnit(0)
  /\ process' = EachUnit("get") /\ msg' = EachUnit(None)
  /\ doneValue' = EachUnit(Done) /\ at' = EachUnit(1)
  /\ unitPipe' = EachUnit(<< >>)
  /\ thread' = EachUnit("read") /\ waiting' = EachUnit({})
  /\ sent' = EachUnit(0) /\ acked' = EachUnit(0) /\ complete' = EachUnit(0)
  /\ goDown' = EachUnit(FALSE)
  /\ UNCHANGED <<setupVars, cmd, record, expired, unitNo, sends, resets>>

Housekeeping == \E u \in Units : \/ SynchronousIteration(u)
                                 \/ FindExpired(u) \/ ExpireRecord(u)

Reset == BeginReset \/ Restart \/ \E u \in Units : SendDeath(u)

-----------------------------------------------------------------------------
Next == \/ \E u \in Units : \/ \E p \in Packets : SendPacket(u, p)
                            \/ Process(u) \/ UnitThread(u)
        \/ Interrupts \/ Housekeeping \/ Reset

Spec == Init /\ [][Next]_vars

\* The threads run.  The emulation thread executes the Amiga's program and
\* raises the interrupt at every line, the vertical blank comes again, and
\* what a function of it has begun it ends.
FairSpec ==
  /\ Spec
  /\ \A u \in Units : /\ WF_vars(UnitThread(u)) /\ WF_vars(Process(u))
                      /\ WF_vars(SynchronousIteration(u))
                      /\ WF_vars(FindExpired(u)) /\ WF_vars(ExpireRecord(u))
                      /\ WF_vars(SendDeath(u))
  /\ WF_vars(EnterServer) /\ WF_vars(LeaveServer) /\ WF_vars(DeliverSignal)
  /\ WF_vars(FindNoCommand)
  /\ WF_vars(\E u \in Units : DeliverDummy(u) \/ PassUnit(u))
  /\ WF_vars(ServerClears /\ UNCHANGED fsVars)
  /\ WF_vars(RethinkWrites /\ UNCHANGED fsVars)
  /\ WF_vars(Restart)

-----------------------------------------------------------------------------
Positions == {"get", "wait", "enqueue", "release", "scan"}
ThreadPositions == {"read", "taken", "work", "free", "count", "ask", "asking",
                    "dead"}
PacketOrNone == Packets \cup {None}

TypeOK ==
  /\ N2ATypeOK /\ emu \in {"amiga", "rethink", "clear", "expire", "down"}
  /\ mode \in Modes /\ expiring \in BOOLEAN /\ maxSends \in Nat
  /\ client \in [Packets -> Units \cup {Idle}]
  /\ status \in [Packets -> Statuses]
  /\ port \in [Units -> Seq(Packets \cup {Dummy})]
  /\ signals \in [Units -> SUBSET {"port", "ctrlD"}]
  /\ queue \in [Units -> Seq(Packets)] /\ started \in [Units -> Nat]
  /\ process \in [Units -> Positions] /\ msg \in [Units -> PacketOrNone]
  /\ doneValue \in [Units -> {Done, TimedOut}] /\ at \in [Units -> Nat \ {0}]
  /\ unitPipe \in [Units -> Seq(Packets \cup {Death})]
  /\ thread \in [Units -> ThreadPositions]
  /\ cmd \in [Units -> PacketOrNone \cup {Death}]
  /\ waiting \in [Units -> SUBSET Packets]
  /\ record \in [Units -> PacketOrNone] /\ expired \in [Units -> PacketOrNone]
  /\ sent \in [Units -> Nat] /\ acked \in [Units -> Nat]
  /\ complete \in [Units -> Nat]
  /\ unitNo \in 1 .. NumUnits + 1 /\ goDown \in [Units -> BOOLEAN]
  /\ sends \in 0 .. maxSends /\ resets \in 0 .. MaxResets

\* The one dummy message of a unit is in its port, or has just been taken from
\* it, exactly while cmds_acked and cmds_complete differ: it is never put in a
\* list twice (exter_int_helper(2) and (1)).
MessageLock ==
  \A u \in Units :
    Cardinality({i \in DOMAIN port[u] : port[u][i] = Dummy})
      + (IF process[u] = "release" THEN 1 ELSE 0)
    = IF acked[u] # complete[u] THEN 1 ELSE 0

\* The packets that the thread of a unit has still to do with.
WithThread(u) == (ToSet(unitPipe[u]) \cup {cmd[u]} \cup waiting[u]) \cap Packets

\* A packet is marked as started exactly as long as the thread has it, waits
\* with it for a record, or will read it: none is forgotten between the thread
\* and the queue of the process, and none is touched once it is marked.
NoneForgotten ==
  \A u \in Units : ~goDown[u] =>
    {p \in Packets : client[p] = u /\ status[p] = Started} = WithThread(u)

\* The emulation thread never waits for room in unit_pipe, three words a
\* message, with the death message: that is what the limit is for.
PipeNeverFull == \A u \in Units : 3 * Len(unitPipe[u]) < UnitPipeSize

\* The interrupt server will be entered, or entered again; it will look at the
\* unit then, or is on its way there, or the thread is about to set the bit.
InterruptComes == OurBit \in intRequested /\ (intSem = 1 \/ server # "out")
ServerComes(u) == \/ InterruptComes \/ thread[u] \in {"ask", "asking"}
                  \/ server # "out" /\ unitNo <= u

\* The process scans for packets marked with v, and p is still ahead.
Ahead(u, v, p) == /\ process[u] = "scan" /\ doneValue[u] = v
                  /\ \E i \in at[u] .. Len(queue[u]) : queue[u][i] = p

\* The process will look for a packet that was carried out: the thread will
\* count, or the server send the message; or that is there, or the scan on.
DoneIsTold(u, p) == \/ thread[u] \in {"work", "free", "count"}
                    \/ NeedsMessage(u) /\ ServerComes(u)
                    \/ Dummy \in ToSet(port[u]) \/ process[u] = "release"
                    \/ Ahead(u, Done, p)

\* It will look for one that timed out: the server will come to the signal among
\* its commands; or that was given, or the scan is on.
TimedOutIsTold(u, p) ==
  \/ u \in ToSet(pending) /\ (InterruptComes \/ server = "commands")
  \/ signals[u] # {}
  \/ Ahead(u, TimedOut, p)

\* No wake-up is lost: while a packet is marked and not replied, something will
\* make the process look for it; and it is not in Wait without a signal while
\* there is a message ("we can get too many interrupts, but never not enough",
\* filesys.cpp:5362).
NeverNotEnough ==
  \A u \in Units :
    /\ process[u] = "wait" /\ port[u] # << >> => signals[u] # {}
    /\ \A p \in Packets : client[p] = u =>
         /\ status[p] = Done => DoneIsTold(u, p)
         /\ status[p] = TimedOut => TimedOutIsTold(u, p)

\* Packets are replied when they have been carried out, and once, whatever the
\* interrupts, the scans, the expiring records and the resets do.
Service == INSTANCE PacketService WITH
  service <- [p \in Packets |-> IF client[p] = Idle THEN "idle"
                                ELSE IF status[p] \in {Done, TimedOut}
                                     THEN "done" ELSE "asked"]
ServiceRefinement == Service!Spec

\* A packet that was handed over is replied, or forgotten in a reset, unless
\* it waits for a record: an interrupt always comes after a packet was done ("we
\* can get too many interrupts, but never not enough", filesys.cpp:5362).
WaitsForRecord(p) == \E u \in Units : p \in waiting[u]
StartedIsAnswered ==
  \A p \in Packets :
    client[p] # Idle /\ status[p] \in {Started, Done, TimedOut}
      ~> client[p] = Idle \/ WaitsForRecord(p)

\* Whatever was sent is replied in the end, the packets held back too ("We can
\* handle an unlimited number of unstarted commands", filesys.asm:1437).
SentIsAnswered == \A p \in Packets : client[p] # Idle ~> client[p] = Idle
=============================================================================
