---------------------------- MODULE AudioStream ----------------------------
(***************************************************************************)
(* A stream of libfsemu/src/emu/audio.c: OpenAL buffers go from a queue of  *)
(* free ones through the hands of the thread that fills them to the queue   *)
(* of an OpenAL source, and when they have been played back to the free     *)
(* ones.  The filling thread is the emulation (stream 0) or the thread that *)
(* plays the audio of a CD (stream 1, cda_play.cpp and cdda_play_func in    *)
(* blkdev_cdimage.cpp), which waits until its buffers have been played.  At  *)
(* every picture the emulation takes buffers of both streams back and keeps  *)
(* statistics (fs_emu_audio_video_sync): "video" is where it is in that,     *)
(* beside the thread of a CD, or in turn with its own filling of stream 0.   *)
(*                                                                         *)
(* Positions of a thread:                                                  *)
(*   idle    before its next call        pop     before the free queue     *)
(*   queue   has filled a buffer         check   before the source's state *)
(*   play    before alSourcePlay         drain   unqueues old buffers      *)
(*   return  leaves the call             poll    unqueues, to see whether  *)
(*   look    ... its buffer is free      turn    has waited for it         *)
(*   stats   before update_stats         over    the CD's thread has ended *)
(***************************************************************************)
EXTENDS AudioStats, SequencesExt

CONSTANTS Buffers,     \* MAX_BUFFERS of them
          MinBuffers,  \* min_buffers: 1
          MaxCalls     \* bound: calls of fs_emu_queue_audio_buffer

ASSUME StreamAssumption == /\ IsFiniteSet(Buffers) /\ Cardinality(Buffers) >= 2
                           /\ 0 \notin Buffers
                           /\ MinBuffers \in Nat /\ MaxCalls \in Nat

VARIABLES
  client,      \* who fills: "emulation" or "cd"
  free,        \* queue
  queued,      \* buffers_queued
  mutex,       \* its holder
  source,      \* OpenAL: the buffers queued, ...
  played,      \* ... how many of them have been played, ...
  state,       \* ... and AL_SOURCE_STATE
  pc,          \* per thread, where it is
  old,         \* per thread, old_buffers while it unqueues
  hand,        \* the buffer the filling thread works on
  queuedThen,  \* its copy of buffers_queued
  calls,
  ids,         \* buffer_ids of the two buffers of the CD's thread
  bufnum,      \* the one whose turn it is
  cddaPlay,    \* cdda_play: 1, or -1 when it is to end, or 0
  ending,      \* it has left its loop, and waits for both
  raced        \* history: the source was started while a thread unqueued

bufferVars == <<free, queued>>
sourceVars == <<source, played, state>>
cdVars     == <<ids, bufnum, cddaPlay, ending>>
callVars   == <<hand, queuedThen, calls>>
vars == <<statsVars, client, bufferVars, mutex, sourceVars, pc, old, callVars,
          cdVars, raced>>

Threads == {"filler", "video"}
Nobody == "nobody"
NoBuffer == 0   \* no OpenAL name
Turns == {0, 1}  \* of the two buffers of the CD

Init ==
  /\ StatsInit
  /\ client \in {"emulation", "cd"}
  /\ free = SetToSeq(Buffers) /\ queued = 0 /\ mutex = Nobody
  /\ source = << >> /\ played = 0 /\ state = "initial"
  /\ pc = [filler |-> "idle", video |-> "drain"] /\ old = [t \in Threads |-> 0]
  /\ hand = NoBuffer /\ queuedThen = 0 /\ calls = 0
  /\ ids = [b \in Turns |-> NoBuffer] /\ bufnum = 0 /\ ending = FALSE
  /\ cddaPlay = (IF client = "cd" THEN 1 ELSE 0)
  /\ raced = FALSE

Goes(t, from, to) == pc[t] = from /\ pc' = [pc EXCEPT ![t] = to]

-----------------------------------------------------------------------------
(* OpenAL *)

\* What AL_BUFFERS_PROCESSED may be: of a source that has stopped, some
\* implementations also count the buffers queued since.
Processed == {played} \cup IF state = "stopped" THEN {Len(source)} ELSE {}

PlayBuffer ==
  /\ state = "playing" /\ played < Len(source)
  /\ played' = played + 1
  /\ state' = IF played' = Len(source) THEN "stopped" ELSE "playing"
  /\ UNCHANGED <<statsVars, client, bufferVars, mutex, source, pc, old,
                 callVars, cdVars, raced>>

-----------------------------------------------------------------------------
(* unqueue_old_buffers, by both threads *)

AfterUnqueue(t) == IF t = "video" THEN "stats"
                   ELSE IF pc[t] = "drain" THEN "return" ELSE "look"

\* AL_BUFFERS_PROCESSED is read under the mutex.
CountOldUnlocked(t) ==
  /\ pc[t] \in {"drain", "poll"} /\ old[t] = 0
  /\ \E n \in Processed :
       IF n = 0 THEN /\ pc' = [pc EXCEPT ![t] = AfterUnqueue(t)]
                     /\ UNCHANGED <<mutex, old>>
                ELSE /\ old' = [old EXCEPT ![t] = n]
                     /\ UNCHANGED <<pc, mutex>>
  /\ UNCHANGED <<statsVars, client, bufferVars, sourceVars, callVars, cdVars,
                 raced>>
CountOld(t) ==
  /\ pc[t] \in {"drain", "poll"} /\ old[t] = 0 /\ mutex = Nobody
  /\ \E n \in Processed :
       IF n = 0 THEN /\ pc' = [pc EXCEPT ![t] = AfterUnqueue(t)]
                     /\ UNCHANGED <<mutex, old>>
                ELSE /\ mutex' = t /\ old' = [old EXCEPT ![t] = n]
                     /\ UNCHANGED pc
  /\ UNCHANGED <<statsVars, client, bufferVars, sourceVars, callVars, cdVars,
                 raced>>

\* alSourceUnqueueBuffers; the names it returns join the free ones.  If there
\* are fewer to return it returns none, and what the array on the stack holds
\* joins the free ones: no names, or the names of buffers unqueued before.
UnqueueOld(t) ==
  /\ old[t] > 0 /\ old' = [old EXCEPT ![t] = 0]
  /\ IF \E n \in Processed : old[t] <= n
     THEN /\ source' = SubSeq(source, old[t] + 1, Len(source))
          /\ played' = IF played > old[t] THEN played - old[t] ELSE 0
          /\ free' = free \o SubSeq(source, 1, old[t])
     ELSE /\ UNCHANGED <<source, played>>
          /\ \E b \in Buffers \cup {NoBuffer} :
               free' = free \o [i \in 1 .. old[t] |-> b]
  /\ queued' = queued - old[t]
  /\ mutex' = Nobody
  /\ pc' = [pc EXCEPT ![t] = AfterUnqueue(t)]
  /\ UNCHANGED <<statsVars, client, state, callVars, cdVars, raced>>

-----------------------------------------------------------------------------
(* fs_emu_queue_audio_buffer *)

\* The bound; what the names from the stack do to later calls is not looked at.
CanCall == calls < MaxCalls /\ ~raced

\* The emulation has filled its own buffer.
CallQueue ==
  /\ client = "emulation" /\ Goes("filler", "idle", "pop")
  /\ pc["video"] = "drain" /\ old["video"] = 0
  /\ CanCall /\ calls' = calls + 1
  /\ UNCHANGED <<statsVars, client, bufferVars, mutex, sourceVars, old, hand,
                 queuedThen, cdVars, raced>>

\* g_queue_pop_head.
FirstFree == IF free = << >> THEN NoBuffer ELSE Head(free)

Pop ==
  /\ Goes("filler", "pop", "queue") /\ mutex = Nobody
  /\ FirstFree # NoBuffer
  /\ hand' = FirstFree /\ free' = Tail(free)
  /\ queued' = queued + 1 /\ queuedThen' = queued + 1
  /\ UNCHANGED <<statsVars, client, mutex, sourceVars, old, calls, cdVars,
                 raced>>

\* "no audio buffer available - dropping data"
DropData ==
  /\ Goes("filler", "pop", "return") /\ mutex = Nobody
  /\ FirstFree = NoBuffer
  /\ hand' = NoBuffer
  /\ free' = IF free = << >> THEN free ELSE Tail(free)
  /\ UNCHANGED <<statsVars, client, queued, mutex, sourceVars, old, queuedThen,
                 calls, cdVars, raced>>

QueueBuffer ==
  /\ Goes("filler", "queue", "check")
  /\ source' = Append(source, hand)
  /\ UNCHANGED <<statsVars, client, bufferVars, mutex, played, state, old,
                 callVars, cdVars, raced>>

\* A source that does not play is started when enough is queued: a buffer that
\* was queued before the state is read is played.
EnoughOneMore == queuedThen > MinBuffers
Enough == queuedThen >= MinBuffers

CheckState ==
  /\ Goes("filler", "check", IF state # "playing" /\ Enough THEN "play"
                             ELSE "drain")
  /\ UNCHANGED <<statsVars, client, bufferVars, mutex, sourceVars, old,
                 callVars, cdVars, raced>>

\* alSourcePlay starts at the head of the queue, even if it was played.
Play ==
  /\ Goes("filler", "play", "drain")
  /\ played' = 0 /\ state' = IF source = << >> THEN "stopped" ELSE "playing"
  /\ raced' = (raced \/ old["video"] > 0)
  /\ UNCHANGED <<statsVars, client, bufferVars, mutex, source, old, callVars,
                 cdVars>>

-----------------------------------------------------------------------------
(* The thread of the CD: cdda_play_func, cda_audio::play and wait *)

\* The caller gets the buffer's name, or 0.
Return ==
  /\ Goes("filler", "return", "idle")
  /\ IF client = "cd" THEN /\ ids' = [ids EXCEPT ![bufnum] = hand]
                           /\ bufnum' = 1 - bufnum
                      ELSE UNCHANGED <<ids, bufnum>>
  /\ hand' = NoBuffer /\ queuedThen' = 0
  /\ UNCHANGED <<statsVars, client, bufferVars, mutex, sourceVars, old, calls,
                 cddaPlay, ending, raced>>

\* wait(bufnum) has something to wait for.
AlwaysAsk == TRUE
AsksAtEnd == ending /\ ids[bufnum] # NoBuffer
MustAsk == ids[bufnum] # NoBuffer

CdLoop ==
  /\ client = "cd" /\ pc["filler"] = "idle"
  /\ IF cddaPlay > 0 \/ ending
     THEN /\ pc' = [pc EXCEPT !["filler"] = IF MustAsk THEN "poll" ELSE "turn"]
          /\ UNCHANGED <<bufnum, ending>>
     ELSE /\ ending' = TRUE /\ bufnum' = 0
          /\ UNCHANGED pc
  /\ UNCHANGED <<statsVars, client, bufferVars, mutex, sourceVars, old,
                 callVars, ids, cddaPlay, raced>>

\* fs_emu_check_audio_buffer_done: when the buffer is free it has been played.
Look ==
  /\ Goes("filler", "look", IF ids[bufnum] \in ToSet(free) THEN "turn"
                            ELSE "poll")
  /\ mutex = Nobody
  /\ UNCHANGED <<statsVars, client, bufferVars, mutex, sourceVars, old,
                 callVars, cdVars, raced>>

\* The next piece is played ...
PlayPiece ==
  /\ ~ending /\ cddaPlay > 0
  /\ Goes("filler", "turn", "pop")
  /\ CanCall /\ calls' = calls + 1
  /\ UNCHANGED <<statsVars, client, bufferVars, mutex, sourceVars, old, hand,
                 queuedThen, cdVars, raced>>

\* ... or none, because the CD is stopped ...
SkipTurn ==
  /\ ~ending /\ cddaPlay <= 0
  /\ Goes("filler", "turn", "idle")
  /\ bufnum' = 1 - bufnum
  /\ UNCHANGED <<statsVars, client, bufferVars, mutex, sourceVars, old,
                 callVars, ids, cddaPlay, ending, raced>>

\* ... or it is not audio ("attempted to play data track").
LeaveLoop ==
  /\ ~ending /\ ending' = TRUE
  /\ Goes("filler", "turn", "idle")
  /\ bufnum' = 0
  /\ UNCHANGED <<statsVars, client, bufferVars, mutex, sourceVars, old,
                 callVars, ids, cddaPlay, raced>>

\* At the end it waits for both of its buffers.
EndCd ==
  /\ ending
  /\ Goes("filler", "turn", IF bufnum = 0 THEN "idle" ELSE "over")
  /\ bufnum' = 1 - bufnum
  /\ cddaPlay' = IF bufnum = 0 THEN cddaPlay ELSE 0
  /\ UNCHANGED <<statsVars, client, bufferVars, mutex, sourceVars, old,
                 callVars, ids, ending, raced>>

\* cdda_stop, which then waits for cdda_play to be 0; or the thread itself
\* after the last piece.
StopCd ==
  /\ cddaPlay = 1 /\ cddaPlay' = -1
  /\ UNCHANGED <<statsVars, client, bufferVars, mutex, sourceVars, pc, old,
                 callVars, ids, bufnum, ending, raced>>

-----------------------------------------------------------------------------
(* The emulation thread, at every picture: fs_emu_audio_video_sync *)

\* buffers_queued is read without the mutex.
Statistics == /\ Goes("video", "stats", "drain")
              /\ UpdateStats(queued)
              /\ UNCHANGED <<client, bufferVars, mutex, sourceVars, old,
                             callVars, cdVars, raced>>

-----------------------------------------------------------------------------
\* A call of the filling thread, once begun, and the thread of the CD.
FillerRuns ==
  \/ CountOld("filler") \/ UnqueueOld("filler")
  \/ Pop \/ DropData \/ QueueBuffer \/ CheckState \/ Play \/ Return
  \/ CdLoop \/ Look \/ PlayPiece \/ SkipTurn \/ LeaveLoop \/ EndCd

\* The thread that fills stream 0 does this between its calls.
VideoRuns == /\ client = "cd" \/ pc["filler"] = "idle"
             /\ CountOld("video") \/ UnqueueOld("video") \/ Statistics

Next == CallQueue \/ FillerRuns \/ StopCd \/ VideoRuns \/ PlayBuffer

Spec == Init /\ [][Next]_vars

\* The threads run, and the source plays on.
FairSpec == Spec /\ WF_vars(FillerRuns) /\ WF_vars(VideoRuns)
                 /\ WF_vars(PlayBuffer)

-----------------------------------------------------------------------------
Positions == {"idle", "pop", "queue", "check", "play", "drain", "return",
              "poll", "look", "turn", "stats", "over"}

TypeOK ==
  /\ StatsTypeOK
  /\ client \in {"emulation", "cd"}
  /\ free \in Seq(Buffers \cup {NoBuffer}) /\ queued \in Int
  /\ mutex \in Threads \cup {Nobody}
  /\ source \in Seq(Buffers) /\ played \in 0 .. Len(source)
  /\ state \in {"initial", "playing", "stopped"}
  /\ pc \in [Threads -> Positions] /\ old \in [Threads -> Nat]
  /\ hand \in Buffers \cup {NoBuffer} /\ queuedThen \in Int
  /\ calls \in 0 .. MaxCalls
  /\ ids \in [Turns -> Buffers \cup {NoBuffer}] /\ bufnum \in Turns
  /\ cddaPlay \in {-1, 0, 1} /\ ending \in BOOLEAN /\ raced \in BOOLEAN

\* The buffers in the hands of the filling thread and not yet in the source.
InHand == IF pc["filler"] = "queue" THEN <<hand>> ELSE << >>

\* Every buffer is in one place, and buffers_queued counts those that are not
\* free, whichever of the two threads unqueues; unless the source was started
\* between the two OpenAL calls of an unqueue, which do not exclude that.
BuffersWhole ==
  ~raced => /\ Len(free) + Len(InHand) + Len(source) = Cardinality(Buffers)
            /\ ToSet(free \o InHand \o source) = Buffers
            /\ queued = Len(InHand) + Len(source)

\* Before a piece of the CD is queued at most one other is: its data are not
\* dropped, for it waited for the right buffer.
CdNeverDrops ==
  client = "cd" /\ ~raced /\ pc["filler"] = "pop" =>
    Len(free) >= Cardinality(Buffers) - 1

\* What was queued is played, and comes back: a source that ran dry is started
\* again, and none that is stopped is forgotten.
QueuedComesBack ==
  \A b \in Buffers : b \in ToSet(source) ~> b \notin ToSet(source) \/ raced

\* A CD that is told to stop, or has played to its end, does end: cdda_stop
\* waits for that.
StopEnds == cddaPlay = -1 ~> cddaPlay = 0 \/ raced
=============================================================================
