------------------------------ MODULE CommPipe ------------------------------
(***************************************************************************)
(* The bounded pipe of words between two threads (commpipe.h), by which    *)
(* packets go to the threads of the file systems and messages from host    *)
(* threads to the emulated machine.  Threads that write to the same pipe   *)
(* exclude each other (native2amiga.cpp), so there is one writer; there is *)
(* one reader.                                                             *)
(*                                                                         *)
(* Positions of the writer (write_comm_pipe_pt):                           *)
(*   idle     before the test of reader_waiting                            *)
(*   store, advance, wake, post    without the lock, the reader waits      *)
(*   lock     about to take the lock     sleep    about to wait for room   *)
(*   full     has it, the pipe is full   relock   woken                    *)
(*   write    has it, and goes on                                          *)
(* Positions of the reader (read_comm_pipe_pt_blocking):                   *)
(*   idle     about to take the lock     asleep   about to wait for data   *)
(*   empty    has it, the pipe is empty  relock   woken                    *)
(*   release  about to give it up        take     has it, and goes on      *)
(* What a thread does with the lock in its hands, and the other one does   *)
(* not read without the lock, is one step.                                 *)
(***************************************************************************)
EXTENDS Integers, Sequences

CONSTANTS Size,        \* smp_comm_pipe.size
          ChunkSizes,  \* the values of smp_comm_pipe.chunks
          Outgoing     \* the words that are written, in order

\* Whether the reader is to be woken for a word at once (no_buffer).
WordSpace == [val : Nat, noBuffer : BOOLEAN]

ASSUME PipeAssumption == /\ Size \in Nat \ {0, 1}
                         /\ ChunkSizes \subseteq 1 .. Size - 1
                         /\ Outgoing \in Seq(WordSpace)

VARIABLES
  chunks,         \* how many words are worth waking the reader for
  data, rdp, wrp, \* the ring, where it is read and where it is written
  lock,           \* "free", or the thread that holds it
  readerWaiting, writerWaiting,   \* reader_waiting, writer_waiting
  readerWait, writerWait,         \* the semaphores: how often they were posted
  writer, reader, \* where the two threads are
  accepted,       \* history: the words written
  delivered       \* history: the words read

ringVars   == <<data, rdp, wrp, accepted, delivered>>
signalVars == <<readerWaiting, writerWaiting, readerWait, writerWait>>
vars == <<chunks, ringVars, lock, signalVars, writer, reader>>

Slots == 0 .. Size - 1
Unwritten == [val |-> 0, noBuffer |-> FALSE]

Init == /\ chunks \in ChunkSizes
        /\ data = [i \in Slots |-> Unwritten] /\ rdp = 0 /\ wrp = 0
        /\ lock = "free"
        /\ readerWaiting = FALSE /\ writerWaiting = FALSE
        /\ readerWait = 0 /\ writerWait = 0
        /\ writer = "idle" /\ reader = "idle"
        /\ accepted = << >> /\ delivered = << >>

\* i % size, for the i that occur.
Wrap(i) == IF i >= Size THEN i - Size ELSE i

\* The slot after i.
AfterUnwrapped(i) == i + 1
After(i) == Wrap(i + 1)

\* How many words there are to be read when the next is written to slot w.
Count(w) == Wrap(w - rdp + Size)

FullTooLate == wrp + 1 = rdp
Full == After(wrp) = rdp

WriterTo(from, to) == writer = from /\ writer' = to
ReaderTo(from, to) == reader = from /\ reader' = to

-----------------------------------------------------------------------------
(* The writer *)

Word == Outgoing[Len(accepted) + 1]

BeginWrite == /\ Len(accepted) < Len(Outgoing)
              /\ WriterTo("idle", IF readerWaiting THEN "store" ELSE "lock")
              /\ UNCHANGED <<chunks, ringVars, lock, signalVars, reader>>

\* "No need to do all the locking."
Store == /\ WriterTo("store", "advance")
         /\ data' = [data EXCEPT ![wrp] = Word]
         /\ UNCHANGED <<chunks, rdp, wrp, accepted, delivered, lock,
                        signalVars, reader>>

Advance == /\ WriterTo("advance", "wake")
           /\ wrp' = After(wrp)
           /\ accepted' = Append(accepted, Word)
           /\ UNCHANGED <<chunks, data, rdp, delivered, lock, signalVars,
                          reader>>

\* maybe_wake_reader, for word w and n words in the pipe.
WorthWakingChunk(w, n) == n >= chunks
WorthWaking(w, n) == w.noBuffer \/ n >= chunks

MaybeWake ==
  LET wakes == readerWaiting /\ WorthWaking(accepted[Len(accepted)], Count(wrp))
  IN  /\ WriterTo("wake", IF wakes THEN "post" ELSE "idle")
      /\ readerWaiting' = (readerWaiting /\ ~wakes)
      /\ UNCHANGED <<chunks, ringVars, lock, writerWaiting, readerWait,
                     writerWait, reader>>

Post == /\ WriterTo("post", "idle")
        /\ readerWait' = readerWait + 1
        /\ UNCHANGED <<chunks, ringVars, lock, readerWaiting, writerWaiting,
                       writerWait, reader>>

WriterLocks == /\ WriterTo("lock", IF Full THEN "full" ELSE "write")
               /\ lock = "free" /\ lock' = "writer"
               /\ UNCHANGED <<chunks, ringVars, signalVars, reader>>

PipeFull == /\ WriterTo("full", "sleep")
            /\ writerWaiting' = TRUE
            /\ lock' = "free"
            /\ UNCHANGED <<chunks, ringVars, readerWaiting, readerWait,
                           writerWait, reader>>

WriterWoken == /\ WriterTo("sleep", "relock")
               /\ writerWait > 0 /\ writerWait' = writerWait - 1
               /\ UNCHANGED <<chunks, ringVars, lock, readerWaiting,
                              writerWaiting, readerWait, reader>>

WriterRelocks == /\ WriterTo("relock", "write")
                 /\ lock = "free" /\ lock' = "writer"
                 /\ UNCHANGED <<chunks, ringVars, signalVars, reader>>

\* The word is written, the reader woken if it waits, the lock given up.
Write == /\ WriterTo("write", "idle")
         /\ data' = [data EXCEPT ![wrp] = Word]
         /\ wrp' = After(wrp)
         /\ accepted' = Append(accepted, Word)
         /\ lock' = "free"
         /\ IF readerWaiting /\ WorthWaking(Word, Count(After(wrp)))
            THEN readerWaiting' = FALSE /\ readerWait' = readerWait + 1
            ELSE UNCHANGED <<readerWaiting, readerWait>>
         /\ UNCHANGED <<chunks, rdp, delivered, writerWaiting, writerWait,
                        reader>>

Writer == \/ BeginWrite \/ Store \/ Advance \/ MaybeWake \/ Post
          \/ WriterLocks \/ PipeFull \/ WriterWoken \/ WriterRelocks \/ Write

-----------------------------------------------------------------------------
(* The reader *)

ReaderLocks == /\ ReaderTo("idle", IF rdp = wrp THEN "empty" ELSE "take")
               /\ lock = "free" /\ lock' = "reader"
               /\ UNCHANGED <<chunks, ringVars, signalVars, writer>>

\* The writer looks at reader_waiting without the lock.
PipeEmpty == /\ ReaderTo("empty", "release")
             /\ readerWaiting' = TRUE
             /\ UNCHANGED <<chunks, ringVars, lock, writerWaiting, readerWait,
                            writerWait, writer>>

ReaderUnlocks == /\ ReaderTo("release", "asleep")
                 /\ lock' = "free"
                 /\ UNCHANGED <<chunks, ringVars, signalVars, writer>>

ReaderWoken == /\ ReaderTo("asleep", "relock")
               /\ readerWait > 0 /\ readerWait' = readerWait - 1
               /\ UNCHANGED <<chunks, ringVars, lock, readerWaiting,
                              writerWaiting, writerWait, writer>>

ReaderRelocks == /\ ReaderTo("relock", "take")
                 /\ lock = "free" /\ lock' = "reader"
                 /\ UNCHANGED <<chunks, ringVars, signalVars, writer>>

\* The word is read, the writer woken if it waits, the lock given up.
TakeQuietly == /\ ReaderTo("take", "idle")
               /\ delivered' = Append(delivered, data[rdp])
               /\ rdp' = After(rdp)
               /\ lock' = "free"
               /\ UNCHANGED <<chunks, data, wrp, accepted, signalVars, writer>>
TakeKeepsFlag ==
  /\ ReaderTo("take", "idle")
  /\ delivered' = Append(delivered, data[rdp])
  /\ rdp' = After(rdp)
  /\ lock' = "free"
  /\ writerWait' = IF writerWaiting THEN writerWait + 1 ELSE writerWait
  /\ UNCHANGED <<chunks, data, wrp, accepted, readerWaiting, writerWaiting,
                 readerWait, writer>>
Take == /\ ReaderTo("take", "idle")
        /\ delivered' = Append(delivered, data[rdp])
        /\ rdp' = After(rdp)
        /\ lock' = "free"
        /\ writerWaiting' = FALSE
        /\ writerWait' = IF writerWaiting THEN writerWait + 1 ELSE writerWait
        /\ UNCHANGED <<chunks, data, wrp, accepted, readerWaiting, readerWait,
                       writer>>

Reader == \/ ReaderLocks \/ PipeEmpty \/ ReaderUnlocks \/ ReaderWoken
          \/ ReaderRelocks \/ Take

-----------------------------------------------------------------------------
Next == Writer \/ Reader

Spec == Init /\ [][Next]_vars

\* Both threads run.
FairSpec == Spec /\ WF_vars(Writer) /\ WF_vars(Reader)

-----------------------------------------------------------------------------
TypeOK == /\ chunks \in ChunkSizes
          /\ data \in [Slots -> WordSpace] /\ rdp \in Slots /\ wrp \in Slots
          /\ lock \in {"free", "writer", "reader"}
          /\ readerWaiting \in BOOLEAN /\ writerWaiting \in BOOLEAN
          /\ readerWait \in Nat /\ writerWait \in Nat
          /\ writer \in {"idle", "store", "advance", "wake", "post", "lock",
                         "full", "sleep", "relock", "write"}
          /\ reader \in {"idle", "empty", "release", "asleep", "relock", "take"}
          /\ accepted \in Seq(WordSpace) /\ delivered \in Seq(WordSpace)
          /\ Len(accepted) <= Len(Outgoing)

\* A thread that has waited does not look again: when it goes on there is room
\* to write, or a word to read, and so there is when the writer goes on without
\* the lock (write_comm_pipe_pt, read_comm_pipe_pt_blocking).
WokenInTime == /\ writer \in {"store", "advance", "write"} => ~Full
               /\ reader = "take" => rdp # wrp

\* A thread is left asleep, with no wake-up on its way, only for a reason: the
\* reader while too few words to be worth it are in the pipe and none that it
\* is to be woken for at once, the writer while there is no room; and never
\* both of them, each for the other's wake-up.
ReaderSleeps == /\ reader = "asleep" /\ readerWait = 0
                /\ writer \notin {"wake", "post"}
WriterSleeps == writer = "sleep" /\ writerWait = 0
Unread == Len(delivered) + 1 .. Len(accepted)
SleepsForAReason ==
  /\ ReaderSleeps => /\ Len(accepted) - Len(delivered) < chunks
                     /\ \A k \in Unread : ~accepted[k].noBuffer
  /\ WriterSleeps => Full
  /\ ~(ReaderSleeps /\ WriterSleeps)

\* The words come out whole, in order, each once, whatever room there is and
\* whoever wakes whom.
Words == {Outgoing[i] : i \in 1 .. Len(Outgoing)}
Stream == INSTANCE MessageStream WITH Messages <- Words
PipeRefinement == Stream!Spec

\* Every word is read: no thread waits for a wake-up that has come too early
\* or was not sent ("That's harmless", commpipe.h:81).
AllRead == <>(delivered = Outgoing)
=============================================================================
