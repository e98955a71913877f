--------------------------- MODULE CommPipeProofs ---------------------------
(***************************************************************************)
(* Theorems about CommPipe, for every size of the pipe, every number of    *)
(* words worth waking the reader for, and everything that is written.      *)
(*                                                                         *)
(* RingInv says that the slots from rdp to wrp hold the words that are     *)
(* written and not read.  WakeReaderInv and WakeWriterInv say what a       *)
(* thread that sleeps, or a wake-up on its way to it, stands for; since    *)
(* nobody looks again after a wake-up, that there is room, or a word, must *)
(* last until the thread has the lock.                                     *)
(***************************************************************************)
EXTENDS CommPipe, TLAPS

Pending == Len(accepted) - Len(delivered)

RingInv ==
  /\ Pending \in 0 .. Size - 1
  /\ wrp = Wrap(rdp + Pending)
  /\ \A k \in 1 .. Pending :
       data[Wrap(rdp + k - 1)] = accepted[Len(delivered) + k]
  /\ writer \in {"store", "advance", "lock", "full", "sleep", "relock", "write"}
       => Len(accepted) < Len(Outgoing)
  /\ writer = "advance" => data[wrp] = Word

LockInv == /\ lock = "writer" <=> writer \in {"full", "write"}
           /\ lock = "reader" <=> reader \in {"empty", "release", "take"}

WakeReaderInv ==
  /\ readerWaiting => reader \in {"release", "asleep"} /\ readerWait = 0
  /\ readerWait \in {0, 1}
  /\ readerWait = 1 => reader \in {"release", "asleep"} /\ Pending > 0
  /\ writer \in {"store", "advance", "wake"} => readerWaiting
  /\ writer = "wake" => Pending > 0
  /\ writer = "post" => /\ reader \in {"release", "asleep"}
                        /\ ~readerWaiting /\ readerWait = 0 /\ Pending > 0
  /\ reader \in {"relock", "take"} => Pending > 0
  /\ reader = "empty" => Pending = 0
  /\ readerWaiting /\ writer # "wake" => Pending < chunks

WakeWriterInv ==
  /\ writerWaiting => writer = "sleep" /\ writerWait = 0
  /\ writerWait \in {0, 1}
  /\ writerWait = 1 => writer = "sleep" /\ Pending < Size - 1
  /\ writer \in {"relock", "write"} => Pending < Size - 1

Inv == TypeOK /\ RingInv /\ LockInv /\ WakeReaderInv /\ WakeWriterInv
-----------------------------------------------------------------------------
(* The arithmetic of the ring *)

LEMMA Lengths ==
  ASSUME TypeOK
  PROVE  Len(accepted) \in Nat /\ Len(delivered) \in Nat /\ Pending \in Int
BY DEF TypeOK, Pending

\* What the threads compute from rdp and wrp is about the words in the pipe.
LEMMA Positions ==
  ASSUME TypeOK, RingInv
  PROVE  /\ Full <=> Pending = Size - 1
         /\ rdp = wrp <=> Pending = 0
         /\ Count(wrp) = Pending
BY Lengths, PipeAssumption
   DEF TypeOK, RingInv, Slots, Full, Count, After, Wrap

LEMMA WordType ==
  ASSUME TypeOK, Len(accepted) < Len(Outgoing)
  PROVE  Word \in WordSpace /\ Word \in Words
<1>1. Len(accepted) + 1 \in 1 .. Len(Outgoing)
  BY Lengths, PipeAssumption
<1> QED
  BY <1>1, PipeAssumption DEF Word, Words

\* A word is added, which is in its slot already or is stored now.
LEMMA AddWord ==
  ASSUME TypeOK, RingInv, Pending < Size - 1,
         Len(accepted) < Len(Outgoing),
         data' = [data EXCEPT ![wrp] = Word],
         wrp' = After(wrp),
         accepted' = Append(accepted, Word),
         rdp' = rdp, delivered' = delivered
  PROVE  /\ Pending' = Pending + 1
         /\ Pending' \in 0 .. Size - 1
         /\ data' \in [Slots -> WordSpace]
         /\ wrp' \in Slots /\ wrp' = Wrap(rdp + Pending')
         /\ accepted' \in Seq(WordSpace)
         /\ Len(accepted') = Len(accepted) + 1
         /\ \A k \in 1 .. Pending' :
              data'[Wrap(rdp + k - 1)] = accepted'[Len(delivered) + k]
<1>1. Word \in WordSpace
  BY WordType
<1>2. /\ accepted' \in Seq(WordSpace)
      /\ Len(accepted') = Len(accepted) + 1
      /\ accepted'[Len(accepted) + 1] = Word
      /\ \A i \in 1 .. Len(accepted) : accepted'[i] = accepted[i]
  BY <1>1 DEF TypeOK
<1>3. Pending' = Pending + 1 /\ Pending' \in 0 .. Size - 1
  BY <1>2, Lengths, PipeAssumption DEF Pending, RingInv
<1>4. data' \in [Slots -> WordSpace]
  BY <1>1 DEF TypeOK
<1>5. wrp' \in Slots /\ wrp' = Wrap(rdp + Pending')
  BY <1>3, PipeAssumption DEF TypeOK, RingInv, Slots, After, Wrap
<1>6. ASSUME NEW k \in 1 .. Pending'
      PROVE  data'[Wrap(rdp + k - 1)] = accepted'[Len(delivered) + k]
  <2>1. CASE k = Pending'
    <3>1. Wrap(rdp + k - 1) = wrp
      BY <1>3, <2>1 DEF RingInv
    <3>2. Len(delivered) + k = Len(accepted) + 1
      BY <1>3, <2>1, Lengths DEF Pending
    <3> QED
      BY <1>2, <3>1, <3>2 DEF TypeOK
  <2>2. CASE k \in 1 .. Pending
    <3>1. Wrap(rdp + k - 1) # wrp /\ Wrap(rdp + k - 1) \in Slots
      BY <2>2, PipeAssumption DEF RingInv, TypeOK, Slots, Wrap
    <3>2. Len(delivered) + k \in 1 .. Len(accepted)
      BY <2>2, Lengths DEF Pending
    <3> QED
      BY <1>2, <2>2, <3>1, <3>2 DEF TypeOK, RingInv
  <2>3. Pending \in Int /\ k \in 1 .. Pending + 1
    BY <1>3, Lengths
  <2>4. k = Pending' \/ k \in 1 .. Pending
    BY <1>3, <2>3
  <2> QED
    BY <2>1, <2>2, <2>4
<1> QED
  BY <1>2, <1>3, <1>4, <1>5, <1>6

\* The oldest word is taken out.
LEMMA TakeWord ==
  ASSUME TypeOK, RingInv, Pending > 0,
         delivered' = Append(delivered, data[rdp]),
         rdp' = After(rdp),
         data' = data, wrp' = wrp, accepted' = accepted
  PROVE  /\ data[rdp] = accepted[Len(delivered) + 1]
         /\ delivered' \in Seq(WordSpace)
         /\ Len(delivered') = Len(delivered) + 1
         /\ Pending' = Pending - 1
         /\ Pending' \in 0 .. Size - 1
         /\ rdp' \in Slots /\ wrp = Wrap(rdp' + Pending')
         /\ \A k \in 1 .. Pending' :
              data[Wrap(rdp' + k - 1)] = accepted[Len(delivered') + k]
<1>1. data[rdp] = accepted[Len(delivered) + 1]
  <2>1. 1 \in 1 .. Pending /\ Wrap(rdp + 1 - 1) = rdp
    BY Lengths, PipeAssumption DEF TypeOK, Slots, Wrap
  <2> QED
    BY <2>1 DEF RingInv
<1>2. delivered' \in Seq(WordSpace) /\ Len(delivered') = Len(delivered) + 1
  BY DEF TypeOK
<1>3. Pending' = Pending - 1 /\ Pending' \in 0 .. Size - 1
  BY <1>2, Lengths, PipeAssumption DEF Pending, RingInv
<1>4. rdp' \in Slots /\ wrp = Wrap(rdp' + Pending')
  BY <1>3, PipeAssumption DEF TypeOK, RingInv, Slots, After, Wrap
<1>5. ASSUME NEW k \in 1 .. Pending'
      PROVE  data[Wrap(rdp' + k - 1)] = accepted[Len(delivered') + k]
  <2>1. k + 1 \in 1 .. Pending
    BY <1>3, Lengths
  <2>2. Wrap(rdp' + k - 1) = Wrap(rdp + (k + 1) - 1)
    BY <1>3, PipeAssumption DEF TypeOK, RingInv, Slots, After, Wrap
  <2>3. Len(delivered') + k = Len(delivered) + (k + 1)
    BY <1>2, Lengths
  <2> QED
    BY <2>1, <2>2, <2>3 DEF RingInv
<1> QED
  BY <1>1, <1>2, <1>3, <1>4, <1>5

-----------------------------------------------------------------------------
LEMMA InitInv == Init => Inv
<1> SUFFICES ASSUME Init PROVE Inv
  OBVIOUS
<1> USE PipeAssumption DEF Init
<1>1. Unwritten \in WordSpace /\ 0 \in Slots
  BY DEF Unwritten, WordSpace, Slots
<1>2. Len(accepted) = 0 /\ Len(delivered) = 0 /\ Pending = 0
  BY DEF Pending
<1>3. accepted \in Seq(WordSpace) /\ delivered \in Seq(WordSpace)
  OBVIOUS
<1>4. Len(Outgoing) \in Nat
  OBVIOUS
<1>5. TypeOK
  <2>1. data \in [Slots -> WordSpace]
    BY <1>1
  <2>2. readerWaiting \in BOOLEAN /\ writerWaiting \in BOOLEAN
    BY Zenon
  <2> QED
    BY <1>1, <1>2, <1>3, <1>4, <2>1, <2>2 DEF TypeOK
<1>6. RingInv
  BY <1>2 DEF RingInv, Wrap
<1>7. LockInv /\ WakeReaderInv /\ WakeWriterInv
  BY DEF LockInv, WakeReaderInv, WakeWriterInv
<1> QED
  BY <1>5, <1>6, <1>7 DEF Inv

\* What holds of the words and the ring does not depend on who is where.
RingStays == UNCHANGED <<chunks, data, rdp, wrp, accepted, delivered>>

LEMMA StepInv == Inv /\ [Next]_vars => Inv'
<1> SUFFICES ASSUME Inv, [Next]_vars PROVE Inv'
  OBVIOUS
<1> USE DEF ringVars, signalVars, WriterTo, ReaderTo
<1>t. TypeOK
  BY DEF Inv
<1>r. RingInv
  BY DEF Inv
<1>l. LockInv
  BY DEF Inv
<1>w. WakeReaderInv
  BY DEF Inv
<1>v. WakeWriterInv
  BY DEF Inv
<1>n. /\ Pending \in Int /\ Len(accepted) \in Nat /\ Len(Outgoing) \in Nat
      /\ chunks \in 1 .. Size - 1 /\ Size \in Nat
  BY <1>t, Lengths, PipeAssumption DEF TypeOK
<1>s. RingStays => Pending' = Pending /\ Word' = Word
  BY DEF RingStays, Pending, Word
<1>p. /\ Full <=> Pending = Size - 1
      /\ rdp = wrp <=> Pending = 0
      /\ Count(wrp) = Pending
  BY <1>t, <1>r, Positions
<1>1. CASE BeginWrite
  <2>1. RingStays
    BY <1>1 DEF BeginWrite, RingStays
  <2>2. TypeOK'
    BY <1>1, <1>t, <1>w, <1>v DEF BeginWrite, TypeOK
  <2>3. RingInv'
    BY <1>1, <1>r, <1>s, <2>1 DEF BeginWrite, RingInv, RingStays
  <2>4. LockInv'
    BY <1>1, <1>l DEF BeginWrite, LockInv
  <2>5. WakeReaderInv'
    BY <1>1, <1>l, <1>w, <1>n, <1>p, <1>s, <2>1
       DEF BeginWrite, LockInv, WakeReaderInv, RingStays
  <2>6. WakeWriterInv'
    BY <1>1, <1>l, <1>v, <1>n, <1>p, <1>r, <1>s, <2>1
       DEF BeginWrite, LockInv, WakeWriterInv, RingInv, RingStays
  <2> QED
    BY <2>2, <2>3, <2>4, <2>5, <2>6 DEF Inv
<1>2. CASE MaybeWake
  <2>1. RingStays
    BY <1>2 DEF MaybeWake, RingStays
  <2>2. TypeOK'
    BY <1>2, <1>t, <1>w, <1>v DEF MaybeWake, TypeOK
  <2>3. RingInv'
    BY <1>2, <1>r, <1>s, <2>1 DEF MaybeWake, RingInv, RingStays
  <2>4. LockInv'
    BY <1>2, <1>l DEF MaybeWake, LockInv
  <2>a. /\ readerWaiting' => readerWaiting /\ ~(Count(wrp) >= chunks)
        /\ writer' = "post" => readerWaiting /\ ~readerWaiting'
        /\ writer' \in {"post", "idle"} /\ writer = "wake"
        /\ UNCHANGED <<reader, readerWait>>
    BY <1>2 DEF MaybeWake, WorthWaking
  <2>5. WakeReaderInv'
    BY <1>w, <1>n, <1>p, <1>s, <2>1, <2>a DEF WakeReaderInv, RingStays
  <2>6. WakeWriterInv'
    BY <1>2, <1>l, <1>v, <1>n, <1>p, <1>r, <1>s, <2>1
       DEF MaybeWake, LockInv, WakeWriterInv, RingInv, RingStays
  <2> QED
    BY <2>2, <2>3, <2>4, <2>5, <2>6 DEF Inv
<1>3. CASE Post
  <2>1. RingStays
    BY <1>3 DEF Post, RingStays
  <2>2. TypeOK'
    BY <1>3, <1>t, <1>w, <1>v DEF Post, TypeOK
  <2>3. RingInv'
    BY <1>3, <1>r, <1>s, <2>1 DEF Post, RingInv, RingStays
  <2>4. LockInv'
    BY <1>3, <1>l DEF Post, LockInv
  <2>5. WakeReaderInv'
    BY <1>3, <1>l, <1>w, <1>n, <1>p, <1>s, <2>1
       DEF Post, LockInv, WakeReaderInv, RingStays
  <2>6. WakeWriterInv'
    BY <1>3, <1>l, <1>v, <1>n, <1>p, <1>r, <1>s, <2>1
       DEF Post, LockInv, WakeWriterInv, RingInv, RingStays
  <2> QED
    BY <2>2, <2>3, <2>4, <2>5, <2>6 DEF Inv
<1>4. CASE WriterLocks
  <2>1. RingStays
    BY <1>4 DEF WriterLocks, RingStays
  <2>2. TypeOK'
    BY <1>4, <1>t, <1>w, <1>v DEF WriterLocks, TypeOK
  <2>3. RingInv'
    BY <1>4, <1>r, <1>s, <2>1 DEF WriterLocks, RingInv, RingStays
  <2>4. LockInv'
    BY <1>4, <1>l DEF WriterLocks, LockInv
  <2>5. WakeReaderInv'
    BY <1>4, <1>l, <1>w, <1>n, <1>p, <1>s, <2>1
       DEF WriterLocks, LockInv, WakeReaderInv, RingStays
  <2>6. WakeWriterInv'
    BY <1>4, <1>l, <1>v, <1>n, <1>p, <1>r, <1>s, <2>1
       DEF WriterLocks, LockInv, WakeWriterInv, RingInv, RingStays
  <2> QED
    BY <2>2, <2>3, <2>4, <2>5, <2>6 DEF Inv
<1>5. CASE PipeFull
  <2>1. RingStays
    BY <1>5 DEF PipeFull, RingStays
  <2>2. TypeOK'
    BY <1>5, <1>t, <1>w, <1>v DEF PipeFull, TypeOK
  <2>3. RingInv'
    BY <1>5, <1>r, <1>s, <2>1 DEF PipeFull, RingInv, RingStays
  <2>4. LockInv'
    BY <1>5, <1>l DEF PipeFull, LockInv
  <2>5. WakeReaderInv'
    BY <1>5, <1>l, <1>w, <1>n, <1>p, <1>s, <2>1
       DEF PipeFull, LockInv, WakeReaderInv, RingStays
  <2>6. WakeWriterInv'
    BY <1>5, <1>l, <1>v, <1>n, <1>p, <1>r, <1>s, <2>1
       DEF PipeFull, LockInv, WakeWriterInv, RingInv, RingStays
  <2> QED
    BY <2>2, <2>3, <2>4, <2>5, <2>6 DEF Inv
<1>6. CASE WriterWoken
  <2>1. RingStays
    BY <1>6 DEF WriterWoken, RingStays
  <2>2. TypeOK'
    BY <1>6, <1>t, <1>w, <1>v DEF WriterWoken, TypeOK
  <2>3. RingInv'
    BY <1>6, <1>r, <1>s, <2>1 DEF WriterWoken, RingInv, RingStays
  <2>4. LockInv'
    BY <1>6, <1>l DEF WriterWoken, LockInv
  <2>5. WakeReaderInv'
    BY <1>6, <1>l, <1>w, <1>n, <1>p, <1>s, <2>1
       DEF WriterWoken, LockInv, WakeReaderInv, RingStays
  <2>6. WakeWriterInv'
    BY <1>6, <1>l, <1>v, <1>n, <1>p, <1>r, <1>s, <2>1
       DEF WriterWoken, LockInv, WakeWriterInv, RingInv, RingStays
  <2> QED
    BY <2>2, <2>3, <2>4, <2>5, <2>6 DEF Inv
<1>7. CASE WriterRelocks
  <2>1. RingStays
    BY <1>7 DEF WriterRelocks, RingStays
  <2>2. TypeOK'
    BY <1>7, <1>t, <1>w, <1>v DEF WriterRelocks, TypeOK
  <2>3. RingInv'
    BY <1>7, <1>r, <1>s, <2>1 DEF WriterRelocks, RingInv, RingStays
  <2>4. LockInv'
    BY <1>7, <1>l DEF WriterRelocks, LockInv
  <2>5. WakeReaderInv'
    BY <1>7, <1>l, <1>w, <1>n, <1>p, <1>s, <2>1
       DEF WriterRelocks, LockInv, WakeReaderInv, RingStays
  <2>6. WakeWriterInv'
    BY <1>7, <1>l, <1>v, <1>n, <1>p, <1>r, <1>s, <2>1
       DEF WriterRelocks, LockInv, WakeWriterInv, RingInv, RingStays
  <2> QED
    BY <2>2, <2>3, <2>4, <2>5, <2>6 DEF Inv
<1>8. CASE ReaderLocks
  <2>1. RingStays
    BY <1>8 DEF ReaderLocks, RingStays
  <2>2. TypeOK'
    BY <1>8, <1>t, <1>w, <1>v DEF ReaderLocks, TypeOK
  <2>3. RingInv'
    BY <1>8, <1>r, <1>s, <2>1 DEF ReaderLocks, RingInv, RingStays
  <2>4. LockInv'
    BY <1>8, <1>l DEF ReaderLocks, LockInv
  <2>5. WakeReaderInv'
    BY <1>8, <1>l, <1>w, <1>n, <1>p, <1>r, <1>s, <2>1
       DEF ReaderLocks, LockInv, WakeReaderInv, RingInv, RingStays
  <2>6. WakeWriterInv'
    BY <1>8, <1>l, <1>v, <1>n, <1>p, <1>r, <1>s, <2>1
       DEF ReaderLocks, LockInv, WakeWriterInv, RingInv, RingStays
  <2> QED
    BY <2>2, <2>3, <2>4, <2>5, <2>6 DEF Inv
<1>9. CASE PipeEmpty
  <2>1. RingStays
    BY <1>9 DEF PipeEmpty, RingStays
  <2>2. TypeOK'
    BY <1>9, <1>t, <1>w, <1>v DEF PipeEmpty, TypeOK
  <2>3. RingInv'
    BY <1>9, <1>r, <1>s, <2>1 DEF PipeEmpty, RingInv, RingStays
  <2>4. LockInv'
    BY <1>9, <1>l DEF PipeEmpty, LockInv
  <2>5. WakeReaderInv'
    BY <1>9, <1>l, <1>w, <1>n, <1>p, <1>s, <2>1
       DEF PipeEmpty, LockInv, WakeReaderInv, RingStays
  <2>6. WakeWriterInv'
    BY <1>9, <1>l, <1>v, <1>n, <1>p, <1>r, <1>s, <2>1
       DEF PipeEmpty, LockInv, WakeWriterInv, RingInv, RingStays
  <2> QED
    BY <2>2, <2>3, <2>4, <2>5, <2>6 DEF Inv
<1>10. CASE ReaderUnlocks
  <2>1. RingStays
    BY <1>10 DEF ReaderUnlocks, RingStays
  <2>2. TypeOK'
    BY <1>10, <1>t, <1>w, <1>v DEF ReaderUnlocks, TypeOK
  <2>3. RingInv'
    BY <1>10, <1>r, <1>s, <2>1 DEF ReaderUnlocks, RingInv, RingStays
  <2>4. LockInv'
    BY <1>10, <1>l DEF ReaderUnlocks, LockInv
  <2>5. WakeReaderInv'
    BY <1>10, <1>l, <1>w, <1>n, <1>p, <1>s, <2>1
       DEF ReaderUnlocks, LockInv, WakeReaderInv, RingStays
  <2>6. WakeWriterInv'
    BY <1>10, <1>l, <1>v, <1>n, <1>p, <1>r, <1>s, <2>1
       DEF ReaderUnlocks, LockInv, WakeWriterInv, RingInv, RingStays
  <2> QED
    BY <2>2, <2>3, <2>4, <2>5, <2>6 DEF Inv
<1>11. CASE ReaderWoken
  <2>1. RingStays
    BY <1>11 DEF ReaderWoken, RingStays
  <2>2. TypeOK'
    BY <1>11, <1>t, <1>w, <1>v DEF ReaderWoken, TypeOK
  <2>3. RingInv'
    BY <1>11, <1>r, <1>s, <2>1 DEF ReaderWoken, RingInv, RingStays
  <2>4. LockInv'
    BY <1>11, <1>l DEF ReaderWoken, LockInv
  <2>5. WakeReaderInv'
    BY <1>11, <1>l, <1>w, <1>n, <1>p, <1>s, <2>1
       DEF ReaderWoken, LockInv, WakeReaderInv, RingStays
  <2>6. WakeWriterInv'
    BY <1>11, <1>l, <1>v, <1>n, <1>p, <1>r, <1>s, <2>1
       DEF ReaderWoken, LockInv, WakeWriterInv, RingInv, RingStays
  <2> QED
    BY <2>2, <2>3, <2>4, <2>5, <2>6 DEF Inv
<1>12. CASE ReaderRelocks
  <2>1. RingStays
    BY <1>12 DEF ReaderRelocks, RingStays
  <2>2. TypeOK'
    BY <1>12, <1>t, <1>w, <1>v DEF ReaderRelocks, TypeOK
  <2>3. RingInv'
    BY <1>12, <1>r, <1>s, <2>1 DEF ReaderRelocks, RingInv, RingStays
  <2>4. LockInv'
    BY <1>12, <1>l DEF ReaderRelocks, LockInv
  <2>5. WakeReaderInv'
    BY <1>12, <1>l, <1>w, <1>n, <1>p, <1>s, <2>1
       DEF ReaderRelocks, LockInv, WakeReaderInv, RingStays
  <2>6. WakeWriterInv'
    BY <1>12, <1>l, <1>v, <1>n, <1>p, <1>r, <1>s, <2>1
       DEF ReaderRelocks, LockInv, WakeWriterInv, RingInv, RingStays
  <2> QED
    BY <2>2, <2>3, <2>4, <2>5, <2>6 DEF Inv
<1>13. CASE Store
  <2>1. Pending < Size - 1 /\ wrp \in Slots /\ Word \in WordSpace
    BY <1>13, <1>t, <1>r, <1>w, <1>n, WordType
       DEF Store, RingInv, WakeReaderInv, TypeOK
  <2>2. /\ UNCHANGED <<chunks, rdp, wrp, accepted, delivered>>
        /\ Pending' = Pending /\ Word' = Word
        /\ data' = [data EXCEPT ![wrp] = Word]
    BY <1>13 DEF Store, Pending, Word
  <2>3. TypeOK'
    BY <1>13, <1>t, <2>1 DEF Store, TypeOK
  <2>4. \A k \in 1 .. Pending : Wrap(rdp + k - 1) # wrp
    BY <2>1, <1>n, <1>t, <1>r DEF RingInv, TypeOK, Slots, Wrap
  <2>5. RingInv'
    BY <1>13, <1>t, <1>r, <1>n, <2>1, <2>2, <2>4 DEF Store, RingInv, TypeOK
  <2>6. LockInv' /\ WakeReaderInv' /\ WakeWriterInv'
    BY <1>13, <1>l, <1>w, <1>v, <2>2
       DEF Store, LockInv, WakeReaderInv, WakeWriterInv
  <2> QED
    BY <2>3, <2>5, <2>6 DEF Inv
<1>14. CASE Advance
  <2>1. Pending < Size - 1 /\ Pending < chunks /\ Len(accepted) < Len(Outgoing)
    BY <1>14, <1>r, <1>w, <1>n DEF Advance, RingInv, WakeReaderInv
  <2>2. data' = [data EXCEPT ![wrp] = Word]
    BY <1>14, <1>t, <1>r DEF Advance, RingInv, TypeOK
  <2>3. /\ wrp' = After(wrp) /\ accepted' = Append(accepted, Word)
        /\ rdp' = rdp /\ delivered' = delivered /\ chunks' = chunks
    BY <1>14 DEF Advance
  <2>4. /\ Pending' = Pending + 1 /\ Pending' \in 0 .. Size - 1
        /\ data' \in [Slots -> WordSpace]
        /\ wrp' \in Slots /\ wrp' = Wrap(rdp + Pending')
        /\ accepted' \in Seq(WordSpace)
        /\ Len(accepted') = Len(accepted) + 1
        /\ \A k \in 1 .. Pending' :
             data'[Wrap(rdp + k - 1)] = accepted'[Len(delivered) + k]
    BY <1>t, <1>r, <2>1, <2>2, <2>3, AddWord
  <2>5. TypeOK'
    BY <1>14, <1>t, <1>n, <2>1, <2>3, <2>4 DEF Advance, TypeOK
  <2>6. RingInv'
    BY <1>14, <2>3, <2>4 DEF Advance, RingInv
  <2>7. LockInv' /\ WakeReaderInv' /\ WakeWriterInv'
    BY <1>14, <1>l, <1>w, <1>v, <1>n, <1>r, <2>1, <2>3, <2>4
       DEF Advance, LockInv, WakeReaderInv, WakeWriterInv, RingInv
  <2> QED
    BY <2>5, <2>6, <2>7 DEF Inv
<1>15. CASE Write
  <2>1. Pending < Size - 1 /\ Len(accepted) < Len(Outgoing)
    BY <1>15, <1>r, <1>v DEF Write, RingInv, WakeWriterInv
  <2>2. /\ data' = [data EXCEPT ![wrp] = Word]
        /\ wrp' = After(wrp) /\ accepted' = Append(accepted, Word)
        /\ rdp' = rdp /\ delivered' = delivered /\ chunks' = chunks
    BY <1>15 DEF Write
  <2>3. /\ Pending' = Pending + 1 /\ Pending' \in 0 .. Size - 1
        /\ data' \in [Slots -> WordSpace]
        /\ wrp' \in Slots /\ wrp' = Wrap(rdp + Pending')
        /\ accepted' \in Seq(WordSpace)
        /\ Len(accepted') = Len(accepted) + 1
        /\ \A k \in 1 .. Pending' :
             data'[Wrap(rdp + k - 1)] = accepted'[Len(delivered) + k]
    BY <1>t, <1>r, <2>1, <2>2, AddWord
  <2>4. Count(After(wrp)) = Pending + 1
    BY <2>2, <2>3, <1>t, <1>n DEF TypeOK, Slots, Count, Wrap
  <2>d. \/ readerWaiting' = FALSE /\ readerWait' = readerWait + 1
        \/ readerWaiting' = readerWaiting /\ readerWait' = readerWait
    BY <1>15 DEF Write
  <2>e. readerWaiting \in BOOLEAN /\ readerWait \in Nat
    BY <1>t DEF TypeOK
  <2>f. readerWait' \in Nat
    BY <2>d, <2>e, SMT
  <2>g. readerWaiting' \in BOOLEAN
    BY <2>d, <2>e, Zenon
  <2>a. readerWaiting' \in BOOLEAN /\ readerWait' \in Nat
    BY <2>f, <2>g
  <2>b. Len(accepted') <= Len(Outgoing)
    BY <1>n, <2>1, <2>3
  <2>c. /\ writer' = "idle" /\ lock' = "free"
        /\ UNCHANGED <<writerWaiting, writerWait, reader>>
    BY <1>15 DEF Write
  <2>5. TypeOK'
    BY <1>t, <2>2, <2>3, <2>a, <2>b, <2>c DEF TypeOK
  <2>6. RingInv'
    BY <1>15, <2>2, <2>3 DEF Write, RingInv
  <2>7. LockInv'
    BY <1>15, <1>l DEF Write, LockInv
  <2>8. WakeReaderInv'
    BY <1>15, <1>l, <1>w, <1>n, <1>r, <2>2, <2>3, <2>4
       DEF Write, LockInv, WakeReaderInv, WorthWaking, RingInv
  <2>9. WakeWriterInv'
    BY <1>15, <1>v, <2>2, <2>3 DEF Write, WakeWriterInv
  <2> QED
    BY <2>5, <2>6, <2>7, <2>8, <2>9 DEF Inv
<1>16. CASE Take
  <2>1. Pending > 0
    BY <1>16, <1>w DEF Take, WakeReaderInv
  <2>2. /\ delivered' = Append(delivered, data[rdp]) /\ rdp' = After(rdp)
        /\ data' = data /\ wrp' = wrp /\ accepted' = accepted
        /\ chunks' = chunks /\ Word' = Word
    BY <1>16 DEF Take, Word
  <2>3. /\ delivered' \in Seq(WordSpace)
        /\ Len(delivered') = Len(delivered) + 1
        /\ Pending' = Pending - 1 /\ Pending' \in 0 .. Size - 1
        /\ rdp' \in Slots /\ wrp = Wrap(rdp' + Pending')
        /\ \A k \in 1 .. Pending' :
             data[Wrap(rdp' + k - 1)] = accepted[Len(delivered') + k]
    BY <1>t, <1>r, <2>1, <2>2, TakeWord
  <2>c. /\ writerWaiting' = FALSE
        /\ writerWait' = writerWait + 1 \/ writerWait' = writerWait
    BY <1>16 DEF Take
  <2>d. writerWait \in Nat
    BY <1>t DEF TypeOK
  <2>e. writerWait' \in Nat
    BY <2>c, <2>d, SMT
  <2>a. writerWaiting' \in BOOLEAN /\ writerWait' \in Nat
    BY <2>c, <2>e
  <2>b. /\ reader' = "idle" /\ lock' = "free"
        /\ UNCHANGED <<readerWaiting, readerWait, writer>>
    BY <1>16 DEF Take
  <2>4. TypeOK'
    BY <1>t, <2>2, <2>3, <2>a, <2>b DEF TypeOK
  <2>5. RingInv'
    BY <1>16, <1>r, <2>2, <2>3 DEF Take, RingInv
  <2>6. LockInv' /\ WakeReaderInv' /\ WakeWriterInv'
    BY <1>16, <1>l, <1>w, <1>v, <1>n, <1>r, <2>1, <2>2, <2>3
       DEF Take, LockInv, WakeReaderInv, WakeWriterInv, RingInv
  <2> QED
    BY <2>4, <2>5, <2>6 DEF Inv
<1>17. CASE UNCHANGED vars
  <2>1. RingStays /\ UNCHANGED <<lock, signalVars, writer, reader>>
    BY <1>17 DEF vars, RingStays
  <2> QED
    BY <1>t, <1>r, <1>l, <1>w, <1>v, <1>s, <2>1
       DEF Inv, TypeOK, RingInv, LockInv, WakeReaderInv, WakeWriterInv, RingStays
<1> QED
  BY <1>1, <1>2, <1>3, <1>4, <1>5, <1>6, <1>7, <1>8, <1>9, <1>10, <1>11,
     <1>12, <1>13, <1>14, <1>15, <1>16, <1>17 DEF Next, Writer, Reader

LEMMA InvHolds == Spec => []Inv
BY InitInv, StepInv, PTL DEF Spec

\* Every variable keeps its type; in particular both positions stay in the
\* ring.
THEOREM PipeTypes == Spec => []TypeOK
<1>1. Inv => TypeOK
  BY DEF Inv
<1> QED
  BY <1>1, InvHolds, PTL

\* A thread that goes on after it has waited, or without the lock, has what it
\* waited for, although it does not look again.
THEOREM NoLookNeeded == Spec => []WokenInTime
<1>1. Inv => WokenInTime
  <2> SUFFICES ASSUME Inv PROVE WokenInTime
    OBVIOUS
  <2>1. /\ Full <=> Pending = Size - 1
        /\ rdp = wrp <=> Pending = 0
    BY Positions DEF Inv
  <2>2. Pending \in Int /\ chunks \in 1 .. Size - 1 /\ Size \in Nat
    BY Lengths, PipeAssumption DEF Inv, TypeOK
  <2> QED
    BY <2>1, <2>2 DEF Inv, WakeReaderInv, WakeWriterInv, WokenInTime
<1> QED
  BY <1>1, InvHolds, PTL

-----------------------------------------------------------------------------
(* Wake-ups that are not lost *)

\* The words up to the n-th that have not been read are not to be read at once.
NoneUrgent(n) == \A k \in Len(delivered) + 1 .. n : ~accepted[k].noBuffer

\* Who is to sleep is waited upon, or his wake-up is on its way; the reader has
\* been waited upon since the pipe was empty, the writer since it was full.
SleepInv ==
  /\ reader \in {"release", "asleep"}
       => readerWaiting \/ readerWait = 1 \/ writer = "post"
  /\ readerWaiting /\ writer # "wake" => NoneUrgent(Len(accepted))
  /\ writer = "wake" => NoneUrgent(Len(accepted) - 1)
  /\ writer = "sleep" => writerWaiting \/ writerWait = 1
  /\ writerWaiting \/ writer = "full" => Pending = Size - 1

LEMMA InitSleep == Init => SleepInv
BY DEF Init, SleepInv

LEMMA StepSleep == Inv /\ SleepInv /\ [Next]_vars => SleepInv'
<1> SUFFICES ASSUME Inv, SleepInv, [Next]_vars PROVE SleepInv'
  OBVIOUS
<1> USE DEF ringVars, signalVars, WriterTo, ReaderTo
<1>t. TypeOK
  BY DEF Inv
<1>n. /\ Pending \in Int /\ Len(accepted) \in Nat /\ Len(delivered) \in Nat
      /\ chunks \in 1 .. Size - 1 /\ Size \in Nat
  BY <1>t, Lengths, PipeAssumption DEF TypeOK
<1>p. /\ Full <=> Pending = Size - 1
      /\ rdp = wrp <=> Pending = 0
      /\ Count(wrp) = Pending
  BY <1>t, Positions DEF Inv
<1>w. WakeReaderInv /\ WakeWriterInv
  BY DEF Inv
<1>s. UNCHANGED <<accepted, delivered>>
        => Pending' = Pending /\ \A n : NoneUrgent(n)' <=> NoneUrgent(n)
  BY DEF Pending, NoneUrgent
<1>e. Pending = 0 => NoneUrgent(Len(accepted))
  BY <1>n DEF Pending, NoneUrgent
<1>1. CASE BeginWrite \/ Store \/ Post \/ WriterLocks \/ PipeFull
           \/ WriterWoken \/ WriterRelocks
  <2>1. UNCHANGED <<accepted, delivered>>
    BY <1>1 DEF BeginWrite, Store, Post, WriterLocks, PipeFull, WriterWoken,
       WriterRelocks
  <2> QED
    BY <1>1, <1>s, <1>n, <1>p, <1>w, <2>1
       DEF BeginWrite, Store, Post, WriterLocks, PipeFull, WriterWoken,
       WriterRelocks, SleepInv, WakeReaderInv, WakeWriterInv
<1>2. CASE MaybeWake
  <2>1. UNCHANGED <<accepted, delivered, reader, readerWait, writerWaiting>>
    BY <1>2 DEF MaybeWake
  <2>2. writer = "wake" /\ readerWaiting /\ NoneUrgent(Len(accepted) - 1)
    BY <1>2, <1>w DEF MaybeWake, WakeReaderInv, SleepInv
  <2>3. \/ writer' = "post" /\ ~readerWaiting'
        \/ /\ writer' = "idle" /\ readerWaiting'
           /\ ~accepted[Len(accepted)].noBuffer
    BY <1>2, <2>2 DEF MaybeWake, WorthWaking
  <2>4. writer' = "idle" => NoneUrgent(Len(accepted))
    BY <2>2, <2>3, <1>n DEF NoneUrgent
  <2> QED
    BY <1>s, <2>1, <2>2, <2>3, <2>4 DEF SleepInv
<1>3. CASE Advance
  <2>1. /\ accepted' = Append(accepted, Word) /\ delivered' = delivered
        /\ UNCHANGED <<reader, readerWaiting, readerWait, writerWaiting>>
        /\ writer = "advance" /\ writer' = "wake"
    BY <1>3 DEF Advance
  <2>2. readerWaiting /\ NoneUrgent(Len(accepted)) /\ ~writerWaiting
    BY <1>w, <2>1 DEF SleepInv, WakeReaderInv, WakeWriterInv
  <2>3. NoneUrgent(Len(accepted) - 1)'
    <3>1. accepted \in Seq(WordSpace)
      BY <1>t DEF TypeOK
    <3>2. /\ Len(accepted') = Len(accepted) + 1
          /\ \A k \in 1 .. Len(accepted) : accepted'[k] = accepted[k]
      BY <2>1, <3>1
    <3> QED
      BY <1>n, <2>1, <2>2, <3>2 DEF NoneUrgent
  <2> QED
    BY <2>1, <2>2, <2>3 DEF SleepInv
<1>4. CASE Write
  <2>1. /\ accepted' = Append(accepted, Word) /\ delivered' = delivered
        /\ UNCHANGED <<reader, writerWaiting>>
        /\ writer = "write" /\ writer' = "idle"
        /\ \/ /\ readerWaiting /\ ~readerWaiting'
              /\ readerWait' = readerWait + 1
           \/ ~readerWaiting /\ UNCHANGED <<readerWaiting, readerWait>>
           \/ /\ readerWaiting /\ ~Word.noBuffer
              /\ UNCHANGED <<readerWaiting, readerWait>>
    BY <1>4 DEF Write, WorthWaking
  <2>2. ~writerWaiting
    BY <1>w, <2>1 DEF WakeWriterInv
  <2>3. readerWaiting' => NoneUrgent(Len(accepted))'
    <3>1. accepted \in Seq(WordSpace)
      BY <1>t DEF TypeOK
    <3>2. /\ Len(accepted') = Len(accepted) + 1
          /\ accepted'[Len(accepted) + 1] = Word
          /\ \A k \in 1 .. Len(accepted) : accepted'[k] = accepted[k]
      BY <2>1, <3>1
    <3>3. readerWaiting' => NoneUrgent(Len(accepted)) /\ ~Word.noBuffer
      BY <2>1 DEF SleepInv
    <3>4. NoneUrgent(Len(accepted)) /\ ~Word.noBuffer
            => NoneUrgent(Len(accepted))'
      BY <1>n, <2>1, <3>2 DEF NoneUrgent
    <3> QED
      BY <3>3, <3>4
  <2>4. reader \in {"release", "asleep"} => readerWaiting' \/ readerWait' = 1
    <3>1. /\ reader \in {"release", "asleep"} => readerWaiting \/ readerWait = 1
          /\ readerWaiting => readerWait = 0
      BY <1>w, <2>1 DEF SleepInv, WakeReaderInv
    <3> QED
      BY <2>1, <3>1
  <2> QED
    BY <2>1, <2>2, <2>3, <2>4 DEF SleepInv
<1>5. CASE ReaderLocks \/ PipeEmpty \/ ReaderUnlocks \/ ReaderWoken
           \/ ReaderRelocks
  <2>1. UNCHANGED <<accepted, delivered, writer>>
    BY <1>5 DEF ReaderLocks, PipeEmpty, ReaderUnlocks, ReaderWoken,
       ReaderRelocks
  <2> QED
    BY <1>5, <1>s, <1>e, <1>n, <1>p, <1>w, <2>1
       DEF ReaderLocks, PipeEmpty, ReaderUnlocks, ReaderWoken, ReaderRelocks,
       SleepInv, WakeReaderInv, WakeWriterInv
<1>6. CASE Take
  <2>1. /\ reader = "take" /\ reader' = "idle"
        /\ UNCHANGED <<writer, readerWaiting, readerWait>>
        /\ ~writerWaiting'
        /\ writerWait' = IF writerWaiting THEN writerWait + 1 ELSE writerWait
    BY <1>6 DEF Take
  <2>2. ~readerWaiting /\ writer # "wake"
    BY <1>w, <2>1 DEF WakeReaderInv
  <2>3. writer # "full"
    BY <2>1 DEF Inv, LockInv
  <2>4. writer = "sleep" => writerWait' = 1
    BY <1>w, <2>1 DEF SleepInv, WakeWriterInv
  <2> QED
    BY <2>1, <2>2, <2>3, <2>4 DEF SleepInv
<1>7. CASE UNCHANGED vars
  BY <1>7, <1>s DEF SleepInv, vars
<1> QED
  BY <1>1, <1>2, <1>3, <1>4, <1>5, <1>6, <1>7 DEF Next, Writer, Reader

\* No wake-up is lost: a thread that sleeps, and to which none is on its way,
\* has a reason to, whatever the size of the pipe, the number of words worth
\* waking the reader for and what is written; and so one of the two is awake.
THEOREM NoWakeUpLost == Spec => []SleepsForAReason
<1>1. Spec => []SleepInv
  <2>1. Inv /\ SleepInv /\ [Next]_vars => SleepInv'
    BY StepSleep
  <2> QED
    BY <2>1, InitSleep, InvHolds, PTL DEF Spec
<1>2. Inv /\ SleepInv => SleepsForAReason
  <2> SUFFICES ASSUME Inv, SleepInv PROVE SleepsForAReason
    OBVIOUS
  <2>1. /\ Pending \in Int /\ chunks \in 1 .. Size - 1 /\ Size \in Nat
        /\ Full <=> Pending = Size - 1
    BY Lengths, Positions, PipeAssumption DEF Inv, TypeOK
  <2>2. ReaderSleeps => Pending < chunks /\ NoneUrgent(Len(accepted))
    BY DEF Inv, WakeReaderInv, SleepInv, ReaderSleeps
  <2>3. WriterSleeps => Pending = Size - 1
    BY DEF SleepInv, WriterSleeps
  <2> QED
    BY <2>1, <2>2, <2>3 DEF SleepsForAReason, Pending, Unread, NoneUrgent
<1> QED
  BY <1>1, <1>2, InvHolds, PTL

-----------------------------------------------------------------------------
LEMMA InitStream == Init => Stream!Init
BY DEF Init, Stream!Init

\* Moving wrp sends a word, moving rdp delivers one; no other step is seen.
LEMMA StepStream ==
  Inv /\ [Next]_vars => [Stream!Next]_<<accepted, delivered>>
<1> SUFFICES ASSUME Inv, [Next]_vars
             PROVE  [Stream!Next]_<<accepted, delivered>>
  OBVIOUS
<1> USE DEF ringVars
<1>1. CASE Advance \/ Write
  <2>1. Len(accepted) < Len(Outgoing)
    BY <1>1 DEF Advance, Write, WriterTo, Inv, RingInv
  <2>2. Word \in Words
    BY <2>1, WordType DEF Inv
  <2>3. accepted' = Append(accepted, Word) /\ UNCHANGED delivered
    BY <1>1 DEF Advance, Write
  <2> QED
    BY <2>2, <2>3 DEF Stream!Next, Stream!Send
<1>2. CASE Take
  <2>1. Pending > 0
    BY <1>2 DEF Take, ReaderTo, Inv, WakeReaderInv
  <2>2. /\ delivered' = Append(delivered, data[rdp]) /\ rdp' = After(rdp)
        /\ data' = data /\ wrp' = wrp /\ accepted' = accepted
    BY <1>2 DEF Take
  <2>3. data[rdp] = accepted[Len(delivered) + 1]
    BY <2>1, <2>2, TakeWord DEF Inv
  <2>4. Len(delivered) < Len(accepted)
    BY <2>1, Lengths DEF Inv, Pending
  <2> QED
    BY <2>2, <2>3, <2>4 DEF Stream!Next, Stream!Deliver
<1>3. CASE ~Advance /\ ~Write /\ ~Take
  <2>1. UNCHANGED <<accepted, delivered>>
    BY <1>3 DEF Next, Writer, Reader, vars, BeginWrite, Store, MaybeWake, Post,
       WriterLocks, PipeFull, WriterWoken, WriterRelocks, ReaderLocks,
       PipeEmpty, ReaderUnlocks, ReaderWoken, ReaderRelocks
  <2> QED
    BY <2>1
<1> QED
  BY <1>1, <1>2, <1>3

\* The pipe implements a stream: whatever its size, whoever waits and however
\* the two threads interleave, the words come out as they went in.
THEOREM Implements == Spec => PipeRefinement
<1>1. Spec => []Inv /\ [][Next]_vars /\ Init
  BY InvHolds, PTL DEF Spec
<1> QED
  BY <1>1, InitStream, StepStream, PTL DEF PipeRefinement, Stream!Spec
=============================================================================
