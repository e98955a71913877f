---------------------------- MODULE VideoProofs ----------------------------
(***************************************************************************)
(* Proofs about VideoBuffers, for every set of lines, all modes and any    *)
(* number of frames.  The inductive invariant says what each buffer holds: *)
(* the current one the newest frame, the locked one a frame that is not    *)
(* older than the screen, and the one drawn into, which is neither, the    *)
(* part of the next frame that is done.                                    *)
(***************************************************************************)
EXTENDS VideoBuffers, TLAPS

Finished == emu \in {"sync", "wait", "swap"}

Newest == frames[Len(frames)]

\* Which frame is being made, and how far it is.
FrameInv ==
  /\ next = buffer
  /\ Len(frames) = IF emu \in {"copy", "sync", "wait", "swap"}
                   THEN frameNo ELSE frameNo + 1
  /\ emu \in {"draw", "copy"} => \A l \in drawn : data[buffer][l] = Len(frames)
  /\ Finished => data[buffer] = [l \in Lines |-> IF l \in drawn THEN Len(frames)
                                                 ELSE Newest[l]]

BufferInv ==
  /\ NeverDrawnWhileShown
  /\ ~Drawing => buffer = current
  /\ data[current] = Newest /\ holds[current] = Len(frames)
  /\ locked # Free => /\ data[locked] = frames[holds[locked]]
                      /\ shown <= holds[locked]

ScreenInv ==
  /\ view \in {"upload", "swap", "post"} => locked # Free
  /\ view = "upload" => \A l \in Lines \ todo : texture[l] = data[locked][l]
  /\ screen = frames[shown]

Inv == TypeOK /\ FrameInv /\ BufferInv /\ ScreenInv

-----------------------------------------------------------------------------
LEMMA FreeIsNoBuffer == Free \notin Buffers
BY DEF Free, Buffers

LEMMA BlankIsPicture == Blank \in Picture
BY DEF Blank, Picture

\* A finished frame is added to the frames.
LEMMA AppendPicture ==
  ASSUME NEW s \in Seq(Picture), NEW p \in Picture
  PROVE  /\ Append(s, p) \in Seq(Picture)
         /\ Len(Append(s, p)) = Len(s) + 1
         /\ Append(s, p)[Len(s) + 1] = p
         /\ \A i \in 1 .. Len(s) : Append(s, p)[i] = s[i]
OBVIOUS

LEMMA InitInv == Init => Inv
<1> SUFFICES ASSUME Init PROVE Inv
  OBVIOUS
<1> USE DEF Init, Buffers, Free
<1>1. Len(frames) = 1 /\ frames[1] = Blank
  OBVIOUS
<1>2. TypeOK
  <2>1. /\ Blank \in Picture /\ frames \in Seq(Picture)
        /\ data \in [Buffers -> Picture] /\ holds \in [Buffers -> 1 .. 1]
    BY BlankIsPicture
  <2>2. /\ next \in Buffers /\ current \in Buffers /\ buffer \in Buffers
        /\ holds \in [Buffers -> 1 .. Len(frames)]
        /\ shown \in 1 .. Len(frames)
    BY <2>1, <1>1
  <2>3. /\ texture \in Picture /\ screen \in Picture
    BY BlankIsPicture
  <2>4. view \in {"wait", "update", "upload", "swap", "post"}
    OBVIOUS
  <2>5. drawn \subseteq Lines /\ todo \subseteq Lines
    OBVIOUS
  <2> QED
    BY <2>1, <2>2, <2>3, <2>4, <2>5 DEF TypeOK
<1>3. FrameInv
  BY <1>1 DEF FrameInv, Finished
<1>4. BufferInv
  BY <1>1 DEF BufferInv, NeverDrawnWhileShown, Drawing, Newest
<1>5. ScreenInv
  BY <1>1 DEF ScreenInv
<1> QED
  BY <1>2, <1>3, <1>4, <1>5 DEF Inv

LEMMA StepInv == Inv /\ [Next]_vars => Inv'
<1> SUFFICES ASSUME Inv, [Next]_vars PROVE Inv'
  OBVIOUS
<1> USE VideoAssumption DEF Free, bufferVars, emuVars, viewVars, EmuTo, ViewTo
<1>n. Free \notin Buffers
  BY FreeIsNoBuffer DEF Free
<1>t. TypeOK
  BY DEF Inv
<1>f. FrameInv
  BY DEF Inv
<1>b. BufferInv
  BY DEF Inv
<1>s. ScreenInv
  BY DEF Inv
<1>m. mode' = mode /\ mode \in Modes
  BY <1>t DEF TypeOK, Next, Emulation, Video, vars
<1> USE <1>m
<1>1. ASSUME NEW l \in Lines, Draw(l) PROVE Inv'
  <2>1. TypeOK'
    <3>1. [data[buffer] EXCEPT ![l] = frameNo + 1] \in Picture
      BY <1>t DEF TypeOK, Picture
    <3>2. data' \in [Buffers -> Picture]
      BY <1>1, <1>t, <3>1 DEF Draw, TypeOK
    <3> QED
      BY <1>1, <1>t, <3>2 DEF Draw, TypeOK
  <2>2. FrameInv'
    <3>1. data[buffer] \in Picture /\ buffer \in Buffers
      BY <1>t DEF TypeOK
    <3>2. \A m \in drawn' : data'[buffer][m] = Len(frames)
      BY <1>1, <1>t, <1>f, <3>1 DEF Draw, TypeOK, Picture, FrameInv
    <3> QED
      BY <1>1, <1>f, <3>2 DEF Draw, FrameInv, Finished
  <2>3. BufferInv'
    BY <1>1, <1>t, <1>f, <1>b, <1>s
       DEF Draw, TypeOK, FrameInv, BufferInv, NeverDrawnWhileShown, Drawing,
           Newest, ScreenInv
  <2>4. ScreenInv'
    BY <1>1, <1>t, <1>b, <1>s
       DEF Draw, TypeOK, BufferInv, NeverDrawnWhileShown, Drawing, ScreenInv
  <2> QED
    BY <2>1, <2>2, <2>3, <2>4 DEF Inv
<1>2. CASE Render
  <2>1. TypeOK'
    BY <1>2, <1>t DEF Render, TypeOK
  <2>2. FrameInv'
    BY <1>2, <1>t, <1>f, <1>b
       DEF Render, TypeOK, FrameInv, Finished, Newest, BufferInv
  <2>3. BufferInv'
    BY <1>2, <1>t, <1>f, <1>b, <1>s
       DEF Render, TypeOK, FrameInv, BufferInv, NeverDrawnWhileShown, Drawing,
           Newest, ScreenInv
  <2>4. ScreenInv'
    BY <1>2, <1>t, <1>b, <1>s
       DEF Render, TypeOK, BufferInv, NeverDrawnWhileShown, Drawing,
           ScreenInv
  <2> QED
    BY <2>1, <2>2, <2>3, <2>4 DEF Inv
<1>3. CASE CopyLines
  <2>1. TypeOK'
    <3>1. [l \in Lines |-> IF l \in drawn THEN data[buffer][l]
                          ELSE data[current][l]] \in Picture
      BY <1>t DEF TypeOK, Picture
    <3>2. data' \in [Buffers -> Picture]
      BY <1>3, <1>t, <3>1 DEF CopyLines, TypeOK
    <3> QED
      BY <1>3, <1>t, <3>2 DEF CopyLines, TypeOK
  <2>2. FrameInv'
    BY <1>3, <1>t, <1>f, <1>b
       DEF CopyLines, TypeOK, FrameInv, Finished, Newest, BufferInv
  <2>3. BufferInv'
    BY <1>3, <1>t, <1>f, <1>b, <1>s
       DEF CopyLines, TypeOK, FrameInv, BufferInv, NeverDrawnWhileShown,
           Drawing, Newest, ScreenInv
  <2>4. ScreenInv'
    BY <1>3, <1>t, <1>b, <1>s
       DEF CopyLines, TypeOK, BufferInv, NeverDrawnWhileShown, Drawing,
           ScreenInv
  <2> QED
    BY <2>1, <2>2, <2>3, <2>4 DEF Inv
<1>4. CASE WaitForSwapSignal
  <2>1. TypeOK'
    BY <1>4, <1>t DEF WaitForSwapSignal, TypeOK
  <2>2. FrameInv'
    BY <1>4, <1>t, <1>f, <1>b
       DEF WaitForSwapSignal, TypeOK, FrameInv, Finished, Newest, BufferInv
  <2>3. BufferInv'
    BY <1>4, <1>t, <1>f, <1>b, <1>s
       DEF WaitForSwapSignal, TypeOK, FrameInv, BufferInv,
           NeverDrawnWhileShown, Drawing, Newest, ScreenInv
  <2>4. ScreenInv'
    BY <1>4, <1>t, <1>b, <1>s
       DEF WaitForSwapSignal, TypeOK, BufferInv, NeverDrawnWhileShown,
           Drawing, ScreenInv
  <2> QED
    BY <2>1, <2>2, <2>3, <2>4 DEF Inv
<1>5. CASE EmuTimeout
  <2>1. TypeOK'
    BY <1>5, <1>t DEF EmuTimeout, TypeOK
  <2>2. FrameInv'
    BY <1>5, <1>t, <1>f, <1>b
       DEF EmuTimeout, TypeOK, FrameInv, Finished, Newest, BufferInv
  <2>3. BufferInv'
    BY <1>5, <1>t, <1>f, <1>b, <1>s
       DEF EmuTimeout, TypeOK, FrameInv, BufferInv, NeverDrawnWhileShown,
           Drawing, Newest, ScreenInv
  <2>4. ScreenInv'
    BY <1>5, <1>t, <1>b, <1>s
       DEF EmuTimeout, TypeOK, BufferInv, NeverDrawnWhileShown, Drawing,
           ScreenInv
  <2> QED
    BY <2>1, <2>2, <2>3, <2>4 DEF Inv
<1>6. CASE SetCurrent
  <2>1. /\ data[buffer] \in Picture /\ frames \in Seq(Picture)
        /\ Len(frames) \in Nat
    BY <1>t DEF TypeOK
  <2>2. /\ frames' \in Seq(Picture)
        /\ Len(frames') = Len(frames) + 1
        /\ frames'[Len(frames')] = data[buffer]
        /\ \A i \in 1 .. Len(frames) : frames'[i] = frames[i]
    BY <1>6, <2>1, AppendPicture DEF SetCurrent
  <2>3. /\ holds' \in [Buffers -> 1 .. Len(frames')]
        /\ \A b \in Buffers : b # buffer => holds'[b] = holds[b]
        /\ holds'[buffer] = Len(frames')
    BY <1>6, <1>t, <2>1, <2>2 DEF SetCurrent, TypeOK
  <2>4. TypeOK'
    BY <1>6, <1>t, <2>1, <2>2, <2>3 DEF SetCurrent, TypeOK
  <2>5. FrameInv'
    BY <1>6, <1>t, <1>f, <2>1, <2>2 DEF SetCurrent, TypeOK, FrameInv, Finished
  <2>6. locked # Free => /\ locked # buffer
                         /\ data[locked] = frames'[holds'[locked]]
                         /\ shown <= holds'[locked]
    BY <1>6, <1>t, <1>b, <2>2, <2>3
       DEF SetCurrent, TypeOK, BufferInv, NeverDrawnWhileShown, Drawing
  <2>7. BufferInv'
    BY <1>6, <2>2, <2>3, <2>6
       DEF SetCurrent, BufferInv, NeverDrawnWhileShown, Drawing, Newest
  <2>8. ScreenInv'
    BY <1>6, <1>t, <1>s, <2>2 DEF SetCurrent, TypeOK, ScreenInv
  <2> QED
    BY <2>4, <2>5, <2>7, <2>8 DEF Inv
<1>7. CASE SignalSwapDone
  <2>1. TypeOK'
    BY <1>7, <1>t DEF SignalSwapDone, TypeOK
  <2>2. FrameInv'
    BY <1>7, <1>t, <1>f, <1>b
       DEF SignalSwapDone, TypeOK, FrameInv, Finished, Newest, BufferInv
  <2>3. BufferInv'
    BY <1>7, <1>t, <1>f, <1>b, <1>s
       DEF SignalSwapDone, TypeOK, FrameInv, BufferInv, NeverDrawnWhileShown,
           Drawing, Newest, ScreenInv
  <2>4. ScreenInv'
    BY <1>7, <1>t, <1>b, <1>s
       DEF SignalSwapDone, TypeOK, BufferInv, NeverDrawnWhileShown, Drawing,
           ScreenInv
  <2> QED
    BY <2>1, <2>2, <2>3, <2>4 DEF Inv
<1>8. CASE GetAvailable
  <2>1. TypeOK'
    BY <1>8, <1>t DEF GetAvailable, NextBuffer, After, Buffers, TypeOK
  <2>2. FrameInv'
    BY <1>8, <1>t, <1>f, <1>b
       DEF GetAvailable, NextBuffer, After, Buffers, TypeOK, FrameInv,
           Finished, Newest, BufferInv
  <2>3. BufferInv'
    <3>1. /\ next = buffer /\ buffer = current /\ emu' = "draw"
          /\ UNCHANGED <<data, current, locked, frames, holds, shown>>
      BY <1>8, <1>f, <1>b DEF GetAvailable, FrameInv, BufferInv, Drawing
    <3>2. buffer' \notin {locked, current}
      BY <1>8, <1>t, <3>1 DEF GetAvailable, NextBuffer, After, TypeOK
    <3> QED
      BY <1>b, <3>1, <3>2 DEF BufferInv, NeverDrawnWhileShown, Drawing, Newest
  <2>4. ScreenInv'
    BY <1>8, <1>t, <1>b, <1>s
       DEF GetAvailable, NextBuffer, After, Buffers, TypeOK, BufferInv,
           NeverDrawnWhileShown, Drawing, ScreenInv
  <2> QED
    BY <2>1, <2>2, <2>3, <2>4 DEF Inv
<1>9. CASE WaitsInVain
  <2>1. TypeOK'
    BY <1>9, <1>t DEF WaitsInVain, ViewTimeout, TypeOK
  <2>2. FrameInv'
    BY <1>9, <1>t, <1>f, <1>b
       DEF WaitsInVain, ViewTimeout, TypeOK, FrameInv, Finished, Newest,
           BufferInv
  <2>3. BufferInv'
    BY <1>9, <1>t, <1>f, <1>b, <1>s
       DEF WaitsInVain, ViewTimeout, TypeOK, FrameInv, BufferInv,
           NeverDrawnWhileShown, Drawing, Newest, ScreenInv
  <2>4. ScreenInv'
    BY <1>9, <1>t, <1>b, <1>s
       DEF WaitsInVain, ViewTimeout, TypeOK, BufferInv, NeverDrawnWhileShown,
           Drawing, ScreenInv
  <2> QED
    BY <2>1, <2>2, <2>3, <2>4 DEF Inv
<1>10. CASE Lock
  <2>1. TypeOK'
    BY <1>10, <1>t DEF Lock, TypeOK
  <2>2. FrameInv'
    BY <1>10, <1>t, <1>f, <1>b
       DEF Lock, TypeOK, FrameInv, Finished, Newest, BufferInv
  <2>3. BufferInv'
    BY <1>10, <1>t, <1>f, <1>b, <1>s
       DEF Lock, TypeOK, FrameInv, BufferInv, NeverDrawnWhileShown, Drawing,
           Newest, ScreenInv
  <2>4. ScreenInv'
    BY <1>10, <1>n, <1>t, <1>s DEF Lock, TypeOK, ScreenInv
  <2> QED
    BY <2>1, <2>2, <2>3, <2>4 DEF Inv
<1>11. ASSUME NEW l \in Lines, Upload(l) PROVE Inv'
  <2>1. TypeOK'
    <3>1. locked \in Buffers
      BY <1>11, <1>t, <1>s DEF Upload, TypeOK, ScreenInv
    <3>2. data[locked] \in Picture
      BY <1>t, <3>1 DEF TypeOK
    <3>3. texture' \in Picture
      BY <1>11, <1>t, <3>2 DEF Upload, TypeOK, Picture
    <3> QED
      BY <1>11, <1>t, <3>3 DEF Upload, TypeOK
  <2>2. FrameInv'
    BY <1>11, <1>t, <1>f, <1>b
       DEF Upload, TypeOK, FrameInv, Finished, Newest, BufferInv
  <2>3. BufferInv'
    BY <1>11, <1>t, <1>f, <1>b, <1>s
       DEF Upload, TypeOK, FrameInv, BufferInv, NeverDrawnWhileShown, Drawing,
           Newest, ScreenInv
  <2>4. ScreenInv'
    <3>1. \A m \in Lines \ todo' : texture'[m] = data[locked][m]
      BY <1>11, <1>t, <1>s DEF Upload, TypeOK, Picture, ScreenInv
    <3> QED
      BY <1>11, <1>s, <3>1 DEF Upload, ScreenInv
  <2> QED
    BY <2>1, <2>2, <2>3, <2>4 DEF Inv
<1>12. CASE SwapBuffers
  <2>1. TypeOK'
    <3>1. locked \in Buffers
      BY <1>12, <1>t, <1>s DEF SwapBuffers, TypeOK, ScreenInv
    <3>2. shown' \in 1 .. Len(frames')
      BY <1>12, <1>t, <3>1 DEF SwapBuffers, TypeOK
    <3> QED
      BY <1>12, <1>t, <3>2 DEF SwapBuffers, TypeOK
  <2>2. FrameInv'
    BY <1>12, <1>t, <1>f, <1>b
       DEF SwapBuffers, TypeOK, FrameInv, Finished, Newest, BufferInv
  <2>3. BufferInv'
    BY <1>12, <1>t, <1>f, <1>b, <1>s
       DEF SwapBuffers, TypeOK, FrameInv, BufferInv, NeverDrawnWhileShown,
           Drawing, Newest, ScreenInv
  <2>4. ScreenInv'
    <3>1. locked \in Buffers
      BY <1>12, <1>t, <1>s DEF SwapBuffers, TypeOK, ScreenInv
    <3>2. \A l \in Lines : texture[l] = data[locked][l]
      BY <1>12, <1>s DEF SwapBuffers, ScreenInv
    <3>3. texture \in Picture /\ data[locked] \in Picture
      BY <3>1, <1>t DEF TypeOK
    <3>4. texture = data[locked]
      BY <3>2, <3>3 DEF Picture
    <3>5. screen' = frames'[shown']
      BY <1>12, <1>n, <1>b, <3>1, <3>4 DEF SwapBuffers, BufferInv
    <3> QED
      BY <1>12, <1>s, <3>5 DEF SwapBuffers, ScreenInv
  <2> QED
    BY <2>1, <2>2, <2>3, <2>4 DEF Inv
<1>13. CASE SwapTimeout
  <2>1. TypeOK'
    BY <1>13, <1>t DEF SwapTimeout, TypeOK
  <2>2. FrameInv'
    BY <1>13, <1>t, <1>f, <1>b
       DEF SwapTimeout, TypeOK, FrameInv, Finished, Newest, BufferInv
  <2>3. BufferInv'
    BY <1>13, <1>t, <1>f, <1>b, <1>s
       DEF SwapTimeout, TypeOK, FrameInv, BufferInv, NeverDrawnWhileShown,
           Drawing, Newest, ScreenInv
  <2>4. ScreenInv'
    BY <1>13, <1>t, <1>b, <1>s
       DEF SwapTimeout, TypeOK, BufferInv, NeverDrawnWhileShown, Drawing,
           ScreenInv
  <2> QED
    BY <2>1, <2>2, <2>3, <2>4 DEF Inv
<1>14. CASE Unlock
  <2>1. TypeOK'
    BY <1>14, <1>t DEF Unlock, TypeOK
  <2>2. FrameInv'
    BY <1>14, <1>t, <1>f, <1>b
       DEF Unlock, TypeOK, FrameInv, Finished, Newest, BufferInv
  <2>3. BufferInv'
    BY <1>14, <1>n, <1>t, <1>f, <1>b, <1>s
       DEF Unlock, TypeOK, FrameInv, BufferInv, NeverDrawnWhileShown, Drawing,
           Newest, ScreenInv
  <2>4. ScreenInv'
    BY <1>14, <1>t, <1>b, <1>s
       DEF Unlock, TypeOK, BufferInv, NeverDrawnWhileShown, Drawing,
           ScreenInv
  <2> QED
    BY <2>1, <2>2, <2>3, <2>4 DEF Inv
<1>15. CASE UNCHANGED vars
  <2>1. TypeOK'
    BY <1>15, <1>t DEF vars, TypeOK
  <2>2. FrameInv'
    BY <1>15, <1>t, <1>f, <1>b
       DEF vars, TypeOK, FrameInv, Finished, Newest, BufferInv
  <2>3. BufferInv'
    BY <1>15, <1>t, <1>f, <1>b, <1>s
       DEF vars, TypeOK, FrameInv, BufferInv, NeverDrawnWhileShown, Drawing,
           Newest, ScreenInv
  <2>4. ScreenInv'
    BY <1>15, <1>t, <1>b, <1>s
       DEF vars, TypeOK, BufferInv, NeverDrawnWhileShown, Drawing, ScreenInv
  <2> QED
    BY <2>1, <2>2, <2>3, <2>4 DEF Inv
<1> QED
  BY <1>1, <1>2, <1>3, <1>4, <1>5, <1>6, <1>7, <1>8, <1>9, <1>10, <1>11,
     <1>12, <1>13, <1>14, <1>15 DEF Next, Emulation, Video

-----------------------------------------------------------------------------
LEMMA InvHolds == Spec => []Inv
BY InitInv, StepInv, PTL DEF Spec

\* Every variable keeps its type.
THEOREM VideoTypes == Spec => []TypeOK
<1>1. Inv => TypeOK
  BY DEF Inv
<1> QED
  BY <1>1, InvHolds, PTL

\* The emulation never draws into a buffer that is shown or may be locked
\* next, in whatever order the two threads come to their locks and timeouts.
THEOREM NeverDrawn == Spec => []NeverDrawnWhileShown
<1>1. Inv => NeverDrawnWhileShown
  BY DEF Inv, BufferInv
<1> QED
  BY <1>1, InvHolds, PTL

-----------------------------------------------------------------------------
LEMMA InitStream == Init => Stream!Init
BY DEF Init, Stream!Init, Blank

\* Setting the current buffer finishes a frame, swapping the OpenGL buffers
\* shows one; no other step is seen.
LEMMA StepStream ==
  Inv /\ [Next]_vars => [Stream!Next]_<<frames, shown, screen>>
<1> SUFFICES ASSUME Inv, [Next]_vars
             PROVE  [Stream!Next]_<<frames, shown, screen>>
  OBVIOUS
<1> USE DEF bufferVars, emuVars, viewVars
<1>1. CASE SetCurrent
  <2>1. drawn \in SUBSET Lines
    BY DEF Inv, TypeOK
  <2>2. data[buffer] = [l \in Lines |-> IF l \in drawn THEN Len(frames)
                                       ELSE frames[Len(frames)][l]]
    BY <1>1 DEF SetCurrent, EmuTo, Inv, FrameInv, Finished, Newest
  <2>3. frames' = Append(frames, data[buffer])
    BY <1>1 DEF SetCurrent
  <2>4. UNCHANGED <<shown, screen>>
    BY <1>1 DEF SetCurrent
  <2>5. Stream!Finish
    BY <2>1, <2>2, <2>3, <2>4 DEF Stream!Finish
  <2> QED
    BY <2>5 DEF Stream!Next
<1>2. CASE SwapBuffers
  <2>1. locked # Free /\ locked \in Buffers
    BY <1>2 DEF SwapBuffers, Inv, ScreenInv, TypeOK
  <2>2. shown' \in shown .. Len(frames)
    BY <1>2, <2>1 DEF SwapBuffers, Inv, BufferInv, TypeOK
  <2>3. Inv'
    BY StepInv
  <2>4. screen' = frames[shown'] /\ UNCHANGED frames
    BY <1>2, <2>3 DEF SwapBuffers, Inv, ScreenInv
  <2>5. Stream!Show
    BY <2>2, <2>4 DEF Stream!Show
  <2> QED
    BY <2>5 DEF Stream!Next
<1>3. CASE ~SetCurrent /\ ~SwapBuffers
  <2>1. UNCHANGED <<frames, shown, screen>>
    BY <1>3 DEF Next, Emulation, Video, vars, Draw, Render, CopyLines,
       WaitForSwapSignal, EmuTimeout, SignalSwapDone, GetAvailable, WaitsInVain,
       Lock, Upload, SwapTimeout, Unlock
  <2> QED
    BY <2>1
<1> QED
  BY <1>1, <1>2, <1>3

\* The pictures on the screen are those of whole frames, in order: the
\* buffers, the copying and the locks implement FrameStream.
THEOREM Implements == Spec => FrameStreamRefinement
<1>1. Spec => []Inv /\ [][Next]_vars /\ Init
  BY InvHolds, PTL DEF Spec
<1> QED
  BY <1>1, InitStream, StepStream, PTL DEF FrameStreamRefinement, Stream!Spec
=============================================================================
