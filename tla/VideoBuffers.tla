---------------------------- MODULE VideoBuffers ----------------------------
(***************************************************************************)
(* The three video buffers through which the emulation thread hands its    *)
(* frames to the video thread (emu/video.c), the way a frame is made from  *)
(* the lines drawn and the previous frame (fs-uae/video.c), the upload of  *)
(* a frame (emu/render.c) and the conditions on which the threads wait for *)
(* each other (ml/render.c).                                               *)
(***************************************************************************)
EXTENDS Integers, Sequences

CONSTANTS Lines,    \* the lines of a picture
          MaxFrame  \* bound: frames emulated

ASSUME VideoAssumption == MaxFrame \in Nat

\* "full": the emulation follows the display; "vblank": only the video thread
\* does; "off": it shows what the emulation signals.
Modes == {"full", "vblank", "off"}

Buffers == 0 .. 2
Free == 3             \* in place of a locked buffer: NULL

VARIABLES
  mode,     \* g_fs_ml_video_sync and g_fs_ml_vblank_sync, set at startup
  data,     \* the pixels of each buffer: per line, the frame that drew it
  next,     \* g_video_buffer_next
  current,  \* g_video_buffer_current
  locked,   \* g_video_buffer_locked
  buffer,   \* g_buffer: what the emulation draws into
  drawn,    \* the lines drawn in this frame (line[] = 0)
  frameNo,  \* g_frame_seq_no
  emu,      \* where the emulation thread is
  view,     \* where the video thread is
  todo,     \* the lines still to be uploaded
  texture,  \* the texture
  screen,   \* the picture on the screen
  frames,   \* history: the pictures of all frames
  holds,    \* history: the frame that each buffer holds
  shown     \* history: the frame on the screen

bufferVars == <<data, next, current, locked>>
emuVars    == <<buffer, drawn, frameNo, emu>>
viewVars   == <<view, todo, texture, screen>>
vars == <<mode, bufferVars, emuVars, viewVars, frames, holds, shown>>

Blank == [l \in Lines |-> 0]

Init == /\ mode \in Modes
        /\ data = [b \in Buffers |-> Blank]
        /\ next = 1 /\ current = 0 /\ locked = Free
        /\ buffer = 1 /\ drawn = {} /\ frameNo = 0 /\ emu = "draw"
        /\ view = IF mode = "off" THEN "wait" ELSE "update"
        /\ todo = {} /\ texture = Blank /\ screen = Blank
        /\ frames = <<Blank>> /\ holds = [b \in Buffers |-> 1]
        /\ shown = 1

-----------------------------------------------------------------------------
(* The emulation thread *)

EmuTo(from, to) == emu = from /\ emu' = to

Draw(l) == /\ emu = "draw" /\ frameNo < MaxFrame /\ l \notin drawn
           /\ data' = [data EXCEPT ![buffer][l] = frameNo + 1]
           /\ drawn' = drawn \cup {l}
           /\ UNCHANGED <<next, current, locked, buffer, frameNo, emu,
                          viewVars, frames, holds, shown>>

\* The frame is complete, and ...
Render == /\ EmuTo("draw", "copy") /\ frameNo < MaxFrame
          /\ frameNo' = frameNo + 1
          /\ UNCHANGED <<data, next, current, locked, buffer, drawn,
                         viewVars, frames, holds, shown>>

\* ... the lines that were not drawn are those of the frame before.
CopyNothing == /\ EmuTo("copy", "sync")
               /\ UNCHANGED <<bufferVars, buffer, drawn, frameNo, viewVars,
                              frames, holds, shown>>
CopyLines == /\ EmuTo("copy", "sync")
             /\ data' = [data EXCEPT ![buffer] = [l \in Lines |->
                           IF l \in drawn THEN @[l] ELSE data[current][l]]]
             /\ UNCHANGED <<next, current, locked, buffer, drawn, frameNo,
                            viewVars, frames, holds, shown>>

\* With full sync the emulation waits to be signalled, for at most 40 ms.
\* Without any sync it signals that the frame is ready.
WaitForSwapSignal ==
  /\ emu = "sync"
  /\ emu' = IF mode = "full" THEN "wait" ELSE "swap"
  /\ view' = IF mode = "off" /\ view = "wait" THEN "update" ELSE view
  /\ UNCHANGED <<bufferVars, buffer, drawn, frameNo, todo, texture,
                 screen, frames, holds, shown>>

EmuTimeout == /\ EmuTo("wait", "swap")
              /\ UNCHANGED <<bufferVars, buffer, drawn, frameNo, viewVars,
                             frames, holds, shown>>

SetCurrent == /\ EmuTo("swap", "done")
              /\ current' = buffer
              /\ frames' = Append(frames, data[buffer])
              /\ holds' = [holds EXCEPT ![buffer] = Len(frames) + 1]
              /\ UNCHANGED <<data, next, locked, buffer, drawn, frameNo,
                             viewVars, shown>>

SignalSwapDone ==
  /\ EmuTo("done", "get")
  /\ view' = IF view = "swap" THEN "post" ELSE view
  /\ UNCHANGED <<bufferVars, buffer, drawn, frameNo, todo, texture,
                 screen, frames, holds, shown>>

After(b) == (b + 1) % 3

AnyNext == After(next)
NextBuffer == IF After(next) = locked THEN After(After(next)) ELSE After(next)

GetAvailable == /\ EmuTo("get", "draw")
                /\ next' = NextBuffer
                /\ buffer' = NextBuffer
                /\ drawn' = {}
                /\ UNCHANGED <<data, current, locked, frameNo, viewVars,
                               frames, holds, shown>>

Emulation == /\ \/ \E l \in Lines : Draw(l)
                \/ Render \/ CopyLines \/ WaitForSwapSignal \/ EmuTimeout
                \/ SetCurrent \/ SignalSwapDone \/ GetAvailable
             /\ UNCHANGED mode

-----------------------------------------------------------------------------
(* The video thread *)

ViewTo(from, to) == view = from /\ view' = to

\* Without sync it waits for a frame, for at most 40 ms.
NoTimeout == FALSE
ViewTimeout == view = "wait" /\ view' = "update"
WaitsInVain == /\ ViewTimeout
               /\ UNCHANGED <<bufferVars, emuVars, todo, texture,
                              screen, frames, holds, shown>>

Lock == /\ ViewTo("update", "upload")
        /\ locked' = current
        /\ todo' = Lines
        /\ UNCHANGED <<data, next, current, emuVars, texture, screen,
                       frames, holds, shown>>

Upload(l) == /\ view = "upload" /\ l \in todo
             /\ texture' = [texture EXCEPT ![l] = data[locked][l]]
             /\ todo' = todo \ {l}
             /\ UNCHANGED <<bufferVars, emuVars, view, screen,
                            frames, holds, shown>>

\* The picture appears.  With full sync the emulation is signalled and given
\* 3 ms to set its frame.
SwapBuffers ==
  /\ view = "upload" /\ todo = {}
  /\ view' = IF mode = "full" THEN "swap" ELSE "post"
  /\ emu' = IF mode = "full" /\ emu = "wait" THEN "swap" ELSE emu
  /\ screen' = texture
  /\ shown' = holds[locked]
  /\ UNCHANGED <<bufferVars, buffer, drawn, frameNo, todo, texture,
                 frames, holds>>

SwapTimeout == /\ ViewTo("swap", "post")
               /\ UNCHANGED <<bufferVars, emuVars, todo, texture,
                              screen, frames, holds, shown>>

Unlock == /\ ViewTo("post", IF mode = "off" THEN "wait" ELSE "update")
          /\ locked' = Free
          /\ UNCHANGED <<data, next, current, emuVars, todo, texture,
                         screen, frames, holds, shown>>

Video == /\ \/ WaitsInVain \/ Lock \/ (\E l \in Lines : Upload(l))
            \/ SwapBuffers \/ SwapTimeout \/ Unlock
         /\ UNCHANGED mode

-----------------------------------------------------------------------------
Next == Emulation \/ Video

Spec == Init /\ [][Next]_vars

\* Both threads run; a frame is finished whatever it draws.
FairSpec == /\ Spec
            /\ WF_vars(Emulation /\ ~\E l \in Lines : Draw(l))
            /\ WF_vars(Video)

-----------------------------------------------------------------------------
Picture == [Lines -> Nat]

TypeOK == /\ mode \in Modes
          /\ data \in [Buffers -> Picture]
          /\ next \in Buffers /\ current \in Buffers /\ buffer \in Buffers
          /\ locked \in Buffers \cup {Free}
          /\ drawn \subseteq Lines /\ frameNo \in Nat
          /\ emu \in {"draw", "copy", "sync", "wait", "swap", "done", "get"}
          /\ view \in {"wait", "update", "upload", "swap", "post"}
          /\ todo \subseteq Lines
          /\ texture \in Picture /\ screen \in Picture
          /\ frames \in Seq(Picture)
          /\ holds \in [Buffers -> 1 .. Len(frames)]
          /\ shown \in 1 .. Len(frames)

Drawing == emu \in {"draw", "copy", "sync", "wait", "swap"}

\* The emulation never draws into the buffer that is being shown, nor into the
\* one that the video thread would take next, although it picks its buffer
\* without knowing what the video thread will lock (get_next_video_buffer).
NeverDrawnWhileShown == Drawing => buffer \notin {locked, current}

\* Pictures are whole, made of the lines drawn and the picture before, and
\* they appear in order, whatever the video thread skips or repeats.
Stream == INSTANCE FrameStream
FrameStreamRefinement == Stream!Spec

\* The last frame that the emulation finishes before it stops is shown too,
\* although nothing is signalled after it and a signal can be missed (the
\* timeouts of ml/render.c).
NewestIsShown == <>(shown = MaxFrame + 1)
=============================================================================
