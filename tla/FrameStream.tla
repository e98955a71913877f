---------------------------- MODULE FrameStream ----------------------------
(***************************************************************************)
(* What a player may expect of the video output: every picture on the      *)
(* screen is the whole picture of one emulated frame, and the frames go by *)
(* in order.  Frames may be skipped, and a frame may stay on the screen.   *)
(* A frame draws some lines and leaves the others as the frame before it   *)
(* left them; a line is represented by the frame that drew it.             *)
(***************************************************************************)
EXTENDS Naturals, Sequences

CONSTANT Lines

VARIABLES frames,  \* the pictures of the frames finished so far, in order
          shown,   \* the number of the frame on the screen
          screen   \* the picture on the screen

Init == /\ frames = <<[l \in Lines |-> 0]>>
        /\ shown = 1 /\ screen = frames[1]

Finish == /\ \E drawn \in SUBSET Lines :
               frames' = Append(frames,
                 [l \in Lines |-> IF l \in drawn THEN Len(frames)
                                 ELSE frames[Len(frames)][l]])
          /\ UNCHANGED <<shown, screen>>

Show == /\ shown' \in shown .. Len(frames)
        /\ screen' = frames[shown']
        /\ UNCHANGED frames

Next == Finish \/ Show

Spec == Init /\ [][Next]_<<frames, shown, screen>>
=============================================================================
