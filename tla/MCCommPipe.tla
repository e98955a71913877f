----------------------------- MODULE MCCommPipe -----------------------------
(***************************************************************************)
(* What is written in the run of CommPipe: commands of three and of two    *)
(* words, of which the last wakes the reader.                              *)
(***************************************************************************)
EXTENDS CommPipe

W(v, last) == [val |-> v, noBuffer |-> last]

Commands == <<W(1, FALSE), W(2, FALSE), W(3, TRUE), W(4, FALSE), W(5, TRUE),
              W(6, FALSE), W(7, FALSE), W(8, TRUE)>>
AllChunks == 1 .. Size - 1
=============================================================================
