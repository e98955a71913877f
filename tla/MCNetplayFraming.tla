-------------------------- MODULE MCNetplayFraming --------------------------
(***************************************************************************)
(* What is sent in the runs of NetplayFraming.  To the server: the         *)
(* emulation thread sends words (checks and frames) while the user's       *)
(* thread chats and plays.  To an emulator: the server's game thread sends *)
(* frames while a receive thread passes on the chat of another player.     *)
(***************************************************************************)
EXTENDS NetplayFraming

Message(id, length) == [id |-> id, text |-> length]

TwoThreads == 1 .. 2
Talk == [server   |-> <<<<Message(1, 0), Message(2, 0), Message(3, 0)>>,
                        <<Message(4, 3), Message(5, 0), Message(6, 1)>>>>,
         emulator |-> <<<<Message(1, 0), Message(2, 0), Message(3, 0)>>,
                        <<Message(4, 3), Message(5, 0), Message(6, 1)>>>>]
=============================================================================
