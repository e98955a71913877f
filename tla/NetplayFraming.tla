--------------------------- MODULE NetplayFraming ---------------------------
(***************************************************************************)
(* Netplay messages on a TCP connection.  A message is a word of four      *)
(* bytes, which a chat text may follow, whose length the word gives.       *)
(* Several threads send on the same socket, and the receiver takes the     *)
(* bytes from it as TCP hands them out, any number of them at a time.      *)
(*                                                                         *)
(* The same stream is read by the receive thread of the emulator           *)
(* (receive_thread and handle_ext_message of netplay.c) and by the thread  *)
(* of the server (Client.receive_loop and Client.on_message of game.py).   *)
(* Chat texts have 1 to 127 characters (hud.c), fewer than the 128 beyond  *)
(* which the emulator ignores the rest.                                    *)
(***************************************************************************)
EXTENDS Naturals, Sequences, Functions

CONSTANTS Threads,   \* the threads that send
          Outgoing   \* what each of them sends, to the server or an emulator

\* A message; text is the length of its chat text, 0 if it has none.
MessageSpace == [id : Nat, text : Nat]

Sides == {"server", "emulator"}

ASSUME FramingAssumption ==
  Outgoing \in [Sides -> [Threads -> Seq(MessageSpace)]]

VARIABLES
  side,       \* who receives
  unsent,     \* what each thread has yet to send
  sending,    \* g_send_mutex: the message whose text is still to be sent
  wire,       \* the bytes on their way
  data,       \* the bytes of the current word
  text,       \* the bytes of the current text, after its word
  missing,    \* how many bytes of the text have not been read
  closed,     \* the receiver has given the connection up
  accepted,   \* history: the messages sent, in the order of the mutex
  delivered   \* history: the messages handled, as their bytes

sendVars == <<side, unsent, sending, accepted>>
recvVars == <<data, text, missing, closed, delivered>>
vars == <<sendVars, wire, recvVars>>

Word(m) == [i \in 1 .. 4 |-> <<m, i>>]
Text(m) == [i \in 1 .. m.text |-> <<m, 4 + i>>]
Bytes(m) == Word(m) \o Text(m)

Unlocked == << >>

Init == /\ side \in Sides
        /\ unsent = Outgoing[side] /\ sending = Unlocked /\ wire = << >>
        /\ data = << >> /\ text = << >> /\ missing = 0 /\ closed = FALSE
        /\ accepted = << >> /\ delivered = << >>

-----------------------------------------------------------------------------
(* The senders.  The emulator sends a text in two calls and keeps its      *)
(* mutex for both; the server appends a message and its text to the queue  *)
(* of a client at once.                                                    *)

\* A mutant: a thread that sends takes no lock.
SendWordUnlocked(t) ==
  /\ unsent[t] # << >>
  /\ LET m == Head(unsent[t])
     IN /\ side = "server" => m.text = 0
        /\ wire' = wire \o Bytes(m)
        /\ accepted' = Append(accepted, m)
  /\ unsent' = [unsent EXCEPT ![t] = Tail(@)]
  /\ UNCHANGED <<side, sending, recvVars>>

SendWord(t) ==
  /\ sending = Unlocked /\ unsent[t] # << >>
  /\ LET m == Head(unsent[t])
     IN /\ side = "server" => m.text = 0
        /\ wire' = wire \o Bytes(m)
        /\ accepted' = Append(accepted, m)
  /\ unsent' = [unsent EXCEPT ![t] = Tail(@)]
  /\ UNCHANGED <<side, sending, recvVars>>

StartText(t) ==
  /\ side = "server" /\ sending = Unlocked /\ unsent[t] # << >>
  /\ LET m == Head(unsent[t])
     IN /\ m.text > 0
        /\ wire' = wire \o Word(m)
        /\ accepted' = Append(accepted, m)
        /\ sending' = <<m>>
  /\ unsent' = [unsent EXCEPT ![t] = Tail(@)]
  /\ UNCHANGED <<side, recvVars>>

EndText == /\ sending # Unlocked
           /\ wire' = wire \o Text(sending[1])
           /\ sending' = Unlocked
           /\ UNCHANGED <<side, unsent, accepted, recvVars>>

-----------------------------------------------------------------------------
(* The receiver *)

\* recv returns some of the bytes that are there, at most n.
Takes(k, n) == /\ k \in 1 .. n /\ k <= Len(wire)
               /\ wire' = SubSeq(wire, k + 1, Len(wire))

First(k) == SubSeq(wire, 1, k)

\* A mutant: the handler of a text message does not read the text.
NoText(w) == 0

\* A word that announces a text; whatever else arrives is a message by itself.
AnnouncedText(w) ==
  IF \A i \in 1 .. 4 : w[i] = <<w[1][1], i>> THEN w[1][1].text ELSE 0

HandleWord(w) == IF AnnouncedText(w) = 0
                 THEN delivered' = Append(delivered, w) /\ UNCHANGED missing
                 ELSE missing' = AnnouncedText(w) /\ UNCHANGED delivered

\* A mutant: bytes of a word that has not come whole are forgotten.
ServerReadsOnce ==
  \E k \in 1 .. 4 :
    /\ Takes(k, 4)
    /\ IF k = 4 THEN HandleWord(First(k)) ELSE UNCHANGED <<delivered, missing>>
    /\ data' = IF missing' > 0 THEN First(k) ELSE << >>
    /\ UNCHANGED <<sendVars, text, closed>>

\* The server counts the bytes it has got of a word ...
ServerReadsWord ==
  \E k \in 1 .. 4 :
    /\ Takes(k, 4 - Len(data))
    /\ IF Len(data) + k = 4
       THEN /\ HandleWord(data \o First(k))
            /\ data' = IF missing' > 0 THEN data \o First(k) ELSE << >>
       ELSE data' = data \o First(k) /\ UNCHANGED <<delivered, missing>>
    /\ UNCHANGED <<sendVars, text, closed>>

\* ... the emulator looks at the number of bytes of the last call, and asks
\* for none when the word is complete: that is taken for the end of the
\* connection.
EmulatorReadsWord ==
  \/ \E k \in 1 .. 4 :
       /\ Takes(k, 4 - Len(data))
       /\ IF k = 4
          THEN /\ HandleWord(First(k))
               /\ data' = IF missing' > 0 THEN First(k) ELSE << >>
          ELSE data' = data \o First(k) /\ UNCHANGED <<delivered, missing>>
       /\ UNCHANGED <<sendVars, text, closed>>
  \/ /\ Len(data) = 4
     /\ closed' = TRUE
     /\ UNCHANGED <<sendVars, wire, data, text, missing, delivered>>

\* Both read a text until nothing of it is missing.
ReadText == \E k \in 1 .. missing :
              /\ Takes(k, missing)
              /\ missing' = missing - k
              /\ IF k = missing
                 THEN /\ delivered' = Append(delivered, data \o text \o First(k))
                      /\ data' = << >> /\ text' = << >>
                 ELSE /\ text' = text \o First(k)
                      /\ UNCHANGED <<data, delivered>>
              /\ UNCHANGED <<sendVars, closed>>

Receive == /\ ~closed
           /\ \/ missing > 0 /\ ReadText
              \/ missing = 0 /\ side = "server" /\ ServerReadsWord
              \/ missing = 0 /\ side = "emulator" /\ EmulatorReadsWord

-----------------------------------------------------------------------------
Next == \/ \E t \in Threads : SendWord(t) \/ StartText(t)
        \/ EndText \/ Receive

Spec == Init /\ [][Next]_vars

\* Every thread goes on sending, TCP delivers, and the receiver reads.
FairSpec == /\ Spec
            /\ \A t \in Threads : WF_vars(SendWord(t) \/ StartText(t))
            /\ WF_vars(EndText) /\ WF_vars(Receive)

-----------------------------------------------------------------------------
\* What may be sent, and what has been sent as the bytes it is.
Sent == UNION {Range(Outgoing[s][t]) : s \in Sides, t \in Threads}
AsBytes == [i \in 1 .. Len(accepted) |-> Bytes(accepted[i])]

\* However the threads interleave and the bytes are cut into pieces, messages
\* arrive whole, in the order in which they were sent (receive_loop,
\* send_bytes, fs_emu_send_netplay_message).
Stream == INSTANCE MessageStream WITH Messages <- {Bytes(m) : m \in Sent},
                                      accepted <- AsBytes
StreamRefinement == Stream!Spec

\* Everything sent to the server arrives: no piece of a message is left in a
\* buffer.
AllArrive == side = "server" => <>(\A t \in Threads : unsent[t] = << >> /\
                  Len(delivered) = Len(accepted) /\ wire = << >>)
=============================================================================
