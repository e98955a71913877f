------------------------ MODULE NetplaySessionProofs ------------------------
(***************************************************************************)
(* Who gets a seat in a game, and what it is told before the first frame,  *)
(* for every number of players and connections and whatever they send,     *)
(* whether or not the server has a timeout, is interrupted or is left.     *)
(***************************************************************************)
EXTENDS NetplaySession, SequenceTheorems, TLAPS

HeaderKinds == HeaderSpace \cup {NoHeader}

Messages == [type : {"players", "tags", "frame", "error"}, num : Nat]
Positions == {"none", "hello", "greet", "tags", "loop", "closed"}

TypeInv ==
  /\ numClients \in Nat \ {0} /\ clients \in Seq(Conns)
  /\ thread \in [Conns -> Positions] /\ header \in [Conns -> HeaderKinds]
  /\ started \in BOOLEAN /\ version \in Nat
  /\ sent \in [Conns -> Seq(Messages)]

\* Who has a seat has been accepted; before that nothing is sent to it.
SeatInv ==
  /\ started <=> Len(clients) = numClients
  /\ Len(clients) <= numClients
  /\ \A c \in Seated :
       /\ thread[c] # "none"
       /\ header[c].kind = "new" => header[c].version = version
  /\ \A c \in Conns : thread[c] = "none" => sent[c] = << >>

AllTags == Msg("tags", numClients)
HasTags(c) == \E j \in 1 .. Len(sent[c]) : sent[c][j] = AllTags

\* A game thread exists only for a full game.  Once it has sent the tags every
\* player seated as a new one has them, and nobody is seated as such any more.
TagInv ==
  /\ game # "none" => started
  /\ game = "run" =>
       \A c \in Seated : header[c].kind = "new" => HasTags(c)

-----------------------------------------------------------------------------
(* The players' list *)

LEMMA SeatedAre == ASSUME TypeInv PROVE Seated \subseteq Conns
BY DEF TypeInv, Seated, Range

LEMMA SeatedNew ==
  ASSUME TypeInv, NEW c \in Conns, clients' = Append(clients, c)
  PROVE  /\ clients' \in Seq(Conns) /\ Len(clients') = Len(clients) + 1
         /\ Seated' = Seated \cup {c}
<1>1. clients \in Seq(Conns)
  BY DEF TypeInv
<1>2. /\ clients' \in Seq(Conns) /\ Len(clients') = Len(clients) + 1
      /\ clients'[Len(clients) + 1] = c
      /\ \A i \in 1 .. Len(clients) : clients'[i] = clients[i]
  BY <1>1, AppendProperties
<1>3. DOMAIN clients = 1 .. Len(clients) /\ DOMAIN clients' = 1 .. Len(clients')
      /\ Len(clients) \in Nat
  BY <1>1, <1>2
<1>4. ASSUME NEW x
      PROVE  x \in Seated' <=> x \in Seated \/ x = c
  <2>1. \A i \in 1 .. Len(clients') : i \in 1 .. Len(clients) \/ i = Len(clients) + 1
    BY <1>2, <1>3
  <2>2. /\ \A i \in 1 .. Len(clients) : i \in 1 .. Len(clients')
        /\ Len(clients) + 1 \in 1 .. Len(clients')
    BY <1>2, <1>3
  <2> QED
    BY <1>2, <1>3, <2>1, <2>2 DEF Seated, Range
<1> QED
  BY <1>2, <1>4

LEMMA SeatedAgain ==
  ASSUME TypeInv, NEW c \in Conns, NEW k \in Nat, k < Len(clients),
         clients' = [clients EXCEPT ![k + 1] = c]
  PROVE  /\ clients' \in Seq(Conns) /\ Len(clients') = Len(clients)
         /\ Seated' \subseteq Seated \cup {c}
<1>1. clients \in Seq(Conns) /\ k + 1 \in 1 .. Len(clients)
  BY DEF TypeInv
<1>2. /\ clients' \in Seq(Conns) /\ Len(clients') = Len(clients)
      /\ \A i \in 1 .. Len(clients) :
           clients'[i] = IF i = k + 1 THEN c ELSE clients[i]
  BY <1>1, ExceptSeq
<1>3. DOMAIN clients = 1 .. Len(clients) /\ DOMAIN clients' = 1 .. Len(clients')
  BY <1>1, <1>2
<1> QED
  BY <1>2, <1>3 DEF Seated, Range
-----------------------------------------------------------------------------
(* What is sent *)

Added(S, m) == sent' = [c \in Conns |-> IF c \in S THEN Append(sent[c], m)
                                                   ELSE sent[c]]

\* A frame is sent only to players who have been told all tags, if they came as
\* new ones.
LEMMA Sending ==
  ASSUME TypeInv, TagsBeforeFrame, UNCHANGED <<header, numClients>>,
         NEW S \in SUBSET Conns, NEW m \in Messages, Added(S, m),
         m.type = "frame" =>
           \A c \in S : header[c].kind = "new" => HasTags(c)
  PROVE  /\ sent' \in [Conns -> Seq(Messages)] /\ TagsBeforeFrame'
         /\ \A c \in Conns : HasTags(c) => HasTags(c)'
         /\ \A c \in S : m = AllTags => HasTags(c)'
         /\ \A c \in Conns \ S : sent'[c] = sent[c]
<1>1. ASSUME NEW c \in S
      PROVE  /\ sent'[c] \in Seq(Messages) /\ Len(sent'[c]) = Len(sent[c]) + 1
             /\ sent'[c][Len(sent[c]) + 1] = m
             /\ \A i \in 1 .. Len(sent[c]) : sent'[c][i] = sent[c][i]
             /\ Len(sent[c]) \in Nat
  <2>1. sent[c] \in Seq(Messages) /\ sent'[c] = Append(sent[c], m)
    BY DEF Added, TypeInv
  <2> QED
    BY <2>1, AppendProperties
<1>2. \A c \in Conns \ S : sent'[c] = sent[c]
  BY DEF Added
<1>3. sent' \in [Conns -> Seq(Messages)]
  <2>1. \A c \in Conns : sent'[c] \in Seq(Messages)
    BY <1>1, <1>2 DEF TypeInv
  <2>2. sent' = [c \in Conns |-> sent'[c]]
    BY DEF Added
  <2> QED
    BY <2>1, <2>2
<1>4. AllTags' = AllTags
  BY DEF AllTags, Msg
<1>5. ASSUME NEW c \in Conns, HasTags(c)
      PROVE  HasTags(c)'
  <2>1. PICK j \in 1 .. Len(sent[c]) : sent[c][j] = AllTags
    BY <1>5 DEF HasTags
  <2>2. j \in 1 .. Len(sent'[c]) /\ sent'[c][j] = AllTags
    BY <1>1, <1>2, <2>1
  <2> QED
    BY <1>4, <2>2 DEF HasTags
<1>6. ASSUME NEW c \in S, m = AllTags
      PROVE  HasTags(c)'
  <2>1. Len(sent[c]) + 1 \in 1 .. Len(sent'[c])
    BY <1>1
  <2> QED
    BY <1>1, <1>4, <1>6, <2>1 DEF HasTags
<1>7. ASSUME NEW c \in Conns, NEW i \in 1 .. Len(sent'[c]),
             header[c].kind = "new", sent'[c][i].type = "frame"
      PROVE  \E j \in 1 .. i - 1 : sent'[c][j] = AllTags
  <2>1. CASE i \in 1 .. Len(sent[c]) /\ sent'[c][i] = sent[c][i]
    <3>1. PICK j \in 1 .. i - 1 : sent[c][j] = AllTags
      BY <1>7, <2>1 DEF TagsBeforeFrame, AllTags
    <3>2. j \in 1 .. Len(sent[c])
      BY <1>1, <2>1, <3>1
    <3> QED
      BY <1>1, <1>2, <3>1, <3>2
  <2>2. CASE c \in S /\ i = Len(sent[c]) + 1
    <3>1. HasTags(c)
      BY <1>1, <1>7, <2>2
    <3>2. PICK j \in 1 .. Len(sent[c]) : sent[c][j] = AllTags
      BY <3>1 DEF HasTags
    <3>3. j \in 1 .. i - 1
      BY <1>1, <2>2, <3>2
    <3> QED
      BY <1>1, <2>2, <3>2, <3>3
  <2> QED
    BY <1>1, <1>2, <2>1, <2>2
<1>8. TagsBeforeFrame'
  BY <1>4, <1>7 DEF TagsBeforeFrame, AllTags
<1> QED
  BY <1>2, <1>3, <1>5, <1>6, <1>8

LEMMA MessageTypes ==
  ASSUME NEW n \in Nat
  PROVE  /\ Msg("players", n) \in Messages /\ Msg("tags", n) \in Messages
         /\ Msg("frame", n) \in Messages /\ Msg("error", n) \in Messages
         /\ Msg("players", n).type # "frame" /\ Msg("tags", n).type # "frame"
         /\ Msg("error", n).type # "frame"
BY DEF Msg, Messages

-----------------------------------------------------------------------------
(* The invariant *)

SessionInv == TypeInv /\ SeatInv /\ TagInv /\ TagsBeforeFrame

LEMMA SessionStart == ASSUME Init PROVE SessionInv
<1>1. << >> \in Seq(Conns) /\ << >> \in Seq(Messages) /\ Len(<< >>) = 0
  OBVIOUS
<1>2. TypeInv
  BY <1>1, SessionAssumption DEF Init, TypeInv, HeaderKinds, Positions
<1>3. Seated = {}
  BY DEF Init, Seated, Range
<1>4. SeatInv /\ TagInv
  BY <1>1, <1>3, SessionAssumption DEF Init, SeatInv, TagInv
<1>5. TagsBeforeFrame
  BY <1>1 DEF Init, TagsBeforeFrame
<1> QED
  BY <1>2, <1>4, <1>5 DEF SessionInv

\* Steps of threads that neither seat nor tell anybody anything: the game does
\* not begin by them, and nobody who was accepted is not.
LEMMA Quiet ==
  ASSUME SessionInv,
         UNCHANGED <<clients, header, sent, started, version, numClients>>,
         game' = game \/ (game' = "stopped" /\ game # "none"),
         thread' \in [Conns -> Positions],
         \A c \in Conns : thread'[c] = "none" <=> thread[c] = "none"
  PROVE  SessionInv'
<1>1. TypeInv'
  BY DEF SessionInv, TypeInv
<1>2. Seated' = Seated /\ Seated \subseteq Conns
  BY SeatedAre DEF Seated, SessionInv
<1>3. SeatInv'
  BY <1>2 DEF SessionInv, SeatInv
<1>4. TagInv'
  BY <1>2 DEF SessionInv, TagInv, HasTags, AllTags
<1>5. TagsBeforeFrame'
  BY DEF SessionInv, TagsBeforeFrame
<1> QED
  BY <1>1, <1>3, <1>4, <1>5 DEF SessionInv

\* A thread that tells its own connection something.
LEMMA Told1 ==
  ASSUME SessionInv, NEW c \in Conns, NEW m \in Messages, m.type # "frame",
         NEW from, NEW to \in Positions, to # "none", from # "none",
         ThreadTo(c, from, to), sent' = [sent EXCEPT ![c] = Append(@, m)],
         UNCHANGED <<clients, header, started, version, numClients, game>>
  PROVE  SessionInv'
<1>1. /\ thread \in [Conns -> Positions] /\ sent \in [Conns -> Seq(Messages)]
      /\ thread[c] # "none" /\ thread' = [thread EXCEPT ![c] = to]
  BY DEF SessionInv, TypeInv, ThreadTo
<1>2. Added({c}, m)
  BY <1>1 DEF Added
<1>3. /\ sent' \in [Conns -> Seq(Messages)] /\ TagsBeforeFrame'
      /\ \A d \in Conns : HasTags(d) => HasTags(d)'
      /\ \A d \in Conns \ {c} : sent'[d] = sent[d]
  BY <1>2, Sending DEF SessionInv
<1>4. TypeInv'
  BY <1>1, <1>3 DEF SessionInv, TypeInv
<1>5. Seated' = Seated /\ Seated \subseteq Conns
  BY SeatedAre DEF Seated, SessionInv
<1>6. SeatInv'
  BY <1>1, <1>3, <1>5 DEF SessionInv, SeatInv
<1>7. TagInv'
  BY <1>3, <1>5 DEF SessionInv, TagInv
<1> QED
  BY <1>3, <1>4, <1>6, <1>7 DEF SessionInv

\* The game thread tells some of the players something.
LEMMA ToldAll ==
  ASSUME SessionInv, NEW S \in SUBSET Seated, NEW m \in Messages, Added(S, m),
         m.type = "frame" => game = "run",
         UNCHANGED <<clients, header, started, version, numClients, thread>>,
         \/ game # "none" /\ game' = "stopped"
         \/ game' = game
         \/ game = "tags" /\ game' = "run" /\ S = Seated /\ m = AllTags
  PROVE  SessionInv'
<1>1. Seated' = Seated /\ Seated \subseteq Conns
  BY SeatedAre DEF Seated, SessionInv
<1>2. /\ sent' \in [Conns -> Seq(Messages)] /\ TagsBeforeFrame'
      /\ \A c \in Conns : HasTags(c) => HasTags(c)'
      /\ \A c \in S : m = AllTags => HasTags(c)'
      /\ \A c \in Conns \ S : sent'[c] = sent[c]
  <2>1. m.type = "frame" =>
          \A c \in S : header[c].kind = "new" => HasTags(c)
    BY DEF SessionInv, TagInv
  <2>2. S \in SUBSET Conns
    BY <1>1
  <2> QED
    BY <2>1, <2>2, Sending DEF SessionInv
<1>3. TypeInv'
  BY <1>2 DEF SessionInv, TypeInv
<1>4. SeatInv'
  BY <1>1, <1>2 DEF SessionInv, SeatInv
<1>5. TagInv'
  BY <1>1, <1>2 DEF SessionInv, TagInv
<1> QED
  BY <1>2, <1>3, <1>4, <1>5 DEF SessionInv

LEMMA AcceptKeeps ==
  ASSUME SessionInv, Accept PROVE SessionInv'
<1>1. /\ thread \in [Conns -> Positions] /\ header \in [Conns -> HeaderKinds]
      /\ UNCHANGED <<clients, sent, started, version, numClients, game>>
  BY DEF Accept, SessionInv, TypeInv, gameVars
<1>2. CASE UNCHANGED <<thread, header>>
  BY <1>1, <1>2, Quiet
<1>3. CASE \E c \in Conns, h \in Headers :
             /\ thread[c] = "none"
             /\ thread' = [thread EXCEPT ![c] = "hello"]
             /\ header' = [header EXCEPT ![c] = h]
  <2>1. PICK c \in Conns, h \in Headers :
             /\ thread[c] = "none"
             /\ thread' = [thread EXCEPT ![c] = "hello"]
             /\ header' = [header EXCEPT ![c] = h]
    BY <1>3
  <2>2. Seated' = Seated /\ Seated \subseteq Conns /\ c \notin Seated
        /\ sent[c] = << >>
    BY <1>1, <2>1, SeatedAre DEF Seated, SessionInv, SeatInv
  <2>3. h \in HeaderKinds /\ "hello" \in Positions
    BY SessionAssumption DEF HeaderKinds, Positions
  <2>4. TypeInv'
    BY <1>1, <2>1, <2>3 DEF SessionInv, TypeInv
  <2>5. SeatInv'
    BY <1>1, <2>1, <2>2 DEF SessionInv, SeatInv
  <2>6. TagInv'
    BY <1>1, <2>1, <2>2 DEF SessionInv, TagInv, HasTags, AllTags
  <2>7. TagsBeforeFrame'
    <3>1. ASSUME NEW d \in Conns, NEW i \in 1 .. Len(sent[d]),
                 header'[d].kind = "new", sent[d][i].type = "frame"
          PROVE  \E j \in 1 .. i - 1 : sent[d][j] = Msg("tags", numClients)
      <4>1. d # c
        BY <2>2, <3>1
      <4>2. header'[d] = header[d]
        BY <1>1, <2>1, <4>1
      <4> QED
        BY <3>1, <4>2 DEF SessionInv, TagsBeforeFrame
    <3> QED
      BY <1>1, <3>1 DEF TagsBeforeFrame
  <2> QED
    BY <2>4, <2>5, <2>6, <2>7 DEF SessionInv
<1> QED
  BY <1>2, <1>3 DEF Accept

\* A new player is seated only while no game thread exists.
LEMMA SeatKeeps ==
  ASSUME SessionInv, NEW c \in Conns, Seat(c) PROVE SessionInv'
<1>1. /\ thread \in [Conns -> Positions] /\ header \in [Conns -> HeaderKinds]
      /\ thread[c] = "hello" /\ header[c].kind = "new"
      /\ thread' = [thread EXCEPT ![c] = "greet"]
      /\ ~started /\ (clients # << >> => header[c].version = version)
      /\ clients' = Append(clients, c) /\ version' = header[c].version
      /\ UNCHANGED <<header, numClients, sent>>
  BY DEF SessionInv, TypeInv, Seat, Hello, Unwelcome, ThreadTo
<1>2. /\ clients' \in Seq(Conns) /\ Len(clients') = Len(clients) + 1
      /\ Seated' = Seated \cup {c} /\ Seated \subseteq Conns
  BY <1>1, SeatedNew, SeatedAre DEF SessionInv
<1>3. Len(clients) \in Nat /\ numClients \in Nat
      /\ Len(clients) < numClients /\ game = "none"
  BY <1>1 DEF SessionInv, TypeInv, SeatInv, TagInv
<1>4. IF Len(clients) + 1 = numClients
      THEN started' = TRUE /\ game' = "tags"
      ELSE started' = started /\ game' = game
  BY DEF Seat
<1>5. header[c].version \in Nat
  BY <1>1 DEF HeaderKinds, HeaderSpace, NoHeader
<1>6. TypeInv'
  BY <1>1, <1>2, <1>4, <1>5 DEF SessionInv, TypeInv, Positions
<1>7. SeatInv'
  <2>1. (started' <=> Len(clients') = numClients') /\ Len(clients') <= numClients'
    BY <1>1, <1>2, <1>3, <1>4
  <2>2. ASSUME NEW d \in Seated'
        PROVE  /\ thread'[d] # "none"
               /\ header'[d].kind = "new" => header'[d].version = version'
    <3>1. CASE d = c
      BY <1>1, <3>1
    <3>2. CASE d # c
      <4>1. d \in Seated /\ clients # << >>
        BY <1>2, <2>2, <3>2, SMTT(20) DEF Seated, Range
      <4> QED
        BY <1>1, <1>2, <3>2, <4>1 DEF SessionInv, SeatInv
    <3> QED
      BY <3>1, <3>2
  <2>3. \A d \in Conns : thread'[d] = "none" => sent'[d] = << >>
    BY <1>1 DEF SessionInv, SeatInv
  <2> QED
    BY <2>1, <2>2, <2>3 DEF SeatInv
<1>8. TagInv'
  BY <1>3, <1>4 DEF TagInv
<1>9. TagsBeforeFrame'
  BY <1>1 DEF SessionInv, TagsBeforeFrame
<1> QED
  BY <1>6, <1>7, <1>8, <1>9 DEF SessionInv

\* Whoever takes a seat again is not a new player.
LEMMA SeatAgainKeeps ==
  ASSUME SessionInv, NEW c \in Conns, SeatAgain(c) PROVE SessionInv'
<1>1. /\ thread \in [Conns -> Positions] /\ header \in [Conns -> HeaderKinds]
      /\ thread[c] = "hello" /\ header[c].kind = "again"
      /\ header[c].slot < Len(clients)
      /\ clients' = [clients EXCEPT ![header[c].slot + 1] = c]
  BY DEF SessionInv, TypeInv, SeatAgain, Hello
<1>2. UNCHANGED <<header, numClients, sent, started, version, game>>
  BY DEF SeatAgain, Raise
<1>3. PICK to \in {"closed", "greet"} : thread' = [thread EXCEPT ![c] = to]
  BY DEF SeatAgain, Raise, ThreadTo
<1>4. header[c].slot \in Nat
  BY <1>1 DEF HeaderKinds, HeaderSpace, NoHeader
<1>5. /\ clients' \in Seq(Conns) /\ Len(clients') = Len(clients)
      /\ Seated' \subseteq Seated \cup {c} /\ Seated \subseteq Conns
  BY <1>1, <1>4, SeatedAgain, SeatedAre DEF SessionInv
<1>6. TypeInv'
  BY <1>1, <1>2, <1>3, <1>5 DEF SessionInv, TypeInv, Positions
<1>7. SeatInv'
  BY <1>1, <1>2, <1>3, <1>5 DEF SessionInv, SeatInv
<1>8. TagInv'
  BY <1>1, <1>2, <1>5 DEF SessionInv, TagInv, HasTags, AllTags
<1>9. TagsBeforeFrame'
  BY <1>2 DEF SessionInv, TagsBeforeFrame
<1> QED
  BY <1>6, <1>7, <1>8, <1>9 DEF SessionInv

LEMMA SessionKept == ASSUME SessionInv, [Next]_vars PROVE SessionInv'
<1> USE DEF threadVars, gameVars
<1>1. /\ thread \in [Conns -> Positions] /\ Len(clients) \in Nat
      /\ sent \in [Conns -> Seq(Messages)]
  BY DEF SessionInv, TypeInv
<1>2. ASSUME NEW c \in Conns, NEW from, NEW to \in {"closed", "loop"},
             from # "none", ThreadTo(c, from, to)
      PROVE  /\ thread' \in [Conns -> Positions]
             /\ \A d \in Conns : thread'[d] = "none" <=> thread[d] = "none"
  BY <1>1, <1>2 DEF ThreadTo, Positions
<1>3. CASE \/ MainWaits \/ MainPlays \/ Interrupt \/ AcceptLoop \/ GameRaises
           \/ \E c \in Conns : PeerCloses(c)
           \/ UNCHANGED vars
  <2>1. /\ UNCHANGED <<clients, header, sent, started, version, numClients,
                       thread>>
        /\ game' = game \/ (game' = "stopped" /\ game # "none")
    BY <1>3 DEF MainWaits, MainPlays, Interrupt, AcceptLoop, GameRaises,
       PeerCloses, vars
  <2> QED
    BY <1>1, <2>1, Quiet
<1>4. ASSUME NEW c \in Conns,
             \/ Ping(c) \/ BrokenHeader(c) \/ LoopEnds(c) \/ ReceiveInput(c)
             \/ LoopRaises(c)
      PROVE  SessionInv'
  <2>1. PICK from \in {"hello", "loop"}, to \in {"closed", "loop"} :
          ThreadTo(c, from, to)
    BY <1>4 DEF Ping, BrokenHeader, Raise, LoopEnds, ReceiveInput, LoopRaises
  <2>2. UNCHANGED <<clients, header, sent, started, version, numClients, game>>
    BY <1>4 DEF Ping, BrokenHeader, Raise, LoopEnds, ReceiveInput, LoopRaises
  <2>3. from # "none"
    OBVIOUS
  <2>4. /\ thread' \in [Conns -> Positions]
        /\ \A d \in Conns : thread'[d] = "none" <=> thread[d] = "none"
    BY <1>2, <2>1, <2>3
  <2> QED
    BY <2>2, <2>4, Quiet
<1>5. ASSUME NEW c \in Conns,
             RefuseNew(c) \/ RefuseAgain(c) \/ Greet(c) \/ SendTags(c)
      PROVE  SessionInv'
  <2>1. PICK from \in {"hello", "greet", "tags"}, to \in Positions \ {"none"},
             m \in Messages :
          /\ ThreadTo(c, from, to) /\ m.type # "frame"
          /\ sent' = [sent EXCEPT ![c] = Append(@, m)]
    <3>1. CASE RefuseNew(c) \/ RefuseAgain(c)
      BY <3>1, MessageTypes DEF RefuseNew, RefuseAgain, Refuse, Positions
    <3>2. CASE Greet(c)
      BY <3>2, MessageTypes DEF Greet, Positions
    <3>3. CASE SendTags(c)
      BY <1>1, <3>3, MessageTypes DEF SendTags, Positions
    <3> QED
      BY <1>5, <3>1, <3>2, <3>3
  <2>2. UNCHANGED <<clients, header, started, version, numClients, game>>
    BY <1>5 DEF RefuseNew, RefuseAgain, Refuse, Greet, SendTags
  <2>3. from # "none" /\ to # "none" /\ to \in Positions
    OBVIOUS
  <2> QED
    BY <2>1, <2>2, <2>3, Told1
<1>6. CASE GameTags
  <2>1. started /\ Len(clients) = numClients
    BY <1>6 DEF GameTags, SessionInv, TagInv, SeatInv
  <2>2. PICK m \in Messages : m = AllTags /\ m.type # "frame"
    BY <1>1, <2>1, MessageTypes DEF AllTags
  <2>3. PICK S \in SUBSET Seated : S = Seated
    OBVIOUS
  <2>4. /\ Added(S, m) /\ game = "tags" /\ game' = "run"
        /\ UNCHANGED <<clients, header, started, version, numClients, thread>>
    BY <1>6, <2>1, <2>2, <2>3 DEF GameTags, SendAll, Added, AllTags
  <2> QED
    BY <2>2, <2>3, <2>4, ToldAll
<1>7. CASE FirstFrame
  <2>1. PICK m \in Messages : m = Msg("frame", 1)
    BY MessageTypes
  <2>2. PICK S \in SUBSET Seated : S = Seated
    OBVIOUS
  <2>3. /\ Added(S, m) /\ game = "run" /\ game' = game
        /\ UNCHANGED <<clients, header, started, version, numClients, thread>>
    BY <1>7, <2>1, <2>2 DEF FirstFrame, SendAll, Added
  <2> QED
    BY <2>3, ToldAll
<1>8. CASE GameStops
  <2>1. PICK m \in Messages : m = Msg("error", 0) /\ m.type # "frame"
    BY MessageTypes
  <2>2. PICK S \in SUBSET Seated : S = {c \in Seated : thread[c] # "closed"}
    OBVIOUS
  <2>3. /\ Added(S, m) /\ game # "none" /\ game' = "stopped"
        /\ UNCHANGED <<clients, header, started, version, numClients, thread>>
    BY <1>8, <2>1, <2>2 DEF GameStops, Added
  <2> QED
    BY <2>1, <2>3, ToldAll
<1> QED
  BY <1>3, <1>4, <1>5, <1>6, <1>7, <1>8, AcceptKeeps, SeatKeeps, SeatAgainKeeps
  DEF Next, GameThread, Connection

LEMMA SessionInvariant == Spec => []SessionInv
<1>1. Init => SessionInv
  BY SessionStart
<1>2. SessionInv /\ [Next]_vars => SessionInv'
  BY SessionKept
<1> QED
  BY <1>1, <1>2, PTL DEF Spec

\* The game has started exactly when all its seats are taken, there is no seat
\* beyond the last, and the players who came as new ones all run one version of the
\* emulator (add_client under game.lock), however many connect at once.
THEOREM SeatsAreRight == Spec => []Seating
<1>1. SessionInv => Seating
  BY DEF SessionInv, SeatInv, Seating
<1> QED
  BY <1>1, SessionInvariant, PTL

\* A new player hears the tags of all players before its first frame, although
\* the game thread starts while the last of them is still being greeted.
THEOREM TagsComeFirst == Spec => []TagsBeforeFrame
<1>1. SessionInv => TagsBeforeFrame
  BY DEF SessionInv
<1> QED
  BY <1>1, SessionInvariant, PTL
=============================================================================
