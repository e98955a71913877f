--------------------------- MODULE NetplaySession ---------------------------
(***************************************************************************)
(* The life of a game server process (game.py): players connect and join,  *)
(* the last one starts the game, and the process ends when the game is     *)
(* over or was not started in time.  Its threads are the main thread, the  *)
(* accept thread, the game thread and one thread per connection.  What the *)
(* game thread does while the game runs is the subject of NetplayServer;   *)
(* here it sends the first frame and notices the stop.                     *)
(*                                                                         *)
(* Positions of a connection's thread (Client.__thread_function):          *)
(*   none    not accepted yet      tags    about to send the players' tags *)
(*   hello   reading the header    loop    in receive_loop                 *)
(*   greet   joined                closed  ended, socket closed            *)
(***************************************************************************)
EXTENDS Naturals, Sequences, Functions

CONSTANTS NumConns,     \* bound of the model: connections made to the server
          Sizes,        \* the numbers of players that games are made for
          Headers,      \* the headers that connections send
          HasTimeout,   \* the server was given a launch timeout
          CanInterrupt, \* the operator may interrupt the server
          CanLeave      \* a player may leave of its own accord

\* A header asks for no seat, a new one, or seat slot again with the key of
\* the player who had it or another.  Versions are those of the emulator.
HeaderSpace == [kind : {"other"}]
                 \cup [kind : {"new"}, version : Nat \ {0}]
                 \cup [kind : {"again"}, slot : Nat, key : BOOLEAN]

ASSUME SessionAssumption == /\ NumConns \in Nat
                            /\ Sizes \subseteq Nat \ {0}
                            /\ Headers \subseteq HeaderSpace
                            /\ HasTimeout \in BOOLEAN
                            /\ CanInterrupt \in BOOLEAN
                            /\ CanLeave \in BOOLEAN

\* Connections are numbered in the order in which they are accepted.
Conns == 1 .. NumConns

VARIABLES
  numClients, \* num_clients, given when the process is started
  main,     \* the main thread: "wait" for the start, "play", "done"
  accept,   \* the accept thread: "test" of game.stop, "accept", "done"
  game,     \* the game thread: "none", "tags", "run", "stopped"
  thread,   \* the connections' threads
  header,   \* what each connection has sent as its header
  started,  \* Game.started
  stop,     \* Game.stop
  clients,  \* Game.clients
  version,  \* Game.emulator_version, 0 before anybody has a seat
  sent,     \* per connection: what was queued for it, in order
  gone      \* the connections whose peer has closed its end

threadVars == <<main, accept, game, thread>>
gameVars   == <<started, stop, clients, version, numClients>>
vars == <<threadVars, header, gameVars, sent, gone>>

NoHeader == [kind |-> "none"]

Init == /\ main = "wait" /\ accept = "test" /\ game = "none"
        /\ thread = [c \in Conns |-> "none"]
        /\ header = [c \in Conns |-> NoHeader]
        /\ started = FALSE /\ stop = FALSE /\ clients = << >>
        /\ numClients \in Sizes
        /\ version = 0
        /\ sent = [c \in Conns |-> << >>]
        /\ gone = {}

Seated == Range(clients)

\* Messages: the player's number and key, the tags of the first n players,
\* the first frame, an error.
Msg(t, n) == [type |-> t, num |-> n]

SendAll(m) == sent' = [c \in Conns |-> IF c \in Seated THEN Append(sent[c], m)
                                       ELSE sent[c]]

ThreadTo(c, from, to) == /\ thread[c] = from
                         /\ thread' = [thread EXCEPT ![c] = to]
                         /\ UNCHANGED <<main, accept>>

-----------------------------------------------------------------------------
(* The main thread and the accept thread *)

MainWaits == /\ main = "wait"
             /\ \/ started /\ main' = "play" /\ UNCHANGED stop
                \/ HasTimeout /\ main' = "done" /\ stop' = TRUE
             /\ UNCHANGED <<accept, game, thread, header, started, clients,
                            version, numClients, sent, gone>>

MainPlaysOn == /\ main = "play" /\ ~started /\ stop
               /\ main' = "done"
               /\ UNCHANGED <<accept, game, thread, header, gameVars,
                              sent, gone>>
MainPlays == /\ main = "play" /\ stop
             /\ main' = "done"
             /\ UNCHANGED <<accept, game, thread, header, gameVars,
                            sent, gone>>

Interrupt == /\ CanInterrupt /\ main # "done"
             /\ main' = "done" /\ stop' = TRUE
             /\ UNCHANGED <<accept, game, thread, header, started, clients,
                            version, numClients, sent, gone>>

AcceptLoop == /\ accept = "test"
              /\ accept' = IF stop THEN "done" ELSE "accept"
              /\ UNCHANGED <<main, game, thread, header, gameVars,
                             sent, gone>>

\* The key of a seat is known to who was told it.
KeyKnown(slot) ==
  /\ slot < Len(clients)
  /\ LET c == clients[slot + 1]
     IN \/ thread[c] \in {"tags", "loop", "closed"}
        \/ header[c].kind = "again"

\* A connection comes in within the second, or none does.
Accept == /\ accept = "accept" /\ accept' = "test"
          /\ \/ \E c \in Conns, h \in Headers :
                  /\ thread[c] = "none"
                  /\ \A d \in 1 .. c - 1 : thread[d] # "none"
                  /\ h.kind = "again" /\ h.key => KeyKnown(h.slot)
                  /\ thread' = [thread EXCEPT ![c] = "hello"]
                  /\ header' = [header EXCEPT ![c] = h]
             \/ UNCHANGED <<thread, header>>
          /\ UNCHANGED <<main, game, gameVars, sent, gone>>

-----------------------------------------------------------------------------
(* A connection's thread: the header *)

Hello(c, kind) == thread[c] = "hello" /\ header[c].kind = kind

\* The header was only a check of the server ("PING") ...
Ping(c) == /\ Hello(c, "other")
           /\ ThreadTo(c, "hello", "closed")
           /\ UNCHANGED <<game, header, gameVars, sent, gone>>

\* The thread's exception handler stops the game.
Raise(c) == /\ ThreadTo(c, "hello", "closed")
            /\ stop' = TRUE
            /\ UNCHANGED <<game, header, started, version, numClients, sent, gone>>

\* ... or the connection broke off before the end of its header.
BrokenHeader(c) == /\ Hello(c, "other")
                   /\ Raise(c) /\ UNCHANGED clients

Refuse(c) == /\ ThreadTo(c, "hello", "closed")
             /\ sent' = [sent EXCEPT ![c] = Append(@, Msg("error", 0))]
             /\ UNCHANGED <<game, header, gameVars, gone>>

\* A new player is not wanted.
UnwelcomeLate(c) == clients # << >> /\ header[c].version # version
Unwelcome(c) == \/ started
                \/ clients # << >> /\ header[c].version # version

RefuseNew(c) == Hello(c, "new") /\ Unwelcome(c) /\ Refuse(c)

\* A new player is seated; the last one starts the game.
Seat(c) == /\ Hello(c, "new") /\ ~Unwelcome(c)
           /\ ThreadTo(c, "hello", "greet")
           /\ clients' = Append(clients, c)
           /\ version' = header[c].version
           /\ IF Len(clients) + 1 = numClients
              THEN started' = TRUE /\ game' = "tags"
              ELSE UNCHANGED <<started, game>>
           /\ UNCHANGED <<header, stop, numClients, sent, gone>>

RefuseAgain(c) == /\ Hello(c, "again")
                  /\ header[c].slot >= Len(clients) \/ ~header[c].key
                  /\ Refuse(c)

\* The seat is given to the new connection at once.  If packets are to be
\* resumed that raises an exception, where an error was to be returned.
SeatAgain(c) ==
  /\ Hello(c, "again") /\ header[c].slot < Len(clients) /\ header[c].key
  /\ clients' = [clients EXCEPT ![header[c].slot + 1] = c]
  /\ \/ Raise(c)
     \/ /\ ThreadTo(c, "hello", "greet")
        /\ UNCHANGED <<game, header, started, stop, version, numClients, sent,
                       gone>>

\* Its key and its number are queued without game.lock ...
Greet(c) == /\ ThreadTo(c, "greet", "tags")
            /\ sent' = [sent EXCEPT ![c] = Append(@, Msg("players", 0))]
            /\ UNCHANGED <<game, header, gameVars, gone>>

\* ... and the tags of the players seated so far with it.
SendTags(c) == /\ ThreadTo(c, "tags", "loop")
               /\ sent' = [sent EXCEPT ![c] = Append(@, Msg("tags", Len(clients)))]
               /\ UNCHANGED <<game, header, gameVars, gone>>

-----------------------------------------------------------------------------
(* A connection's thread: receive_loop tests game.stop after each message, *)
(* and after each empty read when the peer has gone.                       *)

\* An input event; what is done with it is the subject of NetplayServer.
ReceiveInput(c) ==
  /\ c \notin gone
  /\ ThreadTo(c, "loop", IF stop THEN "closed" ELSE "loop")
  /\ UNCHANGED <<game, header, gameVars, sent, gone>>

\* The read fails where the connection was reset, and an input's broadcast where
\* a player has gone: the exception stops the game.
LoopRaises(c) == /\ \/ c \in gone
                    \/ \E d \in Seated : d \in gone \/ thread[d] = "closed"
                 /\ ThreadTo(c, "loop", "closed")
                 /\ stop' = TRUE
                 /\ UNCHANGED <<game, header, started, clients, version,
                                numClients, sent, gone>>

LoopEnds(c) == /\ c \in gone /\ stop
               /\ ThreadTo(c, "loop", "closed")
               /\ UNCHANGED <<game, header, gameVars, sent, gone>>

Told(c) == \E i \in 1 .. Len(sent[c]) : sent[c][i].type = "error"

\* An emulator that is told of an error closes its end; others may leave.  Of
\* a connection that has no seat nobody notices.
PeerCloses(c) == /\ c \in Seated \/ thread[c] = "loop"
                 /\ c \notin gone
                 /\ CanLeave \/ Told(c) \/ thread[c] = "closed"
                 /\ gone' = gone \cup {c}
                 /\ UNCHANGED <<threadVars, header, gameVars, sent>>

Connection(c) == \/ Ping(c) \/ BrokenHeader(c) \/ RefuseNew(c) \/ Seat(c)
                 \/ RefuseAgain(c) \/ SeatAgain(c) \/ Greet(c) \/ SendTags(c)
                 \/ LoopEnds(c)

-----------------------------------------------------------------------------
(* The game thread *)

GameTagsLate == /\ game = "tags" /\ game' = "run"
                /\ UNCHANGED <<main, accept, thread, header, gameVars,
                               sent, gone>>
GameTags == /\ game = "tags" /\ game' = "run"
            /\ SendAll(Msg("tags", Len(clients)))
            /\ UNCHANGED <<main, accept, thread, header, gameVars, gone>>

SentFrame(c) == \E i \in 1 .. Len(sent[c]) : sent[c][i].type = "frame"

FirstFrame == /\ game = "run" /\ ~stop
              /\ \A c \in Seated : ~SentFrame(c)
              /\ SendAll(Msg("frame", 1))
              /\ UNCHANGED <<threadVars, header, gameVars, gone>>

\* What has been closed by its thread cannot be sent to.
GameStops == /\ game = "run" /\ stop
             /\ game' = "stopped"
             /\ sent' = [c \in Conns |->
                  IF c \in Seated /\ thread[c] # "closed"
                  THEN Append(sent[c], Msg("error", 0)) ELSE sent[c]]
             /\ UNCHANGED <<main, accept, thread, header, gameVars, gone>>

\* A broadcast to a player who has gone, or whose thread has closed the
\* socket, raises an exception.
GameRaises == /\ game = "run"
              /\ \E c \in Seated : c \in gone \/ thread[c] = "closed"
              /\ game' = "stopped" /\ stop' = TRUE
              /\ UNCHANGED <<main, accept, thread, header, started, clients,
                             version, numClients, sent, gone>>

GameThread == GameTags \/ FirstFrame \/ GameStops

-----------------------------------------------------------------------------
Next == \/ MainWaits \/ MainPlays \/ Interrupt \/ AcceptLoop \/ Accept
        \/ GameThread \/ GameRaises
        \/ \E c \in Conns : \/ Connection(c) \/ ReceiveInput(c)
                            \/ LoopRaises(c) \/ PeerCloses(c)

Spec == Init /\ [][Next]_vars

\* The threads run, and an emulator that is told of an error leaves.
Fairness == /\ WF_vars(MainWaits \/ MainPlays)
            /\ WF_vars(AcceptLoop \/ Accept)
            /\ WF_vars(GameThread)
            /\ \A c \in Conns : WF_vars(Connection(c) \/ (Told(c) /\ PeerCloses(c)))

FairSpec == Spec /\ Fairness

-----------------------------------------------------------------------------
\* Nobody is seated in a game that has started, however many connections join
\* at the same time; all who are seated run the same emulator (add_client).
Seating == /\ started <=> Len(clients) = numClients
           /\ Len(clients) <= numClients
           /\ \A c, d \in Seated :
                header[c].kind = "new" /\ header[d].kind = "new" =>
                  header[c].version = header[d].version

\* Before its first frame a player has been told the tags of all the players,
\* although the game starts while the last of them is still being greeted.
\* (A player who takes a seat again may get frames before its greeting.)
TagsBeforeFrame ==
  \A c \in Conns : \A i \in 1 .. Len(sent[c]) :
    header[c].kind = "new" /\ sent[c][i].type = "frame" =>
      \E j \in 1 .. i - 1 : sent[c][j] = Msg("tags", numClients)

\* When a game that has started is stopped, by whom or whatever, every thread
\* ends that does not wait for a player.
StartedGameStops == (stop /\ started) ~> /\ main = "done" /\ accept = "done"
                                         /\ game = "stopped"
=============================================================================
