------------------------ MODULE NetplayConnectProofs ------------------------
(***************************************************************************)
(* Getting into a netplay game and out of it, whatever the user may abort  *)
(* and whether or not the connection may be lost: the dialog is gone when  *)
(* the emulator plays, and what is read of the two flags without a lock is *)
(* what it may be.                                                         *)
(***************************************************************************)
EXTENDS NetplayConnect, TLAPS

\* Inside fs_emu_netplay_on_disconnect, and there with the mutex.
Leaving == {"sendwarn", "test", "dismiss", "lock", "warn", "clear", "cleared",
            "warned"}
Holding == {"warn", "clear", "cleared", "warned"}

Positions == {"none", "idle", "create", "connect", "retry", "close", "decide",
              "show", "receive", "recv", "ended", "entry", "enter", "wait",
              "woken", "look", "unlook", "first", "dismiss1", "playing",
              "offline", "send"} \cup Leaving

\* The netplay thread has not yet decided whether the game is played online.
Undecided == {"create", "connect", "retry", "close", "decide"}

\* The emulation thread has been through its wait for the first frame; if it
\* disconnects, it does so without the GUI lock.
Plays == \/ pc["emu"] = "playing"
         \/ pc["emu"] \in Leaving /\ gui # "emu"

PlacesInv == /\ pc \in [Threads -> Positions]
             /\ pc["net"] \in Undecided \cup {"show", "receive", "ended"}
             /\ connected \in BOOLEAN /\ enabled \in BOOLEAN

\* The mutex is its holder's.
HolderInv == \A t \in Threads : pc[t] \in Holding <=> mutex = t

\* Netplay is enabled as long as it is connected, but for the time between the
\* two writes of the thread that goes offline with the mutex.
OnlineInv ==
  /\ pc["net"] \in Undecided => enabled /\ ~connected
  /\ pc["net"] \notin Undecided => connected \/ ~enabled
  /\ connected /\ ~enabled => \E t \in Threads : pc[t] = "cleared"
  /\ \A t \in Threads : /\ pc[t] = "clear" => connected /\ enabled
                        /\ pc[t] = "cleared" => connected /\ ~enabled
                        /\ pc[t] = "warned" => ~connected /\ ~enabled
  /\ pc["recv"] = "ended" => ~connected

\* The receive thread starts when the netplay thread, which shows the dialog,
\* has ended; without it no frame is received, and nobody plays.
DialogInv ==
  /\ pc["net"] # "ended" => pc["recv"] = "none" /\ ~started
  /\ gui = "emu" => pc["emu"] \in Leaving \cup {"unlook"}
  /\ Plays \/ pc["emu"] \in {"first", "dismiss1"} => started
  /\ Plays => ~waiting

ConnectInv == PlacesInv /\ HolderInv /\ OnlineInv /\ DialogInv

LEMMA ConnectInit == Init => ConnectInv
<1> SUFFICES ASSUME Init PROVE ConnectInv
  OBVIOUS
<1> USE DEF Init
<1>1. PlacesInv
  <2>1. pc \in [net : Positions, emu : Positions,
                recv : Positions, ui : Positions]
    BY DEF Positions
  <2>2. pc \in [Threads -> Positions]
    BY <2>1 DEF Threads
  <2> QED
    BY <2>2 DEF PlacesInv, Undecided
<1>2. HolderInv
  BY DEF HolderInv, Threads, Holding
<1>3. OnlineInv
  BY DEF OnlineInv, Threads, Undecided
<1>4. DialogInv
  BY DEF DialogInv, Plays, Leaving
<1> QED
  BY <1>1, <1>2, <1>3, <1>4 DEF ConnectInv

LEMMA Names == /\ "net" \in Threads /\ "emu" \in Threads
               /\ "recv" \in Threads /\ "ui" \in Threads
               /\ \A t \in Threads : t \in {"net", "emu", "recv", "ui"}
               /\ "free" \notin Threads
BY DEF Threads

\* Only thread t moves.
Moved(t, from, to) == /\ pc[t] = from /\ pc' \in [Threads -> Positions]
                      /\ pc'[t] = to
                      /\ \A u \in Threads : u # t => pc'[u] = pc[u]

LEMMA Moves ==
  ASSUME ConnectInv, NEW t \in Threads, NEW from, NEW to \in Positions,
         Step(t, from, to)
  PROVE  Moved(t, from, to)
BY DEF ConnectInv, PlacesInv, Step, Moved

\* The steps of a thread that disconnects, and then goes on at back.
LEMMA DisconnectStep ==
  ASSUME ConnectInv, NEW t \in {"emu", "recv", "ui"}, NEW back \in Positions,
         t = "emu" => back = IF gui = "emu" THEN "unlook" ELSE "playing",
         t = "recv" => back \in {"ended", "recv"},
         t = "ui" => back = "idle",
         OnDisconnect(t, back)
  PROVE  ConnectInv'
<1> USE DEF netVars, dialogVars, recvVars, Moved
<1>n. /\ t \in Threads /\ t # "net"
      /\ "net" \in Threads /\ "emu" \in Threads /\ "recv" \in Threads
  BY Names
<1>b. back \notin Leaving
  BY DEF Leaving
<1>0. PlacesInv /\ HolderInv /\ OnlineInv /\ DialogInv
  BY DEF ConnectInv
<1>1. CASE TestDialog(t, "test", "dismiss", "lock")
  <2>1. Moved(t, "test", IF waiting THEN "dismiss" ELSE "lock")
    <3>1. /\ Step(t, "test", IF waiting THEN "dismiss" ELSE "lock")
          /\ (IF waiting THEN "dismiss" ELSE "lock") \in Positions
      BY <1>1 DEF TestDialog, Positions, Leaving
    <3> QED
      BY <1>n, <3>1, Moves
  <2>2. PlacesInv'
    BY <1>1, <1>n, <1>0, <2>1 DEF TestDialog, PlacesInv
  <2>3. HolderInv'
    BY <1>1, <1>n, <1>b, <1>0, <2>1, Names
       DEF TestDialog, HolderInv, Holding, Leaving
  <2>4. OnlineInv'
    BY <1>1, <1>n, <1>0, <2>1, Names
       DEF TestDialog, OnlineInv, HolderInv, Holding, Undecided, PlacesInv
  <2>5. DialogInv'
    BY <1>1, <1>n, <1>0, <2>1, Names DEF TestDialog, DialogInv, Plays, Leaving
  <2> QED
    BY <2>2, <2>3, <2>4, <2>5 DEF ConnectInv
<1>2. CASE DestroyDialog(t, "dismiss", "lock")
  <2>1. Moved(t, "dismiss", "lock")
    <3>1. Step(t, "dismiss", "lock") /\ ("lock") \in Positions
      BY <1>2 DEF DestroyDialog, Positions, Leaving
    <3> QED
      BY <1>n, <3>1, Moves
  <2>2. PlacesInv'
    BY <1>2, <1>n, <1>0, <2>1 DEF DestroyDialog, PlacesInv
  <2>3. HolderInv'
    BY <1>2, <1>n, <1>b, <1>0, <2>1, Names
       DEF DestroyDialog, HolderInv, Holding, Leaving
  <2>4. OnlineInv'
    BY <1>2, <1>n, <1>0, <2>1, Names
       DEF DestroyDialog, OnlineInv, HolderInv, Holding, Undecided, PlacesInv
  <2>5. DialogInv'
    BY <1>2, <1>n, <1>0, <2>1, Names
       DEF DestroyDialog, DialogInv, Plays, Leaving
  <2> QED
    BY <2>2, <2>3, <2>4, <2>5 DEF ConnectInv
<1>3. CASE LockConnection(t)
  <2>1. Moved(t, "lock", "warn")
    <3>1. Step(t, "lock", "warn") /\ ("warn") \in Positions
      BY <1>3 DEF LockConnection, Positions, Leaving
    <3> QED
      BY <1>n, <3>1, Moves
  <2>2. PlacesInv'
    BY <1>3, <1>n, <1>0, <2>1 DEF LockConnection, PlacesInv
  <2>3. HolderInv'
    BY <1>3, <1>n, <1>b, <1>0, <2>1, Names
       DEF LockConnection, HolderInv, Holding, Leaving
  <2>4. OnlineInv'
    BY <1>3, <1>n, <1>0, <2>1, Names
       DEF LockConnection, OnlineInv, HolderInv, Holding, Undecided, PlacesInv
  <2>5. DialogInv'
    BY <1>3, <1>n, <1>0, <2>1, Names
       DEF LockConnection, DialogInv, Plays, Leaving
  <2> QED
    BY <2>2, <2>3, <2>4, <2>5 DEF ConnectInv
<1>4. CASE NotConnected(t, back)
  <2>1. Moved(t, "warn", back)
    <3>1. Step(t, "warn", back) /\ (back) \in Positions
      BY <1>4 DEF NotConnected, Positions, Leaving
    <3> QED
      BY <1>n, <3>1, Moves
  <2>2. PlacesInv'
    BY <1>4, <1>n, <1>0, <2>1 DEF NotConnected, PlacesInv
  <2>3. HolderInv'
    BY <1>4, <1>n, <1>b, <1>0, <2>1, Names
       DEF NotConnected, HolderInv, Holding, Leaving
  <2>4. OnlineInv'
    BY <1>4, <1>n, <1>0, <2>1, Names
       DEF NotConnected, OnlineInv, HolderInv, Holding, Undecided, PlacesInv
  <2>5. DialogInv'
    BY <1>4, <1>n, <1>0, <2>1, Names
       DEF NotConnected, DialogInv, Plays, Leaving
  <2> QED
    BY <2>2, <2>3, <2>4, <2>5 DEF ConnectInv
<1>5. CASE WarnDisconnected(t)
  <2>1. Moved(t, "warn", "clear")
    <3>1. Step(t, "warn", "clear") /\ ("clear") \in Positions
      BY <1>5 DEF WarnDisconnected, Warning, Positions, Leaving
    <3> QED
      BY <1>n, <3>1, Moves
  <2>2. PlacesInv'
    BY <1>5, <1>n, <1>0, <2>1 DEF WarnDisconnected, PlacesInv
  <2>3. HolderInv'
    BY <1>5, <1>n, <1>b, <1>0, <2>1, Names
       DEF WarnDisconnected, HolderInv, Holding, Leaving
  <2>4. OnlineInv'
    BY <1>5, <1>n, <1>0, <2>1, Names
       DEF WarnDisconnected, OnlineInv, HolderInv, Holding, Undecided,
       PlacesInv
  <2>5. DialogInv'
    BY <1>5, <1>n, <1>0, <2>1, Names
       DEF WarnDisconnected, DialogInv, Plays, Leaving
  <2> QED
    BY <2>2, <2>3, <2>4, <2>5 DEF ConnectInv
<1>6. CASE GoOffline(t)
  <2>1. PICK to \in {"cleared", "warned"} :
          /\ Step(t, IF to = "cleared" THEN "clear" ELSE "cleared", to)
          /\ to = "cleared" => enabled' = FALSE /\ connected' = connected
          /\ to = "warned" => connected' = FALSE /\ enabled' = enabled
    BY <1>6 DEF GoOffline
  <2>2. to \in Positions
    BY DEF Positions, Leaving
  <2>3. Moved(t, IF to = "cleared" THEN "clear" ELSE "cleared", to)
    BY <1>n, <2>1, <2>2, Moves
  <2>4. UNCHANGED <<gui, mutex, waiting, started>>
    BY <1>6 DEF GoOffline
  <2>5. PlacesInv'
    BY <1>n, <1>0, <2>1, <2>3, Names DEF PlacesInv
  <2>6. HolderInv'
    BY <1>n, <1>0, <2>3, <2>4, Names DEF HolderInv, Holding
  <2>7. OnlineInv'
    <3>1. mutex = t /\ \A u \in Threads : u # t => pc'[u] = pc[u]
                                               /\ pc'[u] \notin Holding
      BY <1>n, <1>0, <2>3 DEF HolderInv, Holding
    <3>2. CASE to = "cleared"
      BY <1>n, <1>0, <2>1, <2>3, <3>1, <3>2, Names
         DEF OnlineInv, Holding, Undecided
    <3>3. CASE to = "warned"
      BY <1>n, <1>0, <2>1, <2>3, <3>1, <3>3, Names
         DEF OnlineInv, Holding, Undecided
    <3> QED
      BY <3>2, <3>3
  <2>8. DialogInv'
    BY <1>n, <1>0, <2>3, <2>4, Names DEF DialogInv, Plays, Leaving
  <2> QED
    BY <2>5, <2>6, <2>7, <2>8 DEF ConnectInv
<1>7. CASE WarnOffline(t, back)
  <2>1. Moved(t, "warned", back)
    <3>1. Step(t, "warned", back) /\ (back) \in Positions
      BY <1>7 DEF WarnOffline, Warning, Positions, Leaving
    <3> QED
      BY <1>n, <3>1, Moves
  <2>2. PlacesInv'
    BY <1>7, <1>n, <1>0, <2>1 DEF WarnOffline, PlacesInv
  <2>3. HolderInv'
    BY <1>7, <1>n, <1>b, <1>0, <2>1, Names
       DEF WarnOffline, HolderInv, Holding, Leaving
  <2>4. OnlineInv'
    BY <1>7, <1>n, <1>0, <2>1, Names
       DEF WarnOffline, OnlineInv, HolderInv, Holding, Undecided, PlacesInv
  <2>5. DialogInv'
    BY <1>7, <1>n, <1>0, <2>1, Names DEF WarnOffline, DialogInv, Plays, Leaving
  <2> QED
    BY <2>2, <2>3, <2>4, <2>5 DEF ConnectInv
<1>8. CASE WarnFailure(t)
  <2>1. Moved(t, "sendwarn", "test")
    <3>1. Step(t, "sendwarn", "test") /\ "test" \in Positions
      BY <1>8 DEF WarnFailure, Warning, Positions, Leaving
    <3> QED
      BY <1>n, <3>1, Moves
  <2>2. PlacesInv'
    BY <1>8, <1>n, <1>0, <2>1 DEF WarnFailure, PlacesInv
  <2>3. HolderInv'
    BY <1>8, <1>n, <1>b, <1>0, <2>1, Names
       DEF WarnFailure, HolderInv, Holding, Leaving
  <2>4. OnlineInv'
    BY <1>8, <1>n, <1>0, <2>1, Names
       DEF WarnFailure, OnlineInv, HolderInv, Holding, Undecided, PlacesInv
  <2>5. DialogInv'
    BY <1>8, <1>n, <1>0, <2>1, Names
       DEF WarnFailure, DialogInv, Plays, Leaving
  <2> QED
    BY <2>2, <2>3, <2>4, <2>5 DEF ConnectInv
<1> QED
  BY <1>1, <1>2, <1>3, <1>4, <1>5, <1>6, <1>7, <1>8 DEF OnDisconnect

LEMMA ConnectStep == ConnectInv /\ [Next]_vars => ConnectInv'
<1> SUFFICES ASSUME ConnectInv, [Next]_vars PROVE ConnectInv'
  OBVIOUS
<1> USE DEF netVars, dialogVars, recvVars, Moved
<1>n. /\ "net" \in Threads /\ "emu" \in Threads
      /\ "recv" \in Threads /\ "ui" \in Threads
  BY Names
<1>0. PlacesInv /\ HolderInv /\ OnlineInv /\ DialogInv
  BY DEF ConnectInv
<1>1. CASE CreateDialog
  <2>1. Step("net", "create", "connect")
    BY <1>1 DEF CreateDialog
  <2>2. "connect" \in Positions
    BY DEF Positions, Leaving
  <2>3. Moved("net", "create", "connect")
    BY <1>n, <2>1, <2>2, Moves
  <2>4. PlacesInv'
    BY <1>1, <1>n, <1>0, <2>3 DEF CreateDialog, PlacesInv, Undecided
  <2>5. HolderInv'
    BY <1>1, <1>0, <2>3, Names DEF CreateDialog, HolderInv, Holding
  <2>6. OnlineInv'
    BY <1>1, <1>n, <1>0, <2>3, Names
       DEF CreateDialog, OnlineInv, PlacesInv, Undecided
  <2>7. DialogInv'
    BY <1>1, <1>n, <1>0, <2>3, Names
       DEF CreateDialog, DialogInv, Plays, Leaving
  <2> QED
    BY <2>4, <2>5, <2>6, <2>7 DEF ConnectInv
<1>2. CASE Connect
  <2>1. PICK to \in {"close", "retry"} : Step("net", "connect", to)
    BY <1>2, <1>0 DEF Warning, Connect, PlacesInv
  <2>2. to \in Positions
    BY DEF Positions
  <2>3. /\ pc["net"] = "connect" /\ pc' \in [Threads -> Positions]
        /\ pc'["net"] \in {"close", "retry"}
        /\ \A u \in Threads : u # "net" => pc'[u] = pc[u]
    BY <1>n, <2>1, <2>2, Moves
  <2>4. PlacesInv'
    BY <1>2, <1>n, <1>0, <2>3 DEF Connect, PlacesInv, Undecided
  <2>5. HolderInv'
    BY <1>2, <1>0, <2>3, Names DEF Connect, HolderInv, Holding
  <2>6. OnlineInv'
    BY <1>2, <1>n, <1>0, <2>3, Names
       DEF Connect, OnlineInv, PlacesInv, Undecided
  <2>7. DialogInv'
    BY <1>2, <1>n, <1>0, <2>3, Names DEF Connect, DialogInv, Plays, Leaving
  <2> QED
    BY <2>4, <2>5, <2>6, <2>7 DEF ConnectInv
<1>3. CASE Retry
  <2>1. Step("net", "retry", IF abortConnect THEN "close" ELSE "connect")
    BY <1>3 DEF Retry
  <2>2. (IF abortConnect THEN "close" ELSE "connect") \in Positions
    BY DEF Positions, Leaving
  <2>3. Moved("net", "retry", IF abortConnect THEN "close" ELSE "connect")
    BY <1>n, <2>1, <2>2, Moves
  <2>4. PlacesInv'
    BY <1>3, <1>n, <1>0, <2>3 DEF Retry, PlacesInv, Undecided
  <2>5. HolderInv'
    BY <1>3, <1>0, <2>3, Names DEF Retry, HolderInv, Holding
  <2>6. OnlineInv'
    BY <1>3, <1>n, <1>0, <2>3, Names
       DEF Retry, OnlineInv, PlacesInv, Undecided
  <2>7. DialogInv'
    BY <1>3, <1>n, <1>0, <2>3, Names DEF Retry, DialogInv, Plays, Leaving
  <2> QED
    BY <2>4, <2>5, <2>6, <2>7 DEF ConnectInv
<1>4. CASE CloseDialog
  <2>1. Step("net", "close", "decide")
    BY <1>4 DEF CloseDialog
  <2>2. "decide" \in Positions
    BY DEF Positions, Leaving
  <2>3. Moved("net", "close", "decide")
    BY <1>n, <2>1, <2>2, Moves
  <2>4. PlacesInv'
    BY <1>4, <1>n, <1>0, <2>3 DEF CloseDialog, PlacesInv, Undecided
  <2>5. HolderInv'
    BY <1>4, <1>0, <2>3, Names DEF CloseDialog, HolderInv, Holding
  <2>6. OnlineInv'
    BY <1>4, <1>n, <1>0, <2>3, Names
       DEF CloseDialog, OnlineInv, PlacesInv, Undecided
  <2>7. DialogInv'
    BY <1>4, <1>n, <1>0, <2>3, Names DEF CloseDialog, DialogInv, Plays, Leaving
  <2> QED
    BY <2>4, <2>5, <2>6, <2>7 DEF ConnectInv
<1>5. CASE Decide
  <2>1. Step("net", "decide", IF success THEN "show" ELSE "receive")
    BY <1>5 DEF Warning, Decide
  <2>2. (IF success THEN "show" ELSE "receive") \in Positions
    BY DEF Positions, Leaving
  <2>3. Moved("net", "decide", IF success THEN "show" ELSE "receive")
    BY <1>n, <2>1, <2>2, Moves
  <2>4. PlacesInv'
    BY <1>5, <1>n, <1>0, <2>3 DEF Decide, PlacesInv, Undecided
  <2>5. HolderInv'
    BY <1>5, <1>0, <2>3, Names DEF Decide, HolderInv, Holding
  <2>a. /\ pc["net"] \in Undecided
        /\ pc'["net"] \notin Undecided \cup Holding \cup {"ended"}
    BY <1>5, <2>3 DEF Undecided, Holding
  <2>b. \A u \in Threads : pc[u] \notin {"clear", "cleared", "warned"}
    BY <1>0, <2>a DEF OnlineInv
  <2>c. \A u \in Threads : pc'[u] \notin {"clear", "cleared", "warned"}
    BY <2>3, <2>a, <2>b DEF Holding
  <2>d. pc["recv"] = "none" /\ pc'["recv"] = "none"
    BY <1>n, <1>0, <2>3, <2>a DEF DialogInv, Undecided, Threads
  <2>e. connected' <=> enabled'
    BY <1>5, <1>0, <2>a DEF Decide, OnlineInv
  <2>6. OnlineInv'
    BY <2>a, <2>c, <2>d, <2>e DEF OnlineInv
  <2>7. DialogInv'
    BY <1>5, <1>n, <1>0, <2>3, Names DEF Decide, DialogInv, Plays, Leaving
  <2> QED
    BY <2>4, <2>5, <2>6, <2>7 DEF ConnectInv
<1>6. CASE ShowWaiting
  <2>1. Step("net", "show", "receive")
    BY <1>6 DEF ShowWaiting
  <2>2. "receive" \in Positions
    BY DEF Positions, Leaving
  <2>3. Moved("net", "show", "receive")
    BY <1>n, <2>1, <2>2, Moves
  <2>4. PlacesInv'
    BY <1>6, <1>n, <1>0, <2>3 DEF ShowWaiting, PlacesInv, Undecided
  <2>5. HolderInv'
    BY <1>6, <1>0, <2>3, Names DEF ShowWaiting, HolderInv, Holding
  <2>6. OnlineInv'
    BY <1>6, <1>n, <1>0, <2>3, Names
       DEF ShowWaiting, OnlineInv, PlacesInv, Undecided
  <2>7. DialogInv'
    BY <1>6, <1>n, <1>0, <2>3, Names DEF ShowWaiting, DialogInv, Plays, Leaving
  <2> QED
    BY <2>4, <2>5, <2>6, <2>7 DEF ConnectInv
<1>7. CASE ReceiveFirstFrame
  <2>1. Step("recv", "recv", "recv")
    BY <1>7 DEF ReceiveFirstFrame
  <2>2. "recv" \in Positions
    BY DEF Positions, Leaving
  <2>3. Moved("recv", "recv", "recv")
    BY <1>n, <2>1, <2>2, Moves
  <2>4. PlacesInv'
    BY <1>7, <1>n, <1>0, <2>3 DEF ReceiveFirstFrame, PlacesInv, Undecided
  <2>5. HolderInv'
    BY <1>7, <1>0, <2>3, Names DEF ReceiveFirstFrame, HolderInv, Holding
  <2>6. OnlineInv'
    BY <1>7, <1>n, <1>0, <2>3, Names
       DEF ReceiveFirstFrame, OnlineInv, PlacesInv, Undecided
  <2>7. DialogInv'
    BY <1>7, <1>n, <1>0, <2>3, Names
       DEF ReceiveFirstFrame, DialogInv, Plays, Leaving
  <2> QED
    BY <2>4, <2>5, <2>6, <2>7 DEF ConnectInv
<1>8. CASE ConnectionLost
  <2>1. Step("recv", "recv", "test")
    BY <1>8 DEF ConnectionLost
  <2>2. "test" \in Positions
    BY DEF Positions, Leaving
  <2>3. Moved("recv", "recv", "test")
    BY <1>n, <2>1, <2>2, Moves
  <2>4. PlacesInv'
    BY <1>8, <1>n, <1>0, <2>3 DEF ConnectionLost, PlacesInv, Undecided
  <2>5. HolderInv'
    BY <1>8, <1>0, <2>3, Names DEF ConnectionLost, HolderInv, Holding
  <2>6. OnlineInv'
    BY <1>8, <1>n, <1>0, <2>3, Names
       DEF ConnectionLost, OnlineInv, PlacesInv, Undecided
  <2>7. DialogInv'
    BY <1>8, <1>n, <1>0, <2>3, Names
       DEF ConnectionLost, DialogInv, Plays, Leaving
  <2> QED
    BY <2>4, <2>5, <2>6, <2>7 DEF ConnectInv
<1>9. CASE Entry
  <2>1. Step("emu", "entry", "enter")
    BY <1>9 DEF Entry
  <2>2. "enter" \in Positions
    BY DEF Positions, Leaving
  <2>3. Moved("emu", "entry", "enter")
    BY <1>n, <2>1, <2>2, Moves
  <2>4. PlacesInv'
    BY <1>9, <1>n, <1>0, <2>3 DEF Entry, PlacesInv, Undecided
  <2>5. HolderInv'
    BY <1>9, <1>0, <2>3, Names DEF Entry, HolderInv, Holding
  <2>6. OnlineInv'
    BY <1>9, <1>n, <1>0, <2>3, Names
       DEF Entry, OnlineInv, PlacesInv, Undecided
  <2>7. DialogInv'
    BY <1>9, <1>n, <1>0, <2>3, Names DEF Entry, DialogInv, Plays, Leaving
  <2> QED
    BY <2>4, <2>5, <2>6, <2>7 DEF ConnectInv
<1>10. CASE EnterFrame
  <2>1. Step("emu", "enter", IF enabled THEN "wait" ELSE "offline")
    BY <1>10 DEF EnterFrame
  <2>2. (IF enabled THEN "wait" ELSE "offline") \in Positions
    BY DEF Positions, Leaving
  <2>3. Moved("emu", "enter", IF enabled THEN "wait" ELSE "offline")
    BY <1>n, <2>1, <2>2, Moves
  <2>4. PlacesInv'
    BY <1>10, <1>n, <1>0, <2>3 DEF EnterFrame, PlacesInv, Undecided
  <2>5. HolderInv'
    BY <1>10, <1>0, <2>3, Names DEF EnterFrame, HolderInv, Holding
  <2>6. OnlineInv'
    BY <1>10, <1>n, <1>0, <2>3, Names
       DEF EnterFrame, OnlineInv, PlacesInv, Undecided
  <2>7. DialogInv'
    BY <1>10, <1>n, <1>0, <2>3, Names DEF EnterFrame, DialogInv, Plays, Leaving
  <2> QED
    BY <2>4, <2>5, <2>6, <2>7 DEF ConnectInv
<1>11. CASE Wait
  <2>1. Step("emu", "wait", IF started THEN "first" ELSE "woken")
    BY <1>11 DEF Wait
  <2>2. (IF started THEN "first" ELSE "woken") \in Positions
    BY DEF Positions, Leaving
  <2>3. Moved("emu", "wait", IF started THEN "first" ELSE "woken")
    BY <1>n, <2>1, <2>2, Moves
  <2>4. PlacesInv'
    BY <1>11, <1>n, <1>0, <2>3 DEF Wait, PlacesInv, Undecided
  <2>5. HolderInv'
    BY <1>11, <1>0, <2>3, Names DEF Wait, HolderInv, Holding
  <2>6. OnlineInv'
    BY <1>11, <1>n, <1>0, <2>3, Names
       DEF Wait, OnlineInv, PlacesInv, Undecided
  <2>7. DialogInv'
    BY <1>11, <1>n, <1>0, <2>3, Names DEF Wait, DialogInv, Plays, Leaving
  <2> QED
    BY <2>4, <2>5, <2>6, <2>7 DEF ConnectInv
<1>12. CASE Woken
  <2>1. PICK to \in {"offline", "look", "wait"} : Step("emu", "woken", to)
    BY <1>12, <1>0 DEF Woken, PlacesInv
  <2>2. to \in Positions
    BY DEF Positions
  <2>3. /\ pc["emu"] = "woken" /\ pc' \in [Threads -> Positions]
        /\ pc'["emu"] \in {"offline", "look", "wait"}
        /\ \A u \in Threads : u # "emu" => pc'[u] = pc[u]
    BY <1>n, <2>1, <2>2, Moves
  <2>4. PlacesInv'
    BY <1>12, <1>n, <1>0, <2>3 DEF Woken, PlacesInv, Undecided
  <2>5. HolderInv'
    BY <1>12, <1>0, <2>3, Names DEF Woken, HolderInv, Holding
  <2>6. OnlineInv'
    BY <1>12, <1>n, <1>0, <2>3, Names
       DEF Woken, OnlineInv, PlacesInv, Undecided
  <2>7. DialogInv'
    BY <1>12, <1>n, <1>0, <2>3, Names DEF Woken, DialogInv, Plays, Leaving
  <2> QED
    BY <2>4, <2>5, <2>6, <2>7 DEF ConnectInv
<1>13. CASE Look
  <2>1. Step("emu", "look", IF waiting /\ abortWait THEN "test" ELSE "unlook")
    BY <1>13 DEF Look
  <2>2. (IF waiting /\ abortWait THEN "test" ELSE "unlook") \in Positions
    BY DEF Positions, Leaving
  <2>3. Moved("emu", "look", IF waiting /\ abortWait THEN "test" ELSE "unlook")
    BY <1>n, <2>1, <2>2, Moves
  <2>4. PlacesInv'
    BY <1>13, <1>n, <1>0, <2>3 DEF Look, PlacesInv, Undecided
  <2>5. HolderInv'
    BY <1>13, <1>0, <2>3, Names DEF Look, HolderInv, Holding
  <2>6. OnlineInv'
    BY <1>13, <1>n, <1>0, <2>3, Names
       DEF Look, OnlineInv, PlacesInv, Undecided
  <2>7. DialogInv'
    BY <1>13, <1>n, <1>0, <2>3, Names DEF Look, DialogInv, Plays, Leaving
  <2> QED
    BY <2>4, <2>5, <2>6, <2>7 DEF ConnectInv
<1>14. CASE Unlook
  <2>1. Step("emu", "unlook", "wait")
    BY <1>14 DEF Unlook
  <2>2. "wait" \in Positions
    BY DEF Positions, Leaving
  <2>3. Moved("emu", "unlook", "wait")
    BY <1>n, <2>1, <2>2, Moves
  <2>4. PlacesInv'
    BY <1>14, <1>n, <1>0, <2>3 DEF Unlook, PlacesInv, Undecided
  <2>5. HolderInv'
    BY <1>14, <1>0, <2>3, Names DEF Unlook, HolderInv, Holding
  <2>6. OnlineInv'
    BY <1>14, <1>n, <1>0, <2>3, Names
       DEF Unlook, OnlineInv, PlacesInv, Undecided
  <2>7. DialogInv'
    BY <1>14, <1>n, <1>0, <2>3, Names DEF Unlook, DialogInv, Plays, Leaving
  <2> QED
    BY <2>4, <2>5, <2>6, <2>7 DEF ConnectInv
<1>15. CASE TestDialog("emu", "first", "dismiss1", "playing")
  <2>1. Step("emu", "first", IF waiting THEN "dismiss1" ELSE "playing")
    BY <1>15 DEF TestDialog
  <2>2. (IF waiting THEN "dismiss1" ELSE "playing") \in Positions
    BY DEF Positions, Leaving
  <2>3. Moved("emu", "first", IF waiting THEN "dismiss1" ELSE "playing")
    BY <1>n, <2>1, <2>2, Moves
  <2>4. PlacesInv'
    BY <1>15, <1>n, <1>0, <2>3 DEF TestDialog, PlacesInv, Undecided
  <2>5. HolderInv'
    BY <1>15, <1>0, <2>3, Names DEF TestDialog, HolderInv, Holding
  <2>6. OnlineInv'
    BY <1>15, <1>n, <1>0, <2>3, Names
       DEF TestDialog, OnlineInv, PlacesInv, Undecided
  <2>7. DialogInv'
    BY <1>15, <1>n, <1>0, <2>3, Names DEF TestDialog, DialogInv, Plays, Leaving
  <2> QED
    BY <2>4, <2>5, <2>6, <2>7 DEF ConnectInv
<1>16. CASE DestroyDialog("emu", "dismiss1", "playing")
  <2>1. Step("emu", "dismiss1", "playing")
    BY <1>16 DEF DestroyDialog
  <2>2. "playing" \in Positions
    BY DEF Positions, Leaving
  <2>3. Moved("emu", "dismiss1", "playing")
    BY <1>n, <2>1, <2>2, Moves
  <2>4. PlacesInv'
    BY <1>16, <1>n, <1>0, <2>3 DEF DestroyDialog, PlacesInv, Undecided
  <2>5. HolderInv'
    BY <1>16, <1>0, <2>3, Names DEF DestroyDialog, HolderInv, Holding
  <2>6. OnlineInv'
    BY <1>16, <1>n, <1>0, <2>3, Names
       DEF DestroyDialog, OnlineInv, PlacesInv, Undecided
  <2>7. DialogInv'
    BY <1>16, <1>n, <1>0, <2>3, Names
       DEF DestroyDialog, DialogInv, Plays, Leaving
  <2> QED
    BY <2>4, <2>5, <2>6, <2>7 DEF ConnectInv
<1>17. CASE AnnounceFails
  <2>1. Step("emu", "playing", "sendwarn")
    BY <1>17 DEF AnnounceFails
  <2>2. "sendwarn" \in Positions
    BY DEF Positions, Leaving
  <2>3. Moved("emu", "playing", "sendwarn")
    BY <1>n, <2>1, <2>2, Moves
  <2>4. PlacesInv'
    BY <1>17, <1>n, <1>0, <2>3 DEF AnnounceFails, PlacesInv, Undecided
  <2>5. HolderInv'
    BY <1>17, <1>0, <2>3, Names DEF AnnounceFails, HolderInv, Holding
  <2>6. OnlineInv'
    BY <1>17, <1>n, <1>0, <2>3, Names
       DEF AnnounceFails, OnlineInv, PlacesInv, Undecided
  <2>7. DialogInv'
    BY <1>17, <1>n, <1>0, <2>3, Names
       DEF AnnounceFails, DialogInv, Plays, Leaving
  <2> QED
    BY <2>4, <2>5, <2>6, <2>7 DEF ConnectInv
<1>18. CASE SendFails
  <2>1. Step("ui", "send", "sendwarn")
    BY <1>18 DEF SendFails
  <2>2. "sendwarn" \in Positions
    BY DEF Positions, Leaving
  <2>3. Moved("ui", "send", "sendwarn")
    BY <1>n, <2>1, <2>2, Moves
  <2>4. PlacesInv'
    BY <1>18, <1>n, <1>0, <2>3 DEF SendFails, PlacesInv, Undecided
  <2>5. HolderInv'
    BY <1>18, <1>0, <2>3, Names DEF SendFails, HolderInv, Holding
  <2>6. OnlineInv'
    BY <1>18, <1>n, <1>0, <2>3, Names
       DEF SendFails, OnlineInv, PlacesInv, Undecided
  <2>7. DialogInv'
    BY <1>18, <1>n, <1>0, <2>3, Names DEF SendFails, DialogInv, Plays, Leaving
  <2> QED
    BY <2>4, <2>5, <2>6, <2>7 DEF ConnectInv
<1>19. CASE StartReceiving
  <2>1. /\ pc["net"] = "receive" /\ pc["recv"] = "none"
        /\ pc' \in [Threads -> Positions]
        /\ pc'["net"] = "ended" /\ pc'["recv"] = "recv"
        /\ \A u \in Threads : u \notin {"net", "recv"} => pc'[u] = pc[u]
    BY <1>19, <1>n, <1>0 DEF StartReceiving, PlacesInv, DialogInv, Positions
  <2>2. UNCHANGED <<gui, mutex, enabled, connected, waiting, started>>
    BY <1>19 DEF StartReceiving
  <2>4. PlacesInv'
    BY <1>0, <2>1, <2>2 DEF PlacesInv
  <2>5. HolderInv'
    BY <1>0, <2>1, <2>2, Names DEF HolderInv, Holding
  <2>6. OnlineInv'
    BY <1>n, <1>0, <2>1, <2>2, Names DEF OnlineInv, Undecided
  <2>7. DialogInv'
    BY <1>n, <1>0, <2>1, <2>2, Names DEF DialogInv, Plays, Leaving
  <2> QED
    BY <2>4, <2>5, <2>6, <2>7 DEF ConnectInv
<1>20. CASE PressAbort \/ UNCHANGED vars
  <2>1. UNCHANGED <<pc, gui, mutex, enabled, connected, waiting, started>>
    BY <1>20 DEF PressAbort, vars
  <2> QED
    BY <1>0, <2>1 DEF ConnectInv, PlacesInv, HolderInv, OnlineInv, DialogInv,
       Plays
<1>21. CASE ReceiverLeaves
  <2>1. (IF broken THEN "ended" ELSE "recv") \in Positions
    BY DEF Positions
  <2>2. OnDisconnect("recv", IF broken THEN "ended" ELSE "recv")
    BY <1>21 DEF ReceiverLeaves
  <2> QED
    BY <2>1, <2>2, DisconnectStep
<1>22. CASE OnDisconnect("ui", "idle")
  <2>1. "idle" \in Positions
    BY DEF Positions
  <2> QED
    BY <1>22, <2>1, DisconnectStep
<1>23. CASE OnDisconnect("emu", IF gui = "emu" THEN "unlook" ELSE "playing")
  <2>1. (IF gui = "emu" THEN "unlook" ELSE "playing") \in Positions
    BY DEF Positions
  <2> QED
    BY <1>23, <2>1, DisconnectStep
<1>24. CASE SendInput
  <2>1. Step("ui", "idle", "send")
    BY <1>24 DEF SendInput
  <2>2. "send" \in Positions
    BY DEF Positions, Leaving
  <2>3. Moved("ui", "idle", "send")
    BY <1>n, <2>1, <2>2, Moves
  <2>4. PlacesInv'
    BY <1>24, <1>n, <1>0, <2>3 DEF SendInput, PlacesInv, Undecided
  <2>5. HolderInv'
    BY <1>24, <1>0, <2>3, Names DEF SendInput, HolderInv, Holding
  <2>6. OnlineInv'
    BY <1>24, <1>n, <1>0, <2>3, Names
       DEF SendInput, OnlineInv, PlacesInv, Undecided
  <2>7. DialogInv'
    <3>1. gui' = "emu" <=> gui = "emu"
      BY <1>24 DEF SendInput, GuiFree
    <3>2. UNCHANGED <<waiting, started>>
      BY <1>24 DEF SendInput
    <3> QED
      BY <1>n, <1>0, <2>3, <3>1, <3>2, Names DEF DialogInv, Plays, Leaving
  <2> QED
    BY <2>4, <2>5, <2>6, <2>7 DEF ConnectInv
<1>25. CASE Sent
  <2>1. Step("ui", "send", "idle")
    BY <1>25 DEF Sent
  <2>2. "idle" \in Positions
    BY DEF Positions, Leaving
  <2>3. Moved("ui", "send", "idle")
    BY <1>n, <2>1, <2>2, Moves
  <2>4. PlacesInv'
    BY <1>25, <1>n, <1>0, <2>3 DEF Sent, PlacesInv, Undecided
  <2>5. HolderInv'
    BY <1>25, <1>0, <2>3, Names DEF Sent, HolderInv, Holding
  <2>6. OnlineInv'
    BY <1>25, <1>n, <1>0, <2>3, Names
       DEF Sent, OnlineInv, PlacesInv, Undecided
  <2>7. DialogInv'
    BY <1>25, <1>n, <1>0, <2>3, Names DEF Sent, DialogInv, Plays, Leaving
  <2> QED
    BY <2>4, <2>5, <2>6, <2>7 DEF ConnectInv
<1>26. CASE ReceivesTrouble
  <2>1. Step("recv", "recv", "sendwarn")
    BY <1>26 DEF ReceivesTrouble
  <2>2. "sendwarn" \in Positions
    BY DEF Positions, Leaving
  <2>3. Moved("recv", "recv", "sendwarn")
    BY <1>n, <2>1, <2>2, Moves
  <2>4. PlacesInv'
    BY <1>26, <1>n, <1>0, <2>3 DEF ReceivesTrouble, PlacesInv, Undecided
  <2>5. HolderInv'
    BY <1>26, <1>0, <2>3, Names DEF ReceivesTrouble, HolderInv, Holding
  <2>6. OnlineInv'
    BY <1>26, <1>n, <1>0, <2>3, Names
       DEF ReceivesTrouble, OnlineInv, PlacesInv, Undecided
  <2>7. DialogInv'
    BY <1>26, <1>n, <1>0, <2>3, Names DEF ReceivesTrouble, DialogInv, Plays, Leaving
  <2> QED
    BY <2>4, <2>5, <2>6, <2>7 DEF ConnectInv
<1>27. CASE NextFrame
  <2>1. Step("emu", "playing", "offline")
    BY <1>27 DEF NextFrame
  <2>2. "offline" \in Positions
    BY DEF Positions, Leaving
  <2>3. Moved("emu", "playing", "offline")
    BY <1>n, <2>1, <2>2, Moves
  <2>4. PlacesInv'
    BY <1>27, <1>n, <1>0, <2>3 DEF NextFrame, PlacesInv, Undecided
  <2>5. HolderInv'
    BY <1>27, <1>0, <2>3, Names DEF NextFrame, HolderInv, Holding
  <2>6. OnlineInv'
    BY <1>27, <1>n, <1>0, <2>3, Names
       DEF NextFrame, OnlineInv, PlacesInv, Undecided
  <2>7. DialogInv'
    BY <1>27, <1>n, <1>0, <2>3, Names DEF NextFrame, DialogInv, Plays, Leaving
  <2> QED
    BY <2>4, <2>5, <2>6, <2>7 DEF ConnectInv
<1> QED
  BY <1>1, <1>2, <1>3, <1>4, <1>5, <1>6, <1>7, <1>8, <1>9, <1>10, <1>11,
     <1>12, <1>13, <1>14, <1>15, <1>16, <1>17, <1>18, <1>19, <1>20, <1>21,
     <1>22, <1>23, <1>24, <1>25, <1>26, <1>27
     DEF Next, NetplayThread, ReceiveThread, EmulationThread, FirstFrame,
     UserThread, SendReturns

LEMMA ConnectInvHolds == Spec => []ConnectInv
BY ConnectInit, ConnectStep, PTL DEF Spec

\* Whatever the user aborts and whenever the connection is lost, an emulator
\* that plays does so without the dialog of the wait.
THEOREM PlaysWithoutDialog == Spec => []NoDialogWhilePlaying
<1>1. ConnectInv => NoDialogWhilePlaying
  BY DEF ConnectInv, DialogInv, Plays, NoDialogWhilePlaying
<1> QED
  BY <1>1, ConnectInvHolds, PTL

\* Whatever a thread reads of the two flags without the lock: once it has been
\* decided the game is connected or netplay is off, and stays so; the flags
\* differ only between the two writes of the thread that has the mutex, and
\* both are clear when the receive thread has ended.
THEOREM FlagsHold == Spec => []FlagsAgree
<1>1. ConnectInv => FlagsAgree
  <2> SUFFICES ASSUME ConnectInv PROVE FlagsAgree
    OBVIOUS
  <2>1. pc["net"] \in {"show", "receive", "ended"} => connected \/ ~enabled
    BY DEF ConnectInv, OnlineInv, Undecided
  <2>2. connected /\ ~enabled => mutex # "free" /\ pc[mutex] = "cleared"
    BY Names DEF ConnectInv, OnlineInv, HolderInv, Holding
  <2>3. pc["recv"] = "ended" => ~connected /\ ~enabled
    BY Names DEF ConnectInv, OnlineInv, DialogInv, Undecided
  <2> QED
    BY <2>1, <2>2, <2>3 DEF FlagsAgree
<1> QED
  BY <1>1, ConnectInvHolds, PTL
=============================================================================
