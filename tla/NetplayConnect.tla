--------------------------- MODULE NetplayConnect ---------------------------
(***************************************************************************)
(* How an emulator gets into a netplay game and out of it (netplay.c,      *)
(* emu.c, dialog.c): the netplay thread connects and shows the two         *)
(* dialogs, the emulation thread waits for the connection and for the      *)
(* first frame, the receive thread and the user's thread notice a lost     *)
(* connection, and the user may press Abort in either dialog.              *)
(*                                                                         *)
(* The GUI lock and the connection mutex are not recursive.  A section     *)
(* that holds the GUI lock and takes no other lock is one step, which      *)
(* needs the lock to be free.  g_wait_for_frame_mutex has no variable: the *)
(* emulation thread holds it whenever it is in its wait for the first      *)
(* frame and not asleep.                                                   *)
(*                                                                         *)
(* Positions of fs_emu_netplay_on_disconnect, whoever calls it:            *)
(*   sendwarn  warns of what failed       warn     first warning           *)
(*   test      tests g_waiting_dialog     clear    clears enabled          *)
(*   dismiss   takes the GUI lock for it  cleared  clears connected        *)
(*   lock      takes the mutex            warned   second warning, unlock  *)
(* sendwarn is in its callers: send_bytes warns before it disconnects, and *)
(* so does handle_ext_message.                                             *)
(***************************************************************************)

CONSTANTS CanAbortConnect,  \* the user may abort while it connects ...
          CanAbortWait,     \* ... and while it waits for the game to start
          CanLose           \* the connection may be lost

ASSUME ConnectAssumption == /\ CanAbortConnect \in BOOLEAN
                            /\ CanAbortWait \in BOOLEAN
                            /\ CanLose \in BOOLEAN

Threads == {"net", "emu", "recv", "ui"}

VARIABLES
  pc,          \* where each thread is
  gui,         \* the GUI lock: "free" or the thread that holds it
  mutex,       \* g_connection_mutex: "free" or the thread that holds it
  enabled,     \* g_fs_emu_netplay_server is set
  connected,   \* g_fs_emu_netplay_connected
  success,     \* the netplay thread's local variable connected
  connecting,  \* the dialog "Connecting To Net Play Server" is there
  abortConnect,  \* ... and its result is negative
  waiting,     \* g_waiting_dialog, "Waiting for game to start...", is there
  abortWait,   \* ... and its result is negative
  started,     \* g_frame has reached the first frame
  broken,      \* the receive thread's recv has failed
  crashed      \* a thread has dereferenced the null dialog

dialogVars == <<connecting, abortConnect, waiting, abortWait>>
netVars    == <<enabled, connected, success>>
recvVars   == <<started, broken>>
vars == <<pc, gui, mutex, netVars, dialogVars, recvVars, crashed>>

Init == /\ pc = [net |-> "create", emu |-> "entry",
                 recv |-> "none", ui |-> "idle"]
        /\ gui = "free" /\ mutex = "free"
        /\ enabled = TRUE /\ connected = FALSE
        /\ success = FALSE
        /\ connecting = FALSE /\ abortConnect = FALSE
        /\ waiting = FALSE /\ abortWait = FALSE
        /\ started = FALSE /\ broken = FALSE /\ crashed = FALSE

Step(t, from, to) == /\ ~crashed
                     /\ pc[t] = from /\ pc' = [pc EXCEPT ![t] = to]

GuiFree == gui = "free"

-----------------------------------------------------------------------------
(* dismiss_waiting_dialog: a test without the lock, then the lock, and then *)
(* no second test.                                                          *)

TestDialog(t, from, there, next) ==
  /\ Step(t, from, IF waiting THEN there ELSE next)
  /\ UNCHANGED <<gui, mutex, netVars, dialogVars, recvVars, crashed>>

DestroyDialog(t, from, next) ==
  /\ Step(t, from, next)
  /\ GuiFree
  /\ waiting' = FALSE
  /\ crashed' = ~waiting
  /\ UNCHANGED <<gui, mutex, netVars, connecting, abortConnect, abortWait,
                 recvVars>>

\* fs_emu_warning puts a line on the console, under the GUI lock.
Warning(t, from, to) == Step(t, from, to) /\ GuiFree

-----------------------------------------------------------------------------
(* fs_emu_netplay_on_disconnect, after which thread t goes on at back       *)

\* The callers that warn first.
WarnFailure(t) == /\ Warning(t, "sendwarn", "test")
                  /\ UNCHANGED <<gui, mutex, netVars, dialogVars,
                                 recvVars, crashed>>

LockConnection(t) == /\ Step(t, "lock", "warn")
                     /\ mutex = "free" /\ mutex' = t
                     /\ UNCHANGED <<gui, netVars, dialogVars, recvVars, crashed>>

\* Somebody else has disconnected already, or it never was connected.
NotConnectedKeepsMutex(t, back) == /\ Step(t, "warn", back)
                                   /\ ~connected
                                   /\ UNCHANGED <<gui, mutex, netVars,
                                                  dialogVars, recvVars, crashed>>
NotConnected(t, back) == /\ Step(t, "warn", back)
                         /\ ~connected
                         /\ mutex' = "free"
                         /\ UNCHANGED <<gui, netVars, dialogVars,
                                        recvVars, crashed>>

\* Netplay is still enabled then (FlagsAgree): the branch for a game that is
\* connected and not enabled is never taken.
WarnDisconnected(t) == /\ connected /\ enabled
                       /\ Warning(t, "warn", "clear")
                       /\ UNCHANGED <<gui, mutex, netVars, dialogVars,
                                      recvVars, crashed>>

\* Two writes, which the tests of the flags in other threads may come between.
GoOfflineSwapped(t) ==
  /\ \/ /\ Step(t, "clear", "cleared")
        /\ connected' = FALSE /\ UNCHANGED enabled
     \/ /\ Step(t, "cleared", "warned")
        /\ enabled' = FALSE /\ UNCHANGED connected
  /\ UNCHANGED <<gui, mutex, success, dialogVars, recvVars, crashed>>
GoOffline(t) ==
  /\ \/ /\ Step(t, "clear", "cleared")
        /\ enabled' = FALSE /\ UNCHANGED connected
     \/ /\ Step(t, "cleared", "warned")
        /\ connected' = FALSE /\ UNCHANGED enabled
  /\ UNCHANGED <<gui, mutex, success, dialogVars, recvVars, crashed>>

WarnOffline(t, back) == /\ Warning(t, "warned", back)
                        /\ mutex' = "free"
                        /\ UNCHANGED <<gui, netVars, dialogVars,
                                       recvVars, crashed>>

OnDisconnect(t, back) == \/ WarnFailure(t)
                         \/ TestDialog(t, "test", "dismiss", "lock")
                         \/ DestroyDialog(t, "dismiss", "lock")
                         \/ LockConnection(t)
                         \/ NotConnected(t, back) \/ WarnDisconnected(t)
                         \/ GoOffline(t) \/ WarnOffline(t, back)

-----------------------------------------------------------------------------
(* The netplay thread *)

CreateDialog == /\ Step("net", "create", "connect")
                /\ GuiFree
                /\ connecting' = TRUE
                /\ UNCHANGED <<gui, mutex, netVars, abortConnect, waiting,
                               abortWait, recvVars, crashed>>

\* One attempt, which may take long; a failure is reported to the user.  (A
\* greeting that cannot be sent disconnects what is not yet connected.)
Connect == /\ \/ /\ Step("net", "connect", "close") /\ success' = TRUE
              \/ /\ Warning("net", "connect", "retry") /\ UNCHANGED success
           /\ UNCHANGED <<gui, mutex, enabled, connected, dialogVars,
                          recvVars, crashed>>

RetryAgain == /\ Step("net", "retry", "connect")
              /\ UNCHANGED <<gui, mutex, netVars, dialogVars, recvVars, crashed>>
Retry == /\ Step("net", "retry", IF abortConnect THEN "close" ELSE "connect")
         /\ UNCHANGED <<gui, mutex, netVars, dialogVars, recvVars, crashed>>

CloseDialog == /\ Step("net", "close", "decide")
               /\ GuiFree
               /\ connecting' = FALSE
               /\ UNCHANGED <<gui, mutex, netVars, abortConnect, waiting,
                              abortWait, recvVars, crashed>>

\* Connected, or continuing the game without netplay.
DecideReceiveFirst ==
  /\ pc["net"] = "decide" /\ ~crashed
  /\ IF success THEN connected' = TRUE /\ UNCHANGED enabled
                ELSE enabled' = FALSE /\ UNCHANGED connected
  /\ pc' = [pc EXCEPT !["net"] = IF success THEN "show" ELSE "ended",
                      !["recv"] = "recv"]
  /\ UNCHANGED <<gui, mutex, success, dialogVars, recvVars, crashed>>
Decide == /\ IF success
             THEN /\ Step("net", "decide", "show")
                  /\ connected' = TRUE /\ UNCHANGED enabled
             ELSE /\ Warning("net", "decide", "receive")
                  /\ enabled' = FALSE /\ UNCHANGED connected
          /\ UNCHANGED <<gui, mutex, success, dialogVars,
                         recvVars, crashed>>

ShowWaiting == /\ Step("net", "show", "receive")
               /\ GuiFree
               /\ waiting' = TRUE
               /\ UNCHANGED <<gui, mutex, netVars, connecting, abortConnect,
                              abortWait, recvVars, crashed>>

StartReceiving == /\ ~crashed /\ pc["net"] = "receive"
                  /\ pc' = [pc EXCEPT !["net"] = "ended", !["recv"] = "recv"]
                  /\ UNCHANGED <<gui, mutex, netVars, dialogVars,
                                 recvVars, crashed>>

NetplayThread == \/ CreateDialog \/ Connect \/ Retry \/ CloseDialog
                 \/ Decide \/ ShowWaiting \/ StartReceiving

-----------------------------------------------------------------------------
(* The receive thread *)

WaitMutexFree == pc["emu"] \notin {"woken", "look"} /\ gui # "emu"

ReceiveFirstFrame == /\ Step("recv", "recv", "recv") /\ WaitMutexFree
                     /\ success /\ ~started /\ started' = TRUE
                     /\ UNCHANGED <<gui, mutex, netVars, dialogVars,
                                    broken, crashed>>

\* An error arrives, or a ping cannot be answered: the thread warns and
\* disconnects, and receives again.
ReceivesTrouble == /\ Step("recv", "recv", "sendwarn")
                   /\ CanLose /\ success
                   /\ UNCHANGED <<gui, mutex, netVars, dialogVars,
                                  recvVars, crashed>>

\* recv fails, at once if there never was a connection.
ConnectionLost == /\ Step("recv", "recv", "test")
                  /\ CanLose \/ ~success
                  /\ broken' = TRUE
                  /\ UNCHANGED <<gui, mutex, netVars, dialogVars,
                                 started, crashed>>

ReceiverLeaves == OnDisconnect("recv", IF broken THEN "ended" ELSE "recv")

ReceiveThread == \/ ReceiveFirstFrame \/ ReceivesTrouble \/ ConnectionLost
                 \/ ReceiverLeaves

-----------------------------------------------------------------------------
(* The emulation thread *)

\* emulation_thread_entry waits for the connection or for netplay to be off.
Entry == /\ connected \/ ~enabled
         /\ Step("emu", "entry", "enter")
         /\ UNCHANGED <<gui, mutex, netVars, dialogVars, recvVars, crashed>>

EnterFrame == /\ Step("emu", "enter", IF enabled THEN "wait" ELSE "offline")
              /\ UNCHANGED <<gui, mutex, netVars, dialogVars, recvVars, crashed>>

\* The wait for the first frame: the loop's head, and what follows the timed
\* wait in it.
Wait == /\ Step("emu", "wait", IF started THEN "first" ELSE "woken")
        /\ UNCHANGED <<gui, mutex, netVars, dialogVars, recvVars, crashed>>

Woken == /\ Step("emu", "woken", CASE ~enabled            -> "offline"
                                   [] enabled /\ waiting  -> "look"
                                   [] enabled /\ ~waiting -> "wait")
         /\ UNCHANGED <<gui, mutex, netVars, dialogVars, recvVars, crashed>>

\* It takes the GUI lock to look at the dialog's result, and keeps it while
\* it disconnects.
Look == /\ Step("emu", "look", IF waiting /\ abortWait THEN "test"
                               ELSE "unlook")
        /\ GuiFree /\ gui' = "emu"
        /\ UNCHANGED <<mutex, netVars, dialogVars, recvVars, crashed>>

Unlook == /\ Step("emu", "unlook", "wait")
          /\ gui' = "free"
          /\ UNCHANGED <<mutex, netVars, dialogVars, recvVars, crashed>>

FirstFrame == \/ TestDialog("emu", "first", "dismiss1", "playing")
              \/ DestroyDialog("emu", "dismiss1", "playing")

\* A checksum or a frame number cannot be sent.
AnnounceFails == /\ Step("emu", "playing", "sendwarn")
                 /\ CanLose
                 /\ UNCHANGED <<gui, mutex, netVars, dialogVars,
                                recvVars, crashed>>

\* A later frame finds netplay off, before its wait or in it.
NextFrame == /\ Step("emu", "playing", "offline")
             /\ ~enabled
             /\ UNCHANGED <<gui, mutex, netVars, dialogVars,
                            recvVars, crashed>>

EmulationThread == \/ Entry \/ EnterFrame \/ Wait \/ Woken \/ Look \/ Unlook
                   \/ FirstFrame \/ NextFrame
                   \/ OnDisconnect("emu", IF gui = "emu" THEN "unlook"
                                          ELSE "playing")

-----------------------------------------------------------------------------
(* The user's thread *)

\* The menu function hands the Abort button's action to the top dialog.
PressAbort == /\ ~crashed /\ pc["ui"] = "idle" /\ GuiFree
              /\ \/ /\ CanAbortConnect /\ connecting
                    /\ abortConnect' = TRUE /\ UNCHANGED abortWait
                 \/ /\ CanAbortWait /\ waiting
                    /\ abortWait' = TRUE /\ UNCHANGED abortConnect
              /\ UNCHANGED <<pc, gui, mutex, netVars, connecting, waiting,
                             recvVars, crashed>>

\* An input event goes to the server, from the keyboard or a joystick or, with
\* the GUI lock held all the while, from an item of the menu, which no dialog
\* covers.  Whether the game is online is tested without a lock.
SendInput == /\ enabled /\ connected
             /\ Step("ui", "idle", "send")
             /\ \/ UNCHANGED gui
                \/ GuiFree /\ ~connecting /\ ~waiting /\ gui' = "ui"
             /\ UNCHANGED <<mutex, netVars, dialogVars, recvVars, crashed>>

Sent == /\ Step("ui", "send", "idle")
        /\ gui' = IF gui = "ui" THEN "free" ELSE gui
        /\ UNCHANGED <<mutex, netVars, dialogVars, recvVars, crashed>>

SendFails == /\ Step("ui", "send", "sendwarn")
             /\ CanLose
             /\ UNCHANGED <<gui, mutex, netVars, dialogVars, recvVars, crashed>>

SendReturns == Sent \/ SendFails \/ OnDisconnect("ui", "idle")

UserThread == PressAbort \/ SendInput \/ SendReturns

-----------------------------------------------------------------------------
Next == NetplayThread \/ ReceiveThread \/ EmulationThread \/ AnnounceFails
        \/ UserThread

Spec == Init /\ [][Next]_vars

\* Threads run, and one that wants a lock gets it although others take it
\* again and again: they sleep 100 ms or draw a frame in between.  The user
\* need not press anything, the server need not start the game, and nothing
\* needs to be lost.
Fairness == /\ SF_vars(NetplayThread)
            /\ SF_vars(EmulationThread)
            /\ SF_vars(ReceiverLeaves)
            /\ SF_vars(SendReturns)
            /\ WF_vars(~success /\ ConnectionLost)

FairSpec == Spec /\ Fairness

-----------------------------------------------------------------------------
\* An emulator that plays does so without the dialog "Waiting for game to
\* start...", which takes all its input: the dialog is shown before the first
\* frame can be received (netplay_thread, fs_emu_netplay_wait_for_frame).
NoDialogWhilePlaying == pc["emu"] = "playing" => ~waiting

\* The two flags that say whether the game is online are tested without a lock.
\* Once the netplay thread has decided, what the emulation thread polls for at
\* its entry, connected or not enabled, is there to stay, although a connection
\* may come and go between two looks; connected without enabled is seen only
\* between the two writes of one thread, which has the mutex; and when the
\* receive thread has ended both are clear (fs_emu_netplay_on_disconnect,
\* emulation_thread_entry).
FlagsAgree ==
  /\ pc["net"] \in {"show", "receive", "ended"} => connected \/ ~enabled
  /\ connected /\ ~enabled => mutex # "free" /\ pc[mutex] = "cleared"
  /\ pc["recv"] = "ended" => ~connected /\ ~enabled

\* Who aborts while connecting plays on without netplay, unless the attempt
\* under way succeeds after all (netplay_thread, emulation_thread_entry).
AbortConnectPlaysOn ==
  (abortConnect /\ ~success) ~> (pc["emu"] = "offline" \/ success)

\* Who aborts while waiting for the game plays on without netplay, unless the
\* game starts ("user has chosen to abort connection and play offline").
AbortWaitPlaysOn == abortWait ~> (pc["emu"] = "offline" \/ started)

\* A thread waits for the GUI lock, which is not recursive, and has it itself.
WaitsForItself == gui # "free" /\ pc[gui] \in {"sendwarn", "dismiss"}

\* Every thread that disconnects gets through it, and the user's thread gets its
\* input off: threads never await the GUI lock and the mutex in a circle,
\* although warnings are made with the mutex held, unless it is the circle of
\* one thread that warns or dismisses the dialog while it holds the GUI lock
\* (send_bytes below fs_emu_menu_function, fs_emu_netplay_wait_for_frame).
DisconnectEnds ==
  /\ pc["recv"] \in {"sendwarn", "test"} ~>
       (pc["recv"] \in {"ended", "recv"} \/ WaitsForItself \/ crashed)
  /\ pc["ui"] = "send" ~> (pc["ui"] = "idle" \/ WaitsForItself \/ crashed)
=============================================================================
