# TLA+ models of FS-UAE

FS-UAE (this repository, version 1.2.1) is an Amiga emulator with a network
play mode. Most of its code is a cycle-driven simulation that runs in one
thread. What is hard to test is around that core: two to many emulators that
have to stay in step through a game server, and the threads inside each
emulator that share locks, dialogs, buffers and sockets. These modules model
that part, TLC checks them on small instances, and TLAPS proves the results
that matter most for every value of the constants.

All paths below are relative to `src/`, which holds the repository.

## 1. The system and its parts

| part | code | state it keeps | operations | talks to |
|---|---|---|---|---|
| game server, running game | `server/fs_uae_netplay_server/game.py` | frame and verified-frame counters, stop flag, per player: last frame announced, ring of checksums, buffer of messages not yet written | game loop (close a frame each 20 ms, compare checksums, wait for slow players), one receive thread per player, broadcast | emulators, over TCP |
| game server, seating | same file | list of clients, their keys, tags and versions, started flag | accept, read the hello, give a seat, give a seat again, refuse, greet, time out, shut down | emulators; the running game |
| game service | `server/fs_uae_netplay_server/service.py` | pool of ports, table of game processes | create a game (HTTP), watch the process, give the port back | one server process per game |
| emulator, netplay | `libfsemu/src/emu/netplay.c` | socket, send mutex, last frame signalled, connected/enabled flags, netplay input queue | connect/retry/abort, receive thread, wait for a frame, send inputs, checksums and texts, disconnect | server; emulation thread; GUI |
| dialogs, console | `libfsemu/src/emu/{dialog,hud,emu}.c` | the dialogs shown, their results, the GUI lock | show, dismiss, destroy, warn | netplay, user's thread |
| video buffers | `libfsemu/src/emu/{video,render}.c`, `libfsemu/src/ml/render.c`, `src/fs-uae/video.c`, `src/od-fs/video.cpp` | three frame buffers; which is current, which is locked, which is next; two condition variables | draw, copy unchanged lines, hand over, choose the next buffer, lock, upload, swap | emulation thread and video thread |
| audio streams | `libfsemu/src/emu/audio.c`, `src/od-fs/{audio,cda_play}.cpp`, `src/blkdev_cdimage.cpp` 352-564 | free and queued OpenAL buffers, fill statistics, pitch controller; two buffers and a play flag of a CD | queue a buffer, unqueue, wait for a buffer, take a sample, stop a CD | emulation thread, CD thread, OpenAL |
| input queue, actions | `libfsemu/src/emu/{input,actions}.c` | queue of input events under a mutex | post, take | user's thread, emulation thread, netplay |
| menu, theme, fonts | `libfsemu/src/emu/{menu,font,...}.c` | menu stack, textures | draw, navigate | video thread |
| window and main loop | `libfsemu/src/ml/sdl.c`, `libfsemu/src/opengl.c` | window, GL state | SDL event loop | everything above |
| base library | `libfsemu/src/*.c` | - | wrappers of GLib and SDL threads, lists, configuration files | - |
| front end | `src/fs-uae/*.c` | configuration, static frame number | per-frame event handler, which calls netplay and applies inputs | core, libfsemu |
| Amiga chips and CPU | `src/{custom,newcpu,cia,blitter,disk,audio,drawing}.cpp` | registers, event table | one thread advances all of it by cycles | - |
| CD and SCSI controllers | `src/{akiko,cdtv,a2091,gayle,blkdev}.cpp` | register files; a drive thread each | register access, drive commands, interrupts | core, host drives |
| pipes between threads | `src/include/commpipe.h` | a ring of words, two flags for who waits, three semaphores | write a word, read a word, waiting if need be | the threads of file systems, hard files and devices, the emulation thread |
| host threads and the Amiga | `src/native2amiga.cpp`, `src/include/native2amiga.h`, `src/filesys.{cpp,asm}`, `src/hardfile.cpp` | an interrupt-request word shared with the A2091; per unit: the process's port and queue, commands sent, acknowledged, completed, waiting record locks | a process in the Amiga hands packets to a thread of the host, which marks them and has an interrupt put one message in the port; signals, expiring records, resets | core |
| save states, input recording | `src/{savestate,inputrecord}.cpp` | - | serialise every chip's state | core |
| configuration | `src/cfgfile.cpp`, `src/od-fs/uaemisc.cpp` | options | parse, default | - |
| generated and vendored | `src/gen`, `src/jit*`, `src/prowizard`, archivers, libcapsimage, GLee, the launcher and packaging | - | - | - |

`PROJECT.json` lists every one of them with its status.

### Which behaviours are hard

* **Lockstep.** Frames and inputs of all players pass through one server with
  several threads, per-player buffers that are flushed at different times, and
  per-emulator queues filled by one thread and drained by another. Every
  emulator must apply the same inputs in the same frames, with nothing shared
  but those streams.
* **Stale reads.** The game loop looks at frame numbers and checksums that
  receive threads write with no common lock, and reuses ring slots.
* **Failure.** A player's process ends, a connection is reset, the operator
  interrupts the server, a broadcast raises half way through the players.
* **Stopping.** Threads that block in `accept`, `recv` or a condition variable
  have to notice that it is over.
* **Two locks and several threads** on the way into and out of a game: the GUI
  lock and the connection mutex, neither recursive, are taken by the netplay,
  receive, emulation and user's threads.
* **TCP** hands out any part of a message, while several threads send.
* **Three buffers, two threads, lossy signals**: the video thread locks a
  buffer whenever it likes; signals are lost if nobody is waiting, and every
  wait has a timeout.
* **A pipe that skips its lock** when the other side sleeps, and whose sleepers
  do not look again when they are woken.
* **A machine inside the machine.** The threads of a file system work for a
  process that the emulation thread executes, and reach it through a word that
  is read and written without a lock, an interrupt that may come at any moment
  or not be for us, counters of three threads and a list field written by one
  side and scanned by the other. The inner machine can be reset at any point of
  its program while the outer threads go on.
* **A device that runs dry.** A source that has played everything stops by
  itself; whoever queues the next buffer must notice and start it, while two
  threads take back what was played.

### What makes each part correct

* running game: same inputs in the same frames for everybody; no frame
  emulated on part of its inputs; the server never too far ahead; checksums
  of different frames never compared; the game goes on; its end is noticed;
* seating: a seat for each player of one version, none after the start;
  all tags before the first frame; a game that was stopped, or never started,
  ends;
* connecting and disconnecting: no dialog left over a running game, all
  threads off together, no circle of locks, an abort is an abort;
* framing: messages whole and in order, nothing left in a buffer, no healthy
  connection given up;
* video: whole pictures, in order, none drawn while it is shown, the newest
  one shown in the end;
* pipes between threads: nothing lost or reordered, no slot read before it is
  written, no sleeper left behind;
* host threads and the Amiga: every packet answered once, when it has been
  carried out, and in the end; the one message of a unit never in a list twice;
  nothing waits for room in a pipe that it must empty itself;
* audio: each OpenAL buffer in exactly one place; what is queued is played; a
  CD neither drops data nor hangs; the statistics are those of the last samples;
* game service (planned): each port in the pool or in use, none lost.

## 2. The modules

| module | models | abstract / composes |
|---|---|---|
| `Lockstep` | what a netplay game promises | abstract specification |
| `NetplayLink` | the TCP connections of a running game | shared by the next two |
| `NetplayServer` | game loop, receive threads, broadcast | EXTENDS `NetplayLink` |
| `NetplayClient` | receive thread, emulation thread, user's input | EXTENDS `NetplayLink` |
| `Netplay` | server, emulators and connections together; the properties | composes both, implements `Lockstep` |
| `MCNetplay` | the same with a stutter step where a bounded run has come to its end | for TLC |
| `NetplayProofs` | theorems about `Netplay`: types, drift, frame marks; players agree, `Lockstep` is implemented; checksums of one frame are compared; no circular wait | EXTENDS `Netplay` |
| `NetplaySession`, `MCNetplaySession` | the life of a server process: seating, start, stop | |
| `NetplaySessionProofs` | theorems about `NetplaySession` | EXTENDS it |
| `NetplayConnect` | how an emulator gets into a game and out of it | |
| `NetplayConnectProofs` | theorems about `NetplayConnect` | EXTENDS it |
| `MessageStream` | what a connection, or a pipe, promises in one direction | abstract specification |
| `NetplayFraming`, `MCNetplayFraming` | messages as bytes on a TCP stream, in both directions | implements `MessageStream` |
| `NetplayFramingProofs` | that it does, proved | EXTENDS `NetplayFraming` |
| `FrameStream` | what a player may expect of the video output | abstract specification |
| `VideoBuffers` | the three buffers and two threads | implements `FrameStream` |
| `VideoProofs` | theorems about `VideoBuffers` | EXTENDS it |
| `CommPipe`, `MCCommPipe` | a pipe of words between two threads | implements `MessageStream` |
| `CommPipeProofs` | theorems about `CommPipe` | EXTENDS it |
| `PacketService` | what a file system promises the Amiga's programs | abstract specification |
| `Native2Amiga` | the interrupt word, the interrupt server, signals, the reset of both | used by the next |
| `FilesysHandler` | the process of a unit, its thread, record locks, resets | EXTENDS `Native2Amiga`, implements `PacketService` |
| `MCFilesys` | the emulators of the runs | for TLC |
| `FilesysProofs` | theorems about `FilesysHandler` | EXTENDS it |
| `AudioStats` | the statistics of a stream | used by the next |
| `AudioStream` | the buffers of a stream, its two threads and the device | EXTENDS `AudioStats` |
| `AudioProofs` | theorems about `AudioStream`: types, statistics, where each buffer is, the CD's turns | EXTENDS it |

Definitions keep the names of the source where TLA+ allows it; `map` in
`PROJECT.json` gives the lines of each. Beside some definitions stands a second
one of the same parameters that is not used (`WrittenOutOfOrder` beside
`Written`, `AnyNext` beside `NextBuffer`): it is what the definition would be
with a plausible bug in the code. `mutants` in `PROJECT.json` says which
property fails with which of them, so that every property is known to depend
on the code.

### The running game: `NetplayServer`, `NetplayClient`, `Netplay`

*State.* `frame`, `verified`, `stop`, `clientFrame`, `memcheck`, `messages` are
the attributes of `Game` and `Client` with nearly those names; `gpc` is the
line the game thread is at, `idx`, `oldest` and `seen` are its locals. In the
emulator `gframe` is `g_frame`, `queue` is `g_input_event_queue`, `eframe` the
event handler's static frame number, `epc` the position of the emulation
thread. `hand` is the frame whose sentinel has been queued while `g_frame` has
not been set yet: the two statements of `handle_message` are two steps.
`log`, `compared`, `applied` and `sums` are history, read by no guard of the
modelled code.

*Atomicity.* A loop over `game.clients` holds `game.lock`, but the receive
threads write `Client.frame` and the check rings without it. So every
iteration of `__check_frame_status` and `check_synchronization` is a step
(`ScanClient`, `CollectCheck`, `RescanClient`), and a receive thread may run
between any two. A broadcast runs under the lock and reads nothing the others
write without it: it is one step, which chooses the player at whose socket it
raises (`CutAt`). `ReceiveInput` needs the lock (`LockFree`).

*Loss.* A player's process may end at any step (`Quit`). The first data that
reaches its closed socket resets the connection (`Reset`); from then on reads
and writes of the server on it raise. A receive thread that raises sets `stop`;
a game loop that raises sets `stop` and ends (`LoopRaised`). An emulator that
writes to a socket that the server has closed is told by `send`, or is ended by
SIGPIPE, which nothing ignores (`BrokenPipe`), or is told nothing.

*Checksums.* What is compared is the state of the emulated machine. All that
matters is whether it is the common one, so the checksum is 0 until the
emulation of that player has diverged, and the player's own number plus one
afterwards. The server's two rings are filled and read by the same statements
and are one variable.

*Bounds:* `MaxFrame` (frames closed by the server), `MaxInputs` (input events
in all). The drift and the ring are the code's parameters, at small values: the
code has `max_drift` 25 and rings of 100 slots; what the properties depend on is
that the ring is longer than the drift allows, which is the same with 2 slots
and a drift of 0, or 2 slots and a ring that has not yet wrapped.

### Seating: `NetplaySession`

One variable per thread says where it is; `clients` is `Game.clients`, `sent`
the messages queued for each connection, in order. `Seat` is `add_client` for a
new player, under `game.lock`, together with `start` for the last one; `Greet`
and `SendTags` are what the thread of the connection does afterwards without
that lock, which is where it races with the game thread (`GameTags`,
`FirstFrame`). `SeatAgain` gives a seat to a returning player; the key it needs
is known to whoever was told it (`KeyKnown`). The running game is
reduced to the first frame and the reaction to a stop. A connection's header
asks for a new seat, for an old one with or without its key, or for none (a
check of the server, or a header cut off, which raises). A thread that is reading
inputs may raise too, when its connection is reset or an input's broadcast meets
a player who has gone, and stops the game (`LoopRaises`).

*Bound:* `NumConns` connections, numbered as they are accepted.

### Connecting: `NetplayConnect`

Four threads, each with a position in `pc`: the netplay thread (`CreateDialog`
to `StartReceiving`), the receive thread, the emulation thread up to its first
frame, and the user's thread, which also draws. `gui` and `mutex` are the two
locks, with their holders. Code that takes the GUI lock and no other lock inside
is one step that needs the lock free. `fs_emu_netplay_on_disconnect` is written
once (`OnDisconnect`) and used by the three threads that call it. Some of its
callers warn before they call it (`WarnFailure`): `send_bytes`, and
`handle_ext_message` when an error arrives. It clears `enabled` and `connected`
in two steps (`GoOffline`), between which other threads test the flags, as they
do without the mutex. `broken` tells a receive thread whose `recv` has failed,
and which ends, from one that goes on receiving after it has disconnected.
The user's thread sends inputs (`SendInput`) with the GUI lock free, or from an
item of the menu, with the GUI lock in its hands from `fs_emu_menu_function`
(`menu.c:124`) on. A send may fail (`SendFails`), and then it warns, with the
lock or without. The emulation thread, which announces frames, has it never
then; after it has played online it goes offline at a later frame (`NextFrame`).
`dismiss_waiting_dialog` is two steps, because it tests the dialog before it
takes the lock. The mutex of the frame condition has no variable: the
emulation thread holds it exactly while it is awake in that wait. There is no
bound: the model is finite.

### Framing: `NetplayFraming`

A message is four bytes, then the bytes of a text if it has one. A byte is
modelled as its message and its place in it, so that any mixture of two
messages can be told from both. `side` is chosen once: the stream to the
server (several threads under `g_send_mutex`, a text in two sends) or to an
emulator (the server appends a message to a client's queue at once). A read
takes any number of the bytes there, up to what was asked for. The receivers
are different: the server counts what it has of a word, the emulator looks only
at what the last call returned.

### Video: `VideoBuffers`

A line of a picture is represented by the number of the frame that drew it.
Drawing a line, copying the lines that were not drawn, waiting, making the
buffer current, signalling and choosing the next buffer are separate steps of
the emulation thread; locking, uploading each line, swapping and unlocking are
those of the video thread. `mode` is chosen once: full sync (the emulation
follows the display), vblank (only the display does), off (the display follows
the emulation). A signal does something only if the other thread is waiting.
Every wait may time out at once: timeouts of 40 and 3 ms are not counted.
*Bound:* `MaxFrame` frames are emulated. The proofs need no bound.

### Pipes: `CommPipe`

*State.* `data`, `rdp`, `wrp`, `readerWaiting`, `writerWaiting`, `chunks` are the
fields of `smp_comm_pipe`; `lock` names the holder of the first semaphore,
`readerWait` and `writerWait` count the posts to the other two. `writer` and
`reader` are the positions of the threads in `write_comm_pipe_pt` and
`read_comm_pipe_pt_blocking`. `accepted` and `delivered` are history: they are
what `MessageStream` is about.

*Atomicity.* On the writer's path without the lock (`Store`, `Advance`,
`MaybeWake`, `Post`) every access to a shared field is a step. With the lock in
its hands a thread's accesses are one step, except `PipeEmpty`, which sets the
flag that the writer tests without the lock. A wait on a semaphore and the lock
that is taken after it are two steps. Memory is taken to be sequentially
consistent. The compiler may order `Store` and `Advance` otherwise, since only
the positions are volatile; nobody can tell, because the reader sleeps until it
is posted (that is what the invariant of the proof says of these positions).

*Who uses it.* One thread reads; threads that write the same pipe exclude each
other by a semaphore of their own (`native2amiga.cpp:25`), so one writer stands
for all. Callers that ask `comm_pipe_has_data` first simply never sleep. The
resets that clear the positions are not part of this module
(`native2amiga_reset` is in the next one). The pipes in use have 10 to 100
slots and chunks of 1 to 3: all of them satisfy `PipeAssumption`.
*Bounds:* `Outgoing` is what is written. The proofs hold for any.

### File systems: `Native2Amiga`, `FilesysHandler`

*The way of a packet.* A program sends it to the port of the unit's process
(`SendPacket`). The process (`FSML_loop` in `filesys.asm`) takes it from the port
and either hands it to the host (`HandOver`: status 0, three words in
`unit_pipe`) or, if 20 are under way, marks it with 1 (`HoldBack`), and puts it in
its queue (`Enqueue`). The unit's thread reads it (`ReadPacket`), carries it out
and marks it (`MarkDone`: -1), counts (`CountSent`: `cmds_sent`) and sets a bit
(`AskForInterrupt`). The interrupt server sees the bit (`EnterServer`), clears it
(`ServerClears`), and puts the unit's dummy message in the port if it is not there
already (`NeedsMessage`, `DeliverDummy`: `cmds_acked`). The process gets it
(`GetDummy`), gives it free (`ReleaseMessageLock`: `cmds_complete`), and replies all
the marked packets of its queue (`ReplyOne`, `CheckNext`).

*Record locks.* A packet that must wait for a record (`WaitForRecord`) is marked
when another packet frees it (`FindFreeRecord`, `GrantRecord`), or with -2 when its
time is over (`FindExpired`, `ExpireRecord`), upon which a signal wakes the
process (`DeliverSignal`, `WakeUp`), which then looks for -2. Which packet frees
which record is left open: any.

*Two ways to run.* In `mode` "threads" a unit has a thread; in "synchronous" the
emulation thread does the work at a line's end (`SynchronousIteration`), in one
step because nothing else runs meanwhile. The mode, whether `rethink_a2091` leaves
the interrupt word alone (`cdtvscsi`: it does only on a machine with the CDTV's
SCSI, whether there is an A2091 or not) and whether records are locked with a
timeout are chosen at the start from `Setups`.

*Atomicity.* The reads and writes of `uae_int_requested` are separate steps of
every thread that makes them (`ReadBits`, `WriteBits`); so are the tests and the
marks of a thread. `emu` is the function of the emulator which the emulation
thread is in; while it is in one, neither the Amiga's program nor the server
goes on. The server interrupts the program: while `server` is not "out" the
processes stand still (`AmigaRuns`). The field a thread marks is written once and
read once per scan. Memory is taken to be sequentially consistent, and a packet
handed over as one message: words and waiting are the matter of `CommPipe`.

*Reset.* `reset_all_systems` comes at any point of the program (`BeginReset`),
sends each thread the death message and waits for it (`SendDeath`; a thread that
is to go down drops what it reads, `Begin`), and then starts afresh (`Restart`).
*Bounds:* `maxSends` packets sent, `MaxRethinks` writes of INTREQ by the program,
`MaxResets`. `UnitPipeSize` and `MaxStarted` are 100 and 20 in the code.

### Audio: `AudioStats`, `AudioStream`

*State.* `free` is `queue`, `queued` is `buffers_queued`, `mutex` the stream's.
`source`, `played` and `state` are OpenAL's: the names queued, how many of them
have been played, and AL_SOURCE_STATE. `pc` is where the filling thread is
and where the emulation thread is in `fs_emu_audio_video_sync`, which it calls at
every picture for both streams (`video.c:253`, 644; position `video`); for stream
0 these are one thread, and it does the one between calls of the other. `old` is the local `old_buffers` between the two OpenAL calls
of `unqueue_old_buffers`, `hand` the buffer being filled. `ids` and `bufnum` are the
two buffers of `cda_audio`, `cddaPlay` is `cdda_play`. `fill`, `pos`, `fillSum` and
`fillMin` are the fields `fill_stat_buffer...`; a sample counts buffers, where
the code multiplies by their size.

*Atomicity.* The source is played by the device at any moment (`PlayBuffer`), so
every OpenAL call is a step: reading the number of played buffers (`CountOld`),
unqueuing them (`UnqueueOld`), queuing, reading the state (`CheckState`), starting
(`Play`). What the free queue and the count do under the mutex is one step that
needs it.

*OpenAL* is modelled by its specification: a source that has played its last
buffer stops, and of a stopped source all buffers count as played. Whether this
includes those queued since is left open (`Processed`), since implementations
differ. `alSourcePlay` on a source that is not playing begins at the head of its
queue. Unqueuing more than have been played fails and returns nothing.

*`raced`.* The last two make trouble together: when the filling thread starts the
source, that of a CD, between the two calls of the emulation thread's
unqueuing, the unqueuing fails, what was on the stack joins the free queue, and the count is wrong. The
code does not exclude it, and the model has the step; `raced` records that it
happened, the properties speak of what comes before, and calls are looked at
no further after it (`CanCall`).

*The thread of a CD* waits for the turn's buffer (`CdLoop`, `CountOld`, `Look`),
fills it with the next piece (`PlayPiece` to `Return`), or, when it is stopped or
at a data track, waits for both and ends (`SkipTurn`, `LeaveLoop`, `EndCd`).
*Bound:* `MaxCalls` calls of `fs_emu_queue_audio_buffer`. The proofs need none.

## 3. The runs

| run | question | instance | result |
|---|---|---|---|
| `lockstep` | is every step of the game a step of `Lockstep`; is the sentinel always queued before the drain; do emulators agree, also while the game comes down; does the server ever wait for a player that waits for it | 2 players, 2 inputs, 1 frame, drift 1, buffers flushed at 2 messages; interrupt at any time; player 1 may leave at any time | holds, 2.1 million states |
| `desync` | drift bounded; only checksums of the same frame compared; the game plays on; a difference that is found reaches everybody | 2 players, 3 frames, ring of 2 slots, drift 0; player 1 may diverge at any frame; nobody interrupts or leaves; fair | holds, 33 thousand states |
| `session` | seats, tags and the end of started games | games of 1 and 2 players, 2 connections, all headers, timeout, interrupt, leaving; fair | holds, 242 thousand states |
| `connect` | dialogs, flags and locks through connecting, aborting and losing the connection | all of it: both Aborts, inputs sent with and without the GUI lock, failures at any time; fair | holds, 20 thousand states |
| `abort` | does Abort in the waiting dialog let the user play offline | nothing is lost; fair | **violated** |
| `framing` | whole messages in order; nothing left over | two threads, words and texts of 1 and 3 bytes, both directions, all cuts; fair | holds, 4.2 thousand states |
| `frames` | whole pictures in order, none drawn while shown, the newest shown | 2 lines, 4 frames, all three modes; fair | holds, 840 thousand states |
| `pipe` | whole words in order, nobody woken for nothing or left asleep, every word read | ring of 4 slots, chunks 1 to 3, 8 words in commands of 3 and 2; fair | holds, 1.4 thousand states |
| `filesys` | packets replied once and in the end, none forgotten, no wake-up lost, the message sent once at a time, no wait for room | one unit, 3 packets of which one locks a record, 2 under way, one reset; threads without `rethink_a2091` and timeouts, 3 sent; synchronous with both, 2 sent; fair | holds, 367 thousand states |
| `lostbit` | is a packet that was carried out replied when a device shares the interrupt word | one unit with its thread, no SCSI of a CDTV, INTREQ written once; fair | **violated**, section 6 |
| `unstarted` | is a packet that was held back carried out later | 2 packets, 1 under way; fair | **violated** |
| `audio` | buffers whole, queued ones played, CD data not dropped, a CD ends, statistics exact | 2 buffers, 3 calls, ring of 3 samples, window of 2; emulation and CD; fair | holds, 390 thousand states |

What is asked, and where it could go wrong:

* `SentinelInStep`: `netplay.c` ends the process with `exit(1)`, "should not
  happen..", when the queue holds another frame's sentinel. It also drains to
  the end of the queue if there is no sentinel, which would emulate a frame on
  part of its inputs. Neither happens, because the receive thread queues before
  it signals, and because nothing is closed before the slowest player has
  announced.
* `Agreement` and `LockstepRefinement`: the inputs applied by any two emulators
  are prefixes of one another, and the whole is an implementation of a single
  log: nobody applies an input when it is sent, the order of inputs of two
  receive threads is the same for all, a flush of one player's buffer reorders
  nothing. With an interrupt and a leaving player this includes broadcasts cut
  off half way.
* `DriftBounded`: the bound is `max_drift + 1` whatever the interleaving of
  the scan with the receive threads: `__check_frame_status` may work on old
  numbers, but old numbers are smaller. It is proved for all values (section 5).
* `ComparisonExact`: when all the slots of a frame have been collected, each
  player has computed the checksum of that frame, and they are equal exactly if
  the checksums are. The instance is the tightest: a ring with two slots, used
  twice.
* `NoCircularWait`: the drift loop waits for players to announce frames, players
  wait for frames the loop holds back. In no state, of a fair behaviour or not,
  of a game that lasts or one that comes down, does a player wait for a frame
  that is not on its way while the server lacks an announcement of it that is
  not on its way either. It is what `GamePlaysOn` rests on. The run checks it
  with players that wait for one frame too many as its mutant.
* `GamePlaysOn`: the drift loop waits for players who wait for the frame it
  holds back. In every fair behaviour in which the game does not end, all
  players get through all the frames.
* `DesyncIsTold`: when the comparison of the checksums finds a difference, every
  player is offline in the end: the error goes to each of them behind what is in
  its buffer, and reaches it in its wait for a frame or out of it. This is stated
  of games that nothing but their own loop has stopped. It says nothing of a
  difference that is never compared (`CannotCheckYet` counts the frame as
  verified), nor of a game that is interrupted or loses a player: there a
  broadcast may raise, the loop ends, and players are told nothing (section 6).
  The mutant raises without telling.
* `Seating`, `TagsBeforeFrame`, `StartedGameStops`: see section 2; the
  interesting case of the second is that the last player is still being greeted
  while the game has started.
* `NoDialogWhilePlaying`, `AbortConnectPlaysOn`: the dialog is shown before the
  first frame can come, and whoever aborts plays offline, unless the attempt that
  is under way succeeds.
* `FlagsAgree`: the emulation thread polls for `connected` or not `enabled` at its
  entry, without a lock. A connection may be made and lost between two of its
  looks, and the flags are cleared one after the other: were it `connected` first
  (the mutant), there would be a moment, or with a lost thread for ever, in which
  the poll finds neither. In the order of the code, `connected` without `enabled`
  can be seen, and only between the two writes of the thread with the mutex. The
  branch for it in `fs_emu_netplay_on_disconnect` is therefore never taken.
* `DisconnectEnds`: three threads may disconnect at the same time, each with two
  warnings that need the GUI lock while the mutex is held, and a warning before
  them. They do not wait for each other in a circle. A thread may wait for itself
  (`WaitsForItself`), for the GUI lock that it has; that is what the code does in
  two places (section 6), and the property excepts it.
* `StreamRefinement`, `AllArrive`: see section 2. An emulator that has given up
  a sound connection (section 6) has still handled a prefix.
* `NeverDrawnWhileShown`: the next buffer is chosen without knowing what the
  video thread is about to lock. It holds because the video thread only ever
  locks the current buffer.
* `FrameStreamRefinement`, `NewestIsShown`: torn pictures, lines two frames old,
  frames that go backwards, and a last frame that never appears because its
  signal was missed.
* `WokenInTime`: the code tests for room or data once, sleeps, and goes on
  without a second look. It holds because a post is made only by the other
  thread, only for what has been waited for, and only once per wait. If the
  reader forgot to clear `writer_waiting`, the next reads would post again and
  the writer's next wait would end at once, with the ring still full.
* `SleepsForAReason`: a lost wake-up is a state, not only the absence of an end:
  a thread asleep, nothing posted, no post to come, and yet something to do. The
  reader may sleep while fewer than `chunks` words lie in the pipe, if none of
  them was written with `no_buffer`; the writer while the pipe is full; and both
  together never.
* `PipeRefinement`: every step of the pipe is one of `MessageStream` or none.
* `AllRead`: the post may come before the wait ("That's harmless", line 81), the
  reader may announce that it waits after the writer has looked, and words fewer
  than `chunks` wake nobody: the last word of a command must, whatever came
  before.

* `ServiceRefinement`: a packet is replied once and not before it was carried
  out, whatever scans, expiring records and resets come between; `NoneForgotten`
  adds that a packet marked as started is always with its thread.
* `MessageLock`: the dummy message is one node of a list. That it is not put in
  a list twice depends on `cmds_sent`, which the thread raises, `cmds_acked`,
  which the server raises, and `cmds_complete`, which the process raises.
* `StartedIsAnswered`: a mark that comes just after the scan, a bit set just
  before the server clears it, a message that is not sent because the last is
  still in the port: each time something else must bring the process back. The
  server clears the bit before it looks, and the process frees the message
  before it scans; the mutant clears it at the end instead. `NeverNotEnough` says
  of every state what that something is: the thread is about to count, the
  server to come to the unit, the message or a signal is there, or the scan is
  still before the packet.
* `PipeNeverFull`: the emulation thread would wait for a thread that may wait for
  it. With 20 packets of three words under way there is room for a death message.
* `BuffersWhole`: two threads unqueue, and the one that fills works outside the
  mutex.
* `QueuedComesBack`, `StopEnds`: a buffer may be queued just as the source runs
  dry; then it is stopped with a buffer in its queue, and must be started by the
  thread that queued it, since a CD queues no more before it comes back.
* `CdNeverDrops`: the CD takes turns with two buffers, and its pieces would be
  dropped without a word if it asked for the wrong one.
* `SumExact`, `NeverLogged`: the code updates a sum and a minimum with the sample
  that leaves, found by a position of its own, and logs an ERROR if a smaller
  sample had been overlooked.

### Are the bounds enough?

Two players are the smallest number for which anything can disagree, and the
code treats players alike except for the order of its loops, where both first
and last occur. Two inputs give two orders and a buffer that fills. One frame
closed together with the attempt at the next gives a frame's inputs before and
after the mark; three frames with a ring of two wrap it. Two connections for a
game of one or two players give a late joiner, a refused version, a full game, a
returning player and a race for the last seat. Two lines are enough for a
picture of two frames. Four frames over three buffers use each and one of them
again. What goes beyond these bounds is covered by the proofs (section 5) for
all the safety properties: of the running game, of seating, connecting and
framing, of the video buffers, the pipe, the file systems and the audio stream.
`NetplayConnect` has three switches for constants; with all of them on, as in the
run, it is finite, so TLC has explored it wholly. A ring of four slots, three of
which can be filled, is the smallest in which a command of three words just
fits; eight words go round it twice, and every value of `chunks` that fits is
taken.

Units of the file system share only the interrupt, its bit and the pointer that
goes through them; with one unit all of these are used by the thread, the server
and the Amiga. Three packets with a limit of two give a packet held back behind
one under way, and one sent while another is scanned. In the passing run
the threads meet neither `rethink_a2091` nor running timeouts, because the code fails
there: on the word (`lostbit`), and on the list of waiting records, which
`record_timeout` cuts while the thread walks it. In synchronous mode, which knows
neither race, both take part. A reset inside the interrupt server is left out of
the runs (`ResetInServer`), since it leaves `singlethread_int_sem` taken and
nothing is answered any more. `NoInterruptLost` is proved with all of it, and
says what it is that loses an interrupt. Two buffers are the fewest a CD needs; three calls
use one of them twice. A ring of three samples with a window of two wraps
while the window does.

### Fairness

* Threads run: weak fairness of each thread's steps. The operating system's
  scheduler gives no less.
* Locks are awaited fairly: strong fairness of the steps that need a lock which
  another thread takes again and again (`ReceiveInput` against the drift loop,
  all threads of `NetplayConnect`). The code justifies it by sleeping outside
  the lock each time: 20 ms in the drift loop, 100 ms in the waits of
  `netplay.c`, a frame's time in the drawing.
* TCP delivers and reports a reset in the end (`Reset`).
* The video thread and the emulation thread run, but no line need be drawn.
* The writer and the reader of a pipe run. Neither can keep the lock from the
  other for ever: alone, the reader soon finds the ring empty and the writer
  full, and sleeps. So weak fairness is enough.
* The threads of the file system run. The emulation thread executes the
  processes' code, raises the interrupt at a line while the bit is set
  (`custom.cpp`), comes to the next vertical blank, and leaves each function it
  is in. All of it is weak: the bit stays set until the server takes it. That
  programs write to INTREQ, send packets, free records or reset the machine is
  not assumed, so `StartedIsAnswered` excepts packets that wait for a record.
* The thread that fills a stream finishes its call, the emulation goes on from
  picture to picture, the device plays. That the emulation queues more is not assumed, nor
  that anybody stops the CD.
* Nothing is assumed of people and of the network's quality: no user presses
  anything, no connection is made, no player leaves and no message is lost *of
  necessity*. Only an emulator that has been told of an error leaves, as its
  code does.

## 4. What deadlock means

`MCNetplay` is checked for deadlock: a standstill is one unless all frames of
the bounded game are played or the game is over and everybody knows. The other
models do come to rest (a server that waits for players, an emulator that plays,
a stream that is empty), so their runs do not check it. What must not stop
there is a liveness property.

## 5. What is proved

**`NetplayProofs`** (for every number of players, `max_drift`, ring size, buffer
size, number of frames and inputs; assumptions `NumClientsAssumption`,
`ServerAssumption`, `ClientAssumption` on the constants, nothing else):

* `TypeCorrect`: `Spec => []TypeOK`. Types are inductive as they stand; the
  proof has a lemma for each helper (`SendType`, `SendUpType`, `ProceedType`)
  and one each for the game loop, the receive threads and the emulator.
* `DriftBound`: `Spec => []DriftBounded`. `frame <= clientFrame[p] + MaxDrift +
  1` is not inductive: `Tick` raises `frame`, and what has been established at
  that point is the result of a scan that may be old. The invariant needed is
  `DriftInv`:
  * `ScanSound`: what the scan has in `oldest` is no more than what any player
    already visited has announced *now*; hence, when the loop is back at its
    head or about to tick, the server is within `MaxDrift` of everybody;
  * `AnnouncedInOrder`: for that to stay true `clientFrame` must never decrease.
    It is overwritten with whatever arrives, so the messages on the way have to
    be in increasing order and above it, and the frame a player is about to
    announce above those. `TakeAnnounced` and `AddAnnounced` are the two ways in
    which the queue changes;
  * `DriftBounded` itself.
* `SentinelsInStep`: `Spec => []SentinelInStep`. A statement about one queue at
  one moment follows from where every frame mark of the game is (`OrderInv`).
  `Run(s, lo, hi)` says that the marks in `s` are `lo .. hi`, in order. Then the
  log is a run `1 .. frame`; what a player has applied ends with the mark before
  the one it is at, its queue is a run from there to the last it was sent
  (`Received`: the one in `hand`, else `gframe`), and the connection is a run
  from the next to `frame`, or to some earlier one when the game has come down
  (`LoopOver`) and broadcasts were cut off. Buffers hold no marks, because `Tick`
  forces its broadcast. `RunOther` to `MoveHead` are the lemmas about runs that
  are extended, cut and joined.

* `PlayersAgree`: `Spec => []Agreement`. Two players agree because both have a
  part of the log. That needs more than `OrderInv`, since a broadcast that is
  cut off at one player loses inputs to the others (`FedInv`): whatever precedes
  a mark in what a player has applied, has queued and has on the way (`Stream`)
  is the log; so what was lost is never followed by a mark, and is never
  applied as part of a frame. While nothing is lost, `Stream` and the player's
  buffer make up the whole log. Errors come last, and no mark follows them.
* `Implements`: `Spec => LockstepRefinement`. `Tick` is `CloseFrame`,
  `ReceiveInput` is `Submit`, `EmuCheck` is `Announce` and `EmuDrain` is
  `Apply`; all else stutters. That `Tick` may close a frame comes from
  `DriftInv`, by way of `SumsInv`: no player has announced more frames than it
  has computed checksums for. `FramesOf` relates the marks `Lockstep` counts in
  the log to the server's counter.
* `ChecksCompared`: `RingLongEnough => (Spec => []ComparisonExact)`, for a ring
  longer than `MaxDrift + 1`; the code has 100 slots and a drift of 25. The check
  that is read is filed under the frame that was announced last, and its slot
  is read by another thread without the lock, so it must be known which frame
  every slot is for. `ChecksInStep`: what a player has sent and the server has
  not read (`Sent`) are the announcements of the frames after the last counted,
  in order, and before each of them the checksum of the frame before it, unless
  that has been read and filed already (`from`). `CheckRead`, `FrameRead`,
  `CheckSent` and `FrameSent` are the ways in which that changes. `RingHolds`:
  the ring has the checks of the last `RingSize - 1` frames; a check that is
  filed replaces one `RingSize` frames older (`SlotsApart`). `VerifiedInv`: the
  frame to be compared is at most `MaxDrift + 2` behind the server's, which no
  player is ahead of (`BehindServer`); so its slot is still there when it is
  collected (`CollectedHolds`). `CollectInv`: what has been collected are the
  checksums of that frame, which do not change any more (`SumsStay`).
* `NoDeadlock`: `Spec => []NoCircularWait`, without a condition on the ring. A
  player that waits, with no frame mark on its way to it (`NoMarks`), has been
  sent the server's last frame, because what is on the way is a run that ends
  there (`OrderInv`, `RunWithoutMarks`). So it has computed the checksums of all
  frames closed; what it has sent and the server has not read are the
  announcements up to that number (`ChecksInStep`), and there are none: the
  server has read them all.

**`NetplaySessionProofs`** (any number of players, any connections, whatever
they say first; the assumptions of `NetplaySession`):

* `SeatsAreRight`: `Spec => []Seating`. Everything is said of connections that
  are in `clients`; that one enters only with the version of the game, or sets
  it, and that the list is never longer than the game is large (`SeatInv`),
  depends on the lock around the whole of `add_client`. `SeatedNew` and
  `SeatedAgain` are the two ways into the list.
* `TagsComeFirst`: `Spec => []TagsBeforeFrame`. The thread of a connection greets
  its player and sends it the tags known so far, without the lock; the game
  thread may be faster. What orders the two is that the game thread sends the
  tags to all itself before it broadcasts a frame, and that nobody takes a seat
  as a new player once it exists (`TagInv`). `Sending` is the lemma about a
  broadcast.

**`NetplayConnectProofs`** (any position of the three switches, which say what
the user may abort and whether the connection may be lost; no assumption):

* `PlaysWithoutDialog`: `Spec => []NoDialogWhilePlaying`;
  `FlagsHold`: `Spec => []FlagsAgree`. One invariant serves both.
  `HolderInv`: a thread is between taking and giving back the connection mutex
  exactly if the mutex is its own. `OnlineInv`: once the netplay thread has
  decided, it is connected or not enabled; connected without enabled only while
  some thread is between its two writes; and a thread that is about to clear
  the flags with the mutex in its hands finds them set, although it tested
  before. `DialogInv`: the dialog is shown before the receive thread exists, so
  no frame has been received until then, and the emulation thread, which takes
  it away when it has been through its wait, plays after both. That the emulation
  thread disconnects at two points, in its wait with the GUI lock and later
  without, is why the invariant has to say which of the two it is in (`Plays`).
  `DisconnectStep` is the lemma about `on_disconnect`, used for each of the three
  threads that call it.

**`NetplayFramingProofs`** (any set of sending threads, any messages with texts
of any length; the assumption of `NetplayFraming`):

* `WholeAndInOrder`: `Spec => StreamRefinement`. What is accepted and not yet
  delivered must be in the bytes that are on their way, some in the reader's
  hands, some on the wire, some still with a sender (`Coming`). An invariant that
  cuts these bytes into messages would be an induction over data. Instead
  `Carried` says that there are offsets: one for each message not delivered, the
  first where the reader is, each the one before plus the size of its message,
  the last at the end of `Coming`, with the bytes of the message in between.
  Sending a message adds an offset at the end, delivering one takes away the
  first and moves the others down; all other steps move bytes from one part of
  `Coming` to the next. `ReadInv` says what the reader has, in the first word and
  in the text, of the message it reads.

**`VideoProofs`** (any set of lines, any number of frames, all three modes):

* `VideoTypes`: `Spec => []TypeOK`, which is only proved: no run asks it again.
* `NeverDrawn`: `Spec => []NeverDrawnWhileShown`.
* `Implements`: `Spec => FrameStreamRefinement`. The inductive invariant has
  three parts: which buffer is drawn into, is current, is locked or is next
  (`BufferInv`); that a buffer which is not being drawn into holds a finished
  frame, and that one which is holds, when its lines have been copied, the frame
  after the current one (`FrameInv`); that the lines uploaded so far are those of
  the locked buffer, and the frame it holds is no older than the one on the
  screen (`ScreenInv`). Every step then maps to `Finish`, `Show` or a stutter.

**`CommPipeProofs`** (any size of at least two, any chunks less than the size,
any sequence of words; assumption `PipeAssumption`):

* `PipeTypes`: `Spec => []TypeOK`, which includes that both positions stay in
  the ring.
* `NoLookNeeded`: `Spec => []WokenInTime`.
* `NoWakeUpLost`: `Spec => []SleepsForAReason`. To the invariant below
  `SleepInv` adds who sees to it that a sleeper is woken: its flag is still set,
  or the post has been made, or the writer is about to make it; while the
  reader's flag is set no word in the pipe was written with `no_buffer`, except
  the one the writer is just about to wake it for; and while the writer's is
  set the pipe is full, because the reader clears the flag with the first word
  it takes.
* `Implements`: `Spec => PipeRefinement`. That there is a word when the reader
  goes on depends on how it was woken, and that the word is the right one
  depends on where the ring stands. The inductive invariant has four parts
  besides the types. `RingInv`: the slots from `rdp` to `wrp` hold the words
  written and not read, of which there are fewer than `Size`. `LockInv`: who is
  where a lock is held holds it. `WakeReaderInv`: while the flag is set the
  reader is about to sleep or asleep and nothing has been posted; while a post
  is on its way the flag is clear and there is a word; the writer is on its path
  without the lock only while the flag is set. `WakeWriterInv`: the same of the
  writer and room. That fewer than `chunks` words lie in the pipe whenever the
  flag is set and the writer is not about to look at it is what keeps the path
  without the lock from filling the ring: there `chunks < Size` is needed.
  `Positions`, `AddWord` and `TakeWord` are the lemmas about the ring.

**`AudioProofs`** (any finite set of at least two buffers, any `min_buffers`, any
number of calls, any window, any ring longer than it; assumptions
`StreamAssumption`, `StatsAssumption`):

* `TypeCorrect`: `Spec => []TypeOK`, with `played` among what is queued, names in
  `free` and the position in the ring. Types are not inductive alone: that the
  filling thread has a buffer in its hands when it queues one, and that no name
  but 0 stands for none, have to be known (`StreamTypeOK`).
* `ErrorNeverLogged`: `Spec => []NeverLogged`. The minimum is not that of the
  window: when a smaller sample comes, it is not updated. What is invariant is
  `MinInWindow`: the minimum is one of the last samples, and no *older* one
  is smaller, so nothing smaller leaves before it; when it leaves itself, the
  minimum is computed afresh. `BackType`, `NextSlotBack` and `ModOnce` are
  the lemmas about the ring, `WindowHasMin` is that about `Smallest`.

* `SumIsExact`: `Spec => []SumExact`. What the code adds and subtracts is little;
  what has to be proved is a property of a sum defined by recursion over the
  window. `SumOfNewest` is a recursive function of the number of samples, and the
  library's induction over it takes an operator as a parameter. So the lemmas
  (`SumsExist`, `NewestMove`) argue by the least counterexample instead (`Least`): if
  the equation failed for some number it would fail for a smallest one, which is
  neither 0 nor the next after one for which it holds. `NewestMove` is the equation
  that matters: the sum after the step is the old one plus the sample that
  enters minus the one that leaves, whose place in the ring is a position of its
  own. A ring longer than the window is what keeps the two apart.
* `BuffersInOnePlace`: `Spec => []BuffersWhole`. That every buffer is free, in
  hand or in the source is kept by an unqueue only if OpenAL still returns as
  many as were counted. So the invariant (`BuffersInv`) also says who counts:
  a thread between the two calls of an unqueue has the mutex and stands there
  (`Unqueuing`), and, unless the source was restarted meanwhile, what it has
  counted has been played and is still queued (`CountedIsPlayed`). No
  free name is 0, so data are dropped only if none is free (`DropKeeps`).
  `ElementsConcat` to `ElementsFew` are the lemmas about sequences that are cut
  and joined; that all buffers are free at first is an argument about
  bijections (`BuffersStart`).
* `CdIsNotDropped`: `Spec => []CdNeverDrops`. The CD has two buffers in turn, and
  a piece is dropped if no buffer is free. `Waited` says what the source may
  still hold: the other buffer; during a call the one in hand; and the one whose
  turn it is only until the thread has waited for it. Then all but one buffer
  are free at least (`ElementsCount`, `FreeIsNotQueued`, `InHandSeq` and
  `OneAtTheSource` count them), so one is free when it is asked for. The property
  is stated until the source is started between the two calls of an unqueuing
  (`raced`).

**`FilesysProofs`** (any number of units and packets, any limit, any number of
resets, in the interrupt server too; assumptions `Native2AmigaAssumption`,
`FilesysAssumption`, and `PacketsAssumption`: no packet is one of the messages
`dummy` and `death`):

* `OneMessage`: `Spec => []MessageLock`, in every setup. The counts say nothing
  alone; the invariant (`MessageInv`) says where the message is while they
  differ: once in the port, or in the hands of the process that is about to
  count it off.
* `FilesysTypes`: `Spec => []TypeOK`; `StartedAreWithThread`:
  `Spec => []NoneForgotten`; `PipeHasRoom`: `Spec => []PipeNeverFull`;
  `PacketsAreServed`: `Spec => ServiceRefinement`. All need `MarkedByOneThread`:
  in threaded mode no waiting record expires. Otherwise `record_timeout`, on the
  emulation thread, and the unit's thread walk and cut one list without a lock
  (`filesys.cpp:3331` and 3360), a packet may be marked twice, and none of the
  four is true. In synchronous mode, which has one thread only, records expire
  as they like.
  `PipeHasRoom` also needs `PipeLongEnough`, `3 * (MaxStarted + 1) <
  UnitPipeSize`; with 20 packets and the death message the code has 63 words of
  100.

  Their invariant `PacketInv` is one because each part needs others. `PlaceInv`:
  where a packet is by its sender and its mark (in the port, in the queue of the
  process, or with its sender, never in two places). `ThreadInv`: the pipe, the
  thread's hands and the list of those that wait for records are disjoint and
  contain each started packet exactly once; a unit that goes down is excepted,
  whose pipe is emptied. `CountInv`: `started`, d5 of the process, is the number
  of packets of the unit that bear a mark from started to timed out, and no more
  than `MaxStarted`; this is what makes the host's pipe long enough, and why d5 does
  not become negative. `SetupInv`: what is expired, and when a unit goes down.
* `NoInterruptLost`: `Spec /\ [][NothingIsLost]_vars => []NeverNotEnough`, about
  the safety part of `StartedIsAnswered`. In every setup, threads that share the
  word with the A2091 and resets in the interrupt server included, an interrupt
  is lost by two steps and no others: `BitIsTakenBack`, in which `rethink_a2091`
  writes back the word without a bit that has been set since it read it
  (`lostbit`, section 6), and `SemaphoreIsKept`, a reset that finds the Amiga in
  the interrupt server (`filesys.cpp:5359`). Both steps are in the code, and after
  either of them TLC finds `NeverNotEnough` violated. The theorem is that a change
  of these two places would be enough. It needs `MarkedByOneThread`.
  The invariant beside `PacketInv` (`NewsInv`): `FoundInv`, every packet with a
  mark is in the queue of the process or in its hands, so that a scan that starts
  meets it; `LineInv`, the semaphore is free when the server is out, the bit is
  cleared before the server has looked at any unit, and `cmds_acked` is never beyond `cmds_sent`, so that a packet
  that is counted makes them differ; `MessageInv`, from `OneMessage`, says that
  where the counts forbid another message one is on its way. No fairness is
  used: that what is on its way arrives is left to TLC.

The prover's encoding of `Len` for SMT takes the length of any function whose
domain is `0 .. n` to contradict itself. All proof modules have therefore been
checked a second time with that axiom weakened, and no obligation depends on it.

**Model-checked only.**

* All liveness: fairness and ENABLED are out of the prover's reach. These are
  `GamePlaysOn`, `DesyncIsTold`, `StartedGameStops`, `AbortConnectPlaysOn`,
  `DisconnectEnds`, `AllArrive`, `NewestIsShown`, `AllRead`, `StartedIsAnswered`,
  `QueuedComesBack` and `StopEnds`. For three of them the safety part is proved:
  that nobody waits in a circle (`NoDeadlock`), that no wake-up is lost in the
  pipe (`NoWakeUpLost`) and none of the file systems (`NoInterruptLost`).
* The three properties the code does not have (section 6).

Every invariant and every refinement that a run checks is a theorem.

## 6. Where code and comments disagree

Three disagreements have a run (`findings` in `PROJECT.json`):

1. `abort`: `netplay.c:275` says the user has chosen "to abort connection" and
   plays offline. The emulation thread disconnects while it holds the GUI lock,
   and then needs it to dismiss the dialog.
2. `lostbit`: `filesys.cpp:5361-5363` says of interrupts "we can get too many
   interrupts, but never not enough". The bit that asks for one is set by the
   file system's thread in an unlocked read and write (`native2amiga.h:52`), and
   `rethink_a2091` reads and writes the same word at every write of INTREQ: the
   bit can be lost, and the packet is not replied.
3. `unstarted`: `filesys.asm:1437-1438` says "We can handle an unlimited number of
   unstarted commands". A packet beyond the limit is put in the queue, and
   nothing ever takes it from there to hand it over.

Others were met while modelling and are part of the models, without a run:

* `game.py:487` says "try to send error message to all players". An exception in
  the game loop, which a player's reset connection causes, ends the thread with
  no message to anybody. The other players' connections stay open and silent
  (`LoopRaised`). So it is when the server is interrupted in a broadcast that
  raises: the loop ends at `game.py:464-466`, and players after the one at whom
  it raised wait for ever;
* `game.py:630` says "cannot check yet" and returns; the caller counts the frame
  as verified all the same, and it is never looked at again (`CannotCheckYet`);
* after "game not started yet, aborting" (`game.py:707`) the threads of players
  who have joined stay in `recv`, and the process does not end. The service that
  started it never gives its port back (`NetplaySession`);
* `game.py:604-605` says clients "still get messages in expected order". An
  emulator that gets a word in two pieces asks for 0 bytes next, takes the 0 it
  gets for the end of the connection and disconnects (`NetplayFraming`);
* `audio.c:146-148` says the mutex is there because two threads unqueue. It does
  not keep the third call, `alSourcePlay`, from coming between the two calls of
  an unqueuing (`raced` in `AudioStream`);
* `filesys.asm:1418-1419` says of the marks "This _should_ be harmless on all
  reasonable machines". It is; the list of waiting records is not
  (`filesys.cpp:3331` and 3360, on two threads without a lock);
* `emu.c:479-494` makes the GUI lock of a plain mutex, and an item of the menu
  sends input with the lock in hand (`menu.c:124-257`, through
  `fs_emu_queue_action` and `input.c:655`). If that send fails, `send_bytes` warns
  (`netplay.c:305`), which takes the GUI lock (`hud.c:53-61`): the user's thread
  waits for itself, and everybody else for it (`SendFails` after `SendInput` with
  the lock; `WaitsForItself`);
* `netplay.c:268` says of a lost connection "for now, continue without
  netplay". `dismiss_waiting_dialog` tests before it locks (line 118): when the
  connection is lost while the emulation thread dismisses the dialog for the
  first frame, both threads pass the test and the second destroys the null
  dialog (`crashed` in `NetplayConnect`);
* a player whose wish to resume is refused raises a `NameError` in the refusal
  (`game.py:456`), which stops the game of the others, after the seat has been
  given away (`SeatAgain`);
* a connection that has been replaced by a returning player is still read, and
  its inputs still broadcast: `playing` is what is tested, and nothing clears it
  (`game.py:583`, 449-452);
* a returning player may be sent frames before its own greeting, since it is in
  `clients` before the greeting is queued (`TagsBeforeFrame` is stated for new
  players);
* without sync the video thread is signalled before the new buffer is current
  (`video.c:251`), so what it shows then may be the frame before
  (`NewestIsShown` holds because it looks again after the timeout);
* the first frame has the sequence number of the blank buffer
  (`render.c:199`), so an emulator's display can take the first for a repeat.

## 7. What is not modelled, and why

* Inside the running game: pings, lag and status lines change nothing that the
  other operations read. A `sendall` that blocks because an emulator does not
  read is a hazard of its own (`game.py:203`) and needs bounded connections: in
  the plan.
* The protocol version and password checks are one refusal.
* In video: RTG frames, benchmarking, and a buffer that grows while it is being
  used (`od-fs/video.cpp:570`): in the plan.
* Chips and CPU, CD and SCSI controllers: large and data-driven, most of it in
  one thread. The CIA's counters and the keyboard handshake are in the plan.
* Configuration, menu, fonts, window, save states: data layout and drawing, with
  no order of events to get wrong.
* Generated and vendored code.

* Of the file systems: the startup packet (and with it the errors that
  `filesys_handler` returns for a unit that is not set up, or for bad addresses,
  `filesys.cpp:5651-5665`, which the process replies at once), what the packets do with files, the
  supply of locks (`LockCheck`, `back_pipe`), change notification, inserting and
  ejecting. They use the same way to and from the Amiga.
* Of the audio streams: pausing, volume, the controller of the pitch (arithmetic
  on floating-point numbers), sub-channel data, a CD played again while its
  thread ends.
* 705 thousand lines, most of them generated CPU cores, make the share of the
  code that the models stand for very small; of the concurrent code in
  `src/libfsemu/src/emu` and the netplay server it is large.

The hard-file device and the game service are core logic, not modelled yet, and
first in the plan. Their hazards are listed.

## 8. Plan

Done, in this order: `Lockstep`, `NetplayLink`, `NetplayServer`,
`NetplayClient`, `Netplay` with its runs and proofs; `NetplayConnect`;
`NetplaySession`; `MessageStream`, `NetplayFraming`; `FrameStream`,
`VideoBuffers` with its proofs; `CommPipe` with its proofs; `PacketService`,
`Native2Amiga`, `FilesysHandler`; `AudioStats`, `AudioStream` with its proofs;
the proofs of `FilesysHandler`, `NetplaySession`, `NetplayFraming` and
`NetplayConnect`; what the liveness of the game, the pipe and the
file systems rests on.

Next modules:

1. The hard-file device (`hardfile.cpp` 1405-1941): its requests, aborts and the
   reset that clears a unit whose thread is at work.
2. `NetplayService` (`service.py` 83-161): ports in the pool plus ports in use
   are constant, in spite of a failure in between.
3. Bounded connections and pings in `NetplayServer`; growing buffers in
   `VideoBuffers`; replaying and pausing in `AudioStream`.
4. `Keybuf` and the CIA's handshake.

Next proofs:

1. The new modules' invariants, with the modules.
2. `AudioStream`: what is queued when a source is restarted between the two
   calls of an unqueuing (`raced`), which all three properties except.
3. `NetplaySession`: the safety part of `StartedGameStops`, as `NoCircularWait` is
   that of `GamePlaysOn`: which thread, in a state where the game has been told
   to stop, is still to tell which other.
