--------------------------- MODULE Native2Amiga ---------------------------
(***************************************************************************)
(* How host threads reach the emulated machine (native2amiga.cpp and .h):  *)
(* they put a command in a pipe, or leave word in a counter of their own,  *)
(* and set a bit of uae_int_requested; once per line the emulation thread  *)
(* raises an interrupt while a bit is set (custom.cpp), and the interrupt  *)
(* server in the Amiga's memory (exter_server in filesys.asm, with         *)
(* exter_int_helper in filesys.cpp) does what it is asked.                 *)
(*                                                                         *)
(* The bits are set and cleared by unlocked reads and writes, on several   *)
(* threads: each is two steps here, with the value read kept in seen.      *)
(***************************************************************************)
EXTENDS Integers, Sequences

CONSTANTS HostThreads,   \* the threads beside the emulation thread
          Commands,      \* what they put in native2amiga_pending
          MaxRethinks    \* bound: changes of the A2091's interrupt line

ASSUME Native2AmigaAssumption ==
  /\ HostThreads \subseteq Nat \ {0}
  /\ MaxRethinks \in Nat

OurBit == 1      \* of uae_int_requested: work for the interrupt server
A2091Bit == 2    \* the interrupt line of the SCSI controller
Bits == {OurBit, A2091Bit}

VARIABLES
  emu,           \* "amiga": the emulation thread executes Amiga code; else
                 \* the function that it is in
  server,        \* where the Amiga is in exter_server: "out", or looking
                 \* for "commands" or for "units" (exter_int_helper(2))
  intSem,        \* singlethread_int_sem
  intRequested,  \* uae_int_requested, as the set of its bits
  seen,          \* per thread, the value it has read of uae_int_requested
  pending,       \* native2amiga_pending
  cdtvscsi,      \* currprefs.cs_cdtvscsi: the A2091 is out of the play
  rethinks       \* how often its line was looked at

bitVars == <<intRequested, seen>>
lineVars == <<cdtvscsi, rethinks>>
n2aVars == <<emu, server, intSem, bitVars, pending, lineVars>>

\* Thread 0 is the emulation thread.
EmuThread == 0
Threads == HostThreads \cup {EmuThread}

N2AInit == /\ emu = "amiga" /\ server = "out" /\ intSem = 1
           /\ intRequested = {} /\ seen = [t \in Threads |-> {}]
           /\ pending = << >> /\ cdtvscsi \in BOOLEAN /\ rethinks = 0

N2ATypeOK == /\ server \in {"out", "commands", "units"} /\ intSem \in {0, 1}
             /\ intRequested \subseteq Bits
             /\ seen \in [Threads -> SUBSET Bits]
             /\ pending \in Seq(Commands)
             /\ cdtvscsi \in BOOLEAN /\ rethinks \in 0 .. MaxRethinks

\* The Amiga's own program goes on: it is not interrupted.
AmigaRuns == emu = "amiga" /\ server = "out"

-----------------------------------------------------------------------------
(* do_uae_int_requested: uae_int_requested |= 1, on thread t *)

ReadBits(t) == /\ seen' = [seen EXCEPT ![t] = intRequested]
               /\ UNCHANGED intRequested

WriteBits(t, bits) == /\ intRequested' = bits
                      /\ seen' = [seen EXCEPT ![t] = {}]

SetOurBit(t) == WriteBits(t, seen[t] \cup {OurBit})

-----------------------------------------------------------------------------
(* The emulation thread *)

\* INTREQ: each write to the register looks at the lines of all devices.
RethinkReads == /\ ~cdtvscsi /\ rethinks < MaxRethinks
                /\ emu = "amiga" /\ emu' = "rethink"
                /\ rethinks' = rethinks + 1
                /\ ReadBits(EmuThread)
                /\ UNCHANGED <<server, intSem, pending, cdtvscsi>>

RethinkWrites == /\ emu = "rethink" /\ emu' = "amiga"
                 /\ \E irq \in BOOLEAN :
                      WriteBits(EmuThread,
                                IF irq THEN seen[EmuThread] \cup {A2091Bit}
                                       ELSE seen[EmuThread] \ {A2091Bit})
                 /\ UNCHANGED <<server, intSem, pending, lineVars>>

\* exter_int_helper(0): is the interrupt for us?
ServerEnters == /\ AmigaRuns
                /\ OurBit \in intRequested
                /\ intSem = 1 /\ intSem' = 0
                /\ emu' = "clear" /\ server' = "commands"
                /\ ReadBits(EmuThread)
                /\ UNCHANGED <<pending, lineVars>>

ServerClears == /\ emu = "clear" /\ emu' = "amiga"
                /\ WriteBits(EmuThread, seen[EmuThread] \ {OurBit})
                /\ UNCHANGED <<server, intSem, pending, lineVars>>

ServerIs(place) == emu = "amiga" /\ server = place

\* exter_int_helper(2): the next command of the pipe, and when there is none ...
TakeCommand == /\ ServerIs("commands")
               /\ pending # << >> /\ pending' = Tail(pending)
               /\ UNCHANGED <<emu, server, intSem, bitVars, lineVars>>

NoCommand == /\ ServerIs("commands") /\ server' = "units"
             /\ pending = << >>
             /\ UNCHANGED <<emu, intSem, bitVars, pending, lineVars>>

\* ... the units; a message for one, and it looks for commands again.
Message == /\ ServerIs("units") /\ server' = "commands"
           /\ UNCHANGED <<emu, intSem, bitVars, pending, lineVars>>

\* exter_int_helper(4)
LeaveAndClear == /\ ServerIs("units") /\ server' = "out"
                 /\ intSem' = 1
                 /\ WriteBits(EmuThread, intRequested \ {OurBit})
                 /\ UNCHANGED <<emu, pending, lineVars>>
ServerLeaves == /\ ServerIs("units") /\ server' = "out"
                /\ intSem' = 1
                /\ UNCHANGED <<emu, bitVars, pending, lineVars>>

\* native2amiga_reset: the pipe is emptied; so is the interrupted program,
\* but neither the bits nor the semaphore are touched.
N2AReset == /\ pending' = << >> /\ server' = "out" /\ emu' = "amiga"
            /\ UNCHANGED <<intSem, bitVars, lineVars>>
=============================================================================
