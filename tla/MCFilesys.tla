----------------------------- MODULE MCFilesys -----------------------------
(***************************************************************************)
(* The emulators of the runs of FilesysHandler.  Where host threads meet   *)
(* the unlocked word and the unlocked list of waiting records, the A2091   *)
(* and running timeouts are left out of the passing run: in synchronous    *)
(* mode they take part.                                                    *)
(***************************************************************************)
EXTENDS FilesysHandler

Emulator(m, cdtv, e, n) ==
  [mode |-> m, cdtvscsi |-> cdtv, expiring |-> e, maxSends |-> n]

SafeSetups == {Emulator("threads", TRUE, FALSE, 3),
               Emulator("synchronous", FALSE, TRUE, 2)}
ThreadsWithA2091 == {Emulator("threads", FALSE, FALSE, 2)}
=============================================================================
