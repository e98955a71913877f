----------------------------- MODULE AudioStats -----------------------------
(***************************************************************************)
(* The statistics of an audio stream (update_stats in audio.c): how much    *)
(* was queued at the last Window pictures, kept in a ring of Length         *)
(* samples, with a running sum for the average and a running minimum.  The  *)
(* average drives the controller of the stream's pitch.                     *)
(*                                                                         *)
(* A sample counts buffers: the code multiplies it by their size.  The     *)
(* errors, and the histories of the average and of the minimum, are        *)
(* computed from these values and read by nothing but the controller's      *)
(* arithmetic and the debugging picture; they are left out.                 *)
(***************************************************************************)
EXTENDS Integers, FiniteSets

CONSTANTS Length,   \* FILL_STAT_BUFFER_LENGTH: 512
          Window    \* FILL_STAT_BUFFER_ITEMS_AVG and _MIN: 64

ASSUME StatsAssumption ==
  /\ Window \in Nat \ {0} /\ Length \in Nat /\ Length > Window

VARIABLES fill,      \* fill_stat_buffer
          pos,       \* fill_stat_buffer_pos: the newest sample
          fillSum,   \* fill_stat_buffer_avg_sum
          fillMin,   \* fill_stat_buffer_min
          logged     \* whether "ERROR WITH g_fill_stat_buffer_min" was logged

statsVars == <<fill, pos, fillSum, fillMin, logged>>

Slots == 0 .. Length - 1

StatsInit == /\ fill = [i \in Slots |-> 0] /\ pos = 0
             /\ fillSum = 0 /\ fillMin = 0 /\ logged = FALSE

\* The position j samples before p.
Back(p, j) == (p - j + Length) % Length

MinOf(S) == CHOOSE m \in S : \A x \in S : m <= x

\* The smallest of the last samples of f, the newest of which is at head.
SmallestOfYounger(f, head) == MinOf({f[Back(head, j)] : j \in 0 .. Window - 2})
Smallest(f, head) == MinOf({f[Back(head, j)] : j \in 0 .. Window - 1})

NextUnwrapped(p) == p + 1
NextSlot(p) == (p + 1) % Length

\* The sample that leaves the window when head is written.
LeavesEarly(head) == Back(head, Window - 1)
Leaves(head) == Back(pos, Window - 1)

\* The minimum is computed afresh only when a sample that small leaves.
UpdateStats(available) ==
  LET head == NextSlot(pos)
      f == [fill EXCEPT ![head] = available]
      leaving == f[Leaves(head)]
  IN  /\ fill' = f /\ pos' = head
      /\ fillSum' = fillSum - leaving + available
      /\ fillMin' = IF leaving <= fillMin THEN Smallest(f, head) ELSE fillMin
      /\ logged' = (logged \/ leaving < fillMin)

-----------------------------------------------------------------------------
StatsTypeOK == /\ fill \in [Slots -> Int] /\ pos \in Slots
               /\ fillSum \in Int /\ fillMin \in Int /\ logged \in BOOLEAN

\* The j-th newest sample.
Sample(j) == fill[Back(pos, j)]

\* For each n up to Window, the sum of the n last samples of f.
SumOfNewest(f, head) ==
  LET Sum[n \in 0 .. Window] == IF n = 0 THEN 0
                                 ELSE Sum[n - 1] + f[Back(head, n - 1)]
  IN  Sum

\* The sum is that of the last samples, however often the ring went round.
SumExact == fillSum = SumOfNewest(fill, pos)[Window]

\* The minimum, though it ignores newer and smaller samples for a while, is
\* one of the last samples, and no older one of them is smaller.
MinInWindow ==
  \E k \in 0 .. Window - 1 : /\ Sample(k) = fillMin
                             /\ \A j \in k .. Window - 1 : Sample(j) >= fillMin

\* A sample that leaves the window was never overlooked: the error that
\* update_stats would report does not occur.
NeverLogged == ~logged
=============================================================================
