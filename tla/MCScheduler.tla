---------------------------- MODULE MCScheduler ----------------------------
(***************************************************************************)
(* Networks for the instances of Scheduler.                                *)
(***************************************************************************)
EXTENDS Scheduler

\* Any weights: every task may get any score, and two are enough to tell whom a
\* network prefers.
AnyPreference(share, wait, prio) == {300000, 900000}

(***************************************************************************)
(* weights.bin of the repository, evaluated with mem_usage 0 (nothing sets *)
(* it) at priorities 0, 5 and 10, for a task that had the CPU and for one  *)
(* that had not.  In wait_time it is linear up to 2 millionths as far as   *)
(* the runs go.                                                            *)
(***************************************************************************)
ShippedNetwork(share, wait, prio) ==
  LET ran == share >= 50 IN
  {CASE prio < 5 /\ ran   -> 229598 + 67 * wait
     [] prio < 5 /\ ~ran  -> 599122 + 335 * wait
     [] prio = 5 /\ ran   -> 255845 + 248 * wait
     [] prio = 5 /\ ~ran  -> 650742 + 315 * wait
     [] prio > 5 /\ ran   -> 298043 + 286 * wait
     [] prio > 5 /\ ~ran  -> 698549 + 286 * wait}

\* The shipped weights are even-handed between tasks of priority 0 and 5 (the
\* shell's); a task of priority 10 is HIGH once it has waited 6 turns.
ASSUME ShippedIsEvenHanded == EvenHanded(ShippedNetwork, {0, 5})

\* Bound of the runs with all eight tasks: they are created in the first turns.
CREATED_BY == 4

CreatedEarly == task_count < MAX_TASKS => ticks <= CREATED_BY
=============================================================================
