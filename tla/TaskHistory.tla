---------------------------- MODULE TaskHistory ----------------------------
(***************************************************************************)
(* Prajna's anomaly check of one task (ai_sense in kernel/ai_kernel.c): a  *)
(* ring of the task's CPU usage, and a flag when the usage of a cycle is   *)
(* more than 60% off the average of the ring.  The memory ring is the same *)
(* code over mem_usage, which nothing in the kernel ever sets: its average *)
(* stays 0 and it never flags.                                             *)
(***************************************************************************)
EXTENDS Integers, Sequences, SequencesExt

CONSTANTS
  HISTORY_LEN,    \* samples kept (8)
  Usages          \* values of cpu_usage, in percent

ASSUME TaskHistoryAssumption ==
  /\ HISTORY_LEN \in 2 .. 255
  /\ Usages \subseteq 0 .. 100

Samples == 0 .. HISTORY_LEN - 1

VARIABLES
  cpu_history, history_index, history_filled,
  anomaly,       \* in->anomaly[i] of the last cycle
  recent,        \* not in the code: the samples the ring should hold, oldest first
  average        \* not in the code: what the last cycle was compared with

vars == <<cpu_history, history_index, history_filled, anomaly, recent, average>>

\* An average is kept as what it is: a sum over a number of samples.
Average(sum, count) == [sum |-> sum, count |-> count]
SumOf(samples) == FoldSeq(LAMBDA x, y : x + y, 0, samples)

Init ==
  /\ cpu_history = [i \in Samples |-> 0]
  /\ history_index = 0
  /\ history_filled = FALSE
  /\ anomaly = FALSE
  /\ recent = <<>>
  /\ average = Average(0, 0)

avg_history_Mut(hist, filled, len, index) ==
  LET count == IF filled THEN len ELSE index IN
  Average(SumOf([i \in 1 .. count |-> hist[i - 1]]), IF count = 0 THEN 0 ELSE HISTORY_LEN)

\* 0 when there is nothing to average
avg_history(hist, filled, len, index) ==
  LET count == IF filled THEN len ELSE index IN
  Average(SumOf([i \in 1 .. count |-> hist[i - 1]]), count)

Difference(a, b) == IF a < b THEN b - a ELSE a - b

\* below 1% of average usage nothing is an anomaly
is_anomalous(current, avg) ==
  /\ avg.count > 0 /\ avg.sum >= avg.count
  /\ 10 * Difference(current * avg.count, avg.sum) > 6 * avg.sum

\* The call passes the write index as the length and the length as the index.
Compared ==
  IF history_filled
  THEN avg_history(cpu_history, history_filled, history_index, HISTORY_LEN)
  ELSE Average(0, 0)

NextIndex_Mut == (history_index + 1) % (HISTORY_LEN + 1)

NextIndex == (history_index + 1) % HISTORY_LEN

Sense(usage) ==
  /\ average' = Compared
  /\ anomaly' = is_anomalous(usage, Compared)
  /\ cpu_history' = [cpu_history EXCEPT ![history_index] = usage]
  /\ history_index' = NextIndex
  /\ history_filled' = (history_filled \/ history_index' = 0)
  /\ recent' = Append(IF Len(recent) < HISTORY_LEN THEN recent ELSE Tail(recent), usage)

Next == \E usage \in Usages : Sense(usage)

Spec == Init /\ [][Next]_vars

-----------------------------------------------------------------------------
(* Properties.                                                             *)

\* The ring and its index are well formed.
TypeOK ==
  /\ cpu_history \in [Samples -> Usages \cup {0}]
  /\ history_index \in Samples
  /\ history_filled \in BOOLEAN
  /\ anomaly \in BOOLEAN
  /\ recent \in UNION {[1 .. n -> Usages] : n \in 0 .. HISTORY_LEN}
  /\ average.count \in 0 .. HISTORY_LEN

FarFrom(usage, sample) == 10 * Difference(usage, sample) > 6 * sample

\* A task is called anomalous only when its usage is more than 60% off that of one
\* of its last HISTORY_LEN cycles: a task that does what it did is never flagged.
FlagIsDeviation ==
  [][anomaly' => \E i \in 1 .. Len(recent) : FarFrom(recent'[Len(recent')], recent[i])]_vars

\* The usage is compared with the average of the last HISTORY_LEN cycles
\* (README: rolling history, deviation check).
DeviationIsFlagged ==
  [][Len(recent) = HISTORY_LEN
       => anomaly' = is_anomalous(recent'[Len(recent')],
                                  Average(SumOf(recent), HISTORY_LEN))]_vars
=============================================================================
