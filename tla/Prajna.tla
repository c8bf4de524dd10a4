------------------------------- MODULE Prajna -------------------------------
(***************************************************************************)
(* kernel/ai_kernel.c, ai_think(): the decision of one AI cycle, a pure    *)
(* function of what ai_sense() read.  The network's scores are floats in   *)
(* the code; here they are integers in millionths (ml_sigmoid clamps them  *)
(* to 0.0 .. 1.0).                                                         *)
(***************************************************************************)
EXTENDS Integers, FiniteSets

CONSTANTS
  MAX_TASKS,             \* slots of the task table (8)
  PMM_ALERT_THRESHOLD,   \* fewer free pages than this is ALERT (64)
  STARVATION_THRESHOLD,  \* scheduler ticks of waiting before the guard (5)
  BUSY                   \* more READY tasks than this is NORMAL (4)

ASSUME PrajnaAssumption ==
  /\ MAX_TASKS \in Nat \ {0}
  /\ PMM_ALERT_THRESHOLD \in Nat
  /\ STARVATION_THRESHOLD \in Nat
  /\ BUSY \in Nat

Tasks         == 0 .. MAX_TASKS - 1
SHELL_TASK_ID == 0
TaskStates    == {"DEAD", "READY", "RUNNING"}
SysStates     == {"CALM", "NORMAL", "ALERT"}
ML_ONE        == 1000000
Priorities    == 0 .. 2

Permissions == [allowed : BOOLEAN, priority : Priorities]
NoPermission == [allowed |-> FALSE, priority |-> 0]

Alive(state)  == {i \in Tasks : state[i] # "DEAD"}
Ready(state)  == {i \in Tasks : state[i] = "READY"}

SysState(free, state) ==
  IF free < PMM_ALERT_THRESHOLD THEN "ALERT"
  ELSE IF Cardinality(Ready(state)) > BUSY THEN "NORMAL"
  ELSE "CALM"

\* ml_score to HIGH / NORMAL / LOW
Tier(score) ==
  IF score > 700000 THEN 2 ELSE IF score > 400000 THEN 1 ELSE 0

\* a suspicious task is never HIGH ...
Capped(score, anomalous) ==
  IF anomalous /\ Tier(score) > 1 THEN 1 ELSE Tier(score)

Starved(wait) == wait > STARVATION_THRESHOLD

Guarded_Drop(score, anomalous, wait) == Capped(score, anomalous)

Guarded_Mut(score, anomalous, wait) ==
  IF anomalous /\ (Starved(wait) \/ Tier(score) > 1) THEN 1
  ELSE IF Starved(wait) THEN 2 ELSE Tier(score)

\* ... unless it starves: the starvation guard comes after the cap
Guarded(score, anomalous, wait) ==
  IF Starved(wait) THEN 2 ELSE Capped(score, anomalous)

(***************************************************************************)
(* The permission table ai_act() publishes.  The shell is exempt from      *)
(* ALERT and gets at least NORMAL.                                         *)
(***************************************************************************)
Decision(sys, state, score, anomalous, wait) ==
  [i \in Tasks |->
     LET tier == Guarded(score[i], anomalous[i], wait[i]) IN
     IF state[i] = "DEAD" \/ (sys = "ALERT" /\ i # SHELL_TASK_ID)
     THEN NoPermission
     ELSE [allowed  |-> TRUE,
           priority |-> IF i = SHELL_TASK_ID /\ tier < 1 THEN 1 ELSE tier]]
=============================================================================
