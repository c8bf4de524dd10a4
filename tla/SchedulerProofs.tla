-------------------------- MODULE SchedulerProofs --------------------------
(***************************************************************************)
(* For every number of tasks, every network and every period: the types of *)
(* Scheduler; that the bookkeeping of scheduler.c and the CPU agree on who *)
(* is running, through the boot, task creation and every switch; that      *)
(* every switch rests on a decision of its own tick; and that the          *)
(* starvation guard bounds every wait, when the network lets it.           *)
(***************************************************************************)
EXTENDS Scheduler, FiniteSetTheorems, TLAPS

-----------------------------------------------------------------------------
(* Types of the operators.                                                 *)

LEMMA ShellIsTask == 0 \in Tasks
BY PrajnaAssumption DEF Tasks

LEMMA MlOneType == ML_ONE \in Nat /\ 500000 \in 0 .. ML_ONE
<1>1. ML_ONE \in Nat
  BY SMT DEF ML_ONE
<1>2. 500000 \in Nat /\ 500000 <= ML_ONE
  BY SMT DEF ML_ONE
<1> QED BY SMT, <1>1, <1>2

\* The share of a cycle is a percentage.
LEMMA ShareType ==
  ASSUME NEW n \in Nat, NEW e \in Nat \ {0}
  PROVE  Share(n, e) \in 0 .. 100
<1>1. CASE n >= e
  BY <1>1 DEF Share
<1>2. CASE n < e
  <2> DEFINE q == (n * 100) \div e
  <2>1. q \in Nat /\ e * q <= n * 100
    OBVIOUS
  <2>2. n * 100 < e * 100
    BY <1>2
  <2> HIDE DEF q
  <2>3. q < 100
    BY <2>1, <2>2
  <2> QED BY <1>2, <2>1, <2>3 DEF Share, q
<1> QED BY <1>1, <1>2

\* A decision of Prajna fills the whole permission table.
LEMMA DecisionType ==
  ASSUME NEW sys, NEW st, NEW score \in [Tasks -> 0 .. ML_ONE],
         NEW anomalous \in [Tasks -> BOOLEAN], NEW wait \in [Tasks -> 0 .. WAIT_CAP]
  PROVE  Decision(sys, st, score, anomalous, wait) \in [Tasks -> Permissions]
<1>1. \A i \in Tasks : Guarded(score[i], anomalous[i], wait[i]) \in 0 .. 2
  BY SMT DEF Guarded, Capped, Tier, Starved
<1> QED BY <1>1 DEF Decision, NoPermission, Permissions, Priorities

\* A counter that wraps stays below its modulus.
LEMMA Wraps ==
  ASSUME NEW n \in Int, NEW m \in Nat \ {0}
  PROVE  n % m \in 0 .. m - 1
OBVIOUS

-----------------------------------------------------------------------------
(***************************************************************************)
(* The inductive invariant.  CpuRunsCurrent needs BootOwnsTheCpu for its   *)
(* base: when scheduler_start runs, slot 0 is the only task and its esp    *)
(* still points to the stack task_create prepared.                         *)
(***************************************************************************)
IInv == TypeOK /\ BootOwnsTheCpu /\ CpuRunsCurrent

LEMMA InitIInv == Init => IInv
<1> SUFFICES ASSUME Init PROVE IInv
  OBVIOUS
<1>1. TypeOK
  <2>1. NoPermission \in Permissions
    BY DEF NoPermission, Permissions, Priorities
  <2>3. 0 \in 0 .. ML_ONE
    BY MlOneType
  <2>2. /\ 0 \in 0 .. TICK_MOD - 1 /\ 0 \in 0 .. RUN_MOD - 1 /\ 0 \in 0 .. WAIT_CAP
        /\ free_pages \in 0 .. FREE_PAGES /\ ml_loaded \in BOOLEAN
    BY SMT, SchedulerAssumption DEF Init
  <2>4. prajna_fallback \in BOOLEAN /\ ai_online \in BOOLEAN
    BY DEF Init
  <2> QED
    BY SMT, <2>1, <2>2, <2>3, <2>4, ShellIsTask
    DEF Init, TypeOK, TaskStates, Contexts, SysStates
<1>2. BootOwnsTheCpu /\ CpuRunsCurrent
  BY SMT DEF Init, BootOwnsTheCpu, CpuRunsCurrent, Alive
<1> QED BY <1>1, <1>2 DEF IInv

-----------------------------------------------------------------------------
(* Creating tasks and booting.                                             *)

\* task_create fills one DEAD slot and leaves the other tasks alone; the first
\* one gets slot 0.
LEMMA TaskCreateSlot ==
  ASSUME IInv, NEW prio \in 0 .. 10, TaskCreate(prio)
  PROVE  \E i \in Tasks :
           /\ state[i] = "DEAD" /\ \A j \in 0 .. i - 1 : state[j] # "DEAD"
           /\ state' = [state EXCEPT ![i] = "READY"]
           /\ saved' = [saved EXCEPT ![i] = i]
           /\ priority' \in [Tasks -> 0 .. 10]
           /\ task_count' \in Nat
           /\ free_pages' \in 0 .. FREE_PAGES
           /\ UNCHANGED <<clockVars, wait_ticks, mlVars, aiVars, modeVars,
                          current_task, cpu>>
<1>1. PICK i \in Tasks :
        /\ state[i] = "DEAD" /\ \A j \in 0 .. i - 1 : state[j] # "DEAD"
        /\ free_pages > 0 /\ free_pages' = free_pages - 1
        /\ state' = [state EXCEPT ![i] = "READY"]
        /\ priority' = [priority EXCEPT ![i] = prio]
        /\ saved' = [saved EXCEPT ![i] = i]
        /\ task_count' = task_count + 1
        /\ UNCHANGED <<clockVars, wait_ticks, mlVars, aiVars, modeVars,
                       current_task, cpu>>
  BY Zenon DEF TaskCreate
<1>2. /\ priority' \in [Tasks -> 0 .. 10]
      /\ task_count' \in Nat
  BY SMT, <1>1 DEF IInv, TypeOK
<1>3. free_pages' \in 0 .. FREE_PAGES
  BY SMT, <1>1, SchedulerAssumption DEF IInv, TypeOK
<1> QED BY Zenon, <1>1, <1>2, <1>3

\* Creating a task leaves every type as it is.
LEMMA TaskCreateType ==
  ASSUME IInv, NEW prio \in 0 .. 10, TaskCreate(prio),
         pc' \in {"hardware", "greeting", "wait", "run"},
         UNCHANGED <<ml_loaded, wait_start>>
  PROVE  TypeOK'
<1>1. PICK i \in Tasks :
        /\ state[i] = "DEAD" /\ \A j \in 0 .. i - 1 : state[j] # "DEAD"
        /\ state' = [state EXCEPT ![i] = "READY"]
        /\ saved' = [saved EXCEPT ![i] = i]
        /\ priority' \in [Tasks -> 0 .. 10]
        /\ task_count' \in Nat
        /\ free_pages' \in 0 .. FREE_PAGES
        /\ UNCHANGED <<clockVars, wait_ticks, mlVars, aiVars, modeVars,
                       current_task, cpu>>
  BY TaskCreateSlot
<1> QED
  BY SMT, <1>1 DEF IInv, TypeOK, TaskStates, Contexts, clockVars, mlVars, aiVars, modeVars

LEMMA CreateShellStep == IInv /\ CreateShell => IInv'
<1> SUFFICES ASSUME IInv, CreateShell PROVE IInv'
  OBVIOUS
<1>0. TaskCreate(5) /\ pc = "hardware" /\ cpu = BOOT /\ pc' = "greeting"
  BY DEF CreateShell
<1>1. PICK i \in Tasks :
        /\ state[i] = "DEAD" /\ \A j \in 0 .. i - 1 : state[j] # "DEAD"
        /\ state' = [state EXCEPT ![i] = "READY"]
        /\ saved' = [saved EXCEPT ![i] = i]
        /\ UNCHANGED <<clockVars, wait_ticks, mlVars, aiVars, modeVars,
                       current_task, cpu>>
  BY <1>0, TaskCreateSlot
<1>2. TypeOK'
  BY <1>0, TaskCreateType DEF CreateShell
<1>3. \A j \in Tasks : state[j] = "DEAD"
  BY <1>0 DEF IInv, BootOwnsTheCpu, Alive
<1>4. i = 0
  <2>1. i \in Nat
    BY SMT, <1>1, PrajnaAssumption DEF Tasks
  <2>2. ASSUME i > 0 PROVE FALSE
    BY SMT, <1>1, <1>3, <2>1, <2>2, ShellIsTask
  <2> QED BY SMT, <2>1, <2>2
<1>5. BootOwnsTheCpu' /\ CpuRunsCurrent'
  BY SMT, <1>0, <1>1, <1>3, <1>4, ShellIsTask
  DEF IInv, TypeOK, BootOwnsTheCpu, CpuRunsCurrent, Alive
<1> QED BY <1>2, <1>5 DEF IInv

LEMMA GreetingStep == IInv /\ Greeting => IInv'
<1> SUFFICES ASSUME IInv, Greeting PROVE IInv'
  OBVIOUS
<1>1. TypeOK'
  BY SMT DEF IInv, TypeOK, Greeting, clockVars, taskVars, mlVars, aiVars
<1>2. BootOwnsTheCpu' /\ CpuRunsCurrent'
  BY SMT DEF IInv, BootOwnsTheCpu, CpuRunsCurrent, Alive, Greeting, taskVars
<1> QED BY <1>1, <1>2 DEF IInv

LEMMA SchedulerStartStep == IInv /\ SchedulerStart => IInv'
<1> SUFFICES ASSUME IInv, SchedulerStart PROVE IInv'
  OBVIOUS
<1>1. Alive(state) = {0} /\ saved[0] = 0
  BY DEF IInv, BootOwnsTheCpu, SchedulerStart
<1>2. /\ state' = [state EXCEPT ![0] = "RUNNING"] /\ saved' = saved
      /\ cpu' = 0 /\ current_task' = 0 /\ pc' = "run"
  BY <1>1 DEF SchedulerStart
<1>3. TypeOK'
  BY SMT, <1>2, ShellIsTask
  DEF IInv, TypeOK, SchedulerStart, TaskStates, Contexts, clockVars, mlVars, aiVars, modeVars
<1>4. Alive(state)' = {0} /\ state'[0] = "RUNNING"
  BY SMT, <1>1, <1>2, ShellIsTask DEF IInv, TypeOK, Alive
<1>5. BootOwnsTheCpu'
  BY <1>2 DEF BootOwnsTheCpu
<1>6. CpuRunsCurrent'
  BY <1>2, <1>4 DEF CpuRunsCurrent
<1> QED BY <1>3, <1>5, <1>6 DEF IInv

LEMMA CreateTaskStep == IInv /\ CreateTask => IInv'
<1> SUFFICES ASSUME IInv, CreateTask PROVE IInv'
  OBVIOUS
<1>0. PICK prio \in LaterPriorities : TaskCreate(prio)
  BY DEF CreateTask
<1>1. prio \in 0 .. 10 /\ pc = "run" /\ pc' = pc /\ UNCHANGED <<ml_loaded, wait_start>>
  BY SchedulerAssumption DEF CreateTask, bootVars
<1>2. PICK i \in Tasks :
        /\ state[i] = "DEAD"
        /\ state' = [state EXCEPT ![i] = "READY"]
        /\ saved' = [saved EXCEPT ![i] = i]
        /\ UNCHANGED <<current_task, cpu>>
  BY <1>0, <1>1, TaskCreateSlot
<1>3. TypeOK'
  BY <1>0, <1>1, TaskCreateType DEF IInv, TypeOK
<1>4. BootOwnsTheCpu' /\ CpuRunsCurrent'
  BY SMT, <1>1, <1>2 DEF IInv, TypeOK, BootOwnsTheCpu, CpuRunsCurrent, Alive
<1> QED BY <1>3, <1>4 DEF IInv

LEMMA OtherCallsStep == IInv /\ (PrajnaOffline \/ MemoryChanges) => IInv'
<1> SUFFICES ASSUME IInv, PrajnaOffline \/ MemoryChanges PROVE IInv'
  OBVIOUS
<1>1. CASE PrajnaOffline
  <2>1. prajna_fallback' \in BOOLEAN /\ ai_online' \in BOOLEAN
    BY <1>1 DEF PrajnaOffline
  <2>2. UNCHANGED <<clockVars, taskVars, wait_ticks, mlVars, aiVars, bootVars,
                    current_task, task_count, cpu, free_pages>>
    BY <1>1 DEF PrajnaOffline
  <2> QED
    BY SMT, <2>1, <2>2 DEF IInv, TypeOK, BootOwnsTheCpu, CpuRunsCurrent, Alive,
       clockVars, taskVars, mlVars, aiVars, bootVars
<1>2. CASE MemoryChanges
  BY SMT, <1>2, SchedulerAssumption
  DEF MemoryChanges, IInv, TypeOK, BootOwnsTheCpu, CpuRunsCurrent, Alive,
      clockVars, taskVars, mlVars, aiVars, modeVars, bootVars
<1> QED BY <1>1, <1>2

-----------------------------------------------------------------------------
(* The timer interrupt.                                                    *)

LEMMA TickType ==
  ASSUME TypeOK, CountTick
  PROVE  ticks' \in 0 .. TICK_MOD - 1
<1>1. TICK_MOD \in Nat \ {0}
  BY SMT, SchedulerAssumption
<1>2. ticks + 1 \in Int
  BY SMT, <1>1 DEF TypeOK
<1> QED BY <1>1, <1>2, Wraps DEF CountTick

LEMMA ChargedType ==
  ASSUME TypeOK
  PROVE  Charged \in [Tasks -> 0 .. RUN_MOD - 1]
<1>1. RUN_MOD \in Nat \ {0}
  BY SchedulerAssumption
<1>2. run_ticks[current_task] + 1 \in Int
  BY SMT, <1>1 DEF TypeOK
<1>3. (run_ticks[current_task] + 1) % RUN_MOD \in 0 .. RUN_MOD - 1
  BY <1>1, <1>2, Wraps
<1> QED BY <1>3 DEF Charged, TypeOK

LEMMA WaitedType ==
  ASSUME TypeOK
  PROVE  Waited \in [Tasks -> 0 .. WAIT_CAP]
<1>1. WAIT_CAP \in Nat
  BY SchedulerAssumption
<1> QED BY SMT, <1>1 DEF Waited, TypeOK

\* A cycle that is due divides by at least one tick.
LEMMA ElapsedType ==
  ASSUME TypeOK, ticks' \in 0 .. TICK_MOD - 1, AiDue
  PROVE  Elapsed \in Nat \ {0}
<1>1. TICK_MOD \in Nat \ {0} /\ AI_TICK_INTERVAL \in Nat \ {0}
  BY SMT, SchedulerAssumption
<1>2. ticks' - last_ai_tick \in Int
  BY SMT, <1>1 DEF TypeOK
<1>3. Elapsed \in 0 .. TICK_MOD - 1
  BY <1>1, <1>2, Wraps DEF Elapsed
<1>4. Elapsed >= AI_TICK_INTERVAL
  BY DEF AiDue
<1> QED BY SMT, <1>1, <1>3, <1>4

\* A cycle publishes a decision, for whatever the histories say.
LEMMA CycleDecides ==
  ASSUME AiCycle
  PROVE  \E anomalous \in [Tasks -> BOOLEAN] :
           perm_table' = Decision(current_state', state, ml_score, anomalous, wait_ticks)
<1>1. PICK flagged \in SUBSET Alive(state) :
        perm_table' = Decision(current_state', state, ml_score,
                               [i \in Tasks |-> i \in flagged], wait_ticks)
  BY DEF AiCycle
<1> DEFINE anomalous == [i \in Tasks |-> i \in flagged]
<1>2. anomalous \in [Tasks -> BOOLEAN]
  OBVIOUS
<1> QED BY <1>1, <1>2

\* The types after ai_kernel_tick.
LEMMA AiType ==
  ASSUME TypeOK, CountTick, AiCycle \/ AiSkipped
  PROVE  /\ last_ai_tick' \in 0 .. TICK_MOD - 1
         /\ run_ticks' \in [Tasks -> 0 .. RUN_MOD - 1]
         /\ cpu_usage' \in [Tasks -> 0 .. 100]
         /\ current_state' \in SysStates
         /\ perm_table' \in [Tasks -> Permissions]
<1>1. ticks' \in 0 .. TICK_MOD - 1
  BY TickType
<1>2. 0 \in 0 .. RUN_MOD - 1
  BY SMT, SchedulerAssumption
<1>3. CASE AiCycle
  <2>1. last_ai_tick' \in 0 .. TICK_MOD - 1
    BY <1>1, <1>3 DEF AiCycle
  <2>2. run_ticks' \in [Tasks -> 0 .. RUN_MOD - 1]
    BY <1>2, <1>3, ChargedType DEF AiCycle
  <2>3. cpu_usage' \in [Tasks -> 0 .. 100]
    <3>1. Elapsed \in Nat \ {0}
      BY <1>1, <1>3, ElapsedType DEF AiCycle
    <3>2. ASSUME NEW i \in Tasks PROVE Share(Charged[i], Elapsed) \in 0 .. 100
      <4>1. Charged[i] \in Nat
        BY SMT, ChargedType, SchedulerAssumption
      <4> QED BY <3>1, <4>1, ShareType
    <3>3. \A i \in Tasks : cpu_usage[i] \in 0 .. 100
      BY DEF TypeOK
    <3> QED BY <1>3, <3>2, <3>3 DEF AiCycle
  <2>4. current_state' \in SysStates
    BY <1>3 DEF AiCycle, SysState, SysStates
  <2>5. PICK anomalous \in [Tasks -> BOOLEAN] :
          perm_table' = Decision(current_state', state, ml_score, anomalous, wait_ticks)
    BY <1>3, CycleDecides
  <2>6. perm_table' \in [Tasks -> Permissions]
    BY <2>5, DecisionType DEF TypeOK
  <2> QED BY <2>1, <2>2, <2>3, <2>4, <2>6
<1>4. CASE AiSkipped
  BY <1>4, ChargedType DEF AiSkipped, TypeOK
<1> QED BY <1>3, <1>4

\* Every score is one the network gives, or the old one of an unused slot.
LEMMA ScoreGiven ==
  ASSUME TypeOK, cpu_usage' \in [Tasks -> 0 .. 100], ScoreTasks, NEW i \in Tasks
  PROVE  /\ i \in Alive(state) => ml_score'[i] \in Inferred(i)
         /\ i \notin Alive(state) => ml_score'[i] = ml_score[i]
         /\ ml_score'[i] \in 0 .. ML_ONE
<1>1. PICK choice :
        /\ \A j \in Undecided : choice[j] \in Inferred(j)
        /\ ml_score' = [j \in Tasks |->
                          IF j \in Undecided THEN choice[j]
                          ELSE IF j \in Alive(state) THEN CHOOSE s \in Inferred(j) : TRUE
                          ELSE ml_score[j]]
  BY DEF ScoreTasks
<1>2. Inferred(i) # {} /\ Inferred(i) \subseteq 0 .. ML_ONE
  <2>1. /\ Infer(cpu_usage'[i], wait_time[i], priority[i]) # {}
        /\ Infer(cpu_usage'[i], wait_time[i], priority[i]) \subseteq 0 .. ML_ONE
    BY NetworkAssumption DEF TypeOK
  <2> QED BY <2>1, MlOneType DEF Inferred
<1>3. (CHOOSE s \in Inferred(i) : TRUE) \in Inferred(i)
  BY <1>2
<1>4. i \in Undecided => i \in Alive(state)
  BY DEF Undecided
<1>5. /\ i \in Alive(state) => ml_score'[i] \in Inferred(i)
      /\ i \notin Alive(state) => ml_score'[i] = ml_score[i]
  BY <1>1, <1>3, <1>4
<1> QED BY <1>2, <1>5 DEF TypeOK

LEMMA ScoreType ==
  ASSUME TypeOK, cpu_usage' \in [Tasks -> 0 .. 100], ScoreTasks
  PROVE  ml_score' \in [Tasks -> 0 .. ML_ONE]
<1>1. ml_score' = [i \in Tasks |-> ml_score'[i]]
  BY DEF ScoreTasks
<1> QED BY <1>1, ScoreGiven

LEMMA PlainTickStep == IInv /\ PlainTick => IInv'
<1> SUFFICES ASSUME IInv, PlainTick PROVE IInv'
  OBVIOUS
<1>1. ticks' \in 0 .. TICK_MOD - 1
  BY TickType DEF IInv, PlainTick
<1>2. run_ticks' \in [Tasks -> 0 .. RUN_MOD - 1]
  BY ChargedType DEF IInv, PlainTick
<1>3. UNCHANGED <<taskVars, wait_ticks, mlVars, aiVars, modeVars, bootVars,
                  current_task, task_count, cpu, free_pages>>
  BY DEF PlainTick
<1>4. TypeOK'
  BY <1>1, <1>2, <1>3
  DEF IInv, TypeOK, taskVars, mlVars, aiVars, modeVars, bootVars
<1>5. BootOwnsTheCpu' /\ CpuRunsCurrent'
  BY <1>3 DEF IInv, BootOwnsTheCpu, CpuRunsCurrent, Alive, taskVars, bootVars
<1> QED BY <1>4, <1>5 DEF IInv

(***************************************************************************)
(* A switch takes place only among tasks: before scheduler_start the only  *)
(* task is the current one.                                                *)
(***************************************************************************)
LEMMA SwitchRuns ==
  ASSUME IInv, Switch, UNCHANGED <<priority, bootVars>>
  PROVE  /\ state' \in [Tasks -> TaskStates] /\ saved' \in [Tasks -> Contexts]
         /\ wait_ticks' \in [Tasks -> 0 .. WAIT_CAP]
         /\ current_task' \in Tasks /\ cpu' \in Contexts
         /\ BootOwnsTheCpu' /\ CpuRunsCurrent'
<1>1. PICK best \in Others :
        /\ state' = [state EXCEPT ![current_task] = "READY", ![best] = "RUNNING"]
        /\ wait_ticks' = [Waited EXCEPT ![best] = 0]
        /\ current_task' = best
        /\ saved' = [saved EXCEPT ![current_task] = cpu]
        /\ cpu' = saved[best]
  BY DEF Switch
<1>2. best \in Tasks /\ state[best] = "READY" /\ best # current_task
  BY DEF Others, Ready
<1>3. pc = "run" /\ pc' = "run"
  <2>1. best \in Alive(state)
    BY <1>2 DEF Alive
  <2>2. pc \in {"hardware", "greeting", "wait", "run"}
    BY DEF IInv, TypeOK
  <2>3. pc = "run"
    BY <1>2, <2>1, <2>2 DEF IInv, BootOwnsTheCpu
  <2> QED BY <2>3 DEF bootVars
<1>4. /\ cpu = current_task /\ current_task \in Tasks
      /\ saved[best] = best
  BY <1>2, <1>3 DEF IInv, TypeOK, CpuRunsCurrent, Alive
<1>5. state' \in [Tasks -> TaskStates] /\ saved' \in [Tasks -> Contexts]
  BY <1>1, <1>2, <1>4 DEF IInv, TypeOK, TaskStates, Contexts
<1>6. wait_ticks' \in [Tasks -> 0 .. WAIT_CAP]
  <2>1. 0 \in 0 .. WAIT_CAP
    BY SMT, SchedulerAssumption
  <2> QED BY <1>1, <2>1, WaitedType DEF IInv
<1>7. current_task' \in Tasks /\ cpu' \in Contexts
  BY <1>1, <1>2, <1>4 DEF Contexts
<1>8. BootOwnsTheCpu'
  BY <1>3 DEF BootOwnsTheCpu
<1>9. CpuRunsCurrent'
  <2>1. cpu' = current_task' /\ state'[current_task'] = "RUNNING"
    BY <1>1, <1>2, <1>4 DEF IInv, TypeOK
  <2>2. ASSUME NEW i \in Alive(state)' \ {current_task'}
        PROVE  state'[i] = "READY" /\ saved'[i] = i
    <3>1. i \in Tasks /\ i # best /\ state'[i] # "DEAD"
      BY <1>1 DEF Alive
    <3>2. CASE i = current_task
      BY <1>1, <1>2, <1>4, <3>1, <3>2 DEF IInv, TypeOK
    <3>3. CASE i # current_task
      <4>1. state'[i] = state[i] /\ saved'[i] = saved[i]
        BY <1>1, <1>2, <1>4, <3>1, <3>3 DEF IInv, TypeOK
      <4> QED BY <1>3, <3>1, <3>3, <4>1 DEF IInv, CpuRunsCurrent, Alive
    <3> QED BY <3>2, <3>3
  <2> QED BY <2>1, <2>2 DEF CpuRunsCurrent
<1> QED BY <1>5, <1>6, <1>7, <1>8, <1>9

LEMMA SchedulerTickStep == IInv /\ SchedulerTick => IInv'
<1> SUFFICES ASSUME IInv, SchedulerTick PROVE IInv'
  OBVIOUS
<1>1. ticks' \in 0 .. TICK_MOD - 1
  BY TickType DEF IInv, SchedulerTick
<1>2. /\ last_ai_tick' \in 0 .. TICK_MOD - 1
      /\ run_ticks' \in [Tasks -> 0 .. RUN_MOD - 1]
      /\ cpu_usage' \in [Tasks -> 0 .. 100]
      /\ current_state' \in SysStates
      /\ perm_table' \in [Tasks -> Permissions]
  BY AiType DEF IInv, SchedulerTick
<1>3. ml_score' \in [Tasks -> 0 .. ML_ONE]
  BY <1>2, ScoreType DEF IInv, SchedulerTick
<1>4. wait_time' \in [Tasks -> 0 .. WAIT_CAP]
  BY WaitedType DEF IInv, TypeOK, SchedulerTick
<1>5. UNCHANGED <<priority, modeVars, bootVars, task_count, free_pages>>
  BY DEF SchedulerTick
<1>6. /\ state' \in [Tasks -> TaskStates] /\ saved' \in [Tasks -> Contexts]
      /\ wait_ticks' \in [Tasks -> 0 .. WAIT_CAP]
      /\ current_task' \in Tasks /\ cpu' \in Contexts
      /\ BootOwnsTheCpu' /\ CpuRunsCurrent'
  <2>1. CASE Switch
    BY <1>5, <2>1, SwitchRuns
  <2>2. CASE Stay
    BY <1>5, <2>2 DEF Stay, IInv, TypeOK, BootOwnsTheCpu, CpuRunsCurrent, Alive, bootVars
  <2> QED BY <2>1, <2>2 DEF SchedulerTick
<1>7. TypeOK'
  BY <1>1, <1>2, <1>3, <1>4, <1>5, <1>6 DEF IInv, TypeOK, modeVars, bootVars
<1> QED BY <1>6, <1>7 DEF IInv

LEMMA NextIInv == IInv /\ [Next]_vars => IInv'
<1> SUFFICES ASSUME IInv, [Next]_vars PROVE IInv'
  OBVIOUS
<1>1. CASE BootStep
  BY <1>1, CreateShellStep, GreetingStep, SchedulerStartStep DEF BootStep
<1>2. CASE Tick
  BY <1>2, PlainTickStep, SchedulerTickStep DEF Tick
<1>3. CASE CreateTask
  BY <1>3, CreateTaskStep
<1>4. CASE PrajnaOffline \/ MemoryChanges
  BY <1>4, OtherCallsStep
<1>5. CASE UNCHANGED vars
  BY <1>5 DEF vars, IInv, TypeOK, BootOwnsTheCpu, CpuRunsCurrent, Alive,
     clockVars, taskVars, mlVars, aiVars, modeVars, bootVars
<1> QED BY <1>1, <1>2, <1>3, <1>4, <1>5 DEF Next

\* The boot, every tick and every call keep the inductive invariant.
THEOREM Invariance == Spec => []IInv
BY InitIInv, NextIInv, PTL DEF Spec

-----------------------------------------------------------------------------
(* The theorems.                                                           *)

\* Every field of the task table, every static and the permission table keep a
\* value of their type, for every period, every width of the counters and
\* every network.
THEOREM TypeCorrect == Spec => []TypeOK
<1>1. IInv => TypeOK
  BY DEF IInv
<1> QED BY <1>1, Invariance, PTL

\* No scheduler tick before scheduler_start takes the CPU from kernel_main.
THEOREM BootUndisturbed == Spec => []BootOwnsTheCpu
<1>1. IInv => BootOwnsTheCpu
  BY DEF IInv
<1> QED BY <1>1, Invariance, PTL

\* The CPU runs the task the scheduler thinks it runs, and the saved stack
\* pointer of every other task is that task's own.
THEOREM CpuAgrees == Spec => []CpuRunsCurrent
<1>1. IInv => CpuRunsCurrent
  BY DEF IInv
<1> QED BY <1>1, Invariance, PTL

-----------------------------------------------------------------------------
(***************************************************************************)
(* Second part: no tick of the scheduler misses its AI cycle while Prajna  *)
(* is online, not even the one on which ticks wraps, so every switch rests *)
(* on a decision of its own tick, for every period, every width of the     *)
(* counters and every network.                                             *)
(***************************************************************************)

(* Multiples.                                                              *)

LEMMA MulLess ==
  ASSUME NEW P \in Nat \ {0}, NEW x \in Nat, NEW y \in Nat, P * x < P * y
  PROVE  P * x + P <= P * y
<1>1. x < y
  <2> SUFFICES ASSUME y <= x PROVE FALSE
    BY SMT
  <2>1. PICK d \in Nat : x = y + d
    BY SMT
  <2>2. P * d \in Nat /\ P * x = P * y + P * d
    BY <2>1, SMT
  <2> QED BY <2>2, SMT
<1>2. PICK d \in Nat : y = x + 1 + d
  BY <1>1, SMT
<1>3. P * d \in Nat /\ P * y = P * x + P + P * d
  BY <1>2, SMT
<1> QED BY <1>3, SMT

LEMMA DivMod ==
  ASSUME NEW P \in Nat \ {0}, NEW n \in Nat
  PROVE  /\ n \div P \in Nat /\ n % P \in 0 .. P - 1
         /\ n = P * (n \div P) + (n % P)
<1>1. n % P \in 0 .. P - 1
  BY SMT
<1>2. n \div P \in Nat
  BY SMT
<1>3. n = P * (n \div P) + (n % P)
  BY SMT
<1> QED BY <1>1, <1>2, <1>3

LEMMA ModIs ==
  ASSUME NEW P \in Nat \ {0}, NEW k \in Nat, NEW r \in 0 .. P - 1, NEW n \in Nat,
         n = P * k + r
  PROVE  n % P = r
<1> DEFINE q == n \div P
           s == n % P
<1>1. q \in Nat /\ s \in 0 .. P - 1 /\ n = P * q + s
  BY DivMod
<1> HIDE DEF q, s
<1>2. P * q \in Nat /\ P * k \in Nat
  BY <1>1, SMT
<1>3. ASSUME P * q < P * k PROVE FALSE
  <2>1. P * q + P <= P * k
    BY <1>1, <1>3, MulLess
  <2> QED BY <1>1, <1>2, <2>1, SMT
<1>4. ASSUME P * k < P * q PROVE FALSE
  <2>1. P * k + P <= P * q
    BY <1>1, <1>4, MulLess
  <2> QED BY <1>1, <1>2, <2>1, SMT
<1>5. s = r
  BY <1>1, <1>2, <1>3, <1>4, SMT
<1> QED BY <1>5 DEF s

\* Counting one more, modulo P.
LEMMA ModNext ==
  ASSUME NEW P \in Nat \ {0}, NEW n \in Nat
  PROVE  ((n % P) + 1) % P = (n + 1) % P
<1> DEFINE k == n \div P
           r == n % P
<1>1. k \in Nat /\ r \in 0 .. P - 1 /\ n = P * k + r
  BY DivMod
<1> HIDE DEF k, r
<1>2. CASE r + 1 < P
  <2>1. r + 1 \in 0 .. P - 1 /\ n + 1 \in Nat /\ n + 1 = P * k + (r + 1)
    BY <1>1, <1>2, SMT
  <2>2. (n + 1) % P = r + 1
    BY <1>1, <2>1, ModIs
  <2>3. (r + 1) % P = r + 1
    BY <2>1, SMT
  <2> QED BY <2>2, <2>3 DEF r
<1>3. CASE ~(r + 1 < P)
  <2>1. r + 1 = P
    BY <1>1, <1>3, SMT
  <2> DEFINE j == k + 1
             m == n + 1
  <2>2. j \in Nat /\ 0 \in 0 .. P - 1 /\ m \in Nat /\ m = P * j + 0
    BY <1>1, <2>1, SMT
  <2> HIDE DEF j, m
  <2>3. m % P = 0
    BY <2>2, ModIs
  <2>4. (r + 1) % P = 0
    BY <2>1, SMT
  <2> QED BY <2>3, <2>4 DEF r, m
<1> QED BY <1>2, <1>3

-----------------------------------------------------------------------------
(***************************************************************************)
(* The inductive invariant.  DecisionFresh needs that no multiple of       *)
(* PERIOD passes without a cycle once a task exists; the boot, which may   *)
(* let some pass before, is over long before ticks wraps.                  *)
(***************************************************************************)
Multiple(m) == m \in Nat /\ \E q \in Nat : m = PERIOD * q

NoneMissed ==
  /\ last_ai_tick <= ticks
  /\ Multiple(last_ai_tick)
  /\ \A m \in Nat : Multiple(m) /\ last_ai_tick < m /\ m <= ticks => m < BOOT_TICKS

Charges ==
  \A i \in Tasks :
    run_ticks[i] = IF i = current_task THEN (ticks - last_ai_tick) % RUN_MOD ELSE 0

Modes ==
  /\ pc = "hardware" <=> task_count = 0
  /\ pc = "hardware" => last_ai_tick = 0
  /\ pc # "hardware" => state[SHELL_TASK_ID] # "DEAD"
  /\ prajna_fallback => ~ai_online

TurnInv == IInv /\ Modes /\ (ai_online => NoneMissed /\ Charges)

LEMMA Periods ==
  /\ PERIOD \in Nat \ {0} /\ AI_TICK_INTERVAL \in 1 .. PERIOD
  /\ TICK_MOD \in Nat \ {0} /\ RUN_MOD \in Nat \ {0} /\ BOOT_TICKS \in Nat \ {0}
  /\ TICK_MOD > PERIOD + BOOT_TICKS + 1
  /\ TICK_MOD % PERIOD \in {0} \cup AI_TICK_INTERVAL .. PERIOD
<1>1. BOOT_WAIT \in Nat /\ TICK_MOD > PERIOD + BOOT_TICKS + BOOT_WAIT + 1
  BY SchedulerAssumption
<1>2. /\ PERIOD \in Nat \ {0} /\ AI_TICK_INTERVAL \in 1 .. PERIOD
      /\ TICK_MOD \in Nat /\ RUN_MOD \in Nat \ {0} /\ BOOT_TICKS \in Nat \ {0}
      /\ TICK_MOD % PERIOD \in {0} \cup AI_TICK_INTERVAL .. PERIOD
  BY SchedulerAssumption
<1> QED BY <1>1, <1>2, SMT

\* A task always exists and the CPU charges it, once the scheduler has work.
LEMMA CurrentAlive ==
  ASSUME IInv, Modes, task_count > 0
  PROVE  current_task \in Alive(state)
<1>1. pc \in {"greeting", "wait", "run"}
  BY DEF IInv, TypeOK, Modes
<1> QED BY <1>1, ShellIsTask DEF IInv, TypeOK, BootOwnsTheCpu, CpuRunsCurrent, Alive

\* ticks wraps only when the scheduler is due.
LEMMA TickCounts ==
  ASSUME TurnInv, CountTick
  PROVE  \/ ticks' = ticks + 1 /\ ticks + 1 < TICK_MOD
         \/ ticks' = 0 /\ ticks = TICK_MOD - 1 /\ task_count > 0 /\ SchedulerDue
<1> USE Periods
<1>1. ticks \in 0 .. TICK_MOD - 1 /\ task_count \in Nat
  BY DEF TurnInv, IInv, TypeOK
<1>2. CASE ticks + 1 < TICK_MOD
  <2>1. ticks' = ticks + 1
    BY <1>1, <1>2, SMT DEF CountTick
  <2> QED BY <1>2, <2>1
<1>3. CASE ~(ticks + 1 < TICK_MOD)
  <2>1. ticks + 1 = TICK_MOD
    BY <1>1, <1>3, SMT
  <2>2. ticks' = 0
    BY <2>1, SMT DEF CountTick
  <2>3. pc # "hardware"
    BY <2>1, SMT DEF CountTick, BootKeepsUp
  <2>4. task_count > 0
    BY <1>1, <2>3, SMT DEF TurnInv, Modes
  <2>5. SchedulerDue
    BY <2>2, <2>4, SMT DEF SchedulerDue
  <2> QED BY <1>1, <2>1, <2>2, <2>4, <2>5, SMT
<1> QED BY <1>2, <1>3

\* When ticks wraps, the last cycle was at the last multiple of PERIOD.
LEMMA LastBeforeWrap ==
  ASSUME TurnInv, ai_online, ticks = TICK_MOD - 1
  PROVE  last_ai_tick > 0 /\ TICK_MOD - last_ai_tick >= AI_TICK_INTERVAL
<1> USE Periods
<1> DEFINE Q == TICK_MOD \div PERIOD
           R == TICK_MOD % PERIOD
           q1 == ticks \div PERIOD
           r1 == ticks % PERIOD
<1>0. /\ ticks \in Nat /\ last_ai_tick \in Nat /\ last_ai_tick <= ticks
      /\ \A m \in Nat : Multiple(m) /\ last_ai_tick < m /\ m <= ticks => m < BOOT_TICKS
      /\ \E k \in Nat : last_ai_tick = PERIOD * k
  <2>1. ticks \in Nat /\ last_ai_tick \in Nat
    BY SMT DEF TurnInv, IInv, TypeOK
  <2>2. NoneMissed
    BY DEF TurnInv
  <2> QED BY <2>1, <2>2, Zenon DEF NoneMissed, Multiple
<1>1. Q \in Nat /\ R \in 0 .. PERIOD - 1 /\ TICK_MOD = PERIOD * Q + R
  BY DivMod
<1>2. q1 \in Nat /\ r1 \in 0 .. PERIOD - 1 /\ ticks = PERIOD * q1 + r1
  BY <1>0, DivMod
<1>3. R = 0 \/ R >= AI_TICK_INTERVAL
  BY <1>1, SMT
<1> HIDE DEF Q, R, q1, r1
<1>4. PICK k \in Nat : last_ai_tick = PERIOD * k
  BY <1>0
<1> DEFINE m == PERIOD * q1
<1>5. Multiple(m)
  <2>1. m \in Nat
    BY <1>2, SMT
  <2> QED BY <1>2, <2>1 DEF Multiple
<1>6. m \in Nat /\ m <= ticks /\ m > ticks - PERIOD
  <2>1. m \in Nat
    BY <1>2, SMT
  <2>2. ticks = m + r1
    BY <1>2
  <2> HIDE DEF m
  <2> QED BY <1>2, <2>1, <2>2, SMT
<1> HIDE DEF m
<1>7. last_ai_tick > 0
  <2>1. m >= BOOT_TICKS
    BY <1>6, SMT
  <2>2. ~(last_ai_tick < m)
    BY <1>0, <1>5, <1>6, <2>1, SMT
  <2> QED BY <1>0, <1>6, <2>1, <2>2, SMT
<1>8. TICK_MOD - last_ai_tick >= AI_TICK_INTERVAL
  <2>1. PERIOD * Q \in Nat /\ PERIOD * k \in Nat
    BY <1>1, SMT
  <2>2. CASE PERIOD * k < PERIOD * Q
    <3>1. PERIOD * k + PERIOD <= PERIOD * Q
      BY <1>1, <2>2, MulLess
    <3> QED BY <1>1, <1>4, <2>1, <3>1, SMT
  <2>3. CASE PERIOD * k = PERIOD * Q
    BY <1>0, <1>1, <1>3, <1>4, <2>1, <2>3, SMT
  <2>4. ASSUME PERIOD * Q < PERIOD * k PROVE FALSE
    <3>1. PERIOD * Q + PERIOD <= PERIOD * k
      BY <1>1, <2>4, MulLess
    <3> QED BY <1>0, <1>1, <1>4, <2>1, <3>1, SMT
  <2> QED BY <2>1, <2>2, <2>3, <2>4, SMT
<1> QED BY <1>7, <1>8

\* While Prajna is online a tick of the scheduler is a cycle of its own, whatever
\* became of the ticks before it.
LEMMA DueNow ==
  ASSUME TurnInv, CountTick, SchedulerDue, ai_online
  PROVE  AiDue /\ Multiple(ticks') /\ ticks' \in 0 .. TICK_MOD - 1
<1> USE Periods
<1>0. /\ ticks \in Nat /\ last_ai_tick \in Nat /\ last_ai_tick <= ticks
      /\ \E k \in Nat : last_ai_tick = PERIOD * k
  <2>1. ticks \in Nat /\ last_ai_tick \in Nat
    BY SMT DEF TurnInv, IInv, TypeOK
  <2>2. NoneMissed
    BY DEF TurnInv
  <2> QED BY <2>1, <2>2, Zenon DEF NoneMissed, Multiple
<1>1. ticks' \in 0 .. TICK_MOD - 1
  BY TickType DEF TurnInv, IInv
<1>2. ticks' % PERIOD = 0
  BY DEF SchedulerDue
<1>3. \E q \in Nat : ticks' = PERIOD * q
  <2> DEFINE n == ticks'
             q == n \div PERIOD
  <2>0. n \in Nat
    BY <1>1, SMT
  <2>1. n \in Nat /\ n % PERIOD = 0
    BY <1>2, <2>0
  <2> HIDE DEF n
  <2>2. q \in Nat /\ n = PERIOD * q + (n % PERIOD)
    BY <2>1, DivMod
  <2>3. PERIOD * q \in Nat
    BY <2>2, SMT
  <2> HIDE DEF q
  <2>4. n = PERIOD * q
    BY <2>1, <2>2, <2>3, SMT
  <2> QED BY <2>2, <2>4 DEF n
<1>4. Multiple(ticks')
  BY <1>1, <1>3, SMT DEF Multiple
<1>5. ASSUME ticks' = ticks + 1 PROVE AiDue
  <2>1. PICK k \in Nat : last_ai_tick = PERIOD * k
    BY <1>0
  <2>2. PICK q \in Nat : ticks' = PERIOD * q
    BY <1>3
  <2>3. PERIOD * k < PERIOD * q
    BY <1>0, <1>5, <2>1, <2>2, SMT
  <2>4. PERIOD * k + PERIOD <= PERIOD * q
    BY <2>3, MulLess
  <2>5. ticks' - last_ai_tick >= PERIOD /\ ticks' - last_ai_tick \in 0 .. TICK_MOD - 1
    BY <1>0, <1>1, <2>1, <2>2, <2>4, SMT
  <2>6. Elapsed = ticks' - last_ai_tick
    BY <2>5, SMT DEF Elapsed
  <2>7. Elapsed >= AI_TICK_INTERVAL
    BY <1>0, <2>5, <2>6, SMT
  <2> QED BY <2>7, Zenon DEF AiDue
<1>6. ASSUME ticks' = 0, ticks = TICK_MOD - 1 PROVE AiDue
  <2>1. last_ai_tick > 0 /\ TICK_MOD - last_ai_tick >= AI_TICK_INTERVAL
    BY <1>6, LastBeforeWrap
  <2>2. Elapsed = TICK_MOD - last_ai_tick
    <3> DEFINE d == TICK_MOD - last_ai_tick
    <3>1. d \in 1 .. TICK_MOD - 1
      BY <1>0, <1>6, <2>1, SMT
    <3>2. (0 - last_ai_tick) % TICK_MOD = d
      BY <1>0, <1>6, <2>1, <3>1, SMT
    <3> QED BY <1>6, <3>2 DEF Elapsed
  <2> QED BY <2>1, <2>2, Zenon DEF AiDue
<1>7. AiDue
  BY <1>5, <1>6, TickCounts
<1> QED BY <1>1, <1>4, <1>7

LEMMA TurnInit == Init => TurnInv
<1> SUFFICES ASSUME Init PROVE TurnInv
  OBVIOUS
<1> USE Periods
<1>1. IInv
  BY InitIInv
<1>2. Modes
  BY DEF Init, Modes
<1>3. Multiple(0)
  BY SMT DEF Multiple
<1>4. NoneMissed
  BY <1>3, SMT DEF Init, NoneMissed
<1>5. Charges
  <2>1. 0 % RUN_MOD = 0
    BY SMT
  <2> QED BY <2>1, SMT DEF Init, Charges
<1> QED BY <1>1, <1>2, <1>4, <1>5 DEF TurnInv

\* A tick without the scheduler charges the current task.
LEMMA PlainTurn ==
  ASSUME TurnInv, PlainTick
  PROVE  TurnInv'
<1> USE Periods
<1>0. IInv /\ IInv' /\ Modes
  BY PlainTickStep DEF TurnInv
<1>1. UNCHANGED <<taskVars, wait_ticks, mlVars, aiVars, modeVars, bootVars,
                  current_task, task_count, cpu, free_pages>>
  BY DEF PlainTick
<1>2. Modes'
  BY <1>0, <1>1 DEF Modes, taskVars, aiVars, modeVars, bootVars
<1>3. ticks' = ticks + 1 /\ ~SchedulerDue /\ run_ticks' = Charged /\ CountTick
  BY TickCounts DEF PlainTick
<1>4. ASSUME ai_online' PROVE NoneMissed' /\ Charges'
  <2>1. ai_online /\ last_ai_tick' = last_ai_tick /\ current_task' = current_task
        /\ NoneMissed /\ Charges
    BY <1>1, <1>4 DEF modeVars, aiVars, TurnInv
  <2>2. ticks \in Nat /\ last_ai_tick \in Nat /\ last_ai_tick <= ticks /\ task_count \in Nat
    BY <1>0, <2>1, SMT DEF IInv, TypeOK, NoneMissed
  <2>3. ASSUME NEW m \in Nat, Multiple(m), last_ai_tick < m, m <= ticks'
        PROVE  m < BOOT_TICKS
    <3>1. CASE m <= ticks
      BY <2>1, <2>3, <3>1 DEF NoneMissed
    <3>2. CASE ~(m <= ticks)
      <4>1. m = ticks'
        BY <1>3, <2>2, <2>3, <3>2, SMT
      <4>2. PICK q \in Nat : m = PERIOD * q
        BY <2>3 DEF Multiple
      <4>3. 0 \in 0 .. PERIOD - 1 /\ m = PERIOD * q + 0
        BY <2>3, <4>2, SMT
      <4>4. m % PERIOD = 0
        BY <4>3, ModIs
      <4>5. task_count = 0
        BY <1>3, <2>2, <4>1, <4>4, SMT DEF SchedulerDue
      <4>6. ticks + 1 < BOOT_TICKS
        BY <1>0, <1>3, <4>5 DEF CountTick, BootKeepsUp, Modes
      <4> QED BY <1>3, <4>1, <4>6
    <3> QED BY <3>1, <3>2
  <2>4. NoneMissed'
    BY <1>3, <2>1, <2>2, <2>3, SMT DEF NoneMissed, Multiple
  <2>5. Charges'
    <3> DEFINE n == ticks - last_ai_tick
    <3>1. n \in Nat /\ ticks' - last_ai_tick' = n + 1
      BY <1>3, <2>1, <2>2, SMT
    <3> HIDE DEF n
    <3>2. ((n % RUN_MOD) + 1) % RUN_MOD = (n + 1) % RUN_MOD
      BY <3>1, ModNext
    <3>3. /\ run_ticks \in [Tasks -> 0 .. RUN_MOD - 1] /\ current_task \in Tasks
      BY <1>0 DEF IInv, TypeOK
    <3>4. run_ticks[current_task] = n % RUN_MOD
      BY <2>1, <3>3 DEF Charges, n
    <3>5. run_ticks' = [run_ticks EXCEPT ![current_task] = (n + 1) % RUN_MOD]
      BY <1>3, <3>2, <3>4 DEF Charged
    <3>6. \A i \in Tasks : i # current_task => run_ticks[i] = 0
      BY <2>1 DEF Charges
    <3> QED BY <2>1, <3>1, <3>3, <3>5, <3>6 DEF Charges
  <2> QED BY <2>4, <2>5
<1> QED BY <1>0, <1>2, <1>4 DEF TurnInv

\* A tick of the scheduler closes the account and opens the next one at zero.
LEMMA CycleCloses ==
  ASSUME TurnInv, SchedulerTick, ai_online
  PROVE  AiCycle /\ last_ai_tick' = ticks' /\ NoneMissed' /\ Charges'
<1> USE Periods
<1>0. IInv /\ Modes /\ CountTick /\ SchedulerDue /\ (AiCycle \/ AiSkipped)
      /\ NoneMissed /\ Charges
  BY DEF SchedulerTick, TurnInv
<1>1. AiDue /\ Multiple(ticks') /\ ticks' \in Nat
  <2>1. AiDue /\ Multiple(ticks') /\ ticks' \in 0 .. TICK_MOD - 1
    BY <1>0, DueNow
  <2> QED BY <2>1, SMT
<1>2. AiCycle /\ last_ai_tick' = ticks'
  BY <1>0, <1>1, Zenon DEF AiCycle, AiSkipped
<1>3. NoneMissed'
  BY <1>1, <1>2, SMT DEF NoneMissed, Multiple
<1>4. current_task \in Alive(state)
  <2>1. task_count > 0
    BY <1>0 DEF SchedulerDue
  <2> QED BY <1>0, <2>1, CurrentAlive
<1>5. \A i \in Tasks : run_ticks'[i] = 0
  <2> SUFFICES ASSUME NEW i \in Tasks PROVE run_ticks'[i] = 0
    OBVIOUS
  <2>1. CASE i \in Alive(state)
    BY <1>2, <2>1 DEF AiCycle
  <2>2. CASE i \notin Alive(state)
    <3>1. i # current_task /\ run_ticks'[i] = Charged[i]
      BY <1>2, <1>4, <2>2 DEF AiCycle
    <3>2. run_ticks \in [Tasks -> 0 .. RUN_MOD - 1] /\ run_ticks[i] = 0
      BY <1>0, <3>1 DEF IInv, TypeOK, Charges
    <3> QED BY <3>1, <3>2 DEF Charged
  <2> QED BY <2>1, <2>2
<1>6. (ticks' - last_ai_tick') % RUN_MOD = 0
  <2>1. \A n \in Nat : (n - n) % RUN_MOD = 0
    BY SMT
  <2> QED BY <1>1, <1>2, <2>1, Zenon
<1>7. Charges'
  BY <1>5, <1>6 DEF Charges
<1> QED BY <1>2, <1>3, <1>7

LEMMA SchedulerTurn ==
  ASSUME TurnInv, SchedulerTick
  PROVE  TurnInv'
<1>0. IInv /\ IInv' /\ Modes
  BY SchedulerTickStep DEF TurnInv
<1>1. UNCHANGED <<priority, modeVars, bootVars, task_count, free_pages>>
      /\ task_count > 0 /\ task_count \in Nat
  BY <1>0 DEF SchedulerTick, SchedulerDue, IInv, TypeOK
<1>2. pc # "hardware" /\ pc' # "hardware"
  BY <1>0, <1>1, SMT DEF Modes, bootVars
<1>3. state'[SHELL_TASK_ID] # "DEAD"
  <2>1. state[SHELL_TASK_ID] # "DEAD" /\ SHELL_TASK_ID \in Tasks
    BY <1>0, <1>2, ShellIsTask DEF Modes, SHELL_TASK_ID
  <2>2. CASE Stay
    BY <2>1, <2>2 DEF Stay
  <2>3. CASE Switch
    <3>1. PICK best \in Others :
            state' = [state EXCEPT ![current_task] = "READY", ![best] = "RUNNING"]
      BY <2>3 DEF Switch
    <3>2. best \in Tasks /\ current_task \in Tasks /\ state \in [Tasks -> TaskStates]
      BY <1>0 DEF IInv, TypeOK, Others, Ready
    <3> QED BY <2>1, <3>1, <3>2
  <2> QED BY <2>2, <2>3 DEF SchedulerTick
<1>4. Modes'
  BY <1>0, <1>1, <1>2, <1>3 DEF Modes, modeVars, bootVars
<1>5. ai_online' => ai_online
  BY <1>1 DEF modeVars
<1> QED BY <1>0, <1>4, <1>5, CycleCloses DEF TurnInv

\* Everything but the ticks leaves the clock and the accounts alone, and only
\* takes Prajna offline.
LEMMA OtherTurn ==
  ASSUME TurnInv, IInv', Modes', ai_online' => ai_online,
         UNCHANGED <<ticks, run_ticks, last_ai_tick, current_task>>
  PROVE  TurnInv'
BY DEF TurnInv, NoneMissed, Charges, Multiple

LEMMA CreateTurn ==
  ASSUME TurnInv, NEW prio \in 0 .. 10, TaskCreate(prio), pc' # "hardware"
  PROVE  Modes' /\ UNCHANGED <<ticks, run_ticks, last_ai_tick, current_task, ai_online>>
<1>0. IInv /\ Modes
  BY DEF TurnInv
<1>1. PICK i \in Tasks :
        /\ state[i] = "DEAD" /\ \A j \in 0 .. i - 1 : state[j] # "DEAD"
        /\ state' = [state EXCEPT ![i] = "READY"]
        /\ task_count' = task_count + 1
        /\ UNCHANGED <<clockVars, wait_ticks, mlVars, aiVars, modeVars, current_task, cpu>>
  BY Zenon DEF TaskCreate
<1>2. 0 \in Tasks /\ state \in [Tasks -> TaskStates] /\ task_count \in Nat /\ i \in Nat
  BY <1>0, ShellIsTask, SMT DEF IInv, TypeOK, Tasks
<1>3. state'[0] # "DEAD"
  <2>1. CASE i = 0
    BY <1>1, <1>2, <2>1
  <2>2. CASE i # 0
    <3>1. 0 \in 0 .. i - 1
      BY <1>2, <2>2, SMT
    <3>2. state[0] # "DEAD"
      BY <1>1, <3>1
    <3> QED BY <1>1, <1>2, <2>2, <3>2
  <2> QED BY <2>1, <2>2
<1>4. task_count' # 0
  BY <1>1, <1>2, SMT
<1>5. UNCHANGED <<ticks, run_ticks, last_ai_tick, current_task, ai_online, prajna_fallback>>
  BY <1>1 DEF clockVars, aiVars, modeVars
<1>6. Modes'
  BY <1>0, <1>3, <1>4, <1>5 DEF Modes, SHELL_TASK_ID
<1> QED BY <1>5, <1>6

LEMMA TurnNext == TurnInv /\ [Next]_vars => TurnInv'
<1> SUFFICES ASSUME TurnInv, [Next]_vars PROVE TurnInv'
  OBVIOUS
<1>0. IInv' /\ Modes /\ IInv
  BY NextIInv DEF TurnInv
<1>1. CASE CreateShell
  <2>1. TaskCreate(5) /\ pc' # "hardware" /\ 5 \in 0 .. 10
    BY <1>1, SMT DEF CreateShell
  <2> QED BY <1>0, <2>1, CreateTurn, OtherTurn
<1>2. CASE Greeting
  <2>1. /\ UNCHANGED <<ticks, run_ticks, last_ai_tick, current_task, state, task_count,
                       prajna_fallback>>
        /\ pc = "greeting" /\ pc' = "wait" /\ (ai_online' => ai_online)
    BY <1>2 DEF Greeting, clockVars, taskVars, aiVars
  <2>2. prajna_fallback' => ~ai_online'
    BY <1>0, <2>1, Zenon DEF Modes
  <2>3. Modes'
    BY <1>0, <2>1, <2>2 DEF Modes
  <2> QED BY <1>0, <2>1, <2>3, OtherTurn
<1>3. CASE SchedulerStart
  <2>1. /\ UNCHANGED <<ticks, run_ticks, last_ai_tick, task_count, prajna_fallback, ai_online>>
        /\ pc = "wait" /\ pc' = "run"
        /\ state' = [state EXCEPT ![0] = "RUNNING"] /\ current_task' = 0
    BY <1>3 DEF SchedulerStart, clockVars, aiVars, modeVars
  <2>2. current_task = 0 /\ state'[SHELL_TASK_ID] # "DEAD"
    BY <1>0, <2>1, ShellIsTask DEF IInv, TypeOK, BootOwnsTheCpu, SHELL_TASK_ID
  <2>3. Modes'
    BY <1>0, <2>1, <2>2 DEF Modes
  <2> QED BY <1>0, <2>1, <2>2, <2>3, OtherTurn
<1>4. CASE CreateTask
  <2>1. PICK prio \in LaterPriorities : TaskCreate(prio)
    BY <1>4 DEF CreateTask
  <2>2. prio \in 0 .. 10 /\ pc' # "hardware"
    BY <1>4, SchedulerAssumption DEF CreateTask, bootVars
  <2> QED BY <1>0, <2>1, <2>2, CreateTurn, OtherTurn
<1>5. CASE PrajnaOffline
  <2>1. /\ UNCHANGED <<ticks, run_ticks, last_ai_tick, current_task, state, task_count, pc>>
        /\ ai_online' = FALSE
    BY <1>5 DEF PrajnaOffline, clockVars, taskVars, aiVars, bootVars
  <2>2. Modes'
    BY <1>0, <2>1 DEF Modes
  <2> QED BY <1>0, <2>1, <2>2, OtherTurn
<1>6. CASE MemoryChanges
  <2>1. UNCHANGED <<ticks, run_ticks, last_ai_tick, current_task, state, task_count, pc,
                    ai_online, prajna_fallback>>
    BY <1>6 DEF MemoryChanges, clockVars, taskVars, aiVars, modeVars, bootVars
  <2>2. Modes'
    BY <1>0, <2>1 DEF Modes
  <2> QED BY <1>0, <2>1, <2>2, OtherTurn
<1>7. CASE UNCHANGED vars
  <2>1. UNCHANGED <<ticks, run_ticks, last_ai_tick, current_task, state, task_count, pc,
                    ai_online, prajna_fallback>>
    BY <1>7 DEF vars, clockVars, taskVars, aiVars, modeVars, bootVars
  <2>2. Modes'
    BY <1>0, <2>1 DEF Modes
  <2> QED BY <1>0, <2>1, <2>2, OtherTurn
<1>8. CASE PlainTick
  BY <1>8, PlainTurn
<1>9. CASE SchedulerTick
  BY <1>9, SchedulerTurn
<1> QED BY <1>1, <1>2, <1>3, <1>4, <1>5, <1>6, <1>7, <1>8, <1>9 DEF Next, BootStep, Tick

LEMMA TurnAlways == Spec => []TurnInv
BY TurnInit, TurnNext, PTL DEF Spec

-----------------------------------------------------------------------------
(* The theorems.                                                           *)

\* While Prajna is online the ticks since its last cycle are charged to the current
\* task and to nobody else, for every width of the two counters and up to multiples
\* of the width of run_ticks (pit.c:129).
THEOREM ChargesFollowTheCpu == Spec => []CpuAccounting
<1>1. TurnInv => CpuAccounting
  <2> SUFFICES ASSUME TurnInv, ai_online PROVE CpuAccounting
    BY DEF CpuAccounting
  <2>1. Charges /\ NoneMissed /\ ticks \in 0 .. TICK_MOD - 1 /\ last_ai_tick \in 0 .. TICK_MOD - 1
    BY DEF TurnInv, IInv, TypeOK
  <2>2. (ticks - last_ai_tick) % TICK_MOD = ticks - last_ai_tick
    BY <2>1, Periods, SMT DEF NoneMissed
  <2> QED BY <2>1, <2>2 DEF CpuAccounting, Charges
<1> QED BY <1>1, TurnAlways, PTL

\* Only a tick of the scheduler changes the current task.
LEMMA WhoSwitches ==
  ASSUME TurnInv, [Next]_vars, current_task' # current_task
  PROVE  SchedulerTick
<1>0. IInv
  BY DEF TurnInv
<1>1. ~CreateShell /\ ~CreateTask
  BY DEF CreateShell, CreateTask, TaskCreate
<1>2. ~Greeting /\ ~PrajnaOffline /\ ~MemoryChanges /\ ~PlainTick /\ ~UNCHANGED vars
  BY DEF Greeting, PrajnaOffline, MemoryChanges, PlainTick, vars
<1>3. ~SchedulerStart
  BY <1>0 DEF SchedulerStart, IInv, BootOwnsTheCpu
<1> QED BY <1>1, <1>2, <1>3 DEF Next, BootStep, Tick

\* Every switch Prajna has a say in follows a decision of the same tick.
THEOREM DecisionsAreFresh == Spec => DecisionFresh
<1>1. TurnInv /\ [Next]_vars => (current_task' # current_task /\ ai_online => last_ai_tick' = ticks')
  BY WhoSwitches, CycleCloses
<1> QED BY <1>1, TurnAlways, PTL DEF Spec, DecisionFresh

\* The table after a cycle in ALERT allows the shell alone.
LEMMA AlertTable ==
  ASSUME TurnInv, AiCycle
  PROVE  /\ state[SHELL_TASK_ID] # "DEAD" => perm_table'[SHELL_TASK_ID].allowed
         /\ \A i \in Tasks : i # SHELL_TASK_ID /\ current_state' = "ALERT"
                               => ~perm_table'[i].allowed
         /\ \A i \in Tasks : state[i] # "DEAD" /\ current_state' # "ALERT"
                               => perm_table'[i].allowed
<1>1. PICK anomalous \in [Tasks -> BOOLEAN] :
        perm_table' = Decision(current_state', state, ml_score, anomalous, wait_ticks)
  BY CycleDecides
<1>2. SHELL_TASK_ID \in Tasks
  BY ShellIsTask DEF SHELL_TASK_ID
<1> QED BY <1>1, <1>2 DEF Decision, NoPermission

\* The shell is waiting whenever it is not running.
LEMMA ShellWaits ==
  ASSUME TurnInv, pc = "run", current_task # SHELL_TASK_ID
  PROVE  SHELL_TASK_ID \in Others
<1>1. IInv /\ state[SHELL_TASK_ID] # "DEAD" /\ SHELL_TASK_ID \in Tasks
  BY ShellIsTask DEF TurnInv, Modes, SHELL_TASK_ID
<1>2. SHELL_TASK_ID \in Alive(state) \ {current_task}
  BY <1>1 DEF Alive
<1>3. state[SHELL_TASK_ID] = "READY"
  BY <1>1, <1>2 DEF IInv, CpuRunsCurrent
<1> QED BY <1>1, <1>3 DEF Others, Ready

\* A switch made while Prajna is online goes to an allowed task if one waits.
LEMMA SwitchAllowed ==
  ASSUME TurnInv, SchedulerTick, ai_online, NEW i \in Others, perm_table'[i].allowed
  PROVE  current_task' \in Others /\ perm_table'[current_task'].allowed
<1>1. PICK best \in Others : IsTarget(best) /\ current_task' = best
  BY DEF SchedulerTick, Stay, Switch
<1>2. ~prajna_fallback
  BY Zenon DEF TurnInv, Modes
<1>3. i \in {j \in Others : Allowed(j)}
  BY Zenon DEF Allowed
<1>4. Allowed(best)
  BY <1>1, <1>3 DEF IsTarget, IsBest
<1>5. perm_table'[best].allowed
  BY <1>2, <1>4, Zenon DEF Allowed
<1> QED BY <1>1, <1>5

\* In ALERT the shell has this turn or gets the next one.
THEOREM ShellRecovers == Spec => RecoveryShell
<1>1. TurnInv /\ [Next]_vars =>
        (pc = "run" /\ ai_online /\ ticks' # ticks /\ SchedulerDue /\ current_state' = "ALERT"
           => SHELL_TASK_ID \in {current_task, current_task'})
  <2> SUFFICES ASSUME TurnInv, [Next]_vars, pc = "run", ai_online, ticks' # ticks, SchedulerDue,
                      current_state' = "ALERT", current_task # SHELL_TASK_ID
               PROVE  current_task' = SHELL_TASK_ID
    OBVIOUS
  <2>1. SchedulerTick
    BY DEF Next, BootStep, CreateShell, Greeting, SchedulerStart, Tick, PlainTick, CreateTask,
           TaskCreate, PrajnaOffline, MemoryChanges, vars, clockVars
  <2>2. AiCycle
    BY <2>1, CycleCloses
  <2>3. SHELL_TASK_ID \in Others
    BY ShellWaits
  <2>4. state[SHELL_TASK_ID] # "DEAD"
    BY <2>3 DEF Others, Ready
  <2>5. perm_table'[SHELL_TASK_ID].allowed
    BY <2>2, <2>4, AlertTable
  <2>6. current_task' \in Others /\ perm_table'[current_task'].allowed
    BY <2>1, <2>3, <2>5, SwitchAllowed
  <2>7. current_task' \in Tasks
    BY <2>6 DEF Others, Ready
  <2> QED BY <2>2, <2>6, <2>7, AlertTable
<1> QED BY <1>1, TurnAlways, PTL DEF Spec, RecoveryShell

\* A blocked task is given the CPU only in ALERT and only right after the shell.
THEOREM BlockedAfterShell == Spec => BlockedRunsOnlyAfterShell
<1>1. TurnInv /\ [Next]_vars =>
        (current_task' # current_task /\ ai_online /\ ~perm_table'[current_task'].allowed
           => current_state' = "ALERT" /\ current_task = SHELL_TASK_ID)
  <2> SUFFICES ASSUME TurnInv, [Next]_vars, current_task' # current_task, ai_online,
                      ~perm_table'[current_task'].allowed
               PROVE  current_state' = "ALERT" /\ current_task = SHELL_TASK_ID
    OBVIOUS
  <2>1. SchedulerTick
    BY WhoSwitches
  <2>2. AiCycle
    BY <2>1, CycleCloses
  <2>3. current_task' \in Others
    BY <2>1 DEF SchedulerTick, Switch, Stay
  <2>4. current_task' \in Tasks /\ state[current_task'] = "READY"
    BY <2>3 DEF Others, Ready
  <2>5. current_state' = "ALERT"
    BY <2>2, <2>4, AlertTable
  <2>6. pc = "run"
    <3>1. IInv /\ current_task' \in Alive(state) /\ current_task' # current_task
      BY <2>4 DEF TurnInv, Alive
    <3>2. pc \in {"hardware", "greeting", "wait", "run"}
      BY <3>1 DEF IInv, TypeOK
    <3> QED BY <3>1, <3>2 DEF IInv, BootOwnsTheCpu
  <2>7. ASSUME current_task # SHELL_TASK_ID PROVE FALSE
    <3>1. SHELL_TASK_ID \in Others
      BY <2>6, <2>7, ShellWaits
    <3>2. perm_table'[SHELL_TASK_ID].allowed
      <4>1. state[SHELL_TASK_ID] # "DEAD"
        BY <3>1 DEF Others, Ready
      <4> QED BY <2>2, <4>1, AlertTable
    <3> QED BY <2>1, <3>1, <3>2, SwitchAllowed
  <2> QED BY <2>5, <2>7
<1> QED BY <1>1, TurnAlways, PTL DEF Spec, BlockedRunsOnlyAfterShell

-----------------------------------------------------------------------------
(***************************************************************************)
(* Third part: the starvation guard.  A task that starves is HIGH, and if  *)
(* nobody is HIGH by his score, only another that starves is chosen before *)
(* it.  Each of these rests afterwards, and while the one goes on waiting  *)
(* the tasks that rest become more: Overtaken counts them.  With at most   *)
(* STARVATION_THRESHOLD + 3 tasks nobody starves again in the meantime.    *)
(***************************************************************************)
Rested(n) == {j \in Tasks : wait_ticks[j] <= n}

Overtaken ==
  \A i \in Tasks :
    wait_ticks[i] > STARVATION_THRESHOLD =>
      Cardinality(Rested(wait_ticks[i] - STARVATION_THRESHOLD - 1))
        >= wait_ticks[i] - STARVATION_THRESHOLD + 1

Modest == \A i \in Tasks : ml_score[i] <= 700000

OnlyReadyWait == \A i \in Tasks : wait_ticks[i] > 0 => pc = "run" /\ state[i] = "READY"

WaitInv == TurnInv /\ Modest /\ OnlyReadyWait /\ Overtaken

\* The network is even-handed between the priorities of the tasks there are.
Even(prios) == EvenHanded(Infer, prios)

EvenNetwork == Even(UsedPriorities)

\* Tasks never go, so a network that is even-handed now has been from the start.
GuardInv == TurnInv /\ (EvenNetwork => WaitInv)

\* Eight tasks and a threshold of 5, as the code has them, are within it.
FewTasks ==
  /\ MAX_TASKS \in 2 .. STARVATION_THRESHOLD + 3
  /\ WAIT_CAP > STARVATION_THRESHOLD + MAX_TASKS - 2

LEMMA TasksFinite == IsFiniteSet(Tasks) /\ Cardinality(Tasks) = MAX_TASKS
<1>1. MAX_TASKS \in Nat \ {0} /\ 0 \in Int /\ MAX_TASKS - 1 \in Int
  BY PrajnaAssumption, SMT
<1>2. /\ IsFiniteSet(0 .. MAX_TASKS - 1)
      /\ Cardinality(0 .. MAX_TASKS - 1)
           = IF 0 > MAX_TASKS - 1 THEN 0 ELSE (MAX_TASKS - 1) - 0 + 1
  BY <1>1, FS_Interval
<1> QED BY <1>1, <1>2, SMT DEF Tasks

LEMMA Thresholds ==
  STARVATION_THRESHOLD \in Nat /\ WAIT_CAP \in Nat /\ MAX_TASKS \in Nat \ {0}
BY PrajnaAssumption, SchedulerAssumption

LEMMA WaitType ==
  ASSUME WaitInv, NEW i \in Tasks
  PROVE  wait_ticks[i] \in 0 .. WAIT_CAP
BY DEF WaitInv, TurnInv, IInv, TypeOK

\* The one that waits has not rested, so the others bound its wait.
LEMMA WaitBounded ==
  ASSUME WaitInv, MAX_TASKS >= 2, NEW i \in Tasks
  PROVE  wait_ticks[i] <= STARVATION_THRESHOLD + MAX_TASKS - 2
<1> USE Thresholds
<1> DEFINE w == wait_ticks[i]
           R == Rested(w - STARVATION_THRESHOLD - 1)
<1>1. w \in Nat
  BY WaitType, SMT
<1>2. CASE w <= STARVATION_THRESHOLD
  BY <1>1, <1>2, SMT
<1>3. CASE w > STARVATION_THRESHOLD
  <2>1. Cardinality(R) >= w - STARVATION_THRESHOLD + 1
    BY <1>3 DEF WaitInv, Overtaken
  <2>2. R \subseteq Tasks \ {i}
    <3>1. ~(w <= w - STARVATION_THRESHOLD - 1)
      BY <1>1, SMT
    <3> QED BY <3>1 DEF Rested
  <2>3. IsFiniteSet(Tasks \ {i}) /\ Cardinality(Tasks \ {i}) = MAX_TASKS - 1
    BY TasksFinite, FS_RemoveElement
  <2>4. Cardinality(R) <= MAX_TASKS - 1 /\ IsFiniteSet(R)
    BY <2>2, <2>3, FS_Subset
  <2>5. Cardinality(R) \in Nat
    BY <2>4, FS_CardinalityType
  <2> HIDE DEF w, R
  <2>6. w <= STARVATION_THRESHOLD + MAX_TASKS - 2
    BY <1>1, <2>1, <2>4, <2>5, SMT
  <2> QED BY <2>6 DEF w
<1> QED BY <1>1, <1>2, <1>3, SMT

\* A task that was not running has no share.
LEMMA NoShare ==
  ASSUME TurnInv, SchedulerTick, ai_online, NEW i \in Others
  PROVE  cpu_usage'[i] = 0
<1>1. AiCycle /\ AiDue /\ CountTick /\ TypeOK
  BY CycleCloses DEF AiCycle, SchedulerTick, TurnInv, IInv
<1>2. i \in Tasks /\ i # current_task /\ i \in Alive(state)
  BY DEF Others, Ready, Alive
<1>3. run_ticks[i] = 0 /\ run_ticks \in [Tasks -> 0 .. RUN_MOD - 1]
  BY <1>1, <1>2 DEF TurnInv, Charges, TypeOK
<1>4. Charged[i] = 0
  BY <1>2, <1>3 DEF Charged
<1>5. Elapsed \in Nat \ {0}
  BY <1>1, TickType, ElapsedType
<1>6. Share(0, Elapsed) = 0
  BY <1>5, SMT DEF Share
<1> QED BY <1>1, <1>2, <1>4, <1>6 DEF AiCycle

\* The table of a cycle that is not in ALERT: HIGH are those that starve.
LEMMA GuardTable ==
  ASSUME WaitInv, AiCycle, PrajnaInCharge, NEW i \in Alive(state)
  PROVE  /\ perm_table'[i].allowed
         /\ Starved(wait_ticks[i]) => perm_table'[i].priority = 2
         /\ ~Starved(wait_ticks[i]) => perm_table'[i].priority \in 0 .. 1
<1>1. PICK anomalous \in [Tasks -> BOOLEAN] :
        perm_table' = Decision(current_state', state, ml_score, anomalous, wait_ticks)
  BY CycleDecides
<1>2. i \in Tasks /\ state[i] # "DEAD"
  BY DEF Alive
<1>3. current_state' # "ALERT"
  <2>1. ~(free_pages < PMM_ALERT_THRESHOLD)
    BY PrajnaAssumption, SMT DEF PrajnaInCharge, WaitInv, TurnInv, IInv, TypeOK
  <2> QED BY <2>1 DEF AiCycle, SysState
<1> DEFINE tier == Guarded(ml_score[i], anomalous[i], wait_ticks[i])
<1>4. perm_table'[i] = [allowed  |-> TRUE,
                        priority |-> IF i = SHELL_TASK_ID /\ tier < 1 THEN 1 ELSE tier]
  BY <1>1, <1>2, <1>3 DEF Decision
<1>5. ml_score[i] \in Nat /\ ml_score[i] <= 700000
  BY SMT, <1>2, MlOneType DEF WaitInv, Modest, TurnInv, IInv, TypeOK
<1>6. Tier(ml_score[i]) \in 0 .. 1
  BY <1>5, SMT DEF Tier
<1>7. ~Starved(wait_ticks[i]) => tier \in 0 .. 1
  BY <1>6, SMT DEF Guarded, Capped
<1>8. Starved(wait_ticks[i]) => tier = 2
  BY DEF Guarded
<1> HIDE DEF tier
<1> QED BY <1>4, <1>7, <1>8, SMT

\* The scores of two that waited are less than a step of priority apart.
LEMMA ScoresClose ==
  ASSUME WaitInv, SchedulerTick, PrajnaInCharge, EvenNetwork,
         NEW i \in Others, NEW j \in Others
  PROVE  /\ ml_score'[i] \in Nat /\ ml_score'[j] \in Nat
         /\ ml_score'[j] - ml_score'[i] < 300000
<1>0. TypeOK /\ ScoreTasks /\ ai_online
  BY DEF WaitInv, TurnInv, IInv, SchedulerTick, PrajnaInCharge
<1>1. /\ i \in Alive(state) /\ j \in Alive(state) /\ i \in Tasks /\ j \in Tasks
      /\ priority[i] \in UsedPriorities /\ priority[j] \in UsedPriorities
  BY DEF Others, Ready, Alive, UsedPriorities
<1>2. cpu_usage'[i] = 0 /\ cpu_usage'[j] = 0
  BY <1>0, NoShare DEF WaitInv
<1>3. cpu_usage' \in [Tasks -> 0 .. 100]
  BY <1>0, AiType DEF SchedulerTick
<1>4. wait_time[i] \in 0 .. WAIT_CAP /\ wait_time[j] \in 0 .. WAIT_CAP
  BY <1>0, <1>1 DEF TypeOK
<1>5. /\ ml_score'[i] \in Inferred(i) /\ ml_score'[i] \in 0 .. ML_ONE
      /\ ml_score'[j] \in Inferred(j) /\ ml_score'[j] \in 0 .. ML_ONE
  BY <1>0, <1>1, <1>3, ScoreGiven
<1>6. ml_score'[i] \in Nat /\ ml_score'[j] \in Nat
  BY <1>5, MlOneType, SMT
<1>7. CASE ml_loaded
  <2>1. /\ ml_score'[i] \in Infer(0, wait_time[i], priority[i])
        /\ ml_score'[j] \in Infer(0, wait_time[j], priority[j])
    BY <1>2, <1>5, <1>7 DEF Inferred
  <2>2. /\ wait_time[i] \in 0 .. WAIT_CAP /\ wait_time[j] \in 0 .. WAIT_CAP
        /\ priority[i] \in UsedPriorities /\ priority[j] \in UsedPriorities
    BY <1>1, <1>4
  <2>3. \A v, w \in 0 .. WAIT_CAP, p, q \in UsedPriorities :
          \A s \in Infer(0, v, p), t \in Infer(0, w, q) : t - s < 300000
    BY SMT DEF EvenNetwork, Even, EvenHanded
  <2> QED BY SMT, <1>6, <2>1, <2>2, <2>3
<1>8. CASE ~ml_loaded
  <2>1. ml_score'[i] = 500000 /\ ml_score'[j] = 500000
    BY SMT, <1>5, <1>8 DEF Inferred
  <2> QED BY <2>1, SMT
<1> QED BY SMT, <1>6, <1>7, <1>8

\* While somebody starves, nobody else is chosen.
LEMMA StarvedFirst ==
  ASSUME WaitInv, SchedulerTick, PrajnaInCharge, EvenNetwork,
         NEW best \in Others, IsTarget(best),
         NEW i \in Others, wait_ticks[i] > STARVATION_THRESHOLD
  PROVE  wait_ticks[best] > STARVATION_THRESHOLD
<1>0. AiCycle
  BY CycleCloses DEF WaitInv, PrajnaInCharge
<1>1. SUFFICES ASSUME ~Starved(wait_ticks[best]) PROVE FALSE
  BY DEF Starved
<1>2. i \in Alive(state) /\ best \in Alive(state)
  BY DEF Others, Ready, Alive
<1>3. /\ perm_table'[i].allowed /\ perm_table'[i].priority = 2
      /\ perm_table'[best].priority \in 0 .. 1
  BY <1>0, <1>1, <1>2, GuardTable DEF Starved
<1>4. i # best
  BY <1>1 DEF Starved
<1>5. i \in {j \in Others : Allowed(j)}
  BY <1>3, Zenon DEF Allowed
<1>6. Combined(i) < Combined(best) \/ Combined(i) = Combined(best)
  BY <1>4, <1>5 DEF IsTarget, IsBest
<1>7. /\ ml_score'[i] \in Nat /\ ml_score'[best] \in Nat
      /\ ml_score'[best] - ml_score'[i] < 300000
  BY SMT, ScoresClose
<1> QED BY <1>3, <1>6, <1>7, SMT DEF Combined

\* The scores stay below HIGH.
LEMMA ModestTurn ==
  ASSUME WaitInv, SchedulerTick, EvenNetwork
  PROVE  \A i \in Tasks : ml_score'[i] <= 700000
<1> SUFFICES ASSUME NEW i \in Tasks PROVE ml_score'[i] <= 700000
  BY SMT
<1>0. TypeOK /\ ScoreTasks /\ Modest
  BY DEF WaitInv, TurnInv, IInv, SchedulerTick
<1>1. cpu_usage' \in [Tasks -> 0 .. 100]
  BY <1>0, AiType DEF SchedulerTick
<1>2. CASE i \notin Alive(state)
  <2>1. ml_score'[i] = ml_score[i]
    BY <1>0, <1>1, <1>2, ScoreGiven
  <2> QED BY SMT, <1>0, <2>1 DEF Modest
<1>3. CASE i \in Alive(state)
  <2>1. ml_score'[i] \in Inferred(i)
    BY <1>0, <1>1, <1>3, ScoreGiven
  <2>2. CASE ml_loaded
    <3>1. ml_score'[i] \in Infer(cpu_usage'[i], wait_time[i], priority[i])
      BY <2>1, <2>2 DEF Inferred
    <3>2. cpu_usage'[i] \in 0 .. 100 /\ wait_time[i] \in 0 .. WAIT_CAP /\ priority[i] \in UsedPriorities
      BY <1>0, <1>1, <1>3 DEF TypeOK, UsedPriorities
    <3>3. \A c \in 0 .. 100, w \in 0 .. WAIT_CAP, p \in UsedPriorities :
            \A s \in Infer(c, w, p) : s <= 700000
      BY SMT DEF EvenNetwork, Even, EvenHanded
    <3>4. \A s \in Infer(cpu_usage'[i], wait_time[i], priority[i]) : s <= 700000
      BY SMT, <3>2, <3>3
    <3> QED BY SMT, <3>1, <3>4
  <2>3. CASE ~ml_loaded
    <3>1. ml_score'[i] = 500000
      BY SMT, <2>1, <2>3 DEF Inferred
    <3> QED BY <3>1, SMT
  <2> QED BY SMT, <2>2, <2>3
<1> QED BY SMT, <1>2, <1>3

\* What a switch does to the waits.
LEMMA SwitchWaits ==
  ASSUME WaitInv, FewTasks, NEW best \in Others,
         wait_ticks' = [Waited EXCEPT ![best] = 0]
  PROVE  /\ pc = "run" /\ wait_ticks'[best] = 0
         /\ current_task \in Tasks /\ current_task # best /\ wait_ticks'[current_task] = 0
         /\ \A i \in Others \ {best} : wait_ticks'[i] = wait_ticks[i] + 1
         /\ \A i \in Tasks \ (Others \cup {best}) : wait_ticks'[i] = 0
<1> USE Thresholds
<1>0. /\ IInv /\ TypeOK /\ OnlyReadyWait
      /\ wait_ticks \in [Tasks -> 0 .. WAIT_CAP] /\ current_task \in Tasks
  BY DEF WaitInv, TurnInv, IInv, TypeOK
<1>1. best \in Tasks /\ best \in Alive(state) /\ best # current_task
  BY DEF Others, Ready, Alive
<1>2. pc = "run"
  <2>1. pc \in {"hardware", "greeting", "wait", "run"}
    BY <1>0 DEF TypeOK
  <2> QED BY <1>0, <1>1, <2>1 DEF IInv, BootOwnsTheCpu
<1>3. wait_ticks'[best] = 0
  BY <1>0, <1>1 DEF Waited
<1>4. ASSUME NEW i \in Tasks \ (Others \cup {best}) PROVE wait_ticks'[i] = 0
  <2>1. wait_ticks'[i] = wait_ticks[i]
    BY <1>0, <1>4 DEF Waited
  <2>2. ~(wait_ticks[i] > 0)
    <3>1. SUFFICES ASSUME wait_ticks[i] > 0 PROVE FALSE
      OBVIOUS
    <3>2. state[i] = "READY"
      BY <1>0, <3>1 DEF OnlyReadyWait
    <3>3. i = current_task
      BY <1>4, <3>2 DEF Others, Ready
    <3> QED BY <1>0, <1>2, <3>2, <3>3 DEF IInv, CpuRunsCurrent
  <2>3. wait_ticks[i] \in Nat
    BY <1>0, SMT
  <2> QED BY <2>1, <2>2, <2>3, SMT
<1>5. ASSUME NEW i \in Others \ {best} PROVE wait_ticks'[i] = wait_ticks[i] + 1
  <2>1. i \in Tasks /\ wait_ticks[i] \in Nat
    BY <1>0, SMT DEF Others, Ready
  <2>2. MAX_TASKS >= 2
    BY SMT DEF FewTasks
  <2>3. wait_ticks[i] <= STARVATION_THRESHOLD + MAX_TASKS - 2
    BY <2>1, <2>2, WaitBounded
  <2>4. wait_ticks[i] < WAIT_CAP
    BY <2>1, <2>3, SMT DEF FewTasks
  <2> QED BY <1>0, <1>5, <2>1, <2>4 DEF Waited
<1>6. current_task \notin Others
  BY DEF Others
<1> QED BY <1>0, <1>1, <1>2, <1>3, <1>4, <1>5, <1>6

\* A switch lets whoever goes on waiting see one more task rest.
LEMMA OvertakenSwitch ==
  ASSUME WaitInv, FewTasks, SchedulerTick, PrajnaInCharge, EvenNetwork,
         NEW best \in Others, IsTarget(best),
         wait_ticks' = [Waited EXCEPT ![best] = 0]
  PROVE  Overtaken'
<1> USE Thresholds
<1> DEFINE T == STARVATION_THRESHOLD
           After(n) == {j \in Tasks : wait_ticks'[j] <= n}
<1> SUFFICES ASSUME NEW i \in Tasks, wait_ticks'[i] > T
             PROVE  Cardinality(After(wait_ticks'[i] - T - 1)) >= wait_ticks'[i] - T + 1
  BY DEF Overtaken, Rested
<1>0. /\ wait_ticks'[best] = 0
      /\ current_task \in Tasks /\ current_task # best /\ wait_ticks'[current_task] = 0
      /\ \A j \in Others \ {best} : wait_ticks'[j] = wait_ticks[j] + 1
      /\ \A j \in Tasks \ (Others \cup {best}) : wait_ticks'[j] = 0
  BY SwitchWaits
<1>1. best \in Tasks /\ Others \subseteq Tasks
  BY DEF Others, Ready
<1>2. \A j \in Tasks : wait_ticks[j] \in Nat
  BY WaitType, SMT
<1>3. i \in Others \ {best}
  <2>1. wait_ticks'[i] # 0
    BY SMT
  <2> QED BY <1>0, <2>1
<1> DEFINE w == wait_ticks[i]
<1>4. w \in Nat /\ wait_ticks'[i] = w + 1
  BY <1>0, <1>2, <1>3
<1>5. \A n \in Int : IsFiniteSet(After(n)) /\ Cardinality(After(n)) \in Nat
  BY TasksFinite, FS_Subset, FS_CardinalityType
<1>6. CASE w = T
  <2>1. {current_task, best} \subseteq After(0)
    BY <1>0, <1>1, SMT
  <2>2. IsFiniteSet({current_task, best}) /\ Cardinality({current_task, best}) = 2
    <3>1. IsFiniteSet({best}) /\ Cardinality({best}) = 1
      BY FS_Singleton
    <3>2. current_task \notin {best}
      BY <1>0
    <3>3. /\ IsFiniteSet({best} \cup {current_task})
          /\ Cardinality({best} \cup {current_task}) = 1 + 1
      BY <3>1, <3>2, FS_AddElement
    <3>4. {best} \cup {current_task} = {current_task, best}
      OBVIOUS
    <3> QED BY <3>3, <3>4, SMT
  <2>3. Cardinality(After(0)) >= 2 /\ Cardinality(After(0)) \in Nat
    <3>1. IsFiniteSet(After(0)) /\ Cardinality(After(0)) \in Nat
      BY <1>5, SMT
    <3>2. Cardinality({current_task, best}) <= Cardinality(After(0))
      BY <2>1, <3>1, FS_Subset
    <3> QED BY <2>2, <3>1, <3>2
  <2>4. wait_ticks'[i] - T - 1 = 0 /\ wait_ticks'[i] - T + 1 = 2
    BY <1>4, <1>6, SMT
  <2> QED BY <2>3, <2>4
<1>7. CASE w > T
  <2> DEFINE n == w - T - 1
             A == Rested(n)
  <2>1. Cardinality(A) >= w - T + 1
    BY <1>7 DEF WaitInv, Overtaken
  <2>2. wait_ticks[best] > T
    BY <1>3, <1>7, StarvedFirst
  <2>3. n \in Int /\ n <= T
    <3>1. MAX_TASKS \in Int /\ MAX_TASKS >= 2 /\ MAX_TASKS <= T + 3
      BY SMT DEF FewTasks
    <3>2. w <= T + MAX_TASKS - 2
      BY <3>1, WaitBounded
    <3> QED BY <1>4, <3>1, <3>2, SMT
  <2>4. best \notin A
    <3>1. ~(wait_ticks[best] <= n)
      BY <1>1, <1>2, <2>2, <2>3, SMT
    <3> QED BY <3>1 DEF Rested
  <2>5. A \cup {best} \subseteq After(n + 1)
    <3>1. wait_ticks'[best] <= n + 1
      BY <1>0, <1>4, <1>7, SMT
    <3>2. ASSUME NEW j \in A PROVE j \in After(n + 1)
      <4>1. j \in Tasks /\ wait_ticks[j] <= n /\ wait_ticks[j] \in Nat
        BY <1>2 DEF Rested
      <4>2. wait_ticks'[j] = wait_ticks[j] + 1 \/ wait_ticks'[j] = 0
        BY <1>0, <4>1
      <4>3. wait_ticks'[j] <= n + 1
        BY <2>3, <4>1, <4>2, SMT
      <4> QED BY <4>1, <4>3
    <3> QED BY <1>1, <3>1, <3>2
  <2>6. IsFiniteSet(A) /\ A \subseteq Tasks
    <3>1. A \subseteq Tasks
      BY DEF Rested
    <3> QED BY <3>1, TasksFinite, FS_Subset
  <2> HIDE DEF A
  <2>7. /\ IsFiniteSet(A \cup {best}) /\ Cardinality(A \cup {best}) = Cardinality(A) + 1
        /\ Cardinality(A) \in Nat
    BY <2>4, <2>6, FS_AddElement, FS_CardinalityType
  <2>8. Cardinality(A) + 1 <= Cardinality(After(n + 1)) /\ Cardinality(After(n + 1)) \in Nat
    <3>1. IsFiniteSet(After(n + 1)) /\ Cardinality(After(n + 1)) \in Nat
      <4>1. n + 1 \in Int
        BY <2>3
      <4> QED BY <1>5, <4>1
    <3>2. Cardinality(A \cup {best}) <= Cardinality(After(n + 1))
      BY <2>5, <3>1, FS_Subset
    <3> QED BY <2>7, <3>1, <3>2
  <2>9. wait_ticks'[i] - T - 1 = n + 1 /\ wait_ticks'[i] - T + 1 = w - T + 1 + 1
    BY <1>4, SMT
  <2> HIDE DEF n, After
  <2> QED BY <1>4, <2>1, <2>7, <2>8, <2>9, SMT
<1> QED BY <1>4, <1>6, <1>7, SMT

LEMMA SchedulerWaits ==
  ASSUME WaitInv, FewTasks, SchedulerTick, PrajnaInCharge, EvenNetwork
  PROVE  WaitInv'
<1>0. /\ TurnInv /\ TurnInv' /\ IInv /\ Modest /\ OnlyReadyWait
      /\ state \in [Tasks -> TaskStates] /\ current_task \in Tasks
  BY SchedulerTurn DEF WaitInv, TurnInv, IInv, TypeOK
<1>1. /\ \A i \in Tasks : ml_score'[i] <= 700000
      /\ priority' = priority /\ pc' = pc
  BY SMT, ModestTurn DEF SchedulerTick, bootVars
<1>2. CASE Stay
  <2>1. UNCHANGED <<state, wait_ticks, current_task>>
    BY <1>2 DEF Stay
  <2>2. Modest'
    BY SMT, <1>0, <1>1, <2>1 DEF Modest, Alive
  <2>3. OnlyReadyWait' /\ Overtaken'
    BY <1>1, <2>1 DEF WaitInv, OnlyReadyWait, Overtaken, Rested
  <2> QED BY <1>0, <2>2, <2>3 DEF WaitInv
<1>3. CASE Switch
  <2>1. PICK best \in Others :
          /\ IsTarget(best)
          /\ state' = [state EXCEPT ![current_task] = "READY", ![best] = "RUNNING"]
          /\ wait_ticks' = [Waited EXCEPT ![best] = 0]
    BY <1>3 DEF Switch
  <2>2. /\ pc = "run" /\ wait_ticks'[best] = 0 /\ current_task # best
        /\ wait_ticks'[current_task] = 0
        /\ \A i \in Tasks \ (Others \cup {best}) : wait_ticks'[i] = 0
    BY <2>1, SwitchWaits
  <2>3. best \in Tasks /\ state[best] = "READY"
    BY DEF Others, Ready
  <2>4. \A i \in Tasks : state'[i] # "DEAD" => state[i] # "DEAD"
    <3>1. state[current_task] # "DEAD"
      BY <1>0, <2>2 DEF IInv, CpuRunsCurrent
    <3> QED BY <1>0, <2>1, <2>3, <3>1
  <2>5. Modest'
    BY SMT, <1>0, <1>1, <2>4 DEF Modest, Alive
  <2>6. ASSUME NEW i \in Tasks, wait_ticks'[i] > 0 PROVE pc' = "run" /\ state'[i] = "READY"
    <3>1. i # best /\ i # current_task
      BY <2>2, <2>6, SMT
    <3>2. i \in Others
      <4>1. wait_ticks'[i] # 0
        BY <2>6, SMT
      <4> QED BY <2>2, <3>1, <4>1
    <3>3. state[i] = "READY"
      BY <3>2 DEF Others, Ready
    <3> QED BY <1>0, <1>1, <2>1, <2>2, <3>1, <3>3
  <2>7. Overtaken'
    BY <2>1, OvertakenSwitch
  <2> QED BY <1>0, <2>5, <2>6, <2>7 DEF WaitInv, OnlyReadyWait
<1> QED BY <1>2, <1>3 DEF SchedulerTick

LEMMA CreateWaits ==
  ASSUME WaitInv, NEW prio \in 0 .. 10, TaskCreate(prio), TurnInv', pc' = "run" \/ pc # "run"
  PROVE  WaitInv'
<1>0. state \in [Tasks -> TaskStates] /\ priority \in [Tasks -> 0 .. 10]
  BY DEF WaitInv, TurnInv, IInv, TypeOK
<1>1. PICK i \in Tasks :
        /\ state' = [state EXCEPT ![i] = "READY"]
        /\ priority' = [priority EXCEPT ![i] = prio]
        /\ UNCHANGED <<wait_ticks, ml_score>>
  BY Zenon DEF TaskCreate, mlVars
<1>2. Modest'
  BY SMT, <1>0, <1>1 DEF WaitInv, Modest, Alive
<1>3. OnlyReadyWait'
  BY <1>0, <1>1 DEF WaitInv, OnlyReadyWait
<1>4. Overtaken'
  BY <1>1 DEF WaitInv, Overtaken, Rested
<1> QED BY <1>2, <1>3, <1>4 DEF WaitInv

LEMMA EvenFewer ==
  ASSUME NEW P, NEW Q, P \subseteq Q, Even(Q)
  PROVE  Even(P)
<1>1. /\ \A c \in 0 .. 100, w \in 0 .. WAIT_CAP, p \in Q :
           \A s \in Infer(c, w, p) : s <= 700000
      /\ \A v, w \in 0 .. WAIT_CAP, p, q \in Q :
           \A s \in Infer(0, v, p), t \in Infer(0, w, q) : t - s < 300000
  BY SMT DEF Even, EvenHanded
<1>2. \A c \in 0 .. 100, w \in 0 .. WAIT_CAP, p \in P :
        \A s \in Infer(c, w, p) : s <= 700000
  BY <1>1, SMT
<1>3. \A v, w \in 0 .. WAIT_CAP, p, q \in P :
        \A s \in Infer(0, v, p), t \in Infer(0, w, q) : t - s < 300000
  BY <1>1, SMT
<1> QED BY SMT, <1>2, <1>3 DEF Even, EvenHanded

\* Nobody who exists goes or changes his priority.
LEMMA EvenBefore ==
  ASSUME IInv, [Next]_vars, EvenNetwork'
  PROVE  EvenNetwork
<1>0. state \in [Tasks -> TaskStates] /\ priority \in [Tasks -> 0 .. 10]
  BY DEF IInv, TypeOK
<1>1. \A i \in Alive(state) : i \in Alive(state)' /\ priority'[i] = priority[i]
  <2>1. ASSUME NEW prio \in 0 .. 10, TaskCreate(prio)
        PROVE  \A i \in Alive(state) : i \in Alive(state)' /\ priority'[i] = priority[i]
    <3>1. PICK j \in Tasks :
            /\ state[j] = "DEAD"
            /\ state' = [state EXCEPT ![j] = "READY"]
            /\ priority' = [priority EXCEPT ![j] = prio]
      BY <2>1, Zenon DEF TaskCreate
    <3> QED BY <1>0, <3>1 DEF Alive
  <2>2. CASE CreateShell \/ CreateTask
    <3>1. PICK prio \in 0 .. 10 : TaskCreate(prio)
      BY <2>2, SchedulerAssumption DEF CreateShell, CreateTask
    <3> QED BY <2>1, <3>1
  <2>3. CASE SchedulerStart
    BY <1>0, <2>3 DEF SchedulerStart, Alive
  <2>4. CASE SchedulerTick
    <3>1. priority' = priority
      BY <2>4 DEF SchedulerTick
    <3>2. \A i \in Tasks : state[i] # "DEAD" => state'[i] # "DEAD"
      <4>1. CASE Switch
        <5>1. PICK best \in Others :
                state' = [state EXCEPT ![current_task] = "READY", ![best] = "RUNNING"]
          BY <4>1 DEF Switch
        <5> QED BY <1>0, <5>1
      <4>2. CASE Stay
        BY <4>2 DEF Stay
      <4> QED BY <2>4, <4>1, <4>2 DEF SchedulerTick
    <3> QED BY <3>1, <3>2 DEF Alive
  <2>5. CASE Greeting \/ PlainTick \/ PrajnaOffline \/ MemoryChanges \/ UNCHANGED vars
    <3>1. UNCHANGED <<state, priority>>
      BY <2>5 DEF Greeting, PlainTick, PrajnaOffline, MemoryChanges, vars, taskVars
    <3> QED BY <3>1 DEF Alive
  <2> QED BY <2>2, <2>3, <2>4, <2>5 DEF Next, BootStep, Tick
<1>2. UsedPriorities \subseteq UsedPriorities'
  BY <1>1 DEF UsedPriorities
<1>3. Even(UsedPriorities')
  BY DEF EvenNetwork
<1> QED BY <1>2, <1>3, EvenFewer DEF EvenNetwork

LEMMA WaitNext ==
  ASSUME FewTasks
  PROVE  GuardInv /\ PrajnaInCharge /\ [Next]_vars => GuardInv'
<1> SUFFICES ASSUME GuardInv, PrajnaInCharge, [Next]_vars, EvenNetwork' PROVE WaitInv'
  BY TurnNext DEF GuardInv
<1>. EvenNetwork /\ WaitInv
  BY EvenBefore DEF GuardInv, TurnInv
<1>0. TurnInv /\ TurnInv' /\ TypeOK
  BY TurnNext DEF WaitInv, TurnInv, IInv
<1>1. CASE CreateShell
  <2>1. 5 \in 0 .. 10
    BY SMT
  <2> QED BY <1>0, <1>1, <2>1, CreateWaits DEF CreateShell
<1>2. CASE CreateTask
  <2>1. PICK prio \in LaterPriorities : TaskCreate(prio)
    BY <1>2 DEF CreateTask
  <2>2. pc' = "run"
    BY <1>2 DEF CreateTask, bootVars
  <2>3. prio \in 0 .. 10
    BY SchedulerAssumption
  <2> QED BY <1>0, <2>1, <2>2, <2>3, CreateWaits
<1>3. CASE SchedulerStart
  <2>1. /\ state' = [state EXCEPT ![0] = "RUNNING"] /\ pc = "wait" /\ pc' = "run"
        /\ UNCHANGED <<wait_ticks, ml_score, priority>>
    BY <1>3 DEF SchedulerStart, mlVars
  <2>2. \A i \in Tasks : ~(wait_ticks[i] > 0)
    BY <2>1 DEF WaitInv, OnlyReadyWait
  <2>3. Alive(state') = Alive(state)
    <3>1. Alive(state) = {0} /\ state \in [Tasks -> TaskStates]
      BY <1>0, <2>1 DEF TurnInv, IInv, BootOwnsTheCpu, TypeOK
    <3> QED BY <2>1, <3>1 DEF Alive
  <2>4. Modest'
    BY SMT, <2>1, <2>3 DEF WaitInv, Modest
  <2>5. OnlyReadyWait' /\ Overtaken'
    BY <2>1, <2>2 DEF WaitInv, OnlyReadyWait, Overtaken, Rested
  <2> QED BY <1>0, <2>4, <2>5 DEF WaitInv
<1>4. CASE SchedulerTick
  BY <1>4, SchedulerWaits
<1>5. CASE Greeting \/ PlainTick \/ PrajnaOffline \/ MemoryChanges \/ UNCHANGED vars
  <2>1. UNCHANGED <<state, priority, wait_ticks, ml_score>>
    BY <1>5 DEF Greeting, PlainTick, PrajnaOffline, MemoryChanges, vars, taskVars, mlVars
  <2>2. pc = "run" => pc' = "run"
    BY <1>5 DEF Greeting, PlainTick, PrajnaOffline, MemoryChanges, vars, bootVars
  <2>3. Modest'
    BY SMT, <2>1 DEF WaitInv, Modest, Alive
  <2>4. OnlyReadyWait' /\ Overtaken'
    BY <2>1, <2>2 DEF WaitInv, OnlyReadyWait, Overtaken, Rested
  <2> QED BY <1>0, <2>3, <2>4 DEF WaitInv
<1> QED BY <1>1, <1>2, <1>3, <1>4, <1>5 DEF Next, BootStep, Tick

LEMMA WaitInit == Init => WaitInv
<1> SUFFICES ASSUME Init PROVE WaitInv
  OBVIOUS
<1>1. TurnInv
  BY TurnInit
<1>2. \A i \in Tasks : wait_ticks[i] = 0 /\ ml_score[i] = 0 /\ state[i] = "DEAD"
  BY DEF Init
<1>3. Modest
  BY <1>2, SMT DEF Modest, Alive
<1>4. OnlyReadyWait /\ Overtaken
  BY <1>2, Thresholds, SMT DEF OnlyReadyWait, Overtaken
<1> QED BY <1>1, <1>3, <1>4 DEF WaitInv

\* The starvation guard keeps its promise as far as it can: as long as Prajna is
\* in charge and memory is not low, no READY task waits longer than the threshold and
\* a turn for all but two of the tasks, unless the network prefers some of them to others
\* or makes one HIGH by itself; for at most STARVATION_THRESHOLD + 3 tasks (ai_think).
THEOREM GuardBoundsWaiting ==
  ASSUME FewTasks
  PROVE  Spec /\ []PrajnaInCharge => []BoundedWait
<1>1. GuardInv /\ PrajnaInCharge /\ [Next]_vars => GuardInv'
  BY WaitNext
<1>2. GuardInv => BoundedWait
  <2> SUFFICES ASSUME GuardInv, EvenNetwork, NEW i \in Tasks
               PROVE  ~(wait_ticks[i] > STARVATION_THRESHOLD + MAX_TASKS - 2)
    BY SMT DEF BoundedWait, EvenNetwork, Even
  <2>1. MAX_TASKS >= 2
    BY SMT DEF FewTasks
  <2>2. WaitInv
    BY DEF GuardInv
  <2>3. wait_ticks[i] <= STARVATION_THRESHOLD + MAX_TASKS - 2
    BY <2>1, <2>2, WaitBounded
  <2>4. wait_ticks[i] \in Nat
    BY <2>2, WaitType, Thresholds, SMT
  <2> QED BY <2>3, <2>4, Thresholds, SMT
<1>3. Init => GuardInv
  BY WaitInit DEF GuardInv, WaitInv
<1> QED BY <1>1, <1>2, <1>3, PTL DEF Spec
=============================================================================
