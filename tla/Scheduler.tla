----------------------------- MODULE Scheduler -----------------------------
(***************************************************************************)
(* The task switching core of PrajnaOS: the boot sequence of kernel.c from *)
(* the moment interrupts are on, the timer interrupt of pit.c, scheduler.c *)
(* and the AI cycle of ai_kernel.c it calls.                               *)
(*                                                                         *)
(* Everything runs on one CPU and pit_handler() runs with interrupts off,  *)
(* so a timer tick is one step: count the tick, charge the current task,   *)
(* and on every PERIOD-th tick sense, think, act, score, pick and switch.  *)
(* The boot code runs between the ticks, with interrupts on.               *)
(*                                                                         *)
(* tasks[i].f is f[i].  Scores are in millionths, wait_time in units of    *)
(* the 10.0f it is multiplied with, cpu_usage in whole percent.            *)
(***************************************************************************)
EXTENDS Prajna

CONSTANTS
  PERIOD,            \* ticks between two calls of scheduler_tick (100)
  AI_TICK_INTERVAL,  \* least ticks between two AI cycles (50)
  BOOT_TICKS,        \* bound of the model: the boot is up to the greeting
                     \* before this tick (a matter of seconds, not of 2^32)
  BOOT_WAIT,         \* ticks of the greeting's wait() (5 * 100)
  TICK_MOD,          \* ticks is a uint32_t (2^32)
  RUN_MOD,           \* run_ticks is a uint8_t (256)
  WAIT_CAP,          \* bound of the model: wait_ticks saturates here
  FREE_PAGES,        \* bound of the model: pages the PMM manages
  InitialFree,       \* how many of them can be free when the tasks start
  MemoryLevels,      \* free pages that other users of the PMM may leave
  WeightsLoad,       \* whether ml_weights_load() finds the weights
  LaterPriorities,   \* priorities of tasks created after the boot ({} today)
  WATCHDOG,          \* somebody calls scheduler_prajna_offline (FALSE today)
  Infer(_, _, _)     \* outputs of ml_infer for a CPU share, wait and priority

ASSUME SchedulerAssumption ==
  /\ PERIOD \in Nat \ {0}
  /\ AI_TICK_INTERVAL \in 1 .. PERIOD
  /\ BOOT_TICKS \in Nat \ {0} /\ BOOT_WAIT \in Nat
  /\ TICK_MOD \in Nat /\ TICK_MOD > PERIOD + BOOT_TICKS + BOOT_WAIT + 1
  \* 2^32 % 100 = 96: the cycle after the wrap of ticks is not skipped
  /\ TICK_MOD % PERIOD \in {0} \cup AI_TICK_INTERVAL .. PERIOD
  \* 2^32 % 256 = 0
  /\ RUN_MOD \in Nat \ {0} /\ TICK_MOD % RUN_MOD = 0
  /\ WAIT_CAP \in Nat /\ WAIT_CAP > STARVATION_THRESHOLD
  /\ FREE_PAGES \in Nat
  /\ InitialFree \subseteq 1 .. FREE_PAGES
  /\ MemoryLevels \subseteq 0 .. FREE_PAGES
  /\ WeightsLoad \subseteq BOOLEAN
  /\ LaterPriorities \subseteq 0 .. 10
  /\ WATCHDOG \in BOOLEAN

\* ml_sigmoid clamps the output of every network to 0.0 .. 1.0
ASSUME NetworkAssumption ==
  \A c \in 0 .. 100, w \in 0 .. WAIT_CAP, p \in 0 .. 10 :
    Infer(c, w, p) # {} /\ Infer(c, w, p) \subseteq 0 .. ML_ONE

BOOT == -1    \* the context of kernel_main, not a task
NONE == -2    \* the esp of an unused slot

Contexts == {BOOT, NONE} \cup Tasks

VARIABLES
  \* pit.c
  ticks,
  \* scheduler.c: the fields of tasks[] and the statics
  state, priority, run_ticks, cpu_usage, wait_ticks, wait_time, ml_score,
  saved,             \* saved[i]: whose context tasks[i].esp points into
  current_task, task_count, prajna_fallback,
  \* ai_kernel.c
  ai_online, last_ai_tick, current_state, perm_table,
  \* kernel.c
  pc,                \* where kernel_main is
  ml_loaded,         \* ml_weights_load() succeeded
  wait_start,        \* start of the greeting's wait()
  \* the CPU and the PMM
  cpu,               \* whose context the CPU executes
  free_pages

taskVars  == <<state, priority, saved>>
mlVars    == <<cpu_usage, wait_time, ml_score>>
aiVars    == <<last_ai_tick, current_state, perm_table>>
modeVars  == <<ai_online, prajna_fallback>>
bootVars  == <<pc, ml_loaded, wait_start>>
clockVars == <<ticks, run_ticks>>
vars == <<clockVars, taskVars, wait_ticks, mlVars, aiVars, modeVars, bootVars,
          current_task, task_count, cpu, free_pages>>

-----------------------------------------------------------------------------
(***************************************************************************)
(* The tables are in .bss; the slots are DEAD (0) from the start, so       *)
(* scheduler_init() only restates the initial values.  Interrupts go on in *)
(* idt_init(), long before the scheduler is set up.                        *)
(***************************************************************************)
Init ==
  /\ ticks = 0
  /\ state = [i \in Tasks |-> "DEAD"]
  /\ priority = [i \in Tasks |-> 0]
  /\ run_ticks = [i \in Tasks |-> 0]
  /\ cpu_usage = [i \in Tasks |-> 0]
  /\ wait_ticks = [i \in Tasks |-> 0]
  /\ wait_time = [i \in Tasks |-> 0]
  /\ ml_score = [i \in Tasks |-> 0]
  /\ saved = [i \in Tasks |-> NONE]
  /\ current_task = 0
  /\ task_count = 0
  /\ prajna_fallback = FALSE
  /\ ai_online = TRUE
  /\ last_ai_tick = 0
  /\ current_state = "CALM"
  /\ perm_table = [i \in Tasks |-> NoPermission]
  /\ pc = "hardware"
  /\ ml_loaded \in WeightsLoad
  /\ wait_start = 0
  /\ cpu = BOOT
  /\ free_pages \in InitialFree

-----------------------------------------------------------------------------
(* task_create                                                             *)

\* the first DEAD slot and a stack page, or nothing happens
TaskCreate(prio) ==
  \E i \in Tasks :
    /\ state[i] = "DEAD"
    /\ \A j \in 0 .. i - 1 : state[j] # "DEAD"
    /\ free_pages > 0
    /\ free_pages' = free_pages - 1
    /\ state' = [state EXCEPT ![i] = "READY"]
    /\ priority' = [priority EXCEPT ![i] = prio]
    /\ saved' = [saved EXCEPT ![i] = i]
    /\ task_count' = task_count + 1
    /\ UNCHANGED <<clockVars, wait_ticks, mlVars, aiVars, modeVars,
                   current_task, cpu>>

-----------------------------------------------------------------------------
(* kernel_main, a step for every stretch between two things others see.    *)

\* task_create(shell_task, 5), the only task of the shipped kernel
CreateShell ==
  /\ cpu = BOOT /\ pc = "hardware"
  /\ TaskCreate(5)
  /\ pc' = "greeting"
  /\ UNCHANGED <<ml_loaded, wait_start>>

\* boot_time_greeting: Prajna goes offline without its weights, then wait(5)
Greeting ==
  /\ cpu = BOOT /\ pc = "greeting"
  /\ ai_online' = (ai_online /\ ml_loaded)
  /\ wait_start' = ticks
  /\ pc' = "wait"
  /\ UNCHANGED <<clockVars, taskVars, wait_ticks, mlVars, aiVars,
                 prajna_fallback, ml_loaded, current_task, task_count, cpu,
                 free_pages>>

\* scheduler_start, once the wait is over
SchedulerStart ==
  /\ cpu = BOOT /\ pc = "wait"
  /\ ticks - wait_start >= BOOT_WAIT
  /\ state' = [state EXCEPT ![0] = "RUNNING"]
  /\ current_task' = 0
  /\ cpu' = saved[0]
  /\ pc' = "run"
  /\ UNCHANGED <<clockVars, priority, saved, wait_ticks, mlVars, aiVars,
                 modeVars, ml_loaded, wait_start, task_count, free_pages>>

BootStep == CreateShell \/ Greeting \/ SchedulerStart

-----------------------------------------------------------------------------
(* The AI cycle: ai_kernel_tick, called with the run_ticks of this tick.   *)

Share(n, elapsed) ==
  IF n >= elapsed THEN 100 ELSE (n * 100) \div elapsed

Elapsed == (ticks' - last_ai_tick) % TICK_MOD

AiDue_Mut == ai_online /\ ticks' - last_ai_tick >= AI_TICK_INTERVAL

AiDue == ai_online /\ Elapsed >= AI_TICK_INTERVAL

Charged_Wide == [run_ticks EXCEPT ![current_task] = @ + 1]

Charged_Mut == [run_ticks EXCEPT ![current_task] = IF @ = RUN_MOD - 1 THEN @ ELSE @ + 1]

\* pit_handler charges the tick to the current task
Charged == [run_ticks EXCEPT ![current_task] = (@ + 1) % RUN_MOD]

(***************************************************************************)
(* Sense, think and act.  ml_score is still what the previous scheduler    *)
(* tick computed.  Whether a task's history looks anomalous is left open   *)
(* for the tasks that are HIGH by their score or starve; what is known of  *)
(* the others makes no difference.                                         *)
(***************************************************************************)
AiCycle ==
  /\ AiDue
  /\ last_ai_tick' = ticks'
  /\ cpu_usage' = [i \in Tasks |-> IF i \in Alive(state)
                                   THEN Share(Charged[i], Elapsed)
                                   ELSE cpu_usage[i]]
  /\ run_ticks' = [i \in Tasks |-> IF i \in Alive(state) THEN 0 ELSE Charged[i]]
  /\ current_state' = SysState(free_pages, state)
  /\ perm_table' \in
       {Decision(current_state', state, ml_score, [i \in Tasks |-> i \in flagged], wait_ticks) :
          flagged \in SUBSET {i \in Alive(state) : Tier(ml_score[i]) > 1 \/ Starved(wait_ticks[i])}}

AiSkipped ==
  /\ ~AiDue
  /\ run_ticks' = Charged
  /\ UNCHANGED <<last_ai_tick, cpu_usage, current_state, perm_table>>

\* ml_infer; weights that were not loaded are all 0.0 and give sigmoid(0)
Inferred(i) ==
  IF ml_loaded THEN Infer(cpu_usage'[i], wait_time[i], priority[i]) ELSE {500000}

\* the tasks whose score the network leaves open
Undecided == {i \in Alive(state) : \E s, t \in Inferred(i) : s # t}

\* ml_score_tasks
ScoreTasks ==
  \E choice \in [Undecided -> UNION {Inferred(i) : i \in Undecided}] :
    /\ \A i \in Undecided : choice[i] \in Inferred(i)
    /\ ml_score' = [i \in Tasks |->
                      IF i \in Undecided THEN choice[i]
                      ELSE IF i \in Alive(state) THEN CHOOSE s \in Inferred(i) : TRUE
                      ELSE ml_score[i]]

-----------------------------------------------------------------------------
(* Choosing the next task.                                                 *)

Others_Mut == Ready(state)

Others == Ready(state) \ {current_task}

Allowed_Mut(i) == TRUE

Allowed(i) == prajna_fallback \/ perm_table'[i].allowed

Combined_Mut(i) == ml_score'[i] + perm_table'[i].priority

Combined(i) == ml_score'[i] + 300000 * perm_table'[i].priority

\* the highest combined score, the lowest index among equals
IsBest(i, candidates) ==
  /\ i \in candidates
  /\ \A j \in candidates \ {i} :
       Combined(j) < Combined(i) \/ (Combined(j) = Combined(i) /\ i < j)

\* what the loop, and the fallback when everybody is blocked, settle on
IsTarget(i) ==
  LET candidates == {j \in Others : Allowed(j)} IN
  IF candidates # {}
  THEN IsBest(i, candidates)
  ELSE i \in Others /\ \A j \in Others : i <= j

\* every task passed over waits one tick more
Waited ==
  [i \in Tasks |-> IF i \in Others /\ wait_ticks[i] < WAIT_CAP
                   THEN wait_ticks[i] + 1 ELSE wait_ticks[i]]

Switch_Mut ==
  \E best \in Others :
    /\ IsTarget(best)
    /\ state' = [state EXCEPT ![best] = "RUNNING"]
    /\ wait_ticks' = [Waited EXCEPT ![best] = 0]
    /\ current_task' = best
    /\ saved' = [saved EXCEPT ![current_task] = cpu]
    /\ cpu' = saved[best]

\* scheduler_do_pending_switch and context_switch
Switch ==
  \E best \in Others :
    /\ IsTarget(best)
    /\ state' = [state EXCEPT ![current_task] = "READY", ![best] = "RUNNING"]
    /\ wait_ticks' = [Waited EXCEPT ![best] = 0]
    /\ current_task' = best
    /\ saved' = [saved EXCEPT ![current_task] = cpu]
    /\ cpu' = saved[best]

\* nobody else is READY
Stay ==
  /\ Others = {}
  /\ UNCHANGED <<state, wait_ticks, current_task, saved, cpu>>

-----------------------------------------------------------------------------
(* pit_handler                                                             *)

\* The boot code executes between any two ticks: it neither takes forever nor
\* misses the end of its wait by more than a tick.
BootKeepsUp ==
  /\ pc \in {"hardware", "greeting"} => ticks + 1 < BOOT_TICKS
  /\ pc = "wait" => ticks - wait_start <= BOOT_WAIT

CountTick ==
  /\ BootKeepsUp
  /\ ticks' = (ticks + 1) % TICK_MOD

SchedulerDue == ticks' % PERIOD = 0 /\ task_count > 0

PlainTick ==
  /\ CountTick
  /\ ~SchedulerDue
  /\ run_ticks' = Charged
  /\ UNCHANGED <<taskVars, wait_ticks, mlVars, aiVars, modeVars, bootVars,
                 current_task, task_count, cpu, free_pages>>

SchedulerTick ==
  /\ CountTick
  /\ SchedulerDue
  /\ AiCycle \/ AiSkipped
  /\ ScoreTasks
  /\ wait_time' = [i \in Tasks |-> IF i \in Others THEN Waited[i] ELSE wait_time[i]]
  /\ Switch \/ Stay
  /\ UNCHANGED <<priority, modeVars, bootVars, task_count, free_pages>>

Tick == PlainTick \/ SchedulerTick

-----------------------------------------------------------------------------
(* Calls of the running system.                                            *)

\* a later task_create, from a shell command (none calls it today)
CreateTask ==
  /\ pc = "run"
  /\ \E prio \in LaterPriorities : TaskCreate(prio)
  /\ UNCHANGED bootVars

\* scheduler_prajna_offline
PrajnaOffline ==
  /\ WATCHDOG /\ ~prajna_fallback
  /\ pc = "run"
  /\ prajna_fallback' = TRUE
  /\ ai_online' = FALSE
  /\ UNCHANGED <<clockVars, taskVars, wait_ticks, mlVars, aiVars, bootVars,
                 current_task, task_count, cpu, free_pages>>

\* other users of the PMM take and return pages
MemoryChanges ==
  /\ pc = "run"
  /\ free_pages' \in MemoryLevels
  /\ UNCHANGED <<clockVars, taskVars, wait_ticks, mlVars, aiVars, modeVars,
                 bootVars, current_task, task_count, cpu>>

Next == BootStep \/ Tick \/ CreateTask \/ PrajnaOffline \/ MemoryChanges

\* The timer never stops, and between two ticks the boot code gets on.
Fairness == WF_ticks(CountTick) /\ WF_vars(BootStep)

Spec == Init /\ [][Next]_vars
FairSpec == Spec /\ Fairness

-----------------------------------------------------------------------------
(* Properties.                                                             *)

\* Every field has a value its C type can hold, within the model's bounds.
TypeOK ==
  /\ ticks \in 0 .. TICK_MOD - 1
  /\ last_ai_tick \in 0 .. TICK_MOD - 1
  /\ wait_start \in 0 .. TICK_MOD - 1
  /\ state \in [Tasks -> TaskStates]
  /\ priority \in [Tasks -> 0 .. 10]
  /\ run_ticks \in [Tasks -> 0 .. RUN_MOD - 1]
  /\ cpu_usage \in [Tasks -> 0 .. 100]
  /\ wait_ticks \in [Tasks -> 0 .. WAIT_CAP]
  /\ wait_time \in [Tasks -> 0 .. WAIT_CAP]
  /\ ml_score \in [Tasks -> 0 .. ML_ONE]
  /\ saved \in [Tasks -> Contexts]
  /\ cpu \in Contexts
  /\ current_task \in Tasks
  /\ task_count \in Nat
  /\ prajna_fallback \in BOOLEAN
  /\ ai_online \in BOOLEAN
  /\ current_state \in SysStates
  /\ perm_table \in [Tasks -> Permissions]
  /\ pc \in {"hardware", "greeting", "wait", "run"}
  /\ ml_loaded \in BOOLEAN
  /\ free_pages \in 0 .. FREE_PAGES

\* The slots from 0 are taken in order and task_count counts them; until
\* scheduler_start only the shell exists, nobody runs and the CPU is still in
\* kernel_main, although the scheduler already ticks.
BootOwnsTheCpu ==
  /\ pc = "hardware" => Alive(state) = {}
  /\ pc \in {"greeting", "wait"} => Alive(state) = {0} /\ saved[0] = 0
  /\ pc # "run" => /\ cpu = BOOT
                   /\ current_task = 0
                   /\ \A i \in Tasks : state[i] # "RUNNING"

\* Once scheduler_start has run, the bookkeeping and the CPU agree: exactly the
\* current task is RUNNING and it is the one that executes, and every other
\* task's esp points into its own context, so a switch never enters the frame
\* of another task or of the finished boot code.
CpuRunsCurrent ==
  pc = "run" =>
    /\ cpu = current_task
    /\ state[current_task] = "RUNNING"
    /\ \A i \in Alive(state) \ {current_task} : state[i] = "READY" /\ saved[i] = i

\* While Prajna is online a cycle's CPU time is charged to the one who had it: the
\* ticks since the last cycle belong to the current task and to nobody else, also
\* when ticks wraps in between.  The count is a byte, and only its remainder is
\* right: of a boot that takes 256 ticks or more before the first cycle, every
\* 256 are lost.
CpuAccounting ==
  ai_online =>
    \A i \in Tasks :
      run_ticks[i] = IF i = current_task
                     THEN ((ticks - last_ai_tick) % TICK_MOD) % RUN_MOD
                     ELSE 0

\* A task is switched to only on the ground of a decision of this very tick,
\* never of a permission table that is a period old (the table "the scheduler
\* reads before every context switch", README).
DecisionFresh ==
  [][current_task' # current_task /\ ai_online => last_ai_tick' = ticks']_vars

\* Low memory never costs the shell more than every second turn, whatever the
\* network says ("Always maintain a recovery shell", README).
RecoveryShell ==
  [][/\ pc = "run" /\ ai_online
     /\ ticks' # ticks /\ SchedulerDue
     /\ current_state' = "ALERT"
     => SHELL_TASK_ID \in {current_task, current_task'}]_vars

\* With Prajna online a blocked task gets the CPU only in ALERT, and only when
\* the shell had the previous turn: a task that was just created, or that was
\* blocked in an earlier ALERT, is not held back by an old entry of perm_table.
BlockedRunsOnlyAfterShell ==
  [][/\ current_task' # current_task /\ ai_online
     /\ ~perm_table'[current_task'].allowed
     => current_state' = "ALERT" /\ current_task = SHELL_TASK_ID]_vars

\* What the guard needs of a network: nobody becomes HIGH by his score alone, and
\* the scores of two tasks that did not run are less than a step of priority apart.
EvenHanded(Net(_, _, _), prios) ==
  /\ \A c \in 0 .. 100, w \in 0 .. WAIT_CAP, p \in prios :
       \A s \in Net(c, w, p) : s <= 700000
  /\ \A v, w \in 0 .. WAIT_CAP, p, q \in prios :
       \A s \in Net(0, v, p), t \in Net(0, w, q) : t - s < 300000

UsedPriorities == {priority[i] : i \in Alive(state)}

\* What the starvation guard is for ("force it to run"), as far as it can: among
\* tasks between whom the network is even-handed, one that starves is passed over by
\* each of the others at most once, and by two of them not at all.  With eight such
\* tasks nobody waits longer than 11 turns.  Nothing is said of tasks beside whom the
\* network prefers others: the shipped weights are even-handed between the
\* priorities 0 and 5, and prefer a task of priority 10 to both.
BoundedWait ==
  (\E i \in Tasks : wait_ticks[i] > STARVATION_THRESHOLD + MAX_TASKS - 2)
    => ~EvenHanded(Infer, UsedPriorities)

\* The weights were found, nobody gave Prajna up, and memory is not low.
PrajnaInCharge == ai_online /\ free_pages >= PMM_ALERT_THRESHOLD

\* Every READY task gets the CPU again if memory stays above the threshold long enough,
\* also after any number of ALERTs in which it was blocked.
EveryTaskRuns ==
  \A i \in Tasks :
    (pc = "run" /\ state[i] = "READY") ~> (state[i] = "RUNNING" \/ ~PrajnaInCharge)

\* Whatever memory does, the shell gets the CPU again and again for as long as
\* nobody gives Prajna up.
ShellRuns == []<>(cpu = SHELL_TASK_ID \/ prajna_fallback)

-----------------------------------------------------------------------------
(* What comments and documentation say; the code does something else.      *)

\* "scheduler falls back to round-robin automatically" (ai_kernel.c): without
\* Prajna every READY task still gets its turn.
OfflineRoundRobin ==
  \A i \in Tasks :
    (pc = "run" /\ ~ai_online /\ state[i] = "READY") ~> (state[i] = "RUNNING")
=============================================================================
