----------------------------- MODULE PrajnaLog -----------------------------
(***************************************************************************)
(* What Prajna remembers of its cycles (kernel/ai_kernel.c): the ring of   *)
(* decisions behind "prajna log" and "prajna why", the ring of memory      *)
(* samples behind "memory history", and the forecast made from it.         *)
(*                                                                         *)
(* Cycles and the shell's commands all run in the timer interrupt, one     *)
(* after the other, so the readers are operators on a state between two    *)
(* cycles.  history is not in the code: it is all the rings were given.    *)
(***************************************************************************)
EXTENDS Integers, Sequences

CONSTANTS
  EVENT_LOG_SIZE,       \* decisions kept (20)
  HISTORY_LEN,          \* memory samples kept (8)
  PMM_ALERT_THRESHOLD,  \* fewer free pages than this is ALERT (64)
  BYTE,                 \* free_pages_at_decision is a uint8_t (256)
  CYCLE,                \* ticks from one cycle to the next (100)
  HORIZON,              \* warn when ALERT is at most this many ticks off (4000)
  FreeLevels,           \* numbers of free pages a cycle can find
  MAX_CYCLES            \* bound of the model: cycles of a behaviour

ASSUME PrajnaLogAssumption ==
  /\ EVENT_LOG_SIZE \in Nat \ {0}
  /\ HISTORY_LEN \in Nat \ {0, 1}
  /\ BYTE \in Nat \ {0}
  /\ PMM_ALERT_THRESHOLD \in 0 .. BYTE
  /\ CYCLE \in Nat \ {0}
  /\ HORIZON \in Nat /\ HORIZON >= CYCLE
  /\ FreeLevels \subseteq Nat
  /\ MAX_CYCLES \in Nat

Slots   == 0 .. EVENT_LOG_SIZE - 1
Samples == 0 .. HISTORY_LEN - 1

VARIABLES
  event_log, event_index, event_filled,
  mem_history, history_index, history_filled,   \* mem_history.* of the code
  mem_trend,     \* oldest and newest sample of the window
  forecast,      \* what ai_predict_memory last wrote to row 22
  history        \* the free pages of every cycle so far

vars == <<event_log, event_index, event_filled, mem_history, history_index,
          history_filled, mem_trend, forecast, history>>

-----------------------------------------------------------------------------
(* Records.                                                                *)

Event_Mut(tick, free) ==
  [tick |-> tick,
   alert |-> free % BYTE < PMM_ALERT_THRESHOLD,
   free_pages_at_decision |-> free % BYTE]

Event(tick, free) ==
  [tick |-> tick,
   alert |-> free < PMM_ALERT_THRESHOLD,
   free_pages_at_decision |-> free % BYTE]

Sample(tick, free) == [tick |-> tick, free |-> free]

\* .bss
NoEvent  == [tick |-> 0, alert |-> FALSE, free_pages_at_decision |-> 0]
NoSample == Sample(0, 0)

Init ==
  /\ event_log = [s \in Slots |-> NoEvent]
  /\ event_index = 0
  /\ event_filled = FALSE
  /\ mem_history = [s \in Samples |-> NoSample]
  /\ history_index = 0
  /\ history_filled = FALSE
  /\ mem_trend = [oldest |-> NoSample, newest |-> NoSample]
  /\ forecast = "none"
  /\ history = <<>>

-----------------------------------------------------------------------------
(* Writing.                                                                *)

LogEvent_Mut(event) ==
  /\ event_log' = [event_log EXCEPT ![event_index] = event]
  /\ event_index' = (event_index + 1) % (EVENT_LOG_SIZE + 1)
  /\ event_filled' = (event_filled \/ event_index' = 0)

\* The end of ai_act's first part: store and advance.
LogEvent(event) ==
  /\ event_log' = [event_log EXCEPT ![event_index] = event]
  /\ event_index' = (event_index + 1) % EVENT_LOG_SIZE
  /\ event_filled' = (event_filled \/ event_index' = 0)

\* ai_predict_memory, on the new trend: ticks until ALERT at the window's rate
TicksToAlert ==
  LET remaining == mem_trend'.newest.free - PMM_ALERT_THRESHOLD
      lost      == mem_trend'.oldest.free - mem_trend'.newest.free
      elapsed   == mem_trend'.newest.tick - mem_trend'.oldest.tick
  IN (remaining * elapsed) \div lost

Declining ==
  /\ history_filled'
  /\ mem_trend'.newest.free < mem_trend'.oldest.free
  /\ mem_trend'.newest.tick # mem_trend'.oldest.tick
  /\ mem_trend'.newest.free > PMM_ALERT_THRESHOLD

PredictMemory_Mut ==
  forecast' = IF Declining /\ ~history_filled
              THEN IF TicksToAlert <= HORIZON THEN "depleting" ELSE "trend ok"
              ELSE forecast

PredictMemory ==
  forecast' = IF Declining
              THEN IF TicksToAlert <= HORIZON THEN "depleting" ELSE "trend ok"
              ELSE forecast

\* update_mem_trend: the slot after the newest sample holds the oldest
UpdateMemTrend(sample) ==
  /\ mem_history' = [mem_history EXCEPT ![history_index] = sample]
  /\ history_index' = (history_index + 1) % HISTORY_LEN
  /\ history_filled' = (history_filled \/ history_index' = 0)
  /\ mem_trend' = [newest |-> sample, oldest |-> mem_history'[history_index']]
  /\ PredictMemory

\* one cycle: ai_sense records the sample, ai_act the decision
Cycle(free) ==
  LET tick == CYCLE * (Len(history) + 1) IN
  /\ Len(history) < MAX_CYCLES
  /\ UpdateMemTrend(Sample(tick, free))
  /\ LogEvent(Event(tick, free))
  /\ history' = Append(history, free)

Next == \E free \in FreeLevels : Cycle(free)

Spec == Init /\ [][Next]_vars

-----------------------------------------------------------------------------
(* Reading.                                                                *)

Total == IF event_filled THEN EVENT_LOG_SIZE ELSE event_index

LogSlot_Mut(i) == (event_index - i + EVENT_LOG_SIZE) % EVENT_LOG_SIZE

\* idx of ai_get_log: i entries back from the most recent one
LogSlot(i) == (event_index - 1 - i + EVENT_LOG_SIZE) % EVENT_LOG_SIZE

\* ai_get_log: out[0 .. count - 1], most recent first
ai_get_log(count) ==
  [i \in 1 .. (IF count > Total THEN Total ELSE count) |-> event_log[LogSlot(i - 1)]]

MemSlot_Mut(i) == i

MemSlot(i) == IF history_filled THEN (history_index + i) % HISTORY_LEN ELSE i

\* ai_get_memory_history: oldest first
ai_get_memory_history ==
  [i \in 1 .. (IF history_filled THEN HISTORY_LEN ELSE history_index) |->
     mem_history[MemSlot(i - 1)]]

-----------------------------------------------------------------------------
(* Properties.                                                             *)

\* The rings, the indices and the trend are well formed.
TypeOK ==
  /\ event_log \in [Slots -> [tick : Nat, alert : BOOLEAN,
                              free_pages_at_decision : 0 .. BYTE - 1]]
  /\ event_index \in Slots
  /\ event_filled \in BOOLEAN
  /\ mem_history \in [Samples -> [tick : Nat, free : Nat]]
  /\ history_index \in Samples
  /\ history_filled \in BOOLEAN
  /\ mem_trend \in [oldest : [tick : Nat, free : Nat], newest : [tick : Nat, free : Nat]]
  /\ forecast \in {"none", "depleting", "trend ok"}
  /\ history \in Seq(Nat)

EventOf(n)  == Event(CYCLE * n, history[n])
SampleOf(n) == Sample(CYCLE * n, history[n])

Least(a, b) == IF a < b THEN a ELSE b

\* ai_get_log returns exactly the last count decisions ever made, or all of them
\* when there are fewer, the newest first, before, at and after the first wrap.
LogIsLastDecisions ==
  \A count \in 0 .. EVENT_LOG_SIZE :
    ai_get_log(count) =
      [i \in 1 .. Least(count, Least(Len(history), EVENT_LOG_SIZE)) |->
         EventOf(Len(history) + 1 - i)]

\* ai_get_memory_history returns the last HISTORY_LEN samples in the order they
\* were taken, fewer only when fewer were taken.
MemoryHistoryIsLastSamples ==
  LET n == Len(history)
      k == Least(n, HISTORY_LEN)
  IN ai_get_memory_history = [i \in 1 .. k |-> SampleOf(n - k + i)]

\* "prajna why" prints the number of free pages of an ALERT from a byte: it is
\* the number the decision was based on all the same.
AlertReasonExact ==
  \A i \in 1 .. Total :
    LET event == ai_get_log(EVENT_LOG_SIZE)[i] IN
    event.alert =>
      event.free_pages_at_decision = history[Len(history) + 1 - i]

\* Memory that has shrunk by the same amount in every cycle of a full window and
\* one cycle more does not reach ALERT before the warning is on the screen, even
\* when a cycle finds exactly PMM_ALERT_THRESHOLD pages and forecasts nothing.
WarnedBeforeAlert ==
  LET n == Len(history) IN
  /\ n >= HISTORY_LEN + 2
  /\ history[n] < PMM_ALERT_THRESHOLD
  /\ history[n - 1] >= PMM_ALERT_THRESHOLD
  /\ \A i \in n - HISTORY_LEN - 1 .. n - 1 :
       history[i] - history[i + 1] = history[n - 1] - history[n]
  => forecast = "depleting"
=============================================================================
