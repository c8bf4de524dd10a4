-------------------------- MODULE PrajnaLogProofs --------------------------
(***************************************************************************)
(* The two rings of Prajna return what was last written to them, and the   *)
(* forecast made from one of them warns in time, for every size of         *)
(* the rings and any number of cycles.                                     *)
(***************************************************************************)
EXTENDS PrajnaLog, WellFoundedInduction, TLAPS

-----------------------------------------------------------------------------
(* Arithmetic of ring indices.                                             *)

LEMMA NoWrap ==
  ASSUME NEW N \in Nat \ {0}, NEW k \in Nat, k < N
  PROVE  k % N = k
BY SMT

LEMMA OneWrap ==
  ASSUME NEW N \in Nat \ {0}, NEW k \in Nat, k >= N, k < 2 * N
  PROVE  k % N = k - N
BY SMT

\* Advancing an index: the next slot, or slot 0 after the last one.
LEMMA Advance ==
  ASSUME NEW N \in Nat \ {0}, NEW i \in 0 .. N - 1
  PROVE  /\ (i + 1) % N \in 0 .. N - 1
         /\ i + 1 < N => (i + 1) % N = i + 1
         /\ i + 1 = N => (i + 1) % N = 0
<1>1. i + 1 < N \/ i + 1 = N
  BY SMT
<1>2. CASE i + 1 < N
  <2>1. (i + 1) % N = i + 1
    BY <1>2, NoWrap
  <2> QED BY SMT, <1>2, <2>1
<1>3. CASE i + 1 = N
  <2>1. (i + 1) % N = 0
    BY SMT, <1>3, OneWrap
  <2> QED BY SMT, <1>3, <2>1
<1> QED BY <1>1, <1>2, <1>3

-----------------------------------------------------------------------------
(***************************************************************************)
(* A ring of N slots with write index i, given n values w[1] .. w[n] so    *)
(* far.  A slot below the index was written in the current round, a slot   *)
(* from there on in the previous one.                                      *)
(***************************************************************************)
RingHolds(N, ring, i, filled, w, n) ==
  /\ ~filled => i = n
  /\ filled => n >= N
  /\ \A s \in 0 .. N - 1 :
       /\ s < i => ring[s] = w[n - i + s + 1]
       /\ filled /\ s >= i => ring[s] = w[n - i + s + 1 - N]

\* Storing a value at the index and advancing it keeps the ring a ring.
LEMMA RingPush ==
  ASSUME NEW N \in Nat \ {0}, NEW ring, DOMAIN ring = 0 .. N - 1,
         NEW i \in 0 .. N - 1, NEW filled \in BOOLEAN,
         NEW w, NEW n \in Nat, NEW w2,
         RingHolds(N, ring, i, filled, w, n),
         \A m \in 1 .. n : w2[m] = w[m]
  PROVE  RingHolds(N, [ring EXCEPT ![i] = w2[n + 1]], (i + 1) % N,
                   filled \/ (i + 1) % N = 0, w2, n + 1)
<1> DEFINE v   == w2[n + 1]
           j   == (i + 1) % N
           new == [ring EXCEPT ![i] = v]
<1>0. v = w2[n + 1] /\ j = (i + 1) % N
  OBVIOUS
<1> HIDE DEF v, j
<1>1. /\ new[i] = v
      /\ \A s \in 0 .. N - 1 : s # i => new[s] = ring[s]
  OBVIOUS
<1> HIDE DEF new
<1>2. n >= i
  BY SMT DEF RingHolds
<1>3. ASSUME NEW s \in 0 .. N - 1, s < i
      PROVE  new[s] = w2[n - i + s + 1]
  <2>1. n - i + s + 1 \in 1 .. n
    BY SMT, <1>2, <1>3
  <2>2. new[s] = ring[s]
    BY SMT, <1>1, <1>3
  <2> QED BY <1>3, <2>1, <2>2 DEF RingHolds
<1>4. ASSUME NEW s \in 0 .. N - 1, s > i, filled
      PROVE  new[s] = w2[n - i + s + 1 - N]
  <2>1. n - i + s + 1 - N \in 1 .. n /\ s >= i
    BY SMT, <1>2, <1>4 DEF RingHolds
  <2>2. new[s] = ring[s]
    BY SMT, <1>1, <1>4
  <2> QED BY <1>4, <2>1, <2>2 DEF RingHolds
<1>5. CASE i + 1 < N
  <2>1. j = i + 1 /\ j # 0
    BY SMT, <1>0, <1>5, Advance
  <2>2. /\ ~filled => j = n + 1
        /\ filled => n + 1 >= N
    BY SMT, <2>1 DEF RingHolds
  <2>3. ASSUME NEW s \in 0 .. N - 1
        PROVE  /\ s < j => new[s] = w2[(n + 1) - j + s + 1]
               /\ filled /\ s >= j => new[s] = w2[(n + 1) - j + s + 1 - N]
    <3>0. (n + 1) - j = n - i
      BY SMT, <2>1
    <3>1. /\ (n + 1) - j + s + 1 = n - i + s + 1
          /\ (n + 1) - j + s + 1 - N = n - i + s + 1 - N
      BY <3>0
    <3>2. CASE s < i
      <4>1. ~(s >= j)
        BY SMT, <2>1, <3>2
      <4> QED BY <1>3, <3>1, <3>2, <4>1
    <3>3. CASE s = i
      <4>1. ~(s >= j) /\ (n + 1) - j + s + 1 = n + 1
        BY SMT, <2>1, <3>3
      <4> QED BY <1>0, <1>1, <3>3, <4>1
    <3>4. CASE s > i
      <4>1. ~(s < j)
        BY SMT, <2>1, <3>4
      <4> QED BY <1>4, <3>1, <3>4, <4>1
    <3> QED BY SMT, <3>2, <3>3, <3>4
  <2>4. RingHolds(N, new, j, filled, w2, n + 1)
    <3>1. \A s \in 0 .. N - 1 :
            /\ s < j => new[s] = w2[(n + 1) - j + s + 1]
            /\ filled /\ s >= j => new[s] = w2[(n + 1) - j + s + 1 - N]
      BY <2>3
    <3> QED BY <2>2, <3>1 DEF RingHolds
  <2>5. (filled \/ j = 0) = filled
    BY <2>1
  <2> QED BY <2>4, <2>5 DEF new, v, j
<1>6. CASE i + 1 = N
  <2>1. j = 0
    BY SMT, <1>0, <1>6, Advance
  <2>2. n + 1 >= N
    BY SMT, <1>2, <1>6
  <2>3. ASSUME NEW s \in 0 .. N - 1
        PROVE  /\ ~(s < j)
               /\ new[s] = w2[(n + 1) - j + s + 1 - N]
    <3>0. ~(s < j) /\ (n + 1) - j + s + 1 - N = n - i + s + 1
      BY SMT, <1>6, <2>1
    <3>1. CASE s < i
      BY <1>3, <3>0, <3>1
    <3>2. CASE s = i
      <4>1. (n + 1) - j + s + 1 - N = n + 1
        BY SMT, <1>6, <2>1, <3>2
      <4> QED BY <1>0, <1>1, <3>0, <3>2, <4>1
    <3> QED BY SMT, <1>6, <3>1, <3>2
  <2> QED BY <2>1, <2>2, <2>3 DEF RingHolds, new, v, j
<1> QED BY SMT, <1>5, <1>6

\* The slot k entries back from the newest holds the k-th value from the end.
Newest(N, ring, i, filled, w, n) ==
  \A k \in Nat : /\ filled => k < N
                 /\ ~filled => k < i
                 => ring[(i - 1 - k + N) % N] = w[n - k]

LEMMA RingNewest ==
  ASSUME NEW N, NEW ring, NEW i, NEW filled, NEW w, NEW n,
         RingHolds(N, ring, i, filled, w, n),
         N \in Nat \ {0}, i \in 0 .. N - 1, filled \in BOOLEAN, n \in Nat
  PROVE  Newest(N, ring, i, filled, w, n)
<1> SUFFICES ASSUME NEW k \in Nat, filled => k < N, ~filled => k < i
             PROVE  ring[(i - 1 - k + N) % N] = w[n - k]
  BY DEF Newest
<1>1. CASE k < i
  <2>0. i - 1 - k + N \in Nat /\ i - 1 - k + N >= N /\ i - 1 - k + N < 2 * N
    BY SMT, <1>1
  <2> DEFINE e == i - 1 - k + N
  <2> HIDE DEF e
  <2>a. e % N = e - N
    BY <2>0, OneWrap DEF e
  <2>1. (i - 1 - k + N) % N = i - 1 - k
    BY SMT, <2>a DEF e
  <2>2. i - 1 - k \in 0 .. N - 1 /\ i - 1 - k < i /\ n - i + (i - 1 - k) + 1 = n - k
    BY SMT, <1>1
  <2> QED BY <2>1, <2>2 DEF RingHolds
<1>2. CASE k >= i
  <2>1. filled /\ k < N
    BY SMT, <1>2
  <2>2. (i - 1 - k + N) % N = i - 1 - k + N
    BY SMT, <1>2, <2>1, NoWrap
  <2>3. /\ i - 1 - k + N \in 0 .. N - 1 /\ i - 1 - k + N >= i
        /\ n - i + (i - 1 - k + N) + 1 - N = n - k
    BY SMT, <1>2, <2>1
  <2> QED BY <2>1, <2>2, <2>3 DEF RingHolds
<1> QED BY SMT, <1>1, <1>2

\* The slot k entries on from the oldest holds the k-th value of the window.
Oldest(N, ring, i, w, n) ==
  \A k \in 0 .. N - 1 : ring[(i + k) % N] = w[n - N + k + 1]

LEMMA RingOldest ==
  ASSUME NEW N, NEW ring, NEW i, NEW filled, NEW w, NEW n,
         RingHolds(N, ring, i, filled, w, n),
         N \in Nat \ {0}, i \in 0 .. N - 1, filled \in BOOLEAN, filled, n \in Nat
  PROVE  Oldest(N, ring, i, w, n)
<1> SUFFICES ASSUME NEW k \in 0 .. N - 1
             PROVE  ring[(i + k) % N] = w[n - N + k + 1]
  BY DEF Oldest
<1>1. CASE i + k < N
  <2>1. (i + k) % N = i + k
    BY SMT, <1>1, NoWrap
  <2>2. i + k \in 0 .. N - 1 /\ i + k >= i /\ n - i + (i + k) + 1 - N = n - N + k + 1
    BY SMT, <1>1
  <2> QED BY <2>1, <2>2 DEF RingHolds
<1>2. CASE i + k >= N
  <2>0. i + k \in Nat /\ i + k < 2 * N
    BY SMT
  <2>1. (i + k) % N = (i + k) - N
    BY <1>2, <2>0, OneWrap
  <2>2. /\ (i + k) - N \in 0 .. N - 1 /\ (i + k) - N < i
        /\ n - i + ((i + k) - N) + 1 = n - N + k + 1
    BY SMT, <1>2
  <2> QED BY <2>1, <2>2 DEF RingHolds
<1> QED BY SMT, <1>1, <1>2

-----------------------------------------------------------------------------
(* The invariant: the two rings hold the tail of the history.              *)

EventsOf(h)  == [m \in 1 .. Len(h) |-> Event(CYCLE * m, h[m])]
SamplesOf(h) == [m \in 1 .. Len(h) |-> Sample(CYCLE * m, h[m])]

EventRing ==
  RingHolds(EVENT_LOG_SIZE, event_log, event_index, event_filled,
            EventsOf(history), Len(history))

MemRing ==
  RingHolds(HISTORY_LEN, mem_history, history_index, history_filled,
            SamplesOf(history), Len(history))

IInv == TypeOK /\ EventRing /\ MemRing

LEMMA RecordTypes ==
  ASSUME NEW n \in Nat, NEW free \in Nat
  PROVE  /\ CYCLE * n \in Nat
         /\ Event(CYCLE * n, free) \in [tick : Nat, alert : BOOLEAN,
                                        free_pages_at_decision : 0 .. BYTE - 1]
         /\ Sample(CYCLE * n, free) \in [tick : Nat, free : Nat]
<1>1. CYCLE * n \in Nat
  BY SMT, PrajnaLogAssumption
<1>2. free % BYTE \in 0 .. BYTE - 1
  BY SMT, PrajnaLogAssumption
<1>3. (free < PMM_ALERT_THRESHOLD) \in BOOLEAN
  OBVIOUS
<1> QED BY <1>1, <1>2, <1>3 DEF Event, Sample

LEMMA InitIInv == Init => IInv
<1> SUFFICES ASSUME Init PROVE IInv
  OBVIOUS
<1>1. Len(history) = 0 /\ history \in Seq(Nat)
  BY SMT DEF Init
<1>2. 0 \in Nat /\ 0 \in 0 .. BYTE - 1 /\ 0 \in Slots /\ 0 \in Samples
  BY SMT, PrajnaLogAssumption DEF Slots, Samples
<1>3. TypeOK
  <2>1. /\ NoEvent \in [tick : Nat, alert : BOOLEAN,
                        free_pages_at_decision : 0 .. BYTE - 1]
        /\ NoSample \in [tick : Nat, free : Nat]
    BY <1>2 DEF NoEvent, NoSample, Sample
  <2> QED BY <1>1, <1>2, <2>1 DEF TypeOK, Init
<1>4. EventRing
  BY SMT, <1>1 DEF EventRing, RingHolds, Init
<1>5. MemRing
  BY SMT, <1>1 DEF MemRing, RingHolds, Init
<1> QED BY <1>3, <1>4, <1>5 DEF IInv

\* What one more value does to the history.
LEMMA HistoryGrows ==
  ASSUME NEW h \in Seq(Nat), NEW free \in Nat
  PROVE  LET h2 == Append(h, free) IN
         /\ h2 \in Seq(Nat)
         /\ Len(h) \in Nat
         /\ Len(h2) = Len(h) + 1
         /\ \A m \in 1 .. Len(h) : /\ EventsOf(h2)[m] = EventsOf(h)[m]
                                   /\ SamplesOf(h2)[m] = SamplesOf(h)[m]
         /\ EventsOf(h2)[Len(h) + 1] = Event(CYCLE * (Len(h) + 1), free)
         /\ SamplesOf(h2)[Len(h) + 1] = Sample(CYCLE * (Len(h) + 1), free)
<1> DEFINE h2 == Append(h, free)
<1>1. /\ h2 \in Seq(Nat)
      /\ Len(h) \in Nat
      /\ Len(h2) = Len(h) + 1
      /\ \A m \in 1 .. Len(h) : h2[m] = h[m]
      /\ h2[Len(h) + 1] = free
  BY SMT
<1> HIDE DEF h2
<1>2. /\ Len(h) + 1 \in 1 .. Len(h2)
      /\ \A m \in 1 .. Len(h) : m \in 1 .. Len(h2)
  BY SMT, <1>1
<1>3. \A m \in 1 .. Len(h) : /\ EventsOf(h2)[m] = EventsOf(h)[m]
                             /\ SamplesOf(h2)[m] = SamplesOf(h)[m]
  BY <1>1, <1>2 DEF EventsOf, SamplesOf
<1>4. /\ EventsOf(h2)[Len(h) + 1] = Event(CYCLE * (Len(h) + 1), free)
      /\ SamplesOf(h2)[Len(h) + 1] = Sample(CYCLE * (Len(h) + 1), free)
  BY <1>1, <1>2 DEF EventsOf, SamplesOf
<1> QED BY <1>1, <1>3, <1>4 DEF h2

LEMMA NextIInv ==
  ASSUME IInv, [Next]_vars
  PROVE  IInv'
<1>1. CASE UNCHANGED vars
  BY <1>1 DEF vars, IInv, TypeOK, EventRing, MemRing
<1>2. ASSUME NEW free \in FreeLevels, Cycle(free)
      PROVE  IInv'
  <2> DEFINE tick == CYCLE * (Len(history) + 1)
  <2>1. free \in Nat /\ history \in Seq(Nat)
    BY <1>2, PrajnaLogAssumption DEF IInv, TypeOK
  <2>2. /\ history' = Append(history, free)
        /\ LogEvent(Event(tick, free))
        /\ UpdateMemTrend(Sample(tick, free))
    BY <1>2 DEF Cycle
  <2>3. /\ history' \in Seq(Nat)
        /\ Len(history) \in Nat
        /\ Len(history') = Len(history) + 1
        /\ \A m \in 1 .. Len(history) :
             /\ EventsOf(history')[m] = EventsOf(history)[m]
             /\ SamplesOf(history')[m] = SamplesOf(history)[m]
        /\ EventsOf(history')[Len(history) + 1] = Event(tick, free)
        /\ SamplesOf(history')[Len(history) + 1] = Sample(tick, free)
    BY <2>1, <2>2, HistoryGrows
  <2>4. /\ Event(tick, free) \in [tick : Nat, alert : BOOLEAN,
                                  free_pages_at_decision : 0 .. BYTE - 1]
        /\ Sample(tick, free) \in [tick : Nat, free : Nat]
    <3>1. Len(history) + 1 \in Nat
      BY SMT, <2>3
    <3> QED BY <2>1, <3>1, RecordTypes
  <2> HIDE DEF tick
  <2>5. /\ event_log' = [event_log EXCEPT ![event_index] = Event(tick, free)]
        /\ event_index' = (event_index + 1) % EVENT_LOG_SIZE
        /\ event_filled' = (event_filled \/ event_index' = 0)
        /\ event_index' \in Slots
        /\ event_filled' \in BOOLEAN
    <3>1. /\ event_log' = [event_log EXCEPT ![event_index] = Event(tick, free)]
          /\ event_index' = (event_index + 1) % EVENT_LOG_SIZE
          /\ event_filled' = (event_filled \/ event_index' = 0)
      BY <2>2 DEF LogEvent
    <3>2. event_index' \in Slots
      BY <3>1, Advance, PrajnaLogAssumption DEF IInv, TypeOK, Slots
    <3> QED BY <3>1, <3>2
  <2>6. /\ mem_history' = [mem_history EXCEPT ![history_index] = Sample(tick, free)]
        /\ history_index' = (history_index + 1) % HISTORY_LEN
        /\ history_filled' = (history_filled \/ history_index' = 0)
        /\ mem_trend' = [newest |-> Sample(tick, free),
                         oldest |-> mem_history'[history_index']]
        /\ history_index' \in Samples
        /\ history_filled' \in BOOLEAN
    <3>1. /\ mem_history' = [mem_history EXCEPT ![history_index] = Sample(tick, free)]
          /\ history_index' = (history_index + 1) % HISTORY_LEN
          /\ history_filled' = (history_filled \/ history_index' = 0)
          /\ mem_trend' = [newest |-> Sample(tick, free),
                           oldest |-> mem_history'[history_index']]
      BY <2>2 DEF UpdateMemTrend
    <3>2. history_index' \in Samples
      BY <3>1, Advance, PrajnaLogAssumption DEF IInv, TypeOK, Samples
    <3> QED BY <3>1, <3>2
  <2>7. TypeOK'
    <3>1. event_log' \in [Slots -> [tick : Nat, alert : BOOLEAN,
                                    free_pages_at_decision : 0 .. BYTE - 1]]
      BY <2>4, <2>5 DEF IInv, TypeOK
    <3>2. mem_history' \in [Samples -> [tick : Nat, free : Nat]]
      BY <2>4, <2>6 DEF IInv, TypeOK
    <3>3. mem_trend' \in [oldest : [tick : Nat, free : Nat],
                          newest : [tick : Nat, free : Nat]]
      <4>1. mem_history'[history_index'] \in [tick : Nat, free : Nat]
        BY <2>6, <3>2
      <4> QED BY <2>4, <2>6, <4>1
    <3>4. forecast' \in {"none", "depleting", "trend ok"}
      <4>1. PredictMemory
        BY <2>2 DEF UpdateMemTrend
      <4> QED BY <4>1 DEF PredictMemory, IInv, TypeOK
    <3> QED BY <2>3, <2>5, <2>6, <3>1, <3>2, <3>3, <3>4 DEF TypeOK
  <2>8. EventRing'
    <3>1. RingHolds(EVENT_LOG_SIZE, event_log', event_index', event_filled',
                    EventsOf(history'), Len(history) + 1)
      <4>1. /\ DOMAIN event_log = 0 .. EVENT_LOG_SIZE - 1
            /\ event_index \in 0 .. EVENT_LOG_SIZE - 1
            /\ event_filled \in BOOLEAN
            /\ EVENT_LOG_SIZE \in Nat \ {0}
        BY PrajnaLogAssumption DEF IInv, TypeOK, Slots
      <4>2. RingHolds(EVENT_LOG_SIZE, event_log, event_index, event_filled,
                      EventsOf(history), Len(history))
        BY DEF IInv, EventRing
      <4>3. ASSUME NEW w2,
                   \A m \in 1 .. Len(history) : w2[m] = EventsOf(history)[m]
            PROVE  RingHolds(EVENT_LOG_SIZE,
                             [event_log EXCEPT ![event_index] = w2[Len(history) + 1]],
                             (event_index + 1) % EVENT_LOG_SIZE,
                             event_filled \/ (event_index + 1) % EVENT_LOG_SIZE = 0,
                             w2, Len(history) + 1)
        <5>1. Len(history) \in Nat
          BY <2>3
        <5> QED BY <4>1, <4>2, <4>3, <5>1, RingPush
      <4>4. \A m \in 1 .. Len(history) : EventsOf(history')[m] = EventsOf(history)[m]
        BY <2>3
      <4>5. RingHolds(EVENT_LOG_SIZE,
                      [event_log EXCEPT ![event_index] = EventsOf(history')[Len(history) + 1]],
                      (event_index + 1) % EVENT_LOG_SIZE,
                      event_filled \/ (event_index + 1) % EVENT_LOG_SIZE = 0,
                      EventsOf(history'), Len(history) + 1)
        BY <4>3, <4>4
      <4> QED BY <2>3, <2>5, <4>5
    <3> QED BY <2>3, <3>1 DEF EventRing
  <2>9. MemRing'
    <3>1. RingHolds(HISTORY_LEN, mem_history', history_index', history_filled',
                    SamplesOf(history'), Len(history) + 1)
      <4>1. /\ DOMAIN mem_history = 0 .. HISTORY_LEN - 1
            /\ history_index \in 0 .. HISTORY_LEN - 1
            /\ history_filled \in BOOLEAN
            /\ HISTORY_LEN \in Nat \ {0}
        BY PrajnaLogAssumption DEF IInv, TypeOK, Samples
      <4>2. RingHolds(HISTORY_LEN, mem_history, history_index, history_filled,
                      SamplesOf(history), Len(history))
        BY DEF IInv, MemRing
      <4>3. ASSUME NEW w2,
                   \A m \in 1 .. Len(history) : w2[m] = SamplesOf(history)[m]
            PROVE  RingHolds(HISTORY_LEN,
                             [mem_history EXCEPT ![history_index] = w2[Len(history) + 1]],
                             (history_index + 1) % HISTORY_LEN,
                             history_filled \/ (history_index + 1) % HISTORY_LEN = 0,
                             w2, Len(history) + 1)
        <5>1. Len(history) \in Nat
          BY <2>3
        <5> QED BY <4>1, <4>2, <4>3, <5>1, RingPush
      <4>4. \A m \in 1 .. Len(history) : SamplesOf(history')[m] = SamplesOf(history)[m]
        BY <2>3
      <4>5. RingHolds(HISTORY_LEN,
                      [mem_history EXCEPT ![history_index] = SamplesOf(history')[Len(history) + 1]],
                      (history_index + 1) % HISTORY_LEN,
                      history_filled \/ (history_index + 1) % HISTORY_LEN = 0,
                      SamplesOf(history'), Len(history) + 1)
        BY <4>3, <4>4
      <4> QED BY <2>3, <2>6, <4>5
    <3> QED BY <2>3, <3>1 DEF MemRing
  <2> QED BY <2>7, <2>8, <2>9 DEF IInv
<1> QED BY <1>1, <1>2 DEF Next

\* The invariant holds in every state.
THEOREM Invariance == Spec => []IInv
<1>1. IInv /\ [Next]_vars => IInv'
  BY NextIInv
<1> QED BY InitIInv, <1>1, PTL DEF Spec

-----------------------------------------------------------------------------
(* What the readers return.                                                *)

LEMMA TotalIsLeast ==
  ASSUME IInv
  PROVE  /\ Total = Least(Len(history), EVENT_LOG_SIZE)
         /\ Total \in 0 .. EVENT_LOG_SIZE /\ Total =< Len(history)
         /\ Len(history) \in Nat
<1>1. /\ event_index \in 0 .. EVENT_LOG_SIZE - 1 /\ event_filled \in BOOLEAN
      /\ EVENT_LOG_SIZE \in Nat \ {0} /\ history \in Seq(Nat)
  BY PrajnaLogAssumption DEF IInv, TypeOK, Slots
<1>2. /\ ~event_filled => event_index = Len(history)
      /\ event_filled => Len(history) >= EVENT_LOG_SIZE
  BY DEF IInv, EventRing, RingHolds
<1>3. Len(history) \in Nat
  BY SMT, <1>1
<1> HIDE DEF IInv
<1> QED BY SMT, <1>1, <1>2, <1>3 DEF Total, Least

\* Entry i of the log is the i-th decision from the end.
LEMMA LogEntry ==
  ASSUME IInv, NEW i \in 1 .. Total
  PROVE  /\ Len(history) + 1 - i \in 1 .. Len(history)
         /\ event_log[LogSlot(i - 1)] = EventOf(Len(history) + 1 - i)
<1> DEFINE k == i - 1
           m == Len(history) - k
<1>1. /\ event_index \in 0 .. EVENT_LOG_SIZE - 1 /\ event_filled \in BOOLEAN
      /\ EVENT_LOG_SIZE \in Nat \ {0}
  BY PrajnaLogAssumption DEF IInv, TypeOK, Slots
<1>2. RingHolds(EVENT_LOG_SIZE, event_log, event_index, event_filled,
                EventsOf(history), Len(history))
  BY DEF IInv, EventRing
<1>3. k \in Nat /\ k < Total /\ m \in 1 .. Len(history) /\ m = Len(history) + 1 - i
  <2>1. i \in Int /\ 1 =< i /\ i =< Total
    BY SMT, TotalIsLeast
  <2> QED BY SMT, <2>1, TotalIsLeast
<1>4. event_log[(event_index - 1 - k + EVENT_LOG_SIZE) % EVENT_LOG_SIZE]
        = EventsOf(history)[m]
  <2>1. /\ event_filled => k < EVENT_LOG_SIZE
        /\ ~event_filled => k < event_index
    BY <1>3 DEF Total
  <2>2. Len(history) \in Nat
    BY TotalIsLeast
  <2>3. k \in Nat
    BY <1>3
  <2> HIDE DEF k, m
  <2>5. event_log[(event_index - 1 - k + EVENT_LOG_SIZE) % EVENT_LOG_SIZE]
          = EventsOf(history)[Len(history) - k]
    <3>1. Newest(EVENT_LOG_SIZE, event_log, event_index, event_filled,
                 EventsOf(history), Len(history))
      BY <1>1, <1>2, <2>2, RingNewest
    <3> QED BY <2>1, <2>3, <3>1 DEF Newest
  <2> QED BY <2>5 DEF m
<1>5. EventsOf(history)[m] = EventOf(m)
  <2> HIDE DEF m
  <2> QED BY <1>3 DEF EventsOf, EventOf
<1> QED BY <1>3, <1>4, <1>5 DEF LogSlot

LEMMA LogFollows ==
  ASSUME IInv PROVE LogIsLastDecisions
<1> SUFFICES ASSUME NEW count \in 0 .. EVENT_LOG_SIZE
             PROVE  ai_get_log(count) =
                      [i \in 1 .. Least(count, Least(Len(history), EVENT_LOG_SIZE)) |->
                         EventOf(Len(history) + 1 - i)]
  BY DEF LogIsLastDecisions
<1> DEFINE size == IF count > Total THEN Total ELSE count
<1>1. /\ size = Least(count, Least(Len(history), EVENT_LOG_SIZE))
      /\ \A i \in 1 .. size : i \in 1 .. Total
  <2>1. count \in Nat /\ Total \in Nat
    BY SMT, TotalIsLeast, PrajnaLogAssumption
  <2>2. size = Least(count, Total)
    BY SMT, <2>1 DEF Least
  <2>3. size \in Nat /\ size =< Total
    BY SMT, <2>1
  <2> HIDE DEF size
  <2>4. \A i \in 1 .. size : i \in 1 .. Total
    BY SMT, <2>1, <2>3
  <2> QED BY <2>2, <2>4, TotalIsLeast
<1>2. \A i \in 1 .. size : event_log[LogSlot(i - 1)] = EventOf(Len(history) + 1 - i)
  BY <1>1, LogEntry
<1>3. ai_get_log(count) = [i \in 1 .. size |-> event_log[LogSlot(i - 1)]]
  BY DEF ai_get_log
<1> HIDE DEF size
<1> QED BY <1>1, <1>2, <1>3

LEMMA SamplesFollow ==
  ASSUME IInv PROVE MemoryHistoryIsLastSamples
<1> DEFINE n    == Len(history)
           k    == Least(n, HISTORY_LEN)
           size == IF history_filled THEN HISTORY_LEN ELSE history_index
<1>1. /\ history_index \in 0 .. HISTORY_LEN - 1 /\ history_filled \in BOOLEAN
      /\ HISTORY_LEN \in Nat \ {0} /\ n \in Nat
  <2>1. /\ history_index \in 0 .. HISTORY_LEN - 1 /\ history_filled \in BOOLEAN
        /\ HISTORY_LEN \in Nat \ {0}
    BY PrajnaLogAssumption DEF IInv, TypeOK, Samples
  <2> QED BY <2>1, TotalIsLeast
<1>2. RingHolds(HISTORY_LEN, mem_history, history_index, history_filled,
                SamplesOf(history), n)
  BY DEF IInv, MemRing
<1>3. size = k /\ (history_filled => k = HISTORY_LEN) /\ k \in Nat /\ k =< n
  <2>1. /\ ~history_filled => history_index = n
        /\ history_filled => n >= HISTORY_LEN
    BY <1>2 DEF RingHolds
  <2> HIDE DEF n
  <2> QED BY SMT, <1>1, <2>1 DEF Least
<1>4. ASSUME NEW i \in 1 .. k
      PROVE  mem_history[MemSlot(i - 1)] = SampleOf((n - k) + i)
  <2>1. (n - k) + i \in 1 .. n
    <3> HIDE DEF n, k
    <3> QED BY SMT, <1>1, <1>3, <1>4
  <2>2. SamplesOf(history)[(n - k) + i] = SampleOf((n - k) + i)
    <3> DEFINE m == (n - k) + i
    <3> HIDE DEF m
    <3>1. m \in 1 .. n
      BY <2>1 DEF m
    <3>2. SamplesOf(history)[m] = SampleOf(m)
      BY <3>1 DEF SamplesOf, SampleOf
    <3> QED BY <3>2 DEF m
  <2>3. mem_history[MemSlot(i - 1)] = SamplesOf(history)[(n - k) + i]
    <3> HIDE DEF n, k
    <3>1. CASE history_filled
      <4> DEFINE e == i - 1
      <4>1. e \in 0 .. HISTORY_LEN - 1 /\ n - HISTORY_LEN + e + 1 = (n - k) + i
        BY SMT, <1>1, <1>3, <1>4, <3>1
      <4>a. e \in 0 .. HISTORY_LEN - 1
        BY <4>1
      <4> HIDE DEF e
      <4>2. mem_history[(history_index + e) % HISTORY_LEN]
              = SamplesOf(history)[n - HISTORY_LEN + e + 1]
        <5>1. Oldest(HISTORY_LEN, mem_history, history_index, SamplesOf(history), n)
          BY <1>1, <1>2, <3>1, RingOldest
        <5> QED BY <4>a, <5>1 DEF Oldest
      <4> QED BY <3>1, <4>1, <4>2 DEF MemSlot, e
    <3>2. CASE ~history_filled
      <4> DEFINE e == i - 1
      <4>1. /\ e \in 0 .. HISTORY_LEN - 1 /\ e < history_index
            /\ n - history_index + e + 1 = (n - k) + i
        BY SMT, <1>1, <1>3, <1>4, <3>2
      <4> HIDE DEF e
      <4>2. mem_history[e] = SamplesOf(history)[n - history_index + e + 1]
        BY <1>2, <4>1 DEF RingHolds
      <4> QED BY <3>2, <4>1, <4>2 DEF MemSlot, e
    <3> QED BY <3>1, <3>2
  <2> QED BY <2>2, <2>3
<1>5. ai_get_memory_history = [i \in 1 .. size |-> mem_history[MemSlot(i - 1)]]
  BY DEF ai_get_memory_history
<1>6. ai_get_memory_history = [i \in 1 .. k |-> SampleOf((n - k) + i)]
  <2> HIDE DEF size, k
  <2> QED BY <1>3, <1>4, <1>5
<1> QED BY <1>6 DEF MemoryHistoryIsLastSamples

LEMMA ReasonFollows ==
  ASSUME IInv PROVE AlertReasonExact
<1> SUFFICES ASSUME NEW i \in 1 .. Total,
                    ai_get_log(EVENT_LOG_SIZE)[i].alert
             PROVE  ai_get_log(EVENT_LOG_SIZE)[i].free_pages_at_decision
                      = history[Len(history) + 1 - i]
  BY DEF AlertReasonExact
<1> DEFINE m == Len(history) + 1 - i
<1>1. ai_get_log(EVENT_LOG_SIZE)[i] = EventOf(m)
  <2>1. (IF EVENT_LOG_SIZE > Total THEN Total ELSE EVENT_LOG_SIZE) = Total
    <3>1. EVENT_LOG_SIZE \in Nat /\ Total \in 0 .. EVENT_LOG_SIZE
      BY TotalIsLeast, PrajnaLogAssumption
    <3> HIDE DEF IInv
    <3> QED BY SMT, <3>1
  <2>2. ai_get_log(EVENT_LOG_SIZE)[i] = event_log[LogSlot(i - 1)]
    BY <2>1 DEF ai_get_log
  <2> QED BY <2>2, LogEntry
<1>2. m \in 1 .. Len(history)
  BY LogEntry
<1> HIDE DEF m
<1>3. history[m] \in Nat
  <2>1. history \in Seq(Nat)
    BY DEF IInv, TypeOK
  <2> QED BY SMT, <1>2, <2>1
<1>4. /\ EventOf(m).alert = (history[m] < PMM_ALERT_THRESHOLD)
      /\ EventOf(m).free_pages_at_decision = history[m] % BYTE
  BY DEF EventOf, Event
<1>5. history[m] < BYTE
  <2>1. history[m] < PMM_ALERT_THRESHOLD
    BY <1>1, <1>4
  <2> QED BY SMT, <1>3, <2>1, PrajnaLogAssumption
<1>6. history[m] % BYTE = history[m]
  BY <1>3, <1>5, NoWrap, PrajnaLogAssumption
<1> QED BY <1>1, <1>4, <1>6 DEF m

-----------------------------------------------------------------------------
(* Arithmetic of the forecast.                                             *)

LEMMA DivideBound ==
  ASSUME NEW x \in Nat, NEW y \in Nat, y > 0, NEW c \in Nat, x <= y * c
  PROVE  x \div y <= c
<1>1. x = y * (x \div y) + (x % y) /\ x % y >= 0 /\ x \div y \in Int
  BY SMT
<1> DEFINE q == x \div y
<1>2. y * q <= y * c /\ q \in Int
  <2>1. y * q = x - (x % y) /\ x % y \in Int /\ q \in Int
    BY <1>1, SMT
  <2> QED BY <1>1, <2>1, SMT
<1> HIDE DEF q
<1>3. ~(q > c)
  <2> SUFFICES ASSUME q > c PROVE FALSE
    OBVIOUS
  <2>1. q >= c + 1 /\ q - (c + 1) \in Nat
    BY <1>2, SMT
  <2>2. y * (q - (c + 1)) >= 0
    BY <2>1, SMT
  <2>3. y * (q - (c + 1)) = y * q - (y * c) - y
    BY <1>2, SMT
  <2> QED BY <1>2, <2>2, <2>3, SMT
<1> QED BY <1>2, <1>3, SMT DEF q

LEMMA TimesMonotone ==
  ASSUME NEW r \in Nat, NEW d \in Nat, NEW q \in Nat, r <= d
  PROVE  r * q \in Nat /\ d * q \in Nat /\ r * q <= d * q
BY SMT

\* Values that fall by d from each to the next lie k * d above the last one.
Falls(h, a, b, d) ==
  /\ \A i \in a .. b : h[i] \in Int
  /\ \A i \in a .. b - 1 : h[i] - h[i + 1] = d

OnALine(h, a, b, d) == \A k \in 0 .. b - a : h[b - k] = h[b] + (k * d)

LEMMA Descent ==
  ASSUME NEW h, NEW a \in Int, NEW b \in Int, a <= b, NEW d \in Int, Falls(h, a, b, d)
  PROVE  OnALine(h, a, b, d)
<1>0. /\ \A i \in a .. b : h[i] \in Int
      /\ \A i \in a .. b - 1 : h[i] - h[i + 1] = d
  BY DEF Falls
<1> DEFINE S    == {k \in 0 .. b - a : h[b - k] # h[b] + (k * d)}
           Less == {ss \in Nat \X Nat : ss[1] < ss[2]}
<1> SUFFICES ASSUME S # {} PROVE FALSE
  BY DEF OnALine
<1>1. IsWellFoundedOn(Less, Nat)
  BY NatLessThanWellFounded DEF OpToRel
<1>2. S \in SUBSET Nat
  BY SMT
<1> HIDE DEF Less
<1>3. PICK m \in S : \A k \in S : ~(<<k, m>> \in Less)
  <2> HIDE DEF S
  <2> QED BY <1>1, <1>2, WFMin, Zenon
<1>4. m \in 0 .. b - a /\ h[b - m] # h[b] + (m * d) /\ m \in Nat
  BY <1>2, <1>3
<1>5. CASE m = 0
  <2>1. b \in a .. b /\ b - 0 = b /\ 0 * d = 0
    BY SMT
  <2>2. h[b] \in Int
    BY <1>0, <2>1
  <2>3. h[b] + 0 = h[b]
    BY <2>2, SMT
  <2> QED BY <1>4, <1>5, <2>1, <2>3
<1>6. CASE m # 0
  <2>1. /\ m - 1 \in 0 .. b - a /\ m - 1 \in Nat /\ m - 1 < m
        /\ b - m \in a .. b - 1 /\ b - m \in a .. b /\ b - (m - 1) \in a .. b /\ b \in a .. b
        /\ (b - m) + 1 = b - (m - 1)
    BY <1>4, <1>6, SMT
  <2>2. m - 1 \notin S
    <3>1. <<m - 1, m>> \in Nat \X Nat /\ <<m - 1, m>>[1] = m - 1 /\ <<m - 1, m>>[2] = m
      BY <1>4, <2>1
    <3>2. <<m - 1, m>> \in Less
      BY <2>1, <3>1 DEF Less
    <3> QED BY <1>3, <3>2
  <2>3. h[b - (m - 1)] = h[b] + ((m - 1) * d)
    BY <2>1, <2>2
  <2>4. h[b - m] - h[(b - m) + 1] = d
    BY <1>0, <2>1
  <2>5. /\ h[b - m] \in Int /\ h[b - (m - 1)] \in Int /\ h[b] \in Int
        /\ h[b - m] - h[b - (m - 1)] = d
    BY <1>0, <2>1, <2>4
  <2>6. m * d = ((m - 1) * d) + d /\ m * d \in Int /\ (m - 1) * d \in Int
    BY <1>4, SMT
  <2>7. h[b - m] = h[b] + (m * d)
    <3> DEFINE u == h[b - m]
               v == h[b - (m - 1)]
               w == h[b]
               p == m * d
               t == (m - 1) * d
    <3>1. u \in Int /\ v \in Int /\ w \in Int /\ u - v = d /\ v = w + t /\ p = t + d /\ t \in Int
      BY <2>3, <2>5, <2>6
    <3> HIDE DEF u, v, w, p, t
    <3>2. u = w + p
      BY <3>1, SMT
    <3> QED BY <3>2 DEF u, w, p
  <2> QED BY <1>4, <2>7
<1> QED BY <1>5, <1>6

-----------------------------------------------------------------------------
(* The forecast.                                                           *)

\* What ai_predict_memory makes of a history h in cycle m, without the ring: the
\* window is full, memory is above the threshold and there was more at its start.
Declines(h, m) ==
  /\ m >= HISTORY_LEN
  /\ h[m] > PMM_ALERT_THRESHOLD
  /\ h[m] < h[m - HISTORY_LEN + 1]

Ticks(h, m) ==
  ((h[m] - PMM_ALERT_THRESHOLD) * (CYCLE * (HISTORY_LEN - 1)))
    \div (h[m - HISTORY_LEN + 1] - h[m])

Warns(h, m) == Declines(h, m) /\ Ticks(h, m) <= HORIZON

(***************************************************************************)
(* The warning stays on the screen until a cycle forecasts something else: *)
(* if cycle m warned and no later cycle made a forecast, it is there.      *)
(***************************************************************************)
Warned ==
  \A m \in 1 .. Len(history) :
    /\ Warns(history, m)
    /\ \A l \in m + 1 .. Len(history) : ~Declines(history, l)
    => forecast = "depleting"

LEMMA Window ==
  ASSUME IInv, IInv', NEW free \in FreeLevels, Cycle(free)
  PROVE  LET n == Len(history') IN
         /\ Declining <=> Declines(history', n)
         /\ Declines(history', n) => TicksToAlert = Ticks(history', n)
<1> DEFINE n == Len(history')
           o == n - HISTORY_LEN + 1
<1>0. HISTORY_LEN \in Nat \ {0, 1} /\ PMM_ALERT_THRESHOLD \in Int /\ CYCLE \in Nat \ {0}
  BY PrajnaLogAssumption, SMT
<1>1. /\ history' \in Seq(Nat) /\ n \in Nat /\ n = Len(history) + 1 /\ n >= 1
      /\ history'[n] = free /\ free \in Nat
  <2>1. history \in Seq(Nat) /\ free \in Nat /\ history' = Append(history, free)
    BY PrajnaLogAssumption DEF IInv, TypeOK, Cycle
  <2> QED BY <2>1, SMT
<1>2. /\ mem_trend'.newest = Sample(CYCLE * n, free)
      /\ mem_trend'.oldest = mem_history'[history_index']
  <2>1. /\ UpdateMemTrend(Sample(CYCLE * (Len(history) + 1), free))
    BY DEF Cycle
  <2> QED BY <1>1, <2>1 DEF UpdateMemTrend
<1>3. RingHolds(HISTORY_LEN, mem_history', history_index', history_filled',
                SamplesOf(history'), n)
  BY DEF IInv, MemRing
<1>4. /\ history_index' \in 0 .. HISTORY_LEN - 1 /\ history_filled' \in BOOLEAN
  BY DEF IInv, TypeOK, Samples
<1> HIDE DEF n
<1>5. history_filled' <=> n >= HISTORY_LEN
  <2>1. /\ ~history_filled' => history_index' = n
        /\ history_filled' => n >= HISTORY_LEN
    BY <1>3 DEF RingHolds
  <2> QED BY <1>0, <1>1, <1>4, <2>1, SMT
<1>6. ASSUME history_filled'
      PROVE  o \in 1 .. n /\ mem_trend'.oldest = Sample(CYCLE * o, history'[o])
  <2>1. o \in 1 .. n
    BY <1>0, <1>1, <1>5, <1>6, SMT
  <2>2. mem_history'[history_index']
          = SamplesOf(history')[n - history_index' + history_index' + 1 - HISTORY_LEN]
    <3>1. history_index' >= history_index'
      BY <1>4, SMT
    <3> QED BY <1>3, <1>4, <1>6, <3>1 DEF RingHolds
  <2>3. n - history_index' + history_index' + 1 - HISTORY_LEN = o
    BY <1>0, <1>1, <1>4, SMT
  <2> HIDE DEF o
  <2>4. SamplesOf(history')[o] = Sample(CYCLE * o, history'[o])
    BY <2>1 DEF SamplesOf, n
  <2> QED BY <1>2, <2>1, <2>2, <2>3, <2>4
<1>7. mem_trend'.newest.free = history'[n] /\ mem_trend'.newest.tick = CYCLE * n
  BY <1>1, <1>2 DEF Sample
<1>8. ASSUME history_filled'
      PROVE  /\ mem_trend'.oldest.free = history'[o] /\ mem_trend'.oldest.tick = CYCLE * o
             /\ (CYCLE * n) - (CYCLE * o) = CYCLE * (HISTORY_LEN - 1)
             /\ CYCLE * n # CYCLE * o
             /\ history'[o] \in Nat
  <2>1. mem_trend'.oldest.free = history'[o] /\ mem_trend'.oldest.tick = CYCLE * o
    <3> HIDE DEF o
    <3> QED BY <1>6, <1>8 DEF Sample
  <2>2. (CYCLE * n) - (CYCLE * o) = CYCLE * (HISTORY_LEN - 1)
    BY <1>0, <1>1, SMT
  <2>3. CYCLE * (HISTORY_LEN - 1) > 0
    BY <1>0, SMT
  <2>4. CYCLE * n \in Int
    BY <1>0, <1>1, SMT
  <2>5. CYCLE * n # CYCLE * o
    <3> SUFFICES ASSUME CYCLE * n = CYCLE * o PROVE FALSE
      OBVIOUS
    <3>1. (CYCLE * n) - (CYCLE * o) = 0
      BY <2>4, SMT
    <3> QED BY <2>2, <2>3, <3>1, SMT
  <2>6. history'[o] \in Nat
    <3> HIDE DEF o
    <3> QED BY <1>1, <1>6, <1>8 DEF n
  <2> QED BY <2>1, <2>2, <2>5, <2>6
<1>9. Declining <=> Declines(history', n)
  <2>1. Declines(history', n) <=> /\ n >= HISTORY_LEN
                                  /\ history'[n] > PMM_ALERT_THRESHOLD
                                  /\ history'[n] < history'[o]
    BY DEF Declines
  <2> HIDE DEF o
  <2>2. CASE history_filled'
    BY <1>5, <1>7, <1>8, <2>1, <2>2 DEF Declining
  <2>3. CASE ~history_filled'
    BY <1>5, <2>1, <2>3 DEF Declining
  <2> QED BY <2>2, <2>3
<1>10. ASSUME Declines(history', n) PROVE TicksToAlert = Ticks(history', n)
  <2>1. history_filled'
    BY <1>5, <1>10 DEF Declines
  <2>2. Ticks(history', n) = ((history'[n] - PMM_ALERT_THRESHOLD) * (CYCLE * (HISTORY_LEN - 1)))
                               \div (history'[o] - history'[n])
    BY DEF Ticks
  <2> HIDE DEF o
  <2> QED BY <1>7, <1>8, <2>1, <2>2 DEF TicksToAlert
<1> QED BY <1>9, <1>10 DEF n

LEMMA InitW == Init => Warned
<1> SUFFICES ASSUME Init, NEW m \in 1 .. Len(history) PROVE FALSE
  BY DEF Warned
<1>1. Len(history) = 0
  BY SMT DEF Init
<1> QED BY <1>1, SMT

LEMMA NextW == IInv /\ IInv' /\ Warned /\ [Next]_vars => Warned'
<1> SUFFICES ASSUME IInv, IInv', Warned, [Next]_vars PROVE Warned'
  OBVIOUS
<1>1. CASE UNCHANGED vars
  BY <1>1 DEF vars, Warned
<1>2. ASSUME NEW free \in FreeLevels, Cycle(free) PROVE Warned'
  <2> DEFINE n == Len(history')
  <2>1. /\ n \in Nat /\ n = Len(history) + 1 /\ Len(history) \in Nat
        /\ \A m \in 1 .. Len(history) : history'[m] = history[m]
    <3>1. history \in Seq(Nat) /\ free \in Nat /\ history' = Append(history, free)
      BY <1>2, PrajnaLogAssumption DEF IInv, TypeOK, Cycle
    <3> QED BY <3>1, SMT
  <2>2. forecast' = IF Declines(history', n)
                    THEN IF Ticks(history', n) <= HORIZON THEN "depleting" ELSE "trend ok"
                    ELSE forecast
    <3>1. PredictMemory
      BY <1>2 DEF Cycle, UpdateMemTrend
    <3>2. /\ Declining <=> Declines(history', n)
          /\ Declines(history', n) => TicksToAlert = Ticks(history', n)
      BY <1>2, Window
    <3> HIDE DEF n
    <3> QED BY <3>1, <3>2 DEF PredictMemory
  <2>3. \A m \in 1 .. Len(history) :
          /\ Declines(history', m) <=> Declines(history, m)
          /\ Ticks(history', m) = Ticks(history, m) \/ m < HISTORY_LEN
    <3> SUFFICES ASSUME NEW m \in 1 .. Len(history)
                 PROVE  /\ Declines(history', m) <=> Declines(history, m)
                        /\ Ticks(history', m) = Ticks(history, m) \/ m < HISTORY_LEN
      OBVIOUS
    <3>1. history'[m] = history[m]
      BY <2>1
    <3>2. CASE m >= HISTORY_LEN
      <4>1. m - HISTORY_LEN + 1 \in 1 .. Len(history)
        BY <2>1, <3>2, PrajnaLogAssumption, SMT
      <4>2. history'[m - HISTORY_LEN + 1] = history[m - HISTORY_LEN + 1]
        BY <2>1, <4>1
      <4> QED BY <3>1, <4>2 DEF Declines, Ticks
    <3>3. CASE ~(m >= HISTORY_LEN)
      <4>1. m < HISTORY_LEN
        BY <2>1, <3>3, PrajnaLogAssumption, SMT
      <4> QED BY <3>3, <4>1 DEF Declines
    <3> QED BY <3>2, <3>3
  <2> SUFFICES ASSUME NEW m \in 1 .. n, Warns(history', m),
                      \A l \in m + 1 .. n : ~Declines(history', l)
               PROVE  forecast' = "depleting"
    BY DEF Warned
  <2>4. CASE m = n
    BY <2>2, <2>4 DEF Warns
  <2>5. CASE m # n
    <3> HIDE DEF n
    <3>1. /\ m \in 1 .. Len(history) /\ n \in m + 1 .. n
          /\ \A l \in m + 1 .. Len(history) : l \in m + 1 .. n /\ l \in 1 .. Len(history)
      BY <2>1, <2>5, SMT
    <3>2. forecast' = forecast
      BY <2>2, <3>1
    <3>3. \A l \in m + 1 .. Len(history) : ~Declines(history, l)
      BY <2>3, <3>1
    <3>4. Warns(history, m)
      <4>1. Declines(history', m) /\ ~(m < HISTORY_LEN)
        <5>1. Declines(history', m) /\ m >= HISTORY_LEN
          BY DEF Warns, Declines
        <5> QED BY <5>1, <3>1, <2>1, PrajnaLogAssumption, SMT
      <4> QED BY <2>3, <3>1, <4>1 DEF Warns
    <3> QED BY <3>1, <3>2, <3>3, <3>4 DEF Warned
  <2> QED BY <2>4, <2>5
<1> QED BY <1>1, <1>2 DEF Next

LEMMA AlwaysW == Spec => []Warned
<1>1. Spec => []IInv
  BY Invariance
<1> QED BY InitW, NextW, <1>1, PTL DEF Spec

\* A cycle in which memory is above the threshold, by no more than a cycle loses, and
\* has lost as much in each cycle of the window warns.
LEMMA SteadyLossWarns ==
  ASSUME NEW h, NEW m \in Nat, NEW d \in Nat \ {0}, m >= HISTORY_LEN,
         h[m] \in Nat, h[m] > PMM_ALERT_THRESHOLD, h[m] - PMM_ALERT_THRESHOLD <= d,
         h[m - HISTORY_LEN + 1] = h[m] + ((HISTORY_LEN - 1) * d)
  PROVE  Warns(h, m)
<1> DEFINE o == h[m - HISTORY_LEN + 1]
           e == h[m]
           k == HISTORY_LEN - 1
           r == e - PMM_ALERT_THRESHOLD
           q == CYCLE * k
           y == k * d
<1>1. /\ k \in Nat /\ k > 0 /\ PMM_ALERT_THRESHOLD \in Nat
      /\ CYCLE \in Nat /\ CYCLE > 0 /\ HORIZON \in Nat /\ CYCLE <= HORIZON
  BY PrajnaLogAssumption, SMT
<1>2. e \in Nat /\ e > PMM_ALERT_THRESHOLD /\ r \in Nat /\ r <= d /\ o = e + y
  BY <1>1, SMT
<1> HIDE DEF k
<1>3. y \in Nat /\ y > 0 /\ q \in Nat /\ d \in Nat
  BY <1>1, SMT
<1> HIDE DEF e, o, y, r
<1>4. o - e = y /\ e < o
  BY <1>2, <1>3, SMT
<1> HIDE DEF q
<1>5. r * q \in Nat /\ r * q <= d * q
  BY <1>2, <1>3, TimesMonotone
<1>6. d * q = y * CYCLE
  BY <1>1, SMT DEF q, y
<1>7. (r * q) \div y <= CYCLE
  BY <1>1, <1>3, <1>5, <1>6, DivideBound
<1>8. (r * q) \div y <= HORIZON
  <2>1. (r * q) \div y \in Int
    BY <1>3, <1>5, SMT
  <2> QED BY <1>1, <1>7, <2>1, SMT
<1>9. Declines(h, m)
  BY <1>2, <1>4 DEF Declines, e, o
<1>10. Ticks(h, m) = (r * q) \div y
  <2>1. Ticks(h, m) = (r * q) \div (o - e)
    BY DEF Ticks, r, q, k, o, e
  <2> QED BY <1>4, <2>1
<1> QED BY <1>8, <1>9, <1>10 DEF Warns

LEMMA WarnedFollows ==
  ASSUME IInv, Warned PROVE WarnedBeforeAlert
<1> DEFINE n == Len(history)
           d == history[n - 1] - history[n]
<1> SUFFICES ASSUME n >= HISTORY_LEN + 2,
                    history[n] < PMM_ALERT_THRESHOLD,
                    history[n - 1] >= PMM_ALERT_THRESHOLD,
                    \A i \in n - HISTORY_LEN - 1 .. n - 1 : history[i] - history[i + 1] = d
             PROVE  forecast = "depleting"
  BY DEF WarnedBeforeAlert
<1>1. /\ HISTORY_LEN \in Nat /\ HISTORY_LEN >= 2 /\ PMM_ALERT_THRESHOLD \in Nat
      /\ n \in Nat /\ \A i \in 1 .. n : history[i] \in Nat
  <2>1. history \in Seq(Nat)
    BY DEF IInv, TypeOK
  <2> QED BY <2>1, PrajnaLogAssumption, SMT
<1> HIDE DEF n
<1>2. /\ n \in 1 .. n /\ n - 1 \in 1 .. n /\ n - 2 \in 1 .. n
      /\ n - HISTORY_LEN \in 1 .. n /\ n - HISTORY_LEN - 1 \in 1 .. n
      /\ n - 1 \in Nat /\ n - 2 \in Nat /\ n - 1 >= HISTORY_LEN /\ n - 2 >= HISTORY_LEN
  BY <1>1, SMT
<1>3. history[n] \in Nat /\ history[n - 1] \in Nat /\ history[n - 2] \in Nat
  BY <1>1, <1>2
<1>4. d \in Nat \ {0} /\ history[n - 1] - PMM_ALERT_THRESHOLD <= d
  BY <1>1, <1>3, SMT
<1> HIDE DEF d
<1>5. ASSUME NEW b \in {n - 1, n - 2}
      PROVE  history[b - HISTORY_LEN + 1] = history[b] + ((HISTORY_LEN - 1) * d)
  <2> DEFINE a == n - HISTORY_LEN - 1
  <2>1. /\ a \in Int /\ b \in Int /\ a <= b /\ d \in Int
        /\ HISTORY_LEN - 1 \in 0 .. b - a /\ b - (HISTORY_LEN - 1) = b - HISTORY_LEN + 1
        /\ \A i \in a .. b : i \in 1 .. n
        /\ \A i \in a .. b - 1 : i \in a .. n - 1
    BY <1>1, <1>4, SMT
  <2>2. \A i \in a .. b : history[i] \in Int
    BY <1>1, <2>1
  <2>3. \A i \in a .. b - 1 : history[i] - history[i + 1] = d
    BY <2>1
  <2> HIDE DEF a
  <2>4. Falls(history, a, b, d)
    BY <2>2, <2>3 DEF Falls
  <2>5. OnALine(history, a, b, d)
    BY <2>1, <2>4, Descent
  <2> QED BY <2>1, <2>5 DEF OnALine
<1>6. ~Declines(history, n)
  <2>1. ~(history[n] > PMM_ALERT_THRESHOLD)
    BY <1>1, <1>3, SMT
  <2> QED BY <2>1 DEF Declines
<1>7. CASE history[n - 1] > PMM_ALERT_THRESHOLD
  <2>1. Warns(history, n - 1)
    <3>1. n - 1 \in {n - 1, n - 2}
      OBVIOUS
    <3>2. history[(n - 1) - HISTORY_LEN + 1] = history[n - 1] + ((HISTORY_LEN - 1) * d)
      BY <1>5, <3>1
    <3> QED BY <1>2, <1>3, <1>4, <1>7, <3>2, SteadyLossWarns
  <2>2. \A l \in (n - 1) + 1 .. n : l = n
    BY <1>1, SMT
  <2>3. \A l \in (n - 1) + 1 .. n : ~Declines(history, l)
    BY <1>6, <2>2
  <2> QED BY <1>2, <2>1, <2>3 DEF Warned, n
<1>8. CASE history[n - 1] = PMM_ALERT_THRESHOLD
  <2>1. Warns(history, n - 2)
    <3>1. n - 2 \in {n - 1, n - 2}
      OBVIOUS
    <3>2. history[(n - 2) - HISTORY_LEN + 1] = history[n - 2] + ((HISTORY_LEN - 1) * d)
      BY <1>5, <3>1
    <3>3. history[n - 2] - history[n - 1] = d
      <4>1. n - 2 \in n - HISTORY_LEN - 1 .. n - 1 /\ (n - 2) + 1 = n - 1
        BY <1>1, SMT
      <4> QED BY <4>1
    <3>4. history[n - 2] > PMM_ALERT_THRESHOLD /\ history[n - 2] - PMM_ALERT_THRESHOLD <= d
      BY <1>1, <1>3, <1>4, <1>8, <3>3, SMT
    <3> QED BY <1>2, <1>3, <1>4, <3>2, <3>4, SteadyLossWarns
  <2>2. ~Declines(history, n - 1)
    <3>1. ~(history[n - 1] > PMM_ALERT_THRESHOLD)
      BY <1>1, <1>3, <1>8, SMT
    <3> QED BY <3>1 DEF Declines
  <2>3. \A l \in (n - 2) + 1 .. n : l = n - 1 \/ l = n
    BY <1>1, SMT
  <2>4. \A l \in (n - 2) + 1 .. n : ~Declines(history, l)
    BY <1>6, <2>2, <2>3
  <2> QED BY <1>2, <2>1, <2>4 DEF Warned, n
<1> QED BY <1>1, <1>3, <1>7, <1>8, SMT

-----------------------------------------------------------------------------
(* The theorems.                                                           *)

\* Rings, indices and trend keep their types, however many cycles run
\* (ai_act, update_mem_trend, ai_predict_memory).
THEOREM TypeCorrect == Spec => []TypeOK
<1>1. IInv => TypeOK
  BY DEF IInv
<1> QED BY Invariance, <1>1, PTL

\* "prajna log" shows exactly the most recent decisions, newest first, whatever
\* the size of the ring and however often it wrapped (ai_get_log).
THEOREM LogIsRecent == Spec => []LogIsLastDecisions
<1>1. IInv => LogIsLastDecisions
  BY LogFollows
<1> QED BY Invariance, <1>1, PTL

\* "memory history" shows the last HISTORY_LEN samples in the order they were
\* taken (ai_get_memory_history).
THEOREM SamplesAreRecent == Spec => []MemoryHistoryIsLastSamples
<1>1. IInv => MemoryHistoryIsLastSamples
  BY SamplesFollow
<1> QED BY Invariance, <1>1, PTL

\* The number of free pages "prajna why" gives for an ALERT is the one the
\* decision was made on, although it is kept in a byte: ALERT means fewer pages
\* than PMM_ALERT_THRESHOLD, and that fits.
THEOREM ReasonIsExact == Spec => []AlertReasonExact
<1>1. IInv => AlertReasonExact
  BY ReasonFollows
<1> QED BY Invariance, <1>1, PTL

\* Memory that shrinks by the same amount in every cycle of a window and one more does
\* not reach ALERT unwarned, for every length of the window, every threshold and
\* any horizon of at least one cycle: the last cycle above the threshold warned, or the
\* one before it when the last found exactly the threshold (ai_predict_memory).
THEOREM AlertIsWarned == Spec => []WarnedBeforeAlert
<1>1. IInv /\ Warned => WarnedBeforeAlert
  BY WarnedFollows
<1> QED BY Invariance, AlwaysW, <1>1, PTL
=============================================================================
