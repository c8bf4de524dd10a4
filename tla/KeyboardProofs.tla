--------------------------- MODULE KeyboardProofs ---------------------------
(***************************************************************************)
(* The scancode ring, the shift state and the line buffer for any sizes    *)
(* and any keys: the keyboard path implements the terminal.                *)
(***************************************************************************)
EXTENDS Keyboard, SequenceTheorems, TLAPS

\* What a ring of N slots holds between tail t and head h, oldest first.
Count(N, h, t)     == (h - t + N) % N
Held(N, ring, h, t) == [i \in 1 .. Count(N, h, t) |-> ring[(t + i - 1) % N]]

LEMMA NoWrap ==
  ASSUME NEW N \in Nat \ {0}, NEW k \in Nat, k < N
  PROVE  k % N = k
BY SMT

LEMMA OneWrap ==
  ASSUME NEW N \in Nat \ {0}, NEW k \in Nat, k >= N, k < 2 * N
  PROVE  k % N = k - N
BY SMT

\* The number of strokes in the ring, and the slots they are in, without %.
LEMMA CountIs ==
  ASSUME NEW N \in Nat \ {0}, NEW h \in 0 .. N - 1, NEW t \in 0 .. N - 1
  PROVE  Count(N, h, t) = IF h >= t THEN h - t ELSE h - t + N
<1>1. CASE h >= t
  <2>1. h - t + N \in Nat /\ h - t + N >= N /\ h - t + N < 2 * N
    BY SMT, <1>1
  <2> DEFINE k == h - t + N
  <2> HIDE DEF k
  <2>2. k \in Nat /\ k >= N /\ k < 2 * N
    BY <2>1 DEF k
  <2>3. k % N = k - N
    BY <2>2, OneWrap
  <2> QED BY SMT, <1>1, <2>3 DEF Count, k
<1>2. CASE h < t
  <2>1. h - t + N \in Nat /\ h - t + N < N
    BY SMT, <1>2
  <2> QED BY <1>2, <2>1, NoWrap, SMT DEF Count
<1> QED BY <1>1, <1>2, SMT

LEMMA SlotIs ==
  ASSUME NEW N \in Nat \ {0}, NEW k \in 0 .. 2 * N - 1
  PROVE  k % N = IF k < N THEN k ELSE k - N
<1>1. CASE k < N
  BY <1>1, NoWrap, SMT
<1>2. CASE ~(k < N)
  <2>1. k \in Nat /\ k >= N /\ k < 2 * N
    BY <1>2, SMT
  <2>2. k % N = k - N
    BY <2>1, OneWrap
  <2> QED BY <1>2, <2>2
<1> QED BY <1>1, <1>2

LEMMA FollowingIs ==
  ASSUME NEW N \in Nat \ {0, 1}, NEW i \in 0 .. N - 1
  PROVE  (i + 1) % N = IF i = N - 1 THEN 0 ELSE i + 1
<1>1. i + 1 \in 0 .. 2 * N - 1
  BY SMT
<1>2. (i + 1) % N = IF i + 1 < N THEN i + 1 ELSE i + 1 - N
  <2> DEFINE k == i + 1
  <2> HIDE DEF k
  <2>1. k \in 0 .. 2 * N - 1
    BY <1>1 DEF k
  <2>2. k % N = IF k < N THEN k ELSE k - N
    BY <2>1, SlotIs
  <2> QED BY <2>2 DEF k
<1> QED BY <1>2, SMT

\* A stroke put into the ring is the newest one it holds.
LEMMA Push ==
  ASSUME NEW N \in Nat \ {0, 1}, NEW S, NEW ring \in [0 .. N - 1 -> S],
         NEW h \in 0 .. N - 1, NEW t \in 0 .. N - 1, NEW s \in S,
         (h + 1) % N # t
  PROVE  Held(N, [ring EXCEPT ![h] = s], (h + 1) % N, t) = Append(Held(N, ring, h, t), s)
<1> DEFINE g == (h + 1) % N
           new == [ring EXCEPT ![h] = s]
           c == Count(N, h, t)
<1>1. g = IF h = N - 1 THEN 0 ELSE h + 1
  BY FollowingIs
<1>2. g \in 0 .. N - 1 /\ g # t
  BY <1>1, SMT
<1>3. c = (IF h >= t THEN h - t ELSE h - t + N) /\ c \in Nat
  <2>1. c = IF h >= t THEN h - t ELSE h - t + N
    BY CountIs
  <2> QED BY <2>1, SMT
<1>4. Count(N, g, t) = IF g >= t THEN g - t ELSE g - t + N
  BY <1>2, CountIs
<1>5. Count(N, g, t) = c + 1
  <2> HIDE DEF c, g
  <2> QED BY SMT, <1>1, <1>2, <1>3, <1>4
<1>6. ASSUME NEW i \in 1 .. c + 1
      PROVE  new[(t + i - 1) % N] = IF i = c + 1 THEN s ELSE ring[(t + i - 1) % N]
  <2>1. t + i - 1 \in 0 .. 2 * N - 1
    <3> HIDE DEF c, g
    <3> QED BY SMT, <1>3
  <2> DEFINE k == t + i - 1
  <2>2. k % N = IF k < N THEN k ELSE k - N
    <3> HIDE DEF k
    <3> QED BY <2>1, SlotIs DEF k
  <2>3. k % N \in 0 .. N - 1
    <3> HIDE DEF c, g
    <3> QED BY SMT, <2>1, <2>2
  <2>4. (k % N = h) <=> (i = c + 1)
    <3> DEFINE m == k % N
    <3>1. m = IF t + i - 1 < N THEN t + i - 1 ELSE t + i - 1 - N
      BY <2>2
    <3> HIDE DEF c, g, m
    <3>2. m = h <=> i = c + 1
      BY SMT, <3>1, <1>1, <1>2, <1>3
    <3> QED BY <3>2 DEF m
  <2> QED BY <2>3, <2>4
<1>7. Held(N, new, g, t) = [i \in 1 .. c + 1 |-> new[(t + i - 1) % N]]
  BY <1>5 DEF Held
<1>8. Held(N, ring, h, t) = [i \in 1 .. c |-> ring[(t + i - 1) % N]]
  BY DEF Held
<1>9. Append([i \in 1 .. c |-> ring[(t + i - 1) % N]], s)
        = [i \in 1 .. c + 1 |-> IF i = c + 1 THEN s ELSE ring[(t + i - 1) % N]]
  <2> DEFINE r(i) == ring[(t + i - 1) % N]
  <2> HIDE DEF c, r
  <2>1. c \in Nat
    BY <1>3
  <2>2. Append([i \in 1 .. c |-> r(i)], s) = [i \in 1 .. c + 1 |-> IF i = c + 1 THEN s ELSE r(i)]
    BY <2>1, SMT
  <2> QED BY <2>2 DEF r
<1>10. [i \in 1 .. c + 1 |-> new[(t + i - 1) % N]]
         = [i \in 1 .. c + 1 |-> IF i = c + 1 THEN s ELSE ring[(t + i - 1) % N]]
  <2> HIDE DEF c, new
  <2> QED BY <1>6
<1> QED
  <2> HIDE DEF c, new, g
  <2>1. Held(N, new, g, t) = Append(Held(N, ring, h, t), s)
    BY <1>7, <1>8, <1>9, <1>10
  <2> QED BY <2>1 DEF new, g

\* Taking a stroke out takes the oldest.
LEMMA Pop ==
  ASSUME NEW N \in Nat \ {0, 1}, NEW S, NEW ring \in [0 .. N - 1 -> S],
         NEW h \in 0 .. N - 1, NEW t \in 0 .. N - 1, h # t
  PROVE  /\ Held(N, ring, h, t) \in Seq(S) /\ Held(N, ring, h, t) # <<>>
         /\ Head(Held(N, ring, h, t)) = ring[t]
         /\ Held(N, ring, h, (t + 1) % N) = Tail(Held(N, ring, h, t))
<1> DEFINE u == (t + 1) % N
           c == Count(N, h, t)
           w == Held(N, ring, h, t)
<1>1. u = IF t = N - 1 THEN 0 ELSE t + 1
  BY FollowingIs
<1>2. u \in 0 .. N - 1
  BY <1>1, SMT
<1>3. c = (IF h >= t THEN h - t ELSE h - t + N)
  BY CountIs
<1>4. c \in Nat \ {0}
  <2> HIDE DEF c
  <2> QED BY SMT, <1>3
<1>5. Count(N, h, u) = IF h >= u THEN h - u ELSE h - u + N
  BY <1>2, CountIs
<1>6. Count(N, h, u) = c - 1
  <2> HIDE DEF c, u
  <2> QED BY SMT, <1>1, <1>2, <1>3, <1>5
<1>7. ASSUME NEW i \in 1 .. c
      PROVE  /\ (t + i - 1) % N = IF t + i - 1 < N THEN t + i - 1 ELSE t + i - 1 - N
             /\ (t + i - 1) % N \in 0 .. N - 1
  <2> DEFINE k == t + i - 1
  <2>1. k \in 0 .. 2 * N - 1
    <3> HIDE DEF c, u
    <3> QED BY SMT, <1>3
  <2>2. k % N = IF k < N THEN k ELSE k - N
    <3> HIDE DEF k
    <3> QED BY <2>1, SlotIs
  <2>3. k % N \in 0 .. N - 1
    <3> DEFINE m == k % N
    <3> HIDE DEF k, m
    <3>1. m = IF k < N THEN k ELSE k - N
      BY <2>2 DEF m
    <3>2. m \in 0 .. N - 1
      BY <2>1, <3>1, SMT
    <3> QED BY <3>2 DEF m
  <2> QED BY <2>2, <2>3
<1>8. ASSUME NEW i \in 1 .. c - 1
      PROVE  (u + i - 1) % N = (t + (i + 1) - 1) % N
  <2> HIDE DEF u
  <2> DEFINE k == u + i - 1
  <2>1. k \in 0 .. 2 * N - 1
    <3> HIDE DEF c, u
    <3> QED BY SMT, <1>1, <1>2, <1>3
  <2>2. k % N = IF k < N THEN k ELSE k - N
    <3> HIDE DEF k
    <3> QED BY <2>1, SlotIs
  <2>3. i + 1 \in 1 .. c
    <3> HIDE DEF c
    <3> QED BY <1>4, SMT
  <2>4. (t + (i + 1) - 1) % N
          = IF t + (i + 1) - 1 < N THEN t + (i + 1) - 1 ELSE t + (i + 1) - 1 - N
    <3> HIDE DEF c
    <3> QED BY <2>3, <1>7
  <2> DEFINE a == k % N
             b == (t + (i + 1) - 1) % N
  <2>5. a = IF k < N THEN k ELSE k - N
    <3> HIDE DEF k
    <3> QED BY <2>2
  <2>6. b = IF t + (i + 1) - 1 < N THEN t + (i + 1) - 1 ELSE t + (i + 1) - 1 - N
    BY <2>4
  <2>7. a = b
    <3> HIDE DEF a, b, c, u
    <3> QED BY SMT, <1>1, <1>2, <1>3, <2>5, <2>6
  <2> QED BY <2>7
<1>9. w = [i \in 1 .. c |-> ring[(t + i - 1) % N]]
  BY DEF Held
<1>10. w \in Seq(S) /\ Len(w) = c
  <2> HIDE DEF c, w
  <2> QED BY <1>4, <1>7, <1>9, SMT
<1>11. w # <<>> /\ Head(w) = ring[t]
  <2>1. (t + 1 - 1) % N = t
    BY NoWrap, SMT
  <2>2. 1 \in 1 .. c
    <3> HIDE DEF c
    <3> QED BY <1>4, SMT
  <2>3. w[1] = ring[(t + 1 - 1) % N]
    <3> HIDE DEF c, w
    <3> QED BY <1>9, <2>2
  <2> HIDE DEF c, w
  <2> QED BY <1>4, <1>10, <2>1, <2>3, SMT
<1>12. Held(N, ring, h, u) = [i \in 1 .. c - 1 |-> ring[(u + i - 1) % N]]
  BY <1>6 DEF Held
<1>13. /\ Tail(w) \in Seq(S) /\ Len(Tail(w)) = c - 1
       /\ \A i \in 1 .. c - 1 : Tail(w)[i] = w[i + 1]
  <2> HIDE DEF c, w
  <2> QED BY <1>10, <1>11, HeadTailProperties
<1>14. \A i \in 1 .. c - 1 : w[i + 1] = ring[(u + i - 1) % N]
  <2> SUFFICES ASSUME NEW i \in 1 .. c - 1 PROVE w[i + 1] = ring[(u + i - 1) % N]
    OBVIOUS
  <2>1. i + 1 \in 1 .. c
    <3> HIDE DEF c
    <3> QED BY <1>4, SMT
  <2>2. w[i + 1] = ring[(t + (i + 1) - 1) % N]
    <3> HIDE DEF c, w
    <3> QED BY <1>9, <2>1
  <2> QED BY <1>8, <2>2
<1> DEFINE v == Held(N, ring, h, u)
<1>15. /\ v \in Seq(S) /\ Len(v) = c - 1
       /\ \A i \in 1 .. c - 1 : v[i] = ring[(u + i - 1) % N]
  <2>1. \A i \in 1 .. c - 1 : ring[(u + i - 1) % N] \in S
    <3> SUFFICES ASSUME NEW i \in 1 .. c - 1 PROVE ring[(u + i - 1) % N] \in S
      OBVIOUS
    <3>1. i + 1 \in 1 .. c
      <4> HIDE DEF c
      <4> QED BY <1>4, SMT
    <3> HIDE DEF c, u
    <3> QED BY <3>1, <1>7, <1>8
  <2> HIDE DEF c, u, v
  <2> QED BY <1>4, <1>12, <2>1, SMT DEF v
<1> QED
  <2>1. v = Tail(w)
    <3> HIDE DEF c, w, u, v
    <3> QED BY <1>13, <1>14, <1>15, SeqEqual
  <2> QED BY <1>10, <1>11, <2>1

\* Of N slots all but one can be in use, and an empty ring holds nothing.
LEMMA Limits ==
  ASSUME NEW N \in Nat \ {0, 1}, NEW S, NEW ring \in [0 .. N - 1 -> S],
         NEW h \in 0 .. N - 1, NEW t \in 0 .. N - 1
  PROVE  /\ Len(Held(N, ring, h, t)) \in 0 .. N - 1
         /\ (h + 1) % N = t <=> Len(Held(N, ring, h, t)) = N - 1
         /\ h = t => Held(N, ring, h, t) = <<>>
<1> DEFINE g == (h + 1) % N
           c == Count(N, h, t)
<1>1. g = IF h = N - 1 THEN 0 ELSE h + 1
  BY FollowingIs
<1>2. c = IF h >= t THEN h - t ELSE h - t + N
  BY CountIs
<1>3. c \in 0 .. N - 1 /\ (g = t <=> c = N - 1) /\ (h = t => c = 0)
  <2> HIDE DEF g, c
  <2> QED BY SMT, <1>1, <1>2
<1>4. Held(N, ring, h, t) = [i \in 1 .. c |-> ring[(t + i - 1) % N]]
  BY DEF Held
<1>5. Len(Held(N, ring, h, t)) = c
  <2> HIDE DEF c
  <2> QED BY <1>3, <1>4, SMT
<1>6. c = 0 => Held(N, ring, h, t) = <<>>
  <2> HIDE DEF c
  <2> QED BY <1>4, SMT
<1> QED BY <1>3, <1>5, <1>6

-----------------------------------------------------------------------------
(* Types and the line buffer.                                              *)

\* There is no NUL among the characters typed, so a line ends where buf_pos is.
LineFilled == \A p \in 0 .. buf_pos - 1 : input_buf[p] # NUL

TInv == TypeOK /\ LineFilled

LEMMA Sizes == SCANCODE_BUFFER_SIZE \in Nat \ {0, 1} /\ BUF_SIZE \in Nat \ {0, 1}
BY KeyboardAssumption, Zenon

LEMMA Keys ==
  /\ \A k \in ShiftKeys : k \notin CharKeys
  /\ \A k \in ShiftKeys \cup CharKeys :
       k # "" /\ k # "none" /\ k # "backspace" /\ k # "enter"
BY KeyboardAssumption, Zenon

\* A scancode is of one kind.
LEMMA Kinds ==
  ASSUME NEW sc \in Scancodes
  PROVE  /\ sc \in ShiftCodes => sc \notin CharCodes /\ sc # Backspace /\ sc # Enter /\ sc # NoChar
         /\ sc \in CharCodes => sc # Backspace /\ sc # Enter /\ sc # NoChar
         /\ Backspace # Enter /\ Backspace # NoChar /\ Enter # NoChar
<1>1. sc \in ShiftCodes => sc[2] \in ShiftKeys
  BY DEF ShiftCodes, Press, Release
<1>2. sc \in CharCodes => sc[2] \in CharKeys
  BY DEF CharCodes, Press
<1>3. Backspace[2] = "backspace" /\ Enter[2] = "enter" /\ NoChar[2] = ""
  BY DEF Backspace, Enter, NoChar, Press
<1>4. "backspace" # "enter" /\ "backspace" # "" /\ "enter" # ""
  OBVIOUS
<1> QED BY <1>1, <1>2, <1>3, <1>4, Keys

LEMMA CharIsNoNul ==
  /\ NUL \notin Characters
  /\ \A sc \in CharCodes, shift \in BOOLEAN : Char(sc, shift) \in Characters
<1>1. \A sc \in CharCodes, shift \in BOOLEAN : Char(sc, shift) \in Characters
  BY DEF Characters
<1>2. NUL \notin Characters
  <2> SUFFICES ASSUME NEW sc \in CharCodes, NEW shift \in BOOLEAN, NUL = Char(sc, shift)
               PROVE  FALSE
    BY DEF Characters
  <2>1. sc[2] \in CharKeys
    BY DEF CharCodes, Press
  <2>2. NUL[1] = "none" /\ Char(sc, shift)[1] = sc[2]
    BY DEF NUL, Char
  <2> QED BY <2>1, <2>2, Keys
<1> QED BY <1>1, <1>2

LEMMA InitT == Init => TInv
<1> SUFFICES ASSUME Init PROVE TInv
  OBVIOUS
<1> USE Sizes
<1>1. scancode_buffer \in [Slots -> Scancodes]
  BY DEF Init, Scancodes
<1>2. scancode_head \in Slots /\ scancode_tail \in Slots
  BY SMT DEF Init, Slots
<1>3. input_buf \in [Positions -> Characters \cup {NUL}] /\ buf_pos \in Positions
  BY SMT DEF Init, Positions
<1>4. command \in Seq(Characters)
  BY DEF Init
<1>5. LineFilled
  BY SMT DEF Init, LineFilled
<1> QED BY <1>1, <1>2, <1>3, <1>4, <1>5 DEF TInv, TypeOK, Init

LEMMA FollowingInSlots ==
  ASSUME NEW i \in Slots
  PROVE  Following(i) \in Slots
<1> DEFINE j == (i + 1) % SCANCODE_BUFFER_SIZE
<1>1. j = IF i = SCANCODE_BUFFER_SIZE - 1 THEN 0 ELSE i + 1
  BY FollowingIs, Sizes DEF Slots
<1> HIDE DEF j
<1>2. j \in Slots
  BY <1>1, Sizes, SMT DEF Slots
<1> QED BY <1>2 DEF j, Following

\* The keyboard interrupt leaves the types and the line alone.
LEMMA StrikeT ==
  ASSUME TInv, KeyboardHandler
  PROVE  TInv'
<1>1. PICK sc \in Scancodes : Strike(sc) /\ scancode_push(sc)
  BY DEF KeyboardHandler
<1>2. UNCHANGED <<lineVars, handling>>
  BY DEF KeyboardHandler
<1>3. down' \subseteq ShiftKeys /\ lost' \in BOOLEAN
  <2>1. lost' \in BOOLEAN
    BY <1>1 DEF Strike, RingFull, TInv, TypeOK
  <2>2. CASE sc \in ShiftCodes
    <3>1. PICK k \in ShiftKeys : sc = Press(k) \/ sc = Release(k)
      BY <2>2 DEF ShiftCodes
    <3> QED BY <1>1, <3>1, <2>1, SMT DEF Strike, TInv, TypeOK, Press, Release
  <2>3. CASE sc \notin ShiftCodes
    BY <1>1, <2>1, <2>3 DEF Strike, TInv, TypeOK
  <2> QED BY <2>2, <2>3
<1>4. /\ scancode_buffer' \in [Slots -> Scancodes]
      /\ scancode_head' \in Slots /\ scancode_tail' \in Slots
  <2>1. CASE UNCHANGED ringVars
    BY <2>1 DEF ringVars, TInv, TypeOK
  <2>2. CASE ~RingFull
    BY <1>1, <2>2, FollowingInSlots DEF scancode_push, TInv, TypeOK
  <2> QED BY <1>1, <2>1, <2>2 DEF scancode_push
<1> QED BY <1>2, <1>3, <1>4 DEF TInv, TypeOK, LineFilled, lineVars

\* A line submitted is what the buffer held up to its first NUL.
LEMMA Submitted ==
  ASSUME TInv, NEW sc, Submit(sc)
  PROVE  /\ command' = [i \in 1 .. buf_pos |-> input_buf[i - 1]]
         /\ command' \in Seq(Characters)
<1> USE Sizes
<1>1. /\ buf_pos \in 0 .. BUF_SIZE - 1
      /\ input_buf \in [Positions -> Characters \cup {NUL}]
      /\ \A p \in 0 .. buf_pos - 1 : input_buf[p] # NUL
  BY DEF TInv, TypeOK, LineFilled, Positions
<1>2. input_buf' = [input_buf EXCEPT ![buf_pos] = NUL] /\ IsString(command', input_buf')
  BY DEF Submit, Terminated
<1>3. PICK n \in Positions :
        /\ input_buf'[n] = NUL
        /\ \A p \in 0 .. n - 1 : input_buf'[p] # NUL
        /\ command' = [i \in 1 .. n |-> input_buf'[i - 1]]
  BY <1>2 DEF IsString
<1>4. n = buf_pos
  <2>1. n \in 0 .. BUF_SIZE - 1
    BY DEF Positions
  <2>2. CASE n < buf_pos
    <3>1. n \in 0 .. buf_pos - 1 /\ input_buf'[n] = input_buf[n]
      BY <1>1, <1>2, <2>1, <2>2, SMT DEF Positions
    <3> QED BY <1>1, <1>3, <3>1
  <2>3. CASE n > buf_pos
    <3>1. buf_pos \in 0 .. n - 1 /\ input_buf'[buf_pos] = NUL
      BY <1>1, <1>2, <2>1, <2>3, SMT DEF Positions
    <3> QED BY <1>3, <3>1
  <2> QED BY <1>1, <2>1, <2>2, <2>3, SMT
<1>5. \A i \in 1 .. buf_pos : input_buf'[i - 1] = input_buf[i - 1] /\ input_buf[i - 1] \in Characters
  <2> SUFFICES ASSUME NEW i \in 1 .. buf_pos
               PROVE  input_buf'[i - 1] = input_buf[i - 1] /\ input_buf[i - 1] \in Characters
    OBVIOUS
  <2>1. i - 1 \in 0 .. buf_pos - 1 /\ i - 1 \in Positions /\ i - 1 # buf_pos
    BY <1>1, SMT DEF Positions
  <2> QED BY <1>1, <1>2, <2>1
<1>6. command' = [i \in 1 .. buf_pos |-> input_buf[i - 1]]
  BY <1>3, <1>4, <1>5
<1>7. [i \in 1 .. buf_pos |-> input_buf[i - 1]] \in Seq(Characters)
  BY <1>1, <1>5, SMT
<1> QED BY <1>6, <1>7

\* So does every kind of scancode that is handled.
LEMMA HandleT ==
  ASSUME TInv, HandleScancode
  PROVE  TInv'
<1> USE Sizes
<1> DEFINE sc == scancode_buffer[scancode_tail]
<1>1. sc \in Scancodes /\ process_scancode(sc) /\ scancode_tail' \in Slots
  BY FollowingInSlots DEF HandleScancode, TInv, TypeOK
<1>2. UNCHANGED <<scancode_buffer, scancode_head, handling, userVars>>
  BY DEF HandleScancode
<1> HIDE DEF sc
<1>3. /\ buf_pos \in 0 .. BUF_SIZE - 1
      /\ input_buf \in [Positions -> Characters \cup {NUL}]
      /\ \A p \in 0 .. buf_pos - 1 : input_buf[p] # NUL
      /\ shift_held \in BOOLEAN /\ command \in Seq(Characters)
  BY DEF TInv, TypeOK, LineFilled, Positions
<1> DEFINE Goal == /\ buf_pos' \in Positions
                   /\ input_buf' \in [Positions -> Characters \cup {NUL}]
                   /\ \A p \in 0 .. buf_pos' - 1 : input_buf'[p] # NUL
                   /\ shift_held' \in BOOLEAN /\ command' \in Seq(Characters)
<1>4. ASSUME ShiftChanges(sc) PROVE Goal
  BY <1>3, <1>4 DEF ShiftChanges, Positions
<1>5. ASSUME NothingHappens(sc) PROVE Goal
  BY <1>3, <1>5 DEF NothingHappens, lineVars, Positions
<1>6. ASSUME EraseChar(sc) PROVE Goal
  BY <1>3, <1>6, SMT DEF EraseChar, Positions
<1>7. ASSUME AddChar(sc) PROVE Goal
  <2>1. CASE ~Room
    BY <1>3, <1>7, <2>1 DEF AddChar, Positions
  <2>2. CASE Room
    <3>1. Char(sc, shift_held) \in Characters /\ Char(sc, shift_held) # NUL
      BY <1>3, <1>7, CharIsNoNul DEF AddChar
    <3> QED BY <1>3, <1>7, <2>2, <3>1, SMT DEF AddChar, Room, Positions
  <2> QED BY <2>1, <2>2
<1>8. ASSUME Submit(sc) PROVE Goal
  <2>1. command' \in Seq(Characters)
    BY <1>8, Submitted
  <2> QED BY <1>3, <1>8, <2>1, SMT DEF Submit, Terminated, Positions
<1>9. Goal
  BY <1>1, <1>4, <1>5, <1>6, <1>7, <1>8 DEF process_scancode
<1> QED BY <1>1, <1>2, <1>9 DEF TInv, TypeOK, LineFilled, userVars

LEMMA NextT == TInv /\ [Next]_vars => TInv'
<1> SUFFICES ASSUME TInv, [Next]_vars PROVE TInv'
  OBVIOUS
<1>1. CASE KeyboardHandler
  BY <1>1, StrikeT
<1>2. CASE TimerInterrupt
  BY <1>2 DEF TimerInterrupt, TInv, TypeOK, LineFilled, ringVars, lineVars, userVars
<1>3. CASE HandleScancode
  BY <1>3, HandleT
<1>4. CASE LoopEnds
  BY <1>4 DEF LoopEnds, TInv, TypeOK, LineFilled, ringVars, lineVars, userVars
<1>5. CASE UNCHANGED vars
  BY <1>5 DEF vars, TInv, TypeOK, LineFilled, ringVars, lineVars, userVars
<1> QED BY <1>1, <1>2, <1>3, <1>4, <1>5 DEF Next

LEMMA AlwaysT == Spec => []TInv
BY InitT, NextT, PTL DEF Spec

\* For every ring and line size and any keys, the indices stay within the ring and
\* the line buffer and the shell is given characters only.
THEOREM TypeCorrect == Spec => []TypeOK
<1>1. TInv => TypeOK
  BY DEF TInv
<1> QED BY <1>1, AlwaysT, PTL

-----------------------------------------------------------------------------
(* The strokes in the ring.                                                *)

Ring == Held(SCANCODE_BUFFER_SIZE, scancode_buffer, scancode_head, scancode_tail)

(* Limits, Push and Pop for this ring.                                     *)

LEMMA RingLimits ==
  LET N == SCANCODE_BUFFER_SIZE IN
  \A ring \in [0 .. N - 1 -> Scancodes] : \A h \in 0 .. N - 1 : \A t \in 0 .. N - 1 :
    /\ Len(Held(N, ring, h, t)) \in 0 .. N - 1
    /\ (h + 1) % N = t <=> Len(Held(N, ring, h, t)) = N - 1
    /\ h = t => Held(N, ring, h, t) = <<>>
<1> DEFINE N == SCANCODE_BUFFER_SIZE
<1>1. N \in Nat \ {0, 1}
  BY Sizes
<1> HIDE DEF N
<1>2. \A S :
      \A ring \in [0 .. N - 1 -> S] : \A h \in 0 .. N - 1 : \A t \in 0 .. N - 1 :
        /\ Len(Held(N, ring, h, t)) \in 0 .. N - 1
        /\ (h + 1) % N = t <=> Len(Held(N, ring, h, t)) = N - 1
        /\ h = t => Held(N, ring, h, t) = <<>>
  BY <1>1, Limits, Zenon
<1>3. \A ring \in [0 .. N - 1 -> Scancodes] : \A h \in 0 .. N - 1 : \A t \in 0 .. N - 1 :
        /\ Len(Held(N, ring, h, t)) \in 0 .. N - 1
        /\ (h + 1) % N = t <=> Len(Held(N, ring, h, t)) = N - 1
        /\ h = t => Held(N, ring, h, t) = <<>>
  BY <1>2, ZenonT(60)
<1> QED BY <1>3, Zenon DEF N

LEMMA RingPop ==
  LET N == SCANCODE_BUFFER_SIZE IN
  \A ring \in [0 .. N - 1 -> Scancodes] : \A h \in 0 .. N - 1 : \A t \in 0 .. N - 1 :
    h # t => /\ Held(N, ring, h, t) \in Seq(Scancodes) /\ Held(N, ring, h, t) # <<>>
             /\ Head(Held(N, ring, h, t)) = ring[t]
             /\ Held(N, ring, h, (t + 1) % N) = Tail(Held(N, ring, h, t))
<1> DEFINE N == SCANCODE_BUFFER_SIZE
<1>1. N \in Nat \ {0, 1}
  BY Sizes
<1> HIDE DEF N
<1>2. \A S :
      \A ring \in [0 .. N - 1 -> S] : \A h \in 0 .. N - 1 : \A t \in 0 .. N - 1 :
        h # t => /\ Held(N, ring, h, t) \in Seq(S) /\ Held(N, ring, h, t) # <<>>
                 /\ Head(Held(N, ring, h, t)) = ring[t]
                 /\ Held(N, ring, h, (t + 1) % N) = Tail(Held(N, ring, h, t))
  BY <1>1, Pop, Zenon
<1>3. \A ring \in [0 .. N - 1 -> Scancodes] : \A h \in 0 .. N - 1 : \A t \in 0 .. N - 1 :
        h # t => /\ Held(N, ring, h, t) \in Seq(Scancodes) /\ Held(N, ring, h, t) # <<>>
                 /\ Head(Held(N, ring, h, t)) = ring[t]
                 /\ Held(N, ring, h, (t + 1) % N) = Tail(Held(N, ring, h, t))
  BY <1>2, ZenonT(60)
<1> QED BY <1>3, Zenon DEF N

LEMMA RingPush ==
  LET N == SCANCODE_BUFFER_SIZE IN
  \A ring \in [0 .. N - 1 -> Scancodes] : \A h \in 0 .. N - 1 : \A t \in 0 .. N - 1 :
    \A s \in Scancodes : (h + 1) % N # t =>
      Held(N, [ring EXCEPT ![h] = s], (h + 1) % N, t) = Append(Held(N, ring, h, t), s)
<1> DEFINE N == SCANCODE_BUFFER_SIZE
<1>1. N \in Nat \ {0, 1}
  BY Sizes
<1> HIDE DEF N
<1>2. \A S :
      \A ring \in [0 .. N - 1 -> S] : \A h \in 0 .. N - 1 : \A t \in 0 .. N - 1 :
        \A s \in S : (h + 1) % N # t =>
          Held(N, [ring EXCEPT ![h] = s], (h + 1) % N, t) = Append(Held(N, ring, h, t), s)
  BY <1>1, Push, Zenon
<1>3. \A ring \in [0 .. N - 1 -> Scancodes] : \A h \in 0 .. N - 1 : \A t \in 0 .. N - 1 :
        \A s \in Scancodes : (h + 1) % N # t =>
          Held(N, [ring EXCEPT ![h] = s], (h + 1) % N, t) = Append(Held(N, ring, h, t), s)
  BY <1>2, ZenonT(60)
<1> QED BY <1>3, Zenon DEF N

LEMMA RingShape ==
  ASSUME TInv
  PROVE  /\ scancode_buffer \in [0 .. SCANCODE_BUFFER_SIZE - 1 -> Scancodes]
         /\ scancode_head \in 0 .. SCANCODE_BUFFER_SIZE - 1
         /\ scancode_tail \in 0 .. SCANCODE_BUFFER_SIZE - 1
BY DEF TInv, TypeOK, Slots

LEMMA RingIsSeq ==
  ASSUME TInv
  PROVE  /\ Ring \in Seq(Scancodes)
         /\ Len(Ring) \in 0 .. SCANCODE_BUFFER_SIZE - 1
         /\ RingFull <=> Len(Ring) = SCANCODE_BUFFER_SIZE - 1
         /\ ~Pending <=> Ring = <<>>
<1> USE RingShape
<1>1. /\ Len(Ring) \in 0 .. SCANCODE_BUFFER_SIZE - 1
      /\ (scancode_head + 1) % SCANCODE_BUFFER_SIZE = scancode_tail
           <=> Len(Ring) = SCANCODE_BUFFER_SIZE - 1
      /\ scancode_head = scancode_tail => Ring = <<>>
  BY RingLimits, Zenon DEF Ring
<1>2. scancode_head # scancode_tail => Ring \in Seq(Scancodes) /\ Ring # <<>>
  BY RingPop, Zenon DEF Ring
<1>3. <<>> \in Seq(Scancodes)
  BY SMT
<1> QED BY <1>1, <1>2, <1>3, Zenon DEF Pending, RingFull, Following

LEMMA RingStrike ==
  ASSUME TInv, NEW sc \in Scancodes, scancode_push(sc)
  PROVE  Ring' = IF RingFull THEN Ring ELSE Append(Ring, sc)
<1> USE Sizes, RingShape
<1>1. CASE RingFull
  BY <1>1 DEF scancode_push, ringVars, Ring
<1>2. CASE ~RingFull
  <2>1. Held(SCANCODE_BUFFER_SIZE, [scancode_buffer EXCEPT ![scancode_head] = sc],
             (scancode_head + 1) % SCANCODE_BUFFER_SIZE, scancode_tail) = Append(Ring, sc)
    BY <1>2, RingPush, Zenon DEF RingFull, Following, Ring
  <2>2. /\ scancode_buffer' = [scancode_buffer EXCEPT ![scancode_head] = sc]
        /\ scancode_head' = (scancode_head + 1) % SCANCODE_BUFFER_SIZE
        /\ scancode_tail' = scancode_tail
    BY <1>2 DEF scancode_push, Following
  <2> QED BY <1>2, <2>1, <2>2 DEF Ring
<1> QED BY <1>1, <1>2

LEMMA RingTake ==
  ASSUME TInv, HandleScancode
  PROVE  /\ Ring # <<>> /\ Head(Ring) = scancode_buffer[scancode_tail]
         /\ Ring' = Tail(Ring)
<1> USE Sizes, RingShape
<1>1. scancode_head # scancode_tail
  BY DEF HandleScancode, Pending
<1>2. /\ Ring # <<>> /\ Head(Ring) = scancode_buffer[scancode_tail]
      /\ Held(SCANCODE_BUFFER_SIZE, scancode_buffer, scancode_head,
              (scancode_tail + 1) % SCANCODE_BUFFER_SIZE) = Tail(Ring)
  BY <1>1, RingPop, Zenon DEF Ring
<1>3. /\ scancode_buffer' = scancode_buffer /\ scancode_head' = scancode_head
      /\ scancode_tail' = (scancode_tail + 1) % SCANCODE_BUFFER_SIZE
  BY DEF HandleScancode, Following
<1> QED BY <1>2, <1>3 DEF Ring

-----------------------------------------------------------------------------
(* Shift.                                                                  *)

\* No stroke of a shift key follows the i-th one, and what the last of them in the
\* queue w leaves shift at, which is now s.
Quiet(w, i) == \A j \in i + 1 .. Len(w) : w[j] \notin ShiftCodes

HeldAtEnd(w, s) ==
  \/ Quiet(w, 0) /\ s
  \/ \E i \in 1 .. Len(w) : w[i] \in ShiftCodes /\ w[i][1] = "press" /\ Quiet(w, i)

ShiftInv == ~lost /\ HeldAtEnd(Ring, shift_held) => down # {}

LEMMA EndAppend ==
  ASSUME NEW w \in Seq(Scancodes), NEW sc \in Scancodes, NEW s \in BOOLEAN,
         HeldAtEnd(Append(w, sc), s)
  PROVE  IF sc \in ShiftCodes THEN sc[1] = "press" ELSE HeldAtEnd(w, s)
<1> DEFINE v == Append(w, sc)
           n == Len(w)
<1>1. n \in Nat /\ Len(v) = n + 1 /\ v[n + 1] = sc /\ \A i \in 1 .. n : v[i] = w[i]
  BY SMT
<1> HIDE DEF v, n
<1>2. HeldAtEnd(v, s)
  BY DEF v
<1>3. CASE Quiet(v, 0) /\ s
  <2>1. n + 1 \in 0 + 1 .. Len(v)
    BY <1>1, SMT
  <2>2. sc \notin ShiftCodes
    BY <1>1, <1>3, <2>1 DEF Quiet
  <2>3. Quiet(w, 0)
    BY <1>1, <1>3, SMT DEF Quiet, n
  <2> QED BY <1>3, <2>2, <2>3 DEF HeldAtEnd
<1>4. ASSUME NEW i \in 1 .. Len(v), v[i] \in ShiftCodes, v[i][1] = "press", Quiet(v, i)
      PROVE  IF sc \in ShiftCodes THEN sc[1] = "press" ELSE HeldAtEnd(w, s)
  <2>1. CASE i = n + 1
    BY <1>1, <1>4, <2>1
  <2>2. CASE i # n + 1
    <3>1. i \in 1 .. n /\ n + 1 \in i + 1 .. Len(v)
      BY <1>1, <2>2, SMT
    <3>2. sc \notin ShiftCodes
      BY <1>1, <1>4, <3>1 DEF Quiet
    <3>3. Quiet(w, i)
      BY <1>1, <1>4, <3>1, SMT DEF Quiet, n
    <3> QED BY <1>1, <1>4, <3>1, <3>2, <3>3 DEF HeldAtEnd, n
  <2> QED BY <2>1, <2>2
<1> QED BY <1>2, <1>3, <1>4 DEF HeldAtEnd

LEMMA EndTail ==
  ASSUME NEW w \in Seq(Scancodes), w # <<>>, NEW s \in BOOLEAN,
         HeldAtEnd(Tail(w), ShiftAfter(Head(w), s))
  PROVE  HeldAtEnd(w, s)
<1> DEFINE v == Tail(w)
           n == Len(w)
<1>1. /\ n \in Nat \ {0} /\ Len(v) = n - 1 /\ Head(w) = w[1]
      /\ \A i \in 1 .. n - 1 : v[i] = w[i + 1]
  <2>1. n \in Nat \ {0}
    BY EmptySeq
  <2>2. Len(v) = n - 1 /\ \A i \in 1 .. n - 1 : v[i] = w[i + 1]
    BY HeadTailProperties
  <2> QED BY <2>1, <2>2
<1> HIDE DEF v, n
<1>2. HeldAtEnd(v, ShiftAfter(w[1], s))
  BY <1>1 DEF v
<1>3. ASSUME NEW i \in 0 .. n - 1, Quiet(v, i) PROVE Quiet(w, i + 1)
  <2> SUFFICES ASSUME NEW j \in i + 1 + 1 .. Len(w) PROVE w[j] \notin ShiftCodes
    BY DEF Quiet
  <2>1. j - 1 \in i + 1 .. n - 1 /\ j - 1 \in 1 .. n - 1 /\ (j - 1) + 1 = j
    BY <1>1, SMT DEF n
  <2> QED BY <1>1, <1>3, <2>1 DEF Quiet
<1>4. CASE Quiet(v, 0) /\ ShiftAfter(w[1], s)
  <2>1. Quiet(w, 1)
    BY <1>1, <1>3, <1>4, SMT
  <2>2. 1 \in 1 .. Len(w)
    BY <1>1, SMT DEF n
  <2>3. CASE w[1] \in ShiftCodes
    BY <1>4, <2>1, <2>2, <2>3 DEF HeldAtEnd, ShiftAfter
  <2>4. CASE w[1] \notin ShiftCodes
    <3>1. \A j \in 0 + 1 .. Len(w) : j = 1 \/ j \in 1 + 1 .. Len(w)
      BY <1>1, SMT DEF n
    <3>2. Quiet(w, 0)
      BY <2>1, <2>4, <3>1 DEF Quiet
    <3> QED BY <1>4, <2>4, <3>2 DEF HeldAtEnd, ShiftAfter
  <2> QED BY <2>3, <2>4
<1>5. ASSUME NEW i \in 1 .. Len(v), v[i] \in ShiftCodes, v[i][1] = "press", Quiet(v, i)
      PROVE  HeldAtEnd(w, s)
  <2>1. i \in 0 .. n - 1 /\ i \in 1 .. n - 1 /\ i + 1 \in 1 .. Len(w)
    BY <1>1, SMT DEF n
  <2>2. Quiet(w, i + 1) /\ w[i + 1] \in ShiftCodes /\ w[i + 1][1] = "press"
    BY <1>1, <1>3, <1>5, <2>1
  <2> QED BY <2>1, <2>2 DEF HeldAtEnd
<1> QED BY <1>2, <1>4, <1>5 DEF HeldAtEnd

\* A scancode that is handled leaves shift where the last stroke of a shift key does.
LEMMA HandledShift ==
  ASSUME TInv, NEW sc \in Scancodes, process_scancode(sc)
  PROVE  shift_held' = ShiftAfter(sc, shift_held)
<1>1. CASE ShiftChanges(sc)
  BY <1>1 DEF ShiftChanges, ShiftAfter
<1>2. CASE ~ShiftChanges(sc)
  <2>1. sc \notin ShiftCodes /\ shift_held' = shift_held
    BY <1>2, Kinds DEF process_scancode, NothingHappens, EraseChar, AddChar, Submit, lineVars
  <2> QED BY <2>1 DEF ShiftAfter
<1> QED BY <1>1, <1>2

LEMMA ShiftInit == Init => ShiftInv
<1> SUFFICES ASSUME Init PROVE ShiftInv
  OBVIOUS
<1>1. Ring = <<>>
  BY InitT, RingIsSeq DEF Init, Pending
<1>2. ~HeldAtEnd(Ring, shift_held)
  BY <1>1, SMT DEF HeldAtEnd, Init
<1> QED BY <1>2 DEF ShiftInv

LEMMA ShiftNext == TInv /\ ShiftInv /\ [Next]_vars => ShiftInv'
<1> SUFFICES ASSUME TInv, ShiftInv, [Next]_vars PROVE ShiftInv'
  OBVIOUS
<1>0. Ring \in Seq(Scancodes) /\ shift_held \in BOOLEAN
  BY RingIsSeq DEF TInv, TypeOK
<1>1. CASE KeyboardHandler
  <2>1. PICK sc \in Scancodes : Strike(sc) /\ scancode_push(sc)
    BY <1>1 DEF KeyboardHandler
  <2>2. shift_held' = shift_held
    BY <1>1 DEF KeyboardHandler, lineVars
  <2>3. CASE RingFull
    <3>1. Ring' = Ring
      BY <2>1, <2>3, RingStrike
    <3> QED BY <2>1, <2>2, <2>3, <3>1 DEF Strike, ShiftInv
  <2>4. CASE ~RingFull
    <3>1. Ring' = Append(Ring, sc)
      BY <2>1, <2>4, RingStrike
    <3> SUFFICES ASSUME ~lost', HeldAtEnd(Append(Ring, sc), shift_held)
                 PROVE  down' # {}
      BY <2>2, <3>1 DEF ShiftInv
    <3>2. IF sc \in ShiftCodes THEN sc[1] = "press" ELSE HeldAtEnd(Ring, shift_held)
      BY <1>0, EndAppend
    <3>3. CASE sc \in ShiftCodes
      BY <2>1, <3>2, <3>3 DEF Strike
    <3>4. CASE sc \notin ShiftCodes
      BY <2>1, <3>2, <3>4 DEF Strike, ShiftInv
    <3> QED BY <3>3, <3>4
  <2> QED BY <2>3, <2>4
<1>2. CASE TimerInterrupt
  BY <1>2 DEF TimerInterrupt, ShiftInv, Ring, ringVars, lineVars, userVars
<1>3. CASE HandleScancode
  <2> DEFINE sc == scancode_buffer[scancode_tail]
  <2>1. Ring # <<>> /\ Head(Ring) = sc /\ Ring' = Tail(Ring)
    BY <1>3, RingTake
  <2>2. process_scancode(sc) /\ UNCHANGED <<down, lost>> /\ sc \in Scancodes
    BY <1>3 DEF HandleScancode, userVars, TInv, TypeOK
  <2> HIDE DEF sc
  <2>3. shift_held' = ShiftAfter(Head(Ring), shift_held)
    BY <2>1, <2>2, HandledShift
  <2>4. HeldAtEnd(Tail(Ring), ShiftAfter(Head(Ring), shift_held)) => HeldAtEnd(Ring, shift_held)
    BY <1>0, <2>1, EndTail
  <2> QED BY <2>1, <2>2, <2>3, <2>4 DEF ShiftInv
<1>4. CASE LoopEnds
  BY <1>4 DEF LoopEnds, ShiftInv, Ring, ringVars, lineVars, userVars
<1>5. CASE UNCHANGED vars
  BY <1>5 DEF vars, ShiftInv, Ring, ringVars, lineVars, userVars
<1> QED BY <1>1, <1>2, <1>3, <1>4, <1>5 DEF Next

\* For every ring size and any number of shift keys, once the ring is empty shift is
\* held only while a shift key is down, unless a stroke of one was dropped.
THEOREM ShiftFollowsKeys == Spec => []ShiftNotStuck
<1>1. TInv /\ ShiftInv => ShiftNotStuck
  <2> SUFFICES ASSUME TInv, ShiftInv, ~Pending, ~lost, shift_held PROVE down # {}
    BY DEF ShiftNotStuck
  <2>1. Ring = <<>>
    BY RingIsSeq
  <2>2. HeldAtEnd(Ring, shift_held)
    BY <2>1, SMT DEF HeldAtEnd, Quiet
  <2> QED BY <2>2 DEF ShiftInv
<1>2. Spec => [](TInv /\ ShiftInv)
  BY InitT, NextT, ShiftInit, ShiftNext, PTL DEF Spec
<1> QED BY <1>1, <1>2, PTL

-----------------------------------------------------------------------------
(* The terminal.                                                           *)

\* The first n characters of the buffer.
Text(buf, n) == [i \in 1 .. n |-> buf[i - 1]]
Line == Text(input_buf, buf_pos)

LEMMA TextAdd ==
  ASSUME NEW M \in Nat, NEW buf \in [0 .. M - 1 -> Characters \cup {NUL}],
         NEW n \in 0 .. M - 1, NEW c \in Characters,
         \A i \in 0 .. n - 1 : buf[i] \in Characters
  PROVE  Text([buf EXCEPT ![n] = c], n + 1) = Text(buf, n) \o <<c>>
<1> DEFINE w == Text(buf, n)
           v == Text([buf EXCEPT ![n] = c], n + 1)
<1>1. w \in Seq(Characters) /\ Len(w) = n /\ \A i \in 1 .. n : w[i] = buf[i - 1]
  BY SMT DEF Text
<1>2. v \in Seq(Characters) /\ Len(v) = n + 1
      /\ v[n + 1] = c /\ \A i \in 1 .. n : v[i] = buf[i - 1]
  BY SMT DEF Text
<1> HIDE DEF w, v
<1>3. /\ w \o <<c>> \in Seq(Characters) /\ Len(w \o <<c>>) = n + 1
      /\ (w \o <<c>>)[n + 1] = c /\ \A i \in 1 .. n : (w \o <<c>>)[i] = w[i]
  BY <1>1, SMT
<1>4. \A i \in 1 .. n + 1 : v[i] = (w \o <<c>>)[i]
  BY <1>1, <1>2, <1>3, SMT
<1>5. v = w \o <<c>>
  BY <1>2, <1>3, <1>4, SeqEqual
<1> QED BY <1>5 DEF v, w

LEMMA TextErase ==
  ASSUME NEW M \in Nat, NEW C, NEW buf \in [0 .. M - 1 -> C], NEW n \in 1 .. M, NEW c
  PROVE  /\ Text([buf EXCEPT ![n - 1] = c], n - 1) = SubSeq(Text(buf, n), 1, n - 1)
         /\ Text(buf, n) # <<>>
<1>1. Text([buf EXCEPT ![n - 1] = c], n - 1) = [i \in 1 .. n - 1 |-> buf[i - 1]]
  BY SMT DEF Text
<1>2. SubSeq(Text(buf, n), 1, n - 1) = [i \in 1 .. n - 1 |-> buf[i - 1]]
  BY SMT DEF Text
<1>3. Text(buf, n) # <<>>
  BY SMT DEF Text
<1> QED BY <1>1, <1>2, <1>3

\* What the line becomes when sc is handled, and what the shell has been given.
Edit(sc) ==
  IF sc = Backspace THEN IF Line = <<>> THEN <<>> ELSE SubSeq(Line, 1, Len(Line) - 1)
  ELSE IF sc = Enter THEN <<>>
  ELSE IF Len(Line) < BUF_SIZE - 1 THEN Line \o Typed(sc, shift_held)
  ELSE Line

LEMMA LineShape ==
  ASSUME TInv
  PROVE  /\ buf_pos \in 0 .. BUF_SIZE - 1
         /\ input_buf \in [0 .. BUF_SIZE - 1 -> Characters \cup {NUL}]
         /\ \A i \in 0 .. buf_pos - 1 : input_buf[i] \in Characters
         /\ Line \in Seq(Characters) /\ Len(Line) = buf_pos
         /\ Line \o <<>> = Line
<1> USE Sizes
<1>1. /\ buf_pos \in 0 .. BUF_SIZE - 1
      /\ input_buf \in [0 .. BUF_SIZE - 1 -> Characters \cup {NUL}]
      /\ \A i \in 0 .. buf_pos - 1 : input_buf[i] # NUL
  BY DEF TInv, TypeOK, LineFilled, Positions
<1>2. \A i \in 0 .. buf_pos - 1 : input_buf[i] \in Characters
  <2> SUFFICES ASSUME NEW i \in 0 .. buf_pos - 1 PROVE input_buf[i] \in Characters
    OBVIOUS
  <2>1. i \in 0 .. BUF_SIZE - 1
    BY <1>1, SMT
  <2> QED BY <1>1, <2>1
<1>3. Line \in Seq(Characters) /\ Len(Line) = buf_pos
  BY <1>1, <1>2, SMT DEF Line, Text
<1>4. Line \o <<>> = Line
  BY <1>3, ConcatEmptySeq
<1> QED BY <1>1, <1>2, <1>3, <1>4

LEMMA HandledLine ==
  ASSUME TInv, NEW sc \in Scancodes, process_scancode(sc)
  PROVE  /\ Line' = Edit(sc)
         /\ command' = IF sc = Enter THEN Line ELSE command
<1> USE Sizes, LineShape
<1> DEFINE Goal == /\ Line' = Edit(sc)
                   /\ command' = IF sc = Enter THEN Line ELSE command
<1>1. shift_held \in BOOLEAN
  BY DEF TInv, TypeOK
<1>2. ASSUME UNCHANGED <<input_buf, buf_pos>> PROVE Line' = Line
  BY <1>2 DEF Line
<1>3. ASSUME ShiftChanges(sc) \/ (NothingHappens(sc) /\ sc = NoChar)
      PROVE  Goal
  <2>1. UNCHANGED <<input_buf, buf_pos, command>>
    BY <1>3 DEF ShiftChanges, NothingHappens, lineVars
  <2>2. sc # Backspace /\ sc # Enter /\ sc \notin CharCodes
    BY <1>3, Kinds DEF ShiftChanges
  <2>3. Edit(sc) = Line
    BY <2>2, Zenon DEF Edit, Typed
  <2> QED BY <1>2, <2>1, <2>2, <2>3
<1>4. ASSUME NothingHappens(sc), sc = Backspace PROVE Goal
  <2>1. UNCHANGED <<input_buf, buf_pos, command>> /\ buf_pos = 0 /\ sc # Enter
    BY <1>4, Kinds DEF NothingHappens, lineVars
  <2>2. Line = <<>>
    BY <2>1, EmptySeq
  <2>3. Edit(sc) = <<>>
    BY <1>4, <2>2 DEF Edit
  <2> QED BY <1>2, <2>1, <2>2, <2>3
<1>5. ASSUME EraseChar(sc) PROVE Goal
  <2>1. /\ sc = Backspace /\ buf_pos \in 1 .. BUF_SIZE /\ buf_pos' = buf_pos - 1
        /\ input_buf' = [input_buf EXCEPT ![buf_pos - 1] = NUL]
        /\ command' = command /\ sc # Enter
    BY <1>5, Kinds, SMT DEF EraseChar
  <2>2. /\ Text([input_buf EXCEPT ![buf_pos - 1] = NUL], buf_pos - 1)
             = SubSeq(Line, 1, buf_pos - 1)
        /\ Line # <<>>
    BY <2>1, TextErase, ZenonT(60) DEF Line
  <2>3. Edit(sc) = SubSeq(Line, 1, buf_pos - 1)
    BY <2>1, <2>2 DEF Edit
  <2> QED BY <2>1, <2>2, <2>3 DEF Line
<1>6. ASSUME AddChar(sc) PROVE Goal
  <2>1. sc # Backspace /\ sc # Enter /\ command' = command /\ sc \in CharCodes
    BY <1>6, Kinds DEF AddChar
  <2>2. CASE ~Room
    <3>1. UNCHANGED <<input_buf, buf_pos>> /\ ~(Len(Line) < BUF_SIZE - 1)
      BY <1>6, <2>2 DEF AddChar, Room
    <3>2. Edit(sc) = Line
      BY <2>1, <3>1, Zenon DEF Edit
    <3> QED BY <1>2, <2>1, <3>1, <3>2
  <2>3. CASE Room
    <3> DEFINE c == Char(sc, shift_held)
    <3>1. /\ input_buf' = [input_buf EXCEPT ![buf_pos] = c] /\ buf_pos' = buf_pos + 1
          /\ Len(Line) < BUF_SIZE - 1
      BY <1>6, <2>3 DEF AddChar, Room
    <3>2. c \in Characters
      BY <1>1, <2>1, CharIsNoNul
    <3>3. Edit(sc) = Line \o <<c>>
      BY <2>1, <3>1, Zenon DEF Edit, Typed
    <3> HIDE DEF c
    <3>4. BUF_SIZE \in Nat
      OBVIOUS
    <3>5. Text([input_buf EXCEPT ![buf_pos] = c], buf_pos + 1) = Text(input_buf, buf_pos) \o <<c>>
      BY <3>2, <3>4, LineShape, TextAdd, Zenon
    <3> QED BY <2>1, <3>1, <3>3, <3>5 DEF Line
  <2> QED BY <2>2, <2>3
<1>7. ASSUME Submit(sc) PROVE Goal
  <2>1. sc = Enter /\ sc # Backspace /\ buf_pos' = 0
    BY <1>7, Kinds DEF Submit
  <2>2. command' = Line
    BY <1>7, Submitted DEF Line, Text
  <2>3. Line' = <<>>
    BY <2>1, SMT DEF Line, Text
  <2> QED BY <2>1, <2>2, <2>3 DEF Edit
<1> QED BY <1>3, <1>4, <1>5, <1>6, <1>7 DEF process_scancode, NothingHappens

\* The mapped variables of the terminal are those of the lemmas above.
Waiting ==
  [i \in 1 .. Queued |-> scancode_buffer[(scancode_tail + i - 1) % SCANCODE_BUFFER_SIZE]]
Typing == [i \in 1 .. buf_pos |-> input_buf[i - 1]]

LEMMA Mapped ==
  /\ Waiting = Ring /\ Waiting' = Ring'
  /\ Typing = Line /\ Typing' = Line'
BY Zenon DEF Ring, Held, Count, Queued, Waiting, Typing, Line, Text

\* For any keys and every size of the ring and the line, the keyboard path implements
\* the terminal: strokes are taken in their order, one is lost only when the ring is
\* full, and the shell is given exactly the line as edited.
THEOREM ImplementsTerminal == Spec => TerminalSpec
<1>1. Init => Term!Init
  <2> SUFFICES ASSUME Init PROVE Term!Init
    OBVIOUS
  <2>1. Ring = <<>>
    BY InitT, RingIsSeq DEF Init, Pending
  <2>2. Line = <<>>
    BY SMT DEF Init, Line, Text
  <2> QED BY <2>1, <2>2, Mapped DEF Init, Term!Init, Waiting, Typing
<1>2. TInv /\ [Next]_vars => [Term!Next]_(Term!vars)
  <2> SUFFICES ASSUME TInv, [Next]_vars PROVE Term!Next \/ UNCHANGED Term!vars
    OBVIOUS
  <2>1. CASE KeyboardHandler
    <3>1. PICK sc \in Scancodes : Strike(sc) /\ scancode_push(sc)
      BY <2>1 DEF KeyboardHandler
    <3>2. Ring' = IF RingFull THEN Ring ELSE Append(Ring, sc)
      BY <3>1, RingStrike
    <3>3. RingFull <=> ~(Len(Ring) < SCANCODE_BUFFER_SIZE - 1)
      BY RingIsSeq, Sizes, SMT
    <3>4. Ring' = IF Len(Ring) < SCANCODE_BUFFER_SIZE - 1 THEN Append(Ring, sc) ELSE Ring
      BY <3>2, <3>3, Zenon
    <3>5. UNCHANGED <<shift_held, Line, command>>
      BY <2>1 DEF KeyboardHandler, lineVars, Line
    <3>6. Term!Strike(sc)
      BY <3>4, <3>5, Mapped, Zenon DEF Term!Strike, Waiting, Typing
    <3> QED BY <3>6 DEF Term!Next
  <2>2. CASE HandleScancode
    <3> DEFINE sc == scancode_buffer[scancode_tail]
    <3>1. Ring # <<>> /\ Head(Ring) = sc /\ Ring' = Tail(Ring)
      BY <2>2, RingTake
    <3>2. process_scancode(sc) /\ sc \in Scancodes
      BY <2>2 DEF HandleScancode, TInv, TypeOK
    <3> HIDE DEF sc
    <3>3. shift_held' = ShiftAfter(Head(Ring), shift_held)
      BY <3>1, <3>2, HandledShift
    <3>4. /\ Line' = Edit(Head(Ring))
          /\ command' = IF Head(Ring) = Enter THEN Line ELSE command
      BY <3>1, <3>2, HandledLine
    <3>5. Term!Take
      BY <3>1, <3>3, <3>4, Mapped, Zenon DEF Term!Take, Term!Edited, Edit, Waiting, Typing
    <3> QED BY <3>5 DEF Term!Next
  <2>3. CASE TimerInterrupt \/ LoopEnds \/ UNCHANGED vars
    <3>1. UNCHANGED <<Ring, shift_held, Line, command>>
      BY <2>3 DEF TimerInterrupt, LoopEnds, vars, ringVars, lineVars, Ring, Line
    <3> QED BY <3>1, Mapped, Zenon DEF Term!vars, Waiting, Typing
  <2> QED BY <2>1, <2>2, <2>3 DEF Next
<1> QED BY <1>1, <1>2, AlwaysT, PTL DEF Spec, TerminalSpec, Term!Spec

-----------------------------------------------------------------------------
(* How long the loop in pit_handler can take.                              *)

\* While the handler is in its loop, every step ends the loop or takes one stroke
\* off the ring, which has fewer than SCANCODE_BUFFER_SIZE.
LoopShortens ==
  [][handling => \/ ~handling'
                 \/ Queued' = Queued - 1 /\ Queued' >= 0 /\ Queued < SCANCODE_BUFFER_SIZE]_vars

\* As many strokes wait as the ring holds.
LEMMA QueuedIs == TInv => Queued \in Nat /\ Len(Ring) = Queued
<1> SUFFICES ASSUME TInv PROVE Queued \in Nat /\ Len(Ring) = Queued
  OBVIOUS
<1>1. SCANCODE_BUFFER_SIZE \in Nat \ {0}
  BY Sizes
<1>2. Queued \in Nat
  <2>1. scancode_head \in Nat /\ scancode_tail \in 0 .. SCANCODE_BUFFER_SIZE - 1
    BY RingShape, <1>1, SMT
  <2>2. scancode_head - scancode_tail + SCANCODE_BUFFER_SIZE \in Nat
    BY <1>1, <2>1, SMT
  <2> QED BY <1>1, <2>2, SMT DEF Queued
<1> QED BY <1>2, SMT DEF Ring, Held, Count, Queued

\* For every size of the ring the timer interrupt's loop ends after at most
\* SCANCODE_BUFFER_SIZE - 1 strokes: none comes in behind those it found.
THEOREM LoopIsShort == Spec => LoopShortens
<1>0. (TInv => Queued \in Nat /\ Len(Ring) = Queued)'
  BY QueuedIs, PTL
<1>1. TInv /\ [Next]_vars =>
        [handling => \/ ~handling'
                     \/ Queued' = Queued - 1 /\ Queued' >= 0 /\ Queued < SCANCODE_BUFFER_SIZE]_vars
  <2> SUFFICES ASSUME TInv, Next, handling, handling'
               PROVE  Queued' = Queued - 1 /\ Queued' >= 0 /\ Queued < SCANCODE_BUFFER_SIZE
    OBVIOUS
  <2>1. HandleScancode
    BY DEF Next, KeyboardHandler, TimerInterrupt, LoopEnds
  <2>2. Ring # <<>> /\ Ring' = Tail(Ring)
    BY <2>1, RingTake
  <2>3. Ring \in Seq(Scancodes) /\ Len(Ring) \in 0 .. SCANCODE_BUFFER_SIZE - 1
    BY RingIsSeq
  <2>4. Len(Ring') = Len(Ring) - 1
    BY <2>2, <2>3
  <2>5. TInv'
    BY NextT DEF vars
  <2>6. Queued \in Nat /\ Len(Ring) = Queued /\ Queued' \in Nat /\ Len(Ring') = Queued'
    BY <1>0, <2>5, QueuedIs, Zenon
  <2> QED BY <2>3, <2>4, <2>6, Sizes
<1> QED BY <1>1, AlwaysT, PTL DEF Spec, LoopShortens
=============================================================================
