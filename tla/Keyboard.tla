------------------------------ MODULE Keyboard ------------------------------
(***************************************************************************)
(* The keyboard path of PrajnaOS (kernel/isr.c): the keyboard interrupt    *)
(* puts scancodes into a ring, the timer interrupt takes them all out and  *)
(* edits the line buffer, and Enter hands the buffer to the shell.         *)
(*                                                                         *)
(* Both handlers run with interrupts off, so no scancode arrives while the *)
(* timer interrupt empties the ring, however long the shell's command may  *)
(* take.                                                                   *)
(***************************************************************************)
EXTENDS Integers, Sequences

CONSTANTS
  SCANCODE_BUFFER_SIZE,   \* slots of the ring (16)
  BUF_SIZE,               \* bytes of the line buffer (256)
  ShiftKeys,              \* the left and the right shift key
  CharKeys                \* keys with a character

ASSUME KeyboardAssumption ==
  /\ SCANCODE_BUFFER_SIZE \in Nat \ {0, 1}
  /\ BUF_SIZE \in Nat \ {0, 1}
  /\ ShiftKeys \cap CharKeys = {}
  /\ \A k \in {"", "none", "backspace", "enter"} : k \notin ShiftKeys \cup CharKeys

Press(k)   == <<"press", k>>
Release(k) == <<"release", k>>
Backspace  == <<"press", "backspace">>
Enter      == <<"press", "enter">>

ShiftCodes == {Press(k) : k \in ShiftKeys} \cup {Release(k) : k \in ShiftKeys}
CharCodes  == {Press(k) : k \in CharKeys}
\* a code without a character; so is the release of any other key
NoChar     == Press("")
Scancodes  == ShiftCodes \cup CharCodes \cup {NoChar, Backspace, Enter}

\* keys_normal and keys_shift: the two characters of a key
NUL        == <<"none", FALSE>>
Char(sc, shift) == <<sc[2], shift>>
Characters == {Char(sc, shift) : sc \in CharCodes, shift \in BOOLEAN}

Slots     == 0 .. SCANCODE_BUFFER_SIZE - 1
Positions == 0 .. BUF_SIZE - 1

VARIABLES
  scancode_buffer,
  scancode_head,     \* next slot to write
  scancode_tail,     \* next slot to read
  shift_held,
  input_buf, buf_pos,
  handling,          \* the timer interrupt is in its loop
  command,           \* the C string last given to shell_handle
  down,              \* not in the code: the shift keys that are held down
  lost               \* not in the code: the last stroke of a shift key was dropped

ringVars == <<scancode_buffer, scancode_head, scancode_tail>>
lineVars == <<shift_held, input_buf, buf_pos, command>>
userVars == <<down, lost>>
vars == <<ringVars, lineVars, handling, userVars>>

Init ==
  /\ scancode_buffer = [s \in Slots |-> NoChar]   \* .bss
  /\ scancode_head = 0
  /\ scancode_tail = 0
  /\ shift_held = FALSE
  /\ input_buf = [p \in Positions |-> NUL]
  /\ buf_pos = 0
  /\ handling = FALSE
  /\ command = <<>>
  /\ down = {}
  /\ lost = FALSE

-----------------------------------------------------------------------------
(* keyboard_handler                                                        *)

Following(index) == (index + 1) % SCANCODE_BUFFER_SIZE

RingFull_Mut == FALSE

\* one slot stays empty: a full ring and an empty one look different
RingFull == Following(scancode_head) = scancode_tail

scancode_push(sc) ==
  \/ RingFull /\ UNCHANGED ringVars
  \/ /\ ~RingFull
     /\ scancode_buffer' = [scancode_buffer EXCEPT ![scancode_head] = sc]
     /\ scancode_head' = Following(scancode_head)
     /\ UNCHANGED scancode_tail

\* a key goes down, repeats, or comes up
Strike(sc) ==
  /\ sc \in ShiftCodes /\ sc[1] = "release" => sc[2] \in down
  /\ down' = IF sc \notin ShiftCodes THEN down
             ELSE IF sc[1] = "press" THEN down \cup {sc[2]} ELSE down \ {sc[2]}
  /\ lost' = IF sc \in ShiftCodes THEN RingFull ELSE lost

KeyboardHandler ==
  /\ ~handling
  /\ \E sc \in Scancodes : Strike(sc) /\ scancode_push(sc)
  /\ UNCHANGED <<lineVars, handling>>

-----------------------------------------------------------------------------
(* process_scancode                                                        *)

ShiftChanges_Mut(sc) ==
  /\ sc \in ShiftCodes
  /\ shift_held' = TRUE
  /\ UNCHANGED <<input_buf, buf_pos, command>>

ShiftChanges(sc) ==
  /\ sc \in ShiftCodes
  /\ shift_held' = (sc[1] = "press")
  /\ UNCHANGED <<input_buf, buf_pos, command>>

NothingHappens(sc) ==
  /\ sc = NoChar \/ (sc = Backspace /\ buf_pos = 0)
  /\ UNCHANGED lineVars

EraseChar(sc) ==
  /\ sc = Backspace /\ buf_pos > 0
  /\ buf_pos' = buf_pos - 1
  /\ input_buf' = [input_buf EXCEPT ![buf_pos - 1] = NUL]
  /\ UNCHANGED <<shift_held, command>>

Room_Mut == TRUE

Room == buf_pos < BUF_SIZE - 1

AddChar(sc) ==
  /\ sc \in CharCodes
  /\ \/ /\ Room
        /\ input_buf' = [input_buf EXCEPT ![buf_pos] = Char(sc, shift_held)]
        /\ buf_pos' = buf_pos + 1
     \/ ~Room /\ UNCHANGED <<input_buf, buf_pos>>
  /\ UNCHANGED <<shift_held, command>>

\* the characters before the first NUL
IsString(s, buf) ==
  \E n \in Positions :
    /\ buf[n] = NUL
    /\ \A p \in 0 .. n - 1 : buf[p] # NUL
    /\ s = [i \in 1 .. n |-> buf[i - 1]]

Terminated_Mut == input_buf

Terminated == [input_buf EXCEPT ![buf_pos] = NUL]

Submit(sc) ==
  /\ sc = Enter
  /\ input_buf' = Terminated
  /\ command' \in {[i \in 1 .. n |-> input_buf'[i - 1]] : n \in Positions}
  /\ IsString(command', input_buf')
  /\ buf_pos' = 0
  /\ UNCHANGED shift_held

process_scancode(sc) ==
  \/ ShiftChanges(sc) \/ NothingHappens(sc) \/ EraseChar(sc)
  \/ AddChar(sc) \/ Submit(sc)

-----------------------------------------------------------------------------
(* The loop in pit_handler.                                                *)

Pending == scancode_head # scancode_tail

TimerInterrupt ==
  /\ ~handling /\ Pending
  /\ handling' = TRUE
  /\ UNCHANGED <<ringVars, lineVars, userVars>>

\* scancode_pop and process_scancode
HandleScancode ==
  /\ handling /\ Pending
  /\ scancode_tail' = Following(scancode_tail)
  /\ process_scancode(scancode_buffer[scancode_tail])
  /\ UNCHANGED <<scancode_buffer, scancode_head, handling, userVars>>

LoopEnds_Mut ==
  /\ handling
  /\ handling' = FALSE
  /\ UNCHANGED <<ringVars, lineVars, userVars>>

LoopEnds ==
  /\ handling /\ ~Pending
  /\ handling' = FALSE
  /\ UNCHANGED <<ringVars, lineVars, userVars>>

Next == KeyboardHandler \/ TimerInterrupt \/ HandleScancode \/ LoopEnds

\* The timer never stops, and its handler runs to its end.
Fairness == WF_vars(TimerInterrupt) /\ WF_vars(HandleScancode) /\ WF_vars(LoopEnds)

Spec == Init /\ [][Next]_vars
FairSpec == Spec /\ Fairness

-----------------------------------------------------------------------------
(* Properties.                                                             *)

\* The indices stay within the ring and the line buffer.
TypeOK ==
  /\ scancode_buffer \in [Slots -> Scancodes]
  /\ scancode_head \in Slots
  /\ scancode_tail \in Slots
  /\ shift_held \in BOOLEAN
  /\ input_buf \in [Positions -> Characters \cup {NUL}]
  /\ buf_pos \in Positions
  /\ handling \in BOOLEAN
  /\ command \in Seq(Characters)
  /\ down \subseteq ShiftKeys
  /\ lost \in BOOLEAN

\* Once the ring is empty, shift counts as held only while a shift key is down,
\* unless the ring had no room for the last stroke of one.
ShiftNotStuck == ~Pending /\ ~lost => (shift_held => down # {})

\* Every scancode in the ring is handled: the timer interrupt empties it.
RingDrains == Pending ~> ~Pending

Queued == (scancode_head - scancode_tail + SCANCODE_BUFFER_SIZE) % SCANCODE_BUFFER_SIZE

ShiftAfter(sc, shift) == IF sc \in ShiftCodes THEN sc[1] = "press" ELSE shift
Typed(sc, shift)      == IF sc \in CharCodes THEN <<Char(sc, shift)>> ELSE <<>>

Term == INSTANCE Terminal WITH
  Strokes  <- Scancodes,
  CAPACITY <- SCANCODE_BUFFER_SIZE - 1,
  LINE     <- BUF_SIZE - 1,
  Shift    <- ShiftAfter,
  Char     <- Typed,
  Erase    <- Backspace,
  waiting  <- [i \in 1 .. Queued |->
                 scancode_buffer[(scancode_tail + i - 1) % SCANCODE_BUFFER_SIZE]],
  shift    <- shift_held,
  line     <- [i \in 1 .. buf_pos |-> input_buf[i - 1]]

\* The ring and the line buffer implement the terminal: strokes in their order,
\* none lost while the ring has room, and the shell gets the line as edited,
\* never with a rest of an earlier, longer line behind it.
TerminalSpec == Term!Spec
=============================================================================
