------------------------------ MODULE Terminal ------------------------------
(***************************************************************************)
(* What the keyboard path promises the shell, without rings and buffers:   *)
(* keys are taken in the order they were struck, a stroke is lost only     *)
(* when CAPACITY others wait, and the shell is given exactly the line the  *)
(* strokes edit.                                                           *)
(***************************************************************************)
EXTENDS Integers, Sequences

CONSTANTS
  Strokes,      \* what the keyboard reports
  CAPACITY,     \* strokes that can wait
  LINE,         \* characters a line can have
  Shift(_, _),  \* Shift(stroke, shift): the shift state after a stroke
  Char(_, _),   \* Char(stroke, shift): <<c>> for a character key, else <<>>
  Erase, Enter  \* the strokes that edit and submit the line

VARIABLES
  waiting,      \* strokes not yet taken, oldest first
  shift,        \* whether the strokes taken so far leave shift down
  line,         \* characters of the line being typed
  command       \* the last line submitted

vars == <<waiting, shift, line, command>>

Init ==
  /\ waiting = <<>>
  /\ shift = FALSE
  /\ line = <<>>
  /\ command = <<>>

Strike(s) ==
  /\ waiting' = IF Len(waiting) < CAPACITY THEN Append(waiting, s) ELSE waiting
  /\ UNCHANGED <<shift, line, command>>

Edited(s) ==
  IF s = Erase THEN IF line = <<>> THEN <<>> ELSE SubSeq(line, 1, Len(line) - 1)
  ELSE IF s = Enter THEN <<>>
  ELSE IF Len(line) < LINE THEN line \o Char(s, shift)
  ELSE line

Take ==
  /\ waiting # <<>>
  /\ waiting' = Tail(waiting)
  /\ shift' = Shift(Head(waiting), shift)
  /\ line' = Edited(Head(waiting))
  /\ command' = IF Head(waiting) = Enter THEN line ELSE command

Next == Take \/ \E s \in Strokes : Strike(s)

Spec == Init /\ [][Next]_vars
=============================================================================
