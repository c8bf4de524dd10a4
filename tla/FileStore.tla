----------------------------- MODULE FileStore -----------------------------
(***************************************************************************)
(* What the filesystem promises the shell, without clusters or a FAT: a    *)
(* command names a file, changes files of that name in the folder it works *)
(* in only, each change is atomic, and a power cut falls before or after   *)
(* it, never inside.                                                       *)
(***************************************************************************)
EXTENDS Integers

CONSTANTS Names, Texts, Places, Dirs

VARIABLES
  files,      \* folder -> place -> a file, or NoFile
  folder,     \* where the shell is
  target      \* the name in the running command, "" when there is none

vars == <<files, folder, target>>

NoFile == [name |-> "", text |-> 0]

Files == [name : Names, text : Texts]

Init ==
  /\ files \in [Dirs -> [Places -> Files \cup {NoFile}]]
  /\ folder \in Dirs
  /\ target = ""

Move ==
  /\ target = ""
  /\ folder' \in Dirs
  /\ UNCHANGED <<files, target>>

Begin(f) ==
  /\ target = ""
  /\ target' = f
  /\ UNCHANGED <<files, folder>>

Put(p, file) == files' = [files EXCEPT ![folder][p] = file]

\* A new file appears in an unused place.  Its first sector holds whatever was
\* there before: nothing clears it.
Create(p) ==
  /\ files[folder][p] = NoFile
  /\ \E x \in Texts : Put(p, [name |-> target, text |-> x])

Write(p) ==
  /\ files[folder][p].name = target
  /\ \E x \in Texts : Put(p, [name |-> target, text |-> x])

Remove(p) ==
  /\ files[folder][p].name = target
  /\ Put(p, NoFile)

\* one change, or none; the command may end with it or be cut off
Go ==
  /\ target # ""
  /\ UNCHANGED files \/ \E p \in Places : Create(p) \/ Write(p) \/ Remove(p)
  /\ \/ UNCHANGED <<target, folder>>
     \/ target' = "" /\ folder' \in Dirs

Next == Move \/ Go \/ \E f \in Names : Begin(f)

Spec == Init /\ [][Next]_vars
=============================================================================
