----------------------------- MODULE AtaProofs -----------------------------
(***************************************************************************)
(* Proofs about the ATA driver, for every size of a sector, every length   *)
(* of the waiting loops and any number of transfers.                       *)
(*                                                                         *)
(* Five invariants stand on one another.  IInv: types, and what the        *)
(* device's status says of its task.  Ours: a task that writes is the      *)
(* running command's, for its sector, with its words so far.  Unmoved and  *)
(* Left: when nothing executes a transfer the device has nothing to do,    *)
(* except that under a command the boot's interrupted read may wait.       *)
(* Progresses: in a transfer that nothing comes between every register,    *)
(* task and word is the transfer's own.  From Ours follows WritesStayPut,  *)
(* from all five TransfersAreTrue.                                         *)
(***************************************************************************)
EXTENDS Ata, SequenceTheorems, TLAPS

\* The conjuncts of TypeOK, apart: the buffers, the driver, the device.

Places == {"off", "idle", "wait", "select", "settle", "low", "high",
           "command", "poll", "drq", "words", "flush", "flushed"}

Buffers ==
  /\ buf \in [Contexts -> Seq(Words \cup {Junk})]
  /\ \A c \in Contexts : Len(buf[c]) = IF op[c] = "read" THEN moved[c] ELSE WORDS

DriverTypes ==
  /\ pc \in [Contexts -> Places]
  /\ op \in [Contexts -> {"read", "write"}]
  /\ sector \in [Contexts -> Sectors]
  /\ tries \in [Contexts -> 0 .. TIMEOUT]
  /\ moved \in [Contexts -> 0 .. WORDS]
  /\ calls \in 0 .. CALLS
  /\ late \in BOOLEAN
  /\ cut \subseteq Contexts

DeviceTypes ==
  /\ selected \in {"master", "slave"}
  /\ lba \in Sectors
  /\ status \in {{}, {"BSY"}, {"DRQ"}, {"ERR"}}
  /\ task \in [command : {"none", "read", "write", "store", "flush"}, sector : Sectors]
  /\ cache \in Seq(Words) /\ Len(cache) <= WORDS
  /\ disk \in [Sectors -> [1 .. WORDS -> Words]]
  /\ refused \in BOOLEAN

\* The three parts together are TypeOK.
LEMMA TypesAre == TypeOK <=> Buffers /\ DriverTypes /\ DeviceTypes
BY Zenon DEF TypeOK, Buffers, DriverTypes, DeviceTypes, Places

\* the master has not come to an end
Busy == status \cap {"BSY", "DRQ"} # {}

\* What status, task and the device's buffer say of one another; a slave is selected
\* only while the master is at rest.
Machine ==
  /\ task.command # "none" <=> Busy
  /\ "DRQ" \in status => task.command \in {"read", "write"} /\ Len(cache) < WORDS
  /\ "BSY" \in status =>
       \/ task.command \in {"read", "write", "flush"} /\ cache = <<>>
       \/ task.command = "store" /\ Len(cache) = WORDS
  /\ selected = "slave" => status = {}

\* The boot reads only, and before ata_init nothing is on its way.
Driver ==
  /\ pc["boot"] = "off" => selected = "master" /\ status = {} /\ pc["irq"] = "idle"
  /\ pc["irq"] # "off"
  /\ op["boot"] = "read"
  /\ \A c \in Contexts : op[c] = "write" => buf[c] \in Seq(Words)

Types == Buffers /\ DriverTypes /\ DeviceTypes
IInv == Types /\ Machine /\ Driver

\* What the assumption on the constants gives.
LEMMA Limits ==
  /\ WORDS \in Nat /\ WORDS > 0 /\ TIMEOUT \in Nat /\ TIMEOUT > 0 /\ CALLS \in Nat
  /\ 0 \in 0 .. WORDS /\ 0 \in 0 .. TIMEOUT /\ TIMEOUT \in 0 .. TIMEOUT
  /\ "boot" \in Contexts /\ "irq" \in Contexts /\ <<0, 0>> \in Sectors
BY AtaAssumption DEF Contexts, Sectors

\* What a sector holds is as long as a sector, and its words are words.
LEMMA ContentIs ==
  ASSUME NEW s \in Sectors, NEW v \in 0 .. VERSIONS
  PROVE  /\ Content(s, v) \in [1 .. WORDS -> Words]
         /\ Content(s, v) \in Seq(Words) /\ Len(Content(s, v)) = WORDS
<1>1. Content(s, v) \in [1 .. WORDS -> Words]
  BY DEF Content, Words
<1>2. Content(s, v) \in Seq(Words) /\ Len(Content(s, v)) = WORDS
  BY <1>1, Limits
<1> QED BY <1>1, <1>2

\* A selected slave answers nothing, and then the master has nothing to answer.
LEMMA StatusIs == IInv => Status = status
BY DEF IInv, Types, DeviceTypes, Machine, Status

\* The types hold before ata_init.
LEMMA InitI == Init => IInv
<1> SUFFICES ASSUME Init PROVE IInv
  OBVIOUS
<1>1. Buffers
  <2>1. buf = [c \in Contexts |-> <<>>] /\ moved = [c \in Contexts |-> 0] /\ op = [c \in Contexts |-> "read"]
    BY DEF Init
  <2>2. \A c \in Contexts : buf[c] = <<>> /\ Len(buf[c]) = 0 /\ moved[c] = 0 /\ op[c] = "read"
    BY <2>1
  <2> QED BY <2>1, <2>2 DEF Buffers
<1>2. DriverTypes
  <2>1. pc \in [Contexts -> Places] /\ op \in [Contexts -> {"read", "write"}]
    BY DEF Init, Places
  <2>2. sector \in [Contexts -> Sectors] /\ tries \in [Contexts -> 0 .. TIMEOUT] /\ moved \in [Contexts -> 0 .. WORDS]
    BY Limits DEF Init
  <2>3. late \in BOOLEAN /\ cut \subseteq Contexts /\ calls = 0
    BY DEF Init
  <2>4. calls \in 0 .. CALLS
    BY <2>3, Limits
  <2> QED BY <2>1, <2>2, <2>3, <2>4 DEF DriverTypes
<1>3. DeviceTypes
  <2>1. disk \in [Sectors -> [1 .. WORDS -> Words]]
    <3>1. disk = [s \in Sectors |-> Content(s, 0)] /\ 0 \in 0 .. VERSIONS
      BY AtaAssumption DEF Init
    <3>2. \A s \in Sectors : Content(s, 0) \in [1 .. WORDS -> Words]
      BY <3>1, ContentIs
    <3> QED BY <3>1, <3>2
  <2>2. task \in [command : {"none", "read", "write", "store", "flush"}, sector : Sectors]
    BY Limits DEF Init, NoTask
  <2>3. cache \in Seq(Words) /\ Len(cache) <= WORDS
    BY Limits DEF Init
  <2> QED BY <2>1, <2>2, <2>3, Limits DEF Init, DeviceTypes
<1>4. Machine /\ Driver
  BY DEF Init, Machine, Driver, Busy, NoTask, Contexts
<1> QED BY <1>1, <1>2, <1>3, <1>4 DEF IInv, Types

\* Going on, waiting on, returning and calling keep the types.
LEMMA GotoType ==
  ASSUME IInv, NEW c \in Contexts, NEW to \in Places, Goto(c, to),
         UNCHANGED <<cut, calls>>, late' \in BOOLEAN
  PROVE  Buffers' /\ DriverTypes'
BY Limits DEF IInv, Types, Buffers, DriverTypes, Goto, locals

LEMMA AgainType ==
  ASSUME IInv, NEW c \in Contexts, tries[c] > 0, Again(c), UNCHANGED <<late, cut, calls>>
  PROVE  Buffers' /\ DriverTypes'
<1>1. tries' \in [Contexts -> 0 .. TIMEOUT]
  BY Limits DEF IInv, Types, DriverTypes, Again
<1>2. UNCHANGED <<pc, op, sector, buf, moved, calls, late, cut>>
  BY DEF Again, locals
<1> QED BY <1>1, <1>2 DEF IInv, Types, Buffers, DriverTypes

LEMMA ReturnType ==
  ASSUME IInv, NEW c \in Contexts, Return(c), UNCHANGED <<late, cut, calls>>
  PROVE  Buffers' /\ DriverTypes'
<1>1. DriverTypes'
  BY Limits DEF IInv, Types, DriverTypes, Return, Places
<1>2. Buffers'
  <2>0. op \in [Contexts -> {"read", "write"}] /\ moved \in [Contexts -> 0 .. WORDS]
        /\ buf' = [buf EXCEPT ![c] = <<>>] /\ op' = [op EXCEPT ![c] = "read"] /\ moved' = [moved EXCEPT ![c] = 0]
    BY DEF IInv, Types, DriverTypes, Return
  <2>1. buf' \in [Contexts -> Seq(Words \cup {Junk})]
    BY <2>0 DEF Buffers, IInv, Types
  <2>2. ASSUME NEW d \in Contexts
        PROVE  Len(buf'[d]) = IF op'[d] = "read" THEN moved'[d] ELSE WORDS
    <3>1. CASE d = c
      BY <3>1, <2>0 DEF Buffers, IInv, Types
    <3>2. CASE d # c
      BY <3>2, <2>0 DEF Buffers, IInv, Types
    <3> QED BY <3>1, <3>2
  <2> QED BY <2>1, <2>2 DEF Buffers
<1> QED BY <1>1, <1>2

LEMMA CallType ==
  ASSUME IInv, NEW c \in Contexts, NEW o \in {"read", "write"}, NEW s \in Sectors,
         NEW b \in Seq(Words), Len(b) = IF o = "read" THEN 0 ELSE WORDS,
         Call(c, o, s, b)
  PROVE  Buffers' /\ DriverTypes'
<1>0. /\ pc' = [pc EXCEPT ![c] = "wait"] /\ op' = [op EXCEPT ![c] = o]
      /\ sector' = [sector EXCEPT ![c] = s] /\ buf' = [buf EXCEPT ![c] = b]
      /\ moved' = [moved EXCEPT ![c] = 0] /\ tries' = [tries EXCEPT ![c] = TIMEOUT]
      /\ calls < CALLS /\ calls' = calls + 1
  BY DEF Call
<1>1. DriverTypes'
  <2>1. calls' \in 0 .. CALLS
    BY <1>0, Limits DEF IInv, Types, DriverTypes
  <2>2. late' \in BOOLEAN /\ cut' \subseteq Contexts
    BY DEF IInv, Types, DriverTypes, Call
  <2>3. pc' \in [Contexts -> Places] /\ op' \in [Contexts -> {"read", "write"}]
        /\ sector' \in [Contexts -> Sectors]
    BY <1>0 DEF IInv, Types, DriverTypes, Places
  <2>4. moved' \in [Contexts -> 0 .. WORDS] /\ tries' \in [Contexts -> 0 .. TIMEOUT]
    BY <1>0, Limits DEF IInv, Types, DriverTypes
  <2> QED BY <2>1, <2>2, <2>3, <2>4 DEF DriverTypes
<1>2. Buffers'
  <2>0. op \in [Contexts -> {"read", "write"}] /\ moved \in [Contexts -> 0 .. WORDS]
    BY DEF IInv, Types, DriverTypes
  <2>1. buf' \in [Contexts -> Seq(Words \cup {Junk})]
    BY <1>0 DEF Buffers, IInv, Types
  <2>2. ASSUME NEW d \in Contexts
        PROVE  Len(buf'[d]) = IF op'[d] = "read" THEN moved'[d] ELSE WORDS
    <3>1. CASE d = c
      BY <3>1, <1>0, <2>0 DEF Buffers, IInv, Types
    <3>2. CASE d # c
      BY <3>2, <1>0, <2>0 DEF Buffers, IInv, Types
    <3> QED BY <3>1, <3>2
  <2> QED BY <2>1, <2>2 DEF Buffers
<1> QED BY <1>1, <1>2

\* What the port gives is a word of the disk, or junk.
LEMMA PortIs ==
  IInv => /\ Port \in Words \cup {Junk}
          /\ Moves("read") => Port \in Words /\ Port = disk[task.sector][Len(cache) + 1]
<1> SUFFICES ASSUME IInv, Moves("read")
             PROVE  disk[task.sector][Len(cache) + 1] \in Words
  BY DEF Port
<1>1. Len(cache) + 1 \in 1 .. WORDS
  BY Limits DEF IInv, Types, DeviceTypes, Machine, Moves
<1>2. task.sector \in Sectors /\ disk \in [Sectors -> [1 .. WORDS -> Words]]
  BY DEF IInv, Types, DeviceTypes
<1> QED BY <1>1, <1>2

\* A word is appended to the buffer or taken from it.
LEMMA MoveWordType ==
  ASSUME IInv, NEW c \in Contexts, MoveWord(c), UNCHANGED calls
  PROVE  Buffers' /\ DriverTypes'
<1>0. /\ moved[c] < WORDS /\ moved' = [moved EXCEPT ![c] = @ + 1]
      /\ UNCHANGED <<pc, op, sector, tries, late, cut, calls>>
      /\ op[c] \in {"read", "write"}
      /\ moved[c] \in 0 .. WORDS
      /\ op \in [Contexts -> {"read", "write"}] /\ moved \in [Contexts -> 0 .. WORDS]
  BY DEF MoveWord, IInv, Types, DriverTypes
<1>1. DriverTypes'
  <2>1. moved' \in [Contexts -> 0 .. WORDS]
    BY <1>0, Limits
  <2> QED BY <1>0, <2>1 DEF IInv, Types, DriverTypes
<1>2. Buffers'
  <2>1. CASE op[c] = "write" /\ UNCHANGED buf
    <3>1. ASSUME NEW d \in Contexts
          PROVE  Len(buf'[d]) = IF op'[d] = "read" THEN moved'[d] ELSE WORDS
      BY <1>0, <2>1 DEF Buffers, IInv, Types
    <3> QED BY <2>1, <3>1 DEF Buffers, IInv, Types
  <2>2. CASE op[c] = "read" /\ buf' = [buf EXCEPT ![c] = Append(@, Port)]
    <3>0. Port \in Words \cup {Junk} /\ buf[c] \in Seq(Words \cup {Junk}) /\ Len(buf[c]) = moved[c]
          /\ buf \in [Contexts -> Seq(Words \cup {Junk})]
      BY PortIs, <2>2 DEF Buffers, IInv, Types
    <3>1. Append(buf[c], Port) \in Seq(Words \cup {Junk}) /\ Len(Append(buf[c], Port)) = moved[c] + 1
      BY <3>0
    <3>2. buf' \in [Contexts -> Seq(Words \cup {Junk})]
      BY <2>2, <3>0, <3>1
    <3>3. ASSUME NEW d \in Contexts
          PROVE  Len(buf'[d]) = IF op'[d] = "read" THEN moved'[d] ELSE WORDS
      <4>1. CASE d = c
        BY <1>0, <2>2, <3>0, <3>1, <4>1
      <4>2. CASE d # c
        BY <1>0, <2>2, <3>0, <4>2 DEF Buffers, IInv, Types
      <4> QED BY <4>1, <4>2
    <3> QED BY <3>2, <3>3 DEF Buffers
  <2> QED BY <2>1, <2>2 DEF MoveWord
<1> QED BY <1>1, <1>2

-----------------------------------------------------------------------------
(* The device, port access by port access. *)

\* Reading the status changes nothing.
LEMMA DeviceStays ==
  ASSUME IInv, UNCHANGED <<busVars, deviceVars>>
  PROVE  DeviceTypes' /\ Machine'
BY DEF IInv, Types, DeviceTypes, Machine, Busy, busVars, deviceVars

\* A command, the drive, a register, a word: the device stays coherent.
LEMMA OutCommandType ==
  ASSUME IInv, NEW command \in {"read", "write", "flush"}, OutCommand(command)
  PROVE  DeviceTypes' /\ Machine'
<1>0. /\ UNCHANGED <<selected, lba, disk>>
      /\ \/ selected = "master" /\ status' = {"BSY"} /\ cache' = <<>>
            /\ task' = [command |-> command, sector |-> lba]
            /\ refused' = (refused /\ command = "flush")
         \/ UNCHANGED <<status, task, cache, refused>>
  BY DEF OutCommand, busVars
<1>1. CASE UNCHANGED <<status, task, cache, refused>>
  BY <1>0, <1>1, DeviceStays DEF busVars, deviceVars
<1>2. CASE /\ selected = "master" /\ status' = {"BSY"} /\ cache' = <<>>
           /\ task' = [command |-> command, sector |-> lba]
           /\ refused' = (refused /\ command = "flush")
  <2>1. /\ task' \in [command : {"none", "read", "write", "store", "flush"}, sector : Sectors]
        /\ task'.command = command
    BY <1>2 DEF IInv, Types, DeviceTypes
  <2>2. cache' \in Seq(Words) /\ Len(cache') <= WORDS
    BY <1>2, Limits
  <2>3. refused' \in BOOLEAN
    BY <1>2 DEF IInv, Types, DeviceTypes
  <2>4. DeviceTypes'
    BY <1>0, <1>2, <2>1, <2>2, <2>3 DEF IInv, Types, DeviceTypes
  <2>5. Machine'
    BY <1>0, <1>2, <2>1 DEF Machine, Busy
  <2> QED BY <2>4, <2>5
<1> QED BY <1>0, <1>1, <1>2

LEMMA OutDriveType ==
  ASSUME IInv, OutDrive("master")
  PROVE  DeviceTypes' /\ Machine'
BY DEF IInv, Types, DeviceTypes, Machine, Busy, OutDrive, deviceVars

LEMMA OutLbaType ==
  ASSUME IInv, NEW i \in {1, 2}, NEW digit \in Digits, OutLba(i, digit)
  PROVE  DeviceTypes' /\ Machine'
<1>0. lba \in Digits \X Digits
  BY DEF IInv, Types, DeviceTypes, Sectors
<1>1. [lba EXCEPT ![i] = digit] \in Digits \X Digits
  BY <1>0
<1>2. lba' \in Sectors
  BY <1>0, <1>1 DEF OutLba, Sectors
<1> QED BY <1>2 DEF IInv, Types, DeviceTypes, Machine, Busy, OutLba, deviceVars

LEMMA MoveThroughPortType ==
  ASSUME IInv, NEW command \in {"read", "write"}, NEW word,
         Moves(command) => word \in Words, MoveThroughPort(command, word)
  PROVE  DeviceTypes' /\ Machine'
<1>1. CASE ~Moves(command)
  BY <1>1, DeviceStays DEF MoveThroughPort, busVars, deviceVars
<1>2. CASE Moves(command)
  <2>0. /\ cache' = Append(cache, word) /\ Moved /\ UNCHANGED <<selected, lba, disk, refused>>
        /\ cache \in Seq(Words) /\ Len(cache) < WORDS /\ "DRQ" \in status /\ word \in Words
        /\ task.command = command
    BY <1>2 DEF MoveThroughPort, Moves, IInv, Types, DeviceTypes, Machine, busVars
  <2>1. cache' \in Seq(Words) /\ Len(cache') = Len(cache) + 1
    BY <2>0
  <2>2. Len(cache') <= WORDS /\ Len(cache') \in Nat
    BY <2>0, <2>1, Limits
  <2>3. CASE Len(cache') < WORDS
    <3>1. UNCHANGED <<status, task>>
      BY <2>0, <2>3 DEF Moved
    <3>2. DeviceTypes'
      BY <2>0, <2>1, <2>2, <3>1 DEF IInv, Types, DeviceTypes
    <3>3. status = {"DRQ"}
      BY <2>0 DEF IInv, Types, DeviceTypes
    <3> QED BY <2>0, <2>3, <3>1, <3>2, <3>3 DEF IInv, Machine, Busy
  <2>4. CASE Len(cache') = WORDS
    <3>0. selected # "slave"
      BY <2>0 DEF IInv, Machine
    <3>1. CASE status' = {} /\ task' = NoTask
      <4>1. task' \in [command : {"none", "read", "write", "store", "flush"}, sector : Sectors] /\ task'.command = "none"
        BY <3>1, Limits DEF NoTask
      <4>2. DeviceTypes'
        BY <2>0, <2>1, <2>2, <3>1, <4>1 DEF IInv, Types, DeviceTypes
      <4> QED BY <2>0, <3>0, <3>1, <4>1, <4>2 DEF Machine, Busy
    <3>2. CASE status' = {"BSY"} /\ task' = [task EXCEPT !.command = "store"]
      <4>1. task' \in [command : {"none", "read", "write", "store", "flush"}, sector : Sectors] /\ task'.command = "store"
        BY <3>2 DEF IInv, Types, DeviceTypes
      <4>2. DeviceTypes'
        BY <2>0, <2>1, <2>2, <3>2, <4>1 DEF IInv, Types, DeviceTypes
      <4> QED BY <2>0, <2>4, <3>0, <3>2, <4>1, <4>2 DEF Machine, Busy
    <3> QED BY <2>0, <2>4, <3>1, <3>2 DEF Moved
  <2> QED BY <2>2, <2>3, <2>4, Limits
<1> QED BY <1>1, <1>2

\* What is stored is a whole sector.
LEMMA StoredIsWhole ==
  ASSUME IInv, task.command = "store", "BSY" \in status
  PROVE  cache \in [1 .. WORDS -> Words] /\ task.sector \in Sectors
<1>1. cache \in Seq(Words) /\ Len(cache) = WORDS /\ task.sector \in Sectors
  BY DEF IInv, Types, DeviceTypes, Machine
<1> QED BY <1>1

\* An answer ends the task or opens the data port.
LEMMA DeviceAnswersType ==
  ASSUME IInv, DeviceAnswers
  PROVE  DeviceTypes' /\ Machine'
<1>0. /\ "BSY" \in status /\ UNCHANGED <<selected, lba, cache>>
      /\ refused' = (refused \/ (task.command = "store" /\ status' = {"ERR"}))
      /\ status = {"BSY"} /\ selected # "slave"
  BY DEF DeviceAnswers, busVars, IInv, Types, DeviceTypes, Machine
<1>1. refused' \in BOOLEAN
  BY <1>0 DEF IInv, Types, DeviceTypes
<1>2. NoTask \in [command : {"none", "read", "write", "store", "flush"}, sector : Sectors] /\ NoTask.command = "none"
  BY Limits DEF NoTask
<1>3. CASE task.command \in {"read", "write"} /\ status' = {"DRQ"} /\ UNCHANGED <<task, disk>>
  <2>1. Len(cache') < WORDS
    BY <1>0, <1>3, Limits DEF IInv, Machine
  <2>2. DeviceTypes'
    BY <1>0, <1>1, <1>3 DEF IInv, Types, DeviceTypes
  <2> QED BY <1>0, <1>3, <2>1, <2>2 DEF Machine, Busy
<1>4. CASE status' = {} /\ task' = NoTask /\ task.command = "store" /\ disk' = [disk EXCEPT ![task.sector] = cache]
  <2>1. disk' \in [Sectors -> [1 .. WORDS -> Words]]
    BY <1>0, <1>4, StoredIsWhole DEF IInv, Types, DeviceTypes
  <2>2. DeviceTypes'
    BY <1>0, <1>1, <1>2, <1>4, <2>1 DEF IInv, Types, DeviceTypes
  <2> QED BY <1>0, <1>2, <1>4, <2>2 DEF Machine, Busy
<1>5. CASE status' \in {{}, {"ERR"}} /\ task' = NoTask /\ disk' = disk
  <2>1. DeviceTypes'
    BY <1>0, <1>1, <1>2, <1>5 DEF IInv, Types, DeviceTypes
  <2> QED BY <1>0, <1>2, <1>5, <2>1 DEF Machine, Busy
<1> QED BY <1>3, <1>4, <1>5 DEF DeviceAnswers

-----------------------------------------------------------------------------
(* The driver, step by step. *)

\* A step that keeps op and buf and does not begin a boot keeps what Driver says.
LEMMA DriverKept ==
  ASSUME IInv, NEW c \in Contexts, NEW to \in Places \ {"off"},
         pc[c] # "off", pc' = [pc EXCEPT ![c] = to], op' = op, buf' = buf,
         c = "irq" => pc["irq"] # "idle"
  PROVE  Driver'
BY DEF IInv, Driver, Types, DriverTypes, Contexts

\* The same three with the whole invariant.
LEMMA GotoInv ==
  ASSUME IInv, NEW c \in Contexts, pc[c] \notin {"off", "idle"}, NEW to \in Places \ {"off"},
         Goto(c, to), late' \in BOOLEAN, UNCHANGED <<cut, calls>>, DeviceTypes' /\ Machine'
  PROVE  IInv'
<1>1. Buffers' /\ DriverTypes'
  BY GotoType
<1>2. Driver'
  BY DriverKept DEF Goto, locals
<1> QED BY <1>1, <1>2 DEF IInv, Types

LEMMA AgainInv ==
  ASSUME IInv, NEW c \in Contexts, tries[c] > 0, Again(c), UNCHANGED <<late, cut, calls>>,
         UNCHANGED <<busVars, deviceVars>>
  PROVE  IInv'
<1>1. Buffers' /\ DriverTypes' /\ DeviceTypes' /\ Machine'
  BY AgainType, DeviceStays
<1>2. Driver'
  BY DEF Again, locals, IInv, Driver, busVars, deviceVars
<1> QED BY <1>1, <1>2 DEF IInv, Types

LEMMA ReturnInv ==
  ASSUME IInv, NEW c \in Contexts, pc[c] # "off" \/ c = "boot",
         Return(c), UNCHANGED <<late, cut, calls>>, DeviceTypes' /\ Machine',
         pc["boot"] # "off" \/ c = "boot"
  PROVE  IInv'
<1>1. Buffers' /\ DriverTypes'
  BY ReturnType
<1>2. Driver'
  BY DEF Return, IInv, Driver, Types, DriverTypes, Buffers, Contexts
<1> QED BY <1>1, <1>2 DEF IInv, Types

\* Whoever executes, boot has begun.
LEMMA BootOn ==
  ASSUME IInv, NEW c \in Contexts, pc[c] \notin {"off", "idle"}
  PROVE  pc["boot"] # "off"
BY DEF IInv, Driver, Contexts

\* The steps of the driver one by one.
LEMMA WaitReadyType ==
  ASSUME IInv, NEW c \in Contexts, NEW from \in Places \ {"off", "idle"}, NEW to \in Places \ {"off"},
         WaitReady(c, from, to), UNCHANGED calls
  PROVE  IInv'
<1>0. pc[c] = from /\ UNCHANGED <<busVars, deviceVars>> /\ UNCHANGED cut
  BY DEF WaitReady, At
<1>1. DeviceTypes' /\ Machine'
  BY <1>0, DeviceStays
<1>2. CASE tries[c] > 0 /\ Again(c) /\ UNCHANGED late
  BY <1>0, <1>2, AgainInv
<1>3. CASE Goto(c, to) /\ late' \in BOOLEAN
  BY <1>0, <1>1, <1>3, GotoInv
<1> QED BY <1>2, <1>3 DEF WaitReady, IInv, Types, DriverTypes

LEMMA PollBusyType ==
  ASSUME IInv, NEW c \in Contexts, PollBusy(c), UNCHANGED calls
  PROVE  IInv'
<1>0. pc[c] = "poll" /\ UNCHANGED <<busVars, deviceVars>> /\ UNCHANGED cut
  BY DEF PollBusy, At
<1>1. DeviceTypes' /\ Machine' /\ pc["boot"] # "off"
  BY <1>0, DeviceStays, BootOn
<1>2. CASE tries[c] > 0 /\ Again(c) /\ UNCHANGED late
  BY <1>0, <1>2, AgainInv
<1>3. CASE Goto(c, "drq") /\ late' \in BOOLEAN
  BY <1>0, <1>1, <1>3, GotoInv DEF Places
<1>4. CASE Return(c) /\ UNCHANGED late
  BY <1>0, <1>1, <1>4, ReturnInv
<1> QED BY <1>2, <1>3, <1>4 DEF PollBusy, IInv, Types, DriverTypes

LEMMA PollDataType ==
  ASSUME IInv, NEW c \in Contexts, PollData(c), UNCHANGED calls
  PROVE  IInv'
<1>0. pc[c] = "drq" /\ UNCHANGED <<busVars, deviceVars>> /\ UNCHANGED <<late, cut>> /\ late' \in BOOLEAN
  BY DEF PollData, At, IInv, Types, DriverTypes
<1>1. DeviceTypes' /\ Machine' /\ pc["boot"] # "off"
  BY <1>0, DeviceStays, BootOn
<1>2. CASE tries[c] > 0 /\ Again(c)
  BY <1>0, <1>2, AgainInv
<1>3. CASE Goto(c, "words")
  BY <1>0, <1>1, <1>3, GotoInv DEF Places
<1>4. CASE Return(c)
  BY <1>0, <1>1, <1>4, ReturnInv
<1> QED BY <1>2, <1>3, <1>4 DEF PollData

LEMMA DoneType ==
  ASSUME IInv, NEW c \in Contexts, ReadDone(c) \/ WriteDone(c), UNCHANGED calls
  PROVE  IInv'
<1>0. pc[c] \in {"words", "flushed"} /\ UNCHANGED <<busVars, deviceVars>> /\ UNCHANGED <<late, cut>> /\ Return(c)
  BY DEF ReadDone, WriteDone, At
<1>1. DeviceTypes' /\ Machine' /\ pc["boot"] # "off"
  BY <1>0, DeviceStays, BootOn
<1> QED BY <1>0, <1>1, ReturnInv

\* The steps that write a register.
LEMMA RegisterType ==
  ASSUME IInv, NEW c \in Contexts,
         SelectMaster(c) \/ SetLow(c) \/ SetHigh(c) \/ SendCommand(c) \/ Flush(c), UNCHANGED calls
  PROVE  IInv'
<1>0. /\ sector[c][1] \in Digits /\ sector[c][2] \in Digits
      /\ op[c] \in {"read", "write", "flush"} /\ late \in BOOLEAN
  BY DEF IInv, Types, DriverTypes, Sectors
<1>1. CASE SelectMaster(c)
  BY <1>0, <1>1, OutDriveType, GotoInv DEF SelectMaster, At, Places
<1>2. CASE SetLow(c)
  BY <1>0, <1>2, OutLbaType, GotoInv DEF SetLow, At, Places
<1>3. CASE SetHigh(c)
  BY <1>0, <1>3, OutLbaType, GotoInv DEF SetHigh, At, Places
<1>4. CASE SendCommand(c)
  BY <1>0, <1>4, OutCommandType, GotoInv DEF SendCommand, At, Places
<1>5. CASE Flush(c)
  BY <1>0, <1>5, OutCommandType, GotoInv DEF Flush, At, Places
<1> QED BY <1>1, <1>2, <1>3, <1>4, <1>5

LEMMA MoveWordInv ==
  ASSUME IInv, NEW c \in Contexts, MoveWord(c), UNCHANGED calls
  PROVE  IInv'
<1>1. Buffers' /\ DriverTypes'
  BY MoveWordType
<1>2. DeviceTypes' /\ Machine'
  <2>1. CASE op[c] = "read" /\ MoveThroughPort("read", Port)
    BY <2>1, PortIs, MoveThroughPortType
  <2>2. CASE op[c] = "write" /\ MoveThroughPort("write", buf[c][moved[c] + 1])
    <3>1. buf[c] \in Seq(Words) /\ Len(buf[c]) = WORDS /\ moved[c] + 1 \in 1 .. WORDS
      BY <2>2, Limits DEF MoveWord, IInv, Types, Driver, DriverTypes, Buffers
    <3>2. buf[c][moved[c] + 1] \in Words
      BY <3>1
    <3> QED BY <2>2, <3>2, MoveThroughPortType
  <2> QED BY <2>1, <2>2 DEF MoveWord
<1>3. Driver'
  <2>1. pc["boot"] # "off" /\ UNCHANGED <<pc, op>> /\ \A d \in Contexts : op[d] = "write" => buf'[d] = buf[d]
    BY BootOn DEF MoveWord, At, IInv, Types, Buffers
  <2> QED BY <2>1 DEF IInv, Driver
<1> QED BY <1>1, <1>2, <1>3 DEF IInv, Types

\* ata_init finds the master at rest and selects the slave.
LEMMA AtaInitInv ==
  ASSUME IInv, AtaInit
  PROVE  IInv'
<1>0. pc["boot"] = "off" /\ status = {} /\ selected' = "slave" /\ lba' = <<0, 0>>
      /\ UNCHANGED <<status, task, cache, disk, refused>> /\ Return("boot") /\ UNCHANGED <<late, cut, calls>>
  BY DEF AtaInit, At, deviceVars, IInv, Driver
<1>1. DeviceTypes' /\ Machine'
  BY <1>0, Limits DEF IInv, Types, DeviceTypes, Machine, Busy
<1> QED BY <1>0, <1>1, Limits, ReturnInv

\* Whoever calls asks for a whole sector.
LEMMA CallInv ==
  ASSUME IInv, NEW c \in Contexts, NEW o \in {"read", "write"}, NEW s \in Sectors,
         NEW b \in Seq(Words), Len(b) = IF o = "read" THEN 0 ELSE WORDS,
         Call(c, o, s, b), o = "write" => c = "irq"
  PROVE  IInv'
<1>1. Buffers' /\ DriverTypes'
  BY CallType
<1>2. DeviceTypes' /\ Machine'
  BY DeviceStays DEF Call
<1>3. Driver'
  BY DEF Call, At, IInv, Driver, Types, DriverTypes, Buffers, Contexts
<1> QED BY <1>1, <1>2, <1>3 DEF IInv, Types

\* The device leaves the driver alone.
LEMMA DeviceAnswersInv ==
  ASSUME IInv, DeviceAnswers
  PROVE  IInv'
<1>1. Buffers' /\ DriverTypes' /\ UNCHANGED <<pc, op, buf, selected>> /\ "BSY" \in status
  BY DEF DeviceAnswers, driverVars, locals, busVars, IInv, Types, Buffers, DriverTypes
<1>2. DeviceTypes' /\ Machine'
  BY DeviceAnswersType
<1>3. Driver'
  BY <1>1 DEF IInv, Driver
<1> QED BY <1>1, <1>2, <1>3 DEF IInv, Types

\* What callers ask for is a transfer of a whole sector.
LEMMA AskedIs ==
  /\ \A s \in Asked : s \in Sectors
  /\ <<>> \in Seq(Words) /\ Len(<<>>) = 0
BY DEF Asked, Sectors

\* Every step keeps the types.
LEMMA IInvStep == IInv /\ [Next]_vars => IInv'
<1> SUFFICES ASSUME IInv, [Next]_vars PROVE IInv'
  OBVIOUS
<1>1. CASE AtaInit
  BY <1>1, AtaInitInv
<1>2. ASSUME NEW c \in Contexts, Step(c) PROVE IInv'
  <2>0. UNCHANGED calls
    BY <1>2 DEF Step
  <2>1. CASE WaitReady(c, "wait", "select") \/ WaitReady(c, "settle", "low") \/ WaitReady(c, "flush", "flushed")
    BY <2>0, <2>1, WaitReadyType DEF Places
  <2>2. CASE SelectMaster(c) \/ SetLow(c) \/ SetHigh(c) \/ SendCommand(c) \/ Flush(c)
    BY <2>0, <2>2, RegisterType
  <2>3. CASE PollBusy(c) \/ PollData(c)
    BY <2>0, <2>3, PollBusyType, PollDataType
  <2>4. CASE MoveWord(c) \/ ReadDone(c) \/ WriteDone(c)
    BY <2>0, <2>4, MoveWordInv, DoneType
  <2> QED BY <1>2, <2>1, <2>2, <2>3, <2>4, Zenon DEF Step
<1>3. ASSUME NEW c \in Contexts, NEW s \in Asked, ReadSector(c, s) PROVE IInv'
  <2>1. Call(c, "read", s, <<>>) /\ s \in Sectors
    BY <1>3, AskedIs DEF ReadSector
  <2>2. <<>> \in Seq(Words) /\ Len(<<>>) = IF "read" = "read" THEN 0 ELSE WORDS
    BY AskedIs
  <2>3. "read" \in {"read", "write"} /\ ("read" = "write" => c = "irq")
    OBVIOUS
  <2> QED BY <2>1, <2>2, <2>3, CallInv, Zenon
<1>4. ASSUME NEW s \in Asked, NEW v \in 1 .. VERSIONS, WriteSector(s, v) PROVE IInv'
  <2>1. v \in 0 .. VERSIONS
    BY AtaAssumption
  <2> QED BY <1>4, <2>1, AskedIs, ContentIs, Limits, CallInv DEF WriteSector
<1>5. CASE DeviceAnswers
  BY <1>5, DeviceAnswersInv
<1>6. CASE UNCHANGED vars
  BY <1>6 DEF vars, driverVars, locals, busVars, deviceVars, IInv, Types, Buffers, DriverTypes, DeviceTypes, Machine, Busy, Driver
<1> QED BY <1>1, <1>2, <1>3, <1>4, <1>5, <1>6, Zenon DEF Next

\* Calls, registers, device and disk of ata.c stay well formed, whatever the device
\* answers and whenever a command interrupts the boot.
THEOREM TypeCorrect == Spec => []TypeOK
<1>1. IInv => TypeOK
  BY TypesAre DEF IInv, Types
<1> QED BY InitI, IInvStep, <1>1, PTL DEF Spec

-----------------------------------------------------------------------------
(* A write of a command. *)

\* What the device has of a sector that is written is the beginning of the command's buffer.
Loading ==
  /\ op["irq"] = "write" /\ task.sector = sector["irq"]
  /\ Len(cache) = moved["irq"]
  /\ \A i \in 1 .. Len(cache) : cache[i] = buf["irq"][i]

Addressing == {"select", "settle", "low", "high", "command"}

\* Before the data port opens the command polls; it reads or writes words after that.
WriteTask ==
  task.command = "write" =>
    /\ Loading /\ pc["irq"] \in {"poll", "drq", "words"}
    /\ pc["irq"] = "drq" => tries["irq"] > 0
    /\ pc["irq"] \in {"drq", "words"} => "BSY" \notin status
\* What is stored is what the command gave, until it has waited for the end of it.
StoreTask ==
  task.command = "store" =>
    /\ op["irq"] = "write" /\ task.sector = sector["irq"] /\ cache = buf["irq"]
    /\ \/ pc["irq"] = "words" /\ moved["irq"] = WORDS
       \/ pc["irq"] = "flush"
\* While a command sets the registers the device can be waiting for the boot to move
\* words, and then ignores it; otherwise the registers are the command's.
Registers ==
  /\ pc["irq"] \in Addressing => "BSY" \notin status
  /\ pc["irq"] \in {"high", "command"} /\ ~Busy => lba[1] = sector["irq"][1]
  /\ pc["irq"] = "command" /\ ~Busy => lba[2] = sector["irq"][2]
  /\ pc["irq"] \in {"wait", "poll", "drq"} \cup Addressing => moved["irq"] = 0

\* Unless a loop ran out of turns.
Ours == ~late => WriteTask /\ StoreTask /\ Registers

\* Only the device changes the disk, and only with a sector that has to be stored.
LEMMA DiskStep ==
  [Next]_vars /\ disk' # disk => DeviceAnswers /\ task.command = "store" /\ disk' = [disk EXCEPT ![task.sector] = cache]
<1> SUFFICES ASSUME [Next]_vars, disk' # disk
             PROVE  DeviceAnswers /\ task.command = "store" /\ disk' = [disk EXCEPT ![task.sector] = cache]
  OBVIOUS
<1>1. ASSUME NEW c \in Contexts, Step(c) PROVE disk' = disk
  BY <1>1 DEF Step, WaitReady, SelectMaster, SetLow, SetHigh, SendCommand, PollBusy, PollData, MoveWord, ReadDone,
     Flush, WriteDone, OutDrive, OutLba, OutCommand, MoveThroughPort, deviceVars
<1>2. ASSUME NEW c \in Contexts, NEW o, NEW s, NEW b, Call(c, o, s, b) PROVE disk' = disk
  BY <1>2 DEF Call, deviceVars
<1>3. DeviceAnswers
  BY <1>1, <1>2 DEF Next, AtaInit, ReadSector, WriteSector, deviceVars, vars, Contexts
<1> QED BY <1>3 DEF DeviceAnswers

\* So the disk changes as the running write says.
LEMMA WritesStayPutStep ==
  IInv /\ Ours /\ [Next]_vars /\ disk' # disk =>
     \/ late
     \/ /\ op["irq"] = "write" /\ pc["irq"] \in {"words", "flush"}
        /\ disk' = [disk EXCEPT ![sector["irq"]] = buf["irq"]]
BY DiskStep DEF Ours, StoreTask

\* Ready is what the driver sees, Busy what is so.
LEMMA ReadyIs == IInv => (Ready <=> ~Busy)
BY StatusIs DEF Ready, Busy

\* The types an interrupt's step needs.
LEMMA IrqTypes ==
  ASSUME IInv
  PROVE  /\ moved["irq"] \in 0 .. WORDS /\ tries["irq"] \in 0 .. TIMEOUT /\ Len(cache) \in 0 .. WORDS
         /\ status \in {{}, {"BSY"}, {"DRQ"}, {"ERR"}}
         /\ pc \in [Contexts -> Places] /\ moved \in [Contexts -> 0 .. WORDS] /\ tries \in [Contexts -> 0 .. TIMEOUT]
         /\ op \in [Contexts -> {"read", "write"}]
         /\ sector \in [Contexts -> Sectors] /\ buf \in [Contexts -> Seq(Words \cup {Junk})]
         /\ cache \in Seq(Words)
         /\ Status = status
<1>1. /\ DriverTypes /\ "irq" \in Contexts
      /\ status \in {{}, {"BSY"}, {"DRQ"}, {"ERR"}} /\ Status = status
      /\ buf \in [Contexts -> Seq(Words \cup {Junk})]
      /\ cache \in Seq(Words) /\ Len(cache) <= WORDS
  BY StatusIs, Limits DEF IInv, Types, DeviceTypes, Buffers
<1>2. Len(cache) \in 0 .. WORDS
  BY <1>1, Limits
<1>3. moved["irq"] \in 0 .. WORDS /\ tries["irq"] \in 0 .. TIMEOUT
  BY <1>1 DEF DriverTypes
<1> QED BY <1>1, <1>2, <1>3, Zenon DEF DriverTypes

\* While boot executes, no write is on its way, and its steps give none.
LEMMA BootOurs ==
  ASSUME IInv, Ours, ~late, pc["irq"] = "idle", pc'["irq"] = "idle",
         UNCHANGED task \/ task'.command \in {"none", "read"}
  PROVE  Ours'
<1>1. task.command \notin {"write", "store"}
  BY Limits DEF Ours, WriteTask, StoreTask
<1>2. task'.command \notin {"write", "store"}
  BY <1>1
<1> QED BY <1>2 DEF Ours, WriteTask, StoreTask, Registers, Addressing

\* No step of the boot writes.
LEMMA BootStepOurs ==
  ASSUME IInv, Ours, Step("boot") \/ AtaInit
  PROVE  Ours'
<1> SUFFICES ASSUME ~late' PROVE Ours'
  BY DEF Ours
<1>1. pc["irq"] = "idle" /\ pc'["irq"] = "idle"
  BY IrqTypes DEF Step, WaitReady, SelectMaster, SetLow, SetHigh, SendCommand, PollBusy, PollData, MoveWord, ReadDone,
     Flush, WriteDone, Goto, Again, Return, At, AtaInit, locals, Contexts, Driver, IInv
<1>2. op["boot"] = "read"
  BY DEF IInv, Driver
<1>3. ~late
  BY DEF Step, WaitReady, SelectMaster, SetLow, SetHigh, SendCommand, PollBusy, PollData, MoveWord, ReadDone,
     Flush, WriteDone, AtaInit
<1>4. CASE MoveWord("boot")
  BY <1>1, <1>2, <1>3, <1>4, BootOurs DEF MoveWord, MoveThroughPort, Moved, Moves, NoTask
<1>5. CASE SendCommand("boot")
  BY <1>1, <1>2, <1>3, <1>5, BootOurs DEF SendCommand, OutCommand
<1>6. CASE ~MoveWord("boot") /\ ~SendCommand("boot")
  <2>1. UNCHANGED task
    BY <1>2, <1>6 DEF Step, WaitReady, SelectMaster, SetLow, SetHigh, PollBusy, PollData, ReadDone,
       Flush, WriteDone, AtaInit, OutDrive, OutLba, deviceVars
  <2> QED BY <1>1, <1>3, <2>1, BootOurs
<1> QED BY <1>4, <1>5, <1>6

\* A call begins when no write is on its way: the last one has waited for its end.
LEMMA CallOurs ==
  ASSUME IInv, Ours, NEW c \in Contexts, NEW o, NEW s, NEW b, Call(c, o, s, b)
  PROVE  Ours'
<1> SUFFICES ASSUME ~late' PROVE Ours'
  BY DEF Ours
<1>1. pc["irq"] = "idle" /\ pc'["irq"] \in {"idle", "wait"} /\ pc \in [Contexts -> Places]
      /\ (pc'["irq"] = "wait" => moved'["irq"] = 0)
  BY IrqTypes DEF Call, At, Contexts
<1>2. task.command \notin {"write", "store"} /\ task' = task
  <2>1. task' = task /\ (~late \/ Ready)
    BY DEF Call, deviceVars
  <2>2. CASE ~late
    BY <1>1, <2>1, <2>2, Limits DEF Ours, WriteTask, StoreTask
  <2>3. CASE Ready
    BY <2>1, <2>3, ReadyIs DEF IInv, Machine
  <2> QED BY <2>1, <2>2, <2>3
<1> QED BY <1>1, <1>2 DEF Ours, WriteTask, StoreTask, Registers, Addressing

\* The waiting loop after FLUSH ends when the sector is stored.
LEMMA WaitOurs ==
  ASSUME IInv, Ours, NEW from, NEW to, WaitReady("irq", from, to),
         <<from, to>> \in {<<"wait", "select">>, <<"settle", "low">>, <<"flush", "flushed">>}
  PROVE  Ours'
<1> SUFFICES ASSUME ~late' PROVE Ours'
  BY DEF Ours
<1>0. ~late /\ pc["irq"] = from /\ WriteTask /\ StoreTask /\ Registers
      /\ UNCHANGED <<selected, lba, status, task, cache, op, sector, buf, moved>>
  BY DEF Ours, WaitReady, At, busVars, deviceVars, Goto, Again, locals
<1>1. CASE Again("irq")
  BY <1>0, <1>1, IrqTypes DEF Again, Ours, WriteTask, StoreTask, Registers, Addressing, Loading, Busy
<1>2. CASE "BSY" \notin status /\ Goto("irq", to)
  <2>1. pc'["irq"] = to
    BY <1>2, IrqTypes, Limits DEF Goto
  <2>2. task.command \notin {"write", "store"}
    BY <1>0, <1>2 DEF WriteTask, StoreTask, IInv, Machine, Busy, Loading
  <2> QED BY <1>0, <1>2, <2>1, <2>2 DEF Ours, WriteTask, StoreTask, Registers, Addressing
<1> QED BY <1>0, <1>1, <1>2, IrqTypes DEF WaitReady

\* Registers that are set are the command's, or nothing takes them.
LEMMA SelectOurs ==
  ASSUME IInv, Ours, ~late, SelectMaster("irq") \/ SetLow("irq") \/ SetHigh("irq"), UNCHANGED calls
  PROVE  Ours'
<1>0. /\ WriteTask /\ StoreTask /\ Registers /\ UNCHANGED <<status, task, cache, op, sector, buf, moved>>
      /\ pc["irq"] \in {"select", "low", "high"}
      /\ pc \in [Contexts -> Places] /\ "irq" \in Contexts
      /\ lba \in Digits \X Digits /\ sector["irq"] \in Digits \X Digits
  BY IrqTypes, Limits DEF Ours, SelectMaster, SetLow, SetHigh, OutDrive, OutLba, Goto, At, locals, deviceVars, IInv, Types, DeviceTypes, Sectors
<1>1. task.command \notin {"write", "store"} /\ "BSY" \notin status /\ moved["irq"] = 0
  BY <1>0 DEF WriteTask, StoreTask, Registers, Addressing
<1>2. Ready <=> ~Busy
  BY ReadyIs
<1>3. CASE SelectMaster("irq")
  <2>1. pc'["irq"] = "settle"
    BY <1>0, <1>3 DEF SelectMaster, Goto
  <2> QED BY <1>0, <1>1, <2>1 DEF Ours, WriteTask, StoreTask, Registers, Addressing
<1>4. CASE SetLow("irq")
  <2>1. pc'["irq"] = "high" /\ (~Busy => lba' = [lba EXCEPT ![1] = sector["irq"][1]])
    BY <1>0, <1>2, <1>4 DEF SetLow, Goto, OutLba
  <2>2. ~Busy => lba'[1] = sector["irq"][1]
    BY <1>0, <2>1
  <2> QED BY <1>0, <1>1, <2>1, <2>2 DEF Ours, WriteTask, StoreTask, Registers, Addressing, Busy
<1>5. CASE SetHigh("irq")
  <2>1. pc'["irq"] = "command" /\ (~Busy => lba' = [lba EXCEPT ![2] = sector["irq"][2]])
    BY <1>0, <1>2, <1>5 DEF SetHigh, Goto, OutLba, At
  <2>2. ~Busy => lba'[2] = sector["irq"][2] /\ lba'[1] = sector["irq"][1]
    BY <1>0, <1>5, <2>1 DEF Registers, SetHigh, At
  <2> QED BY <1>0, <1>1, <2>1, <2>2 DEF Ours, WriteTask, StoreTask, Registers, Addressing, Busy
<1> QED BY <1>3, <1>4, <1>5

\* A command is for the sector it names, unless the device does not take it.
LEMMA SendOurs ==
  ASSUME IInv, Ours, ~late, SendCommand("irq"), UNCHANGED calls
  PROVE  Ours'
<1>0. /\ WriteTask /\ StoreTask /\ Registers /\ UNCHANGED <<lba, op, sector, buf, moved>>
      /\ pc["irq"] = "command" /\ pc'["irq"] = "poll"
      /\ lba \in Digits \X Digits /\ sector["irq"] \in Digits \X Digits
      /\ op["irq"] \in {"read", "write"}
  BY IrqTypes, Limits DEF Ours, SendCommand, OutCommand, Goto, At, locals, busVars, IInv, Types, DeviceTypes, Sectors
<1>1. task.command \notin {"write", "store"} /\ moved["irq"] = 0
  BY <1>0 DEF WriteTask, StoreTask, Registers, Addressing
<1>2. CASE UNCHANGED <<status, task, cache>>
  BY <1>0, <1>1, <1>2 DEF Ours, WriteTask, StoreTask, Registers, Addressing
<1>3. CASE Ready /\ task' = [command |-> op["irq"], sector |-> lba] /\ cache' = <<>>
  <2>1. lba = sector["irq"]
    <3>1. lba[1] = sector["irq"][1] /\ lba[2] = sector["irq"][2]
      BY <1>0, <1>3, ReadyIs DEF Registers
    <3> QED BY <1>0, <3>1
  <2>2. task'.command = op["irq"] /\ task'.sector = sector["irq"] /\ Len(cache') = 0
    BY <1>3, <2>1
  <2> QED BY <1>0, <1>1, <2>2 DEF Ours, WriteTask, StoreTask, Registers, Addressing, Loading
<1> QED BY <1>2, <1>3 DEF SendCommand, OutCommand

\* ata_poll leaves a write only to move its words.
LEMMA PollOurs ==
  ASSUME IInv, Ours, PollBusy("irq") \/ PollData("irq")
  PROVE  Ours'
<1> SUFFICES ASSUME ~late' PROVE Ours'
  BY DEF Ours
<1>0. /\ ~late /\ WriteTask /\ StoreTask /\ Registers
      /\ pc["irq"] \in {"poll", "drq"}
      /\ UNCHANGED <<lba, status, task, cache>>
      /\ pc \in [Contexts -> Places] /\ tries \in [Contexts -> 0 .. TIMEOUT] /\ "irq" \in Contexts
      /\ status \in {{}, {"BSY"}, {"DRQ"}, {"ERR"}} /\ Status = status
  BY IrqTypes, Limits DEF Ours, PollBusy, PollData, At, busVars, deviceVars
<1>1. moved["irq"] = 0 /\ task.command # "store"
  BY <1>0, Limits DEF StoreTask, Registers, Addressing
<1>2. task.command = "write" => "BSY" \in status \/ "DRQ" \in status
  BY DEF IInv, Machine, Busy
<1>3. CASE PollBusy("irq")
  <2>1. pc["irq"] = "poll"
    BY <1>3 DEF PollBusy, At
  <2>2. CASE Again("irq")
    BY <1>0, <1>1, <2>1, <2>2 DEF Again, locals, Ours, WriteTask, StoreTask, Registers, Addressing, Loading
  <2>3. CASE "BSY" \notin status /\ Goto("irq", "drq")
    <3>1. pc'["irq"] = "drq" /\ tries'["irq"] > 0 /\ UNCHANGED <<op, sector, buf, moved>>
      BY <1>0, <2>3, Limits DEF Goto, locals
    <3> QED BY <1>0, <1>1, <2>3, <3>1 DEF Ours, WriteTask, StoreTask, Registers, Addressing, Loading
  <2>4. CASE status = {"ERR"} /\ Return("irq")
    <3>1. pc'["irq"] = "idle" /\ task.command # "write"
      BY <1>0, <1>2, <2>4 DEF Return
    <3> QED BY <1>0, <1>1, <3>1 DEF Ours, WriteTask, StoreTask, Registers, Addressing
  <2> QED BY <1>0, <1>3, <2>2, <2>3, <2>4 DEF PollBusy
<1>4. CASE PollData("irq")
  <2>1. pc["irq"] = "drq" /\ (task.command = "write" => status = {"DRQ"} /\ tries["irq"] > 0)
    BY <1>0, <1>2, <1>4 DEF PollData, At, WriteTask
  <2>2. CASE Goto("irq", "words")
    <3>1. pc'["irq"] = "words" /\ UNCHANGED <<op, sector, buf, moved>>
      BY <1>0, <2>2 DEF Goto, locals
    <3> QED BY <1>0, <1>1, <2>1, <3>1 DEF Ours, WriteTask, StoreTask, Registers, Addressing, Loading
  <2>3. CASE task.command # "write" /\ Return("irq")
    <3>1. pc'["irq"] = "idle"
      BY <1>0, <2>3 DEF Return
    <3> QED BY <1>0, <1>1, <2>3, <3>1 DEF Ours, WriteTask, StoreTask, Registers, Addressing
  <2>4. CASE task.command # "write" /\ Again("irq")
    BY <1>0, <1>1, <2>1, <2>4 DEF Again, locals, Ours, WriteTask, StoreTask, Registers, Addressing
  <2> QED BY <1>0, <1>4, <2>1, <2>2, <2>3, <2>4 DEF PollData
<1> QED BY <1>3, <1>4

\* Word by word the device gets what the command has to write.
LEMMA MoveOurs ==
  ASSUME IInv, Ours, ~late, MoveWord("irq")
  PROVE  Ours'
<1>0. /\ WriteTask /\ StoreTask /\ Registers /\ UNCHANGED <<pc, op, sector, tries, lba>>
      /\ pc["irq"] = "words" /\ moved["irq"] < WORDS
      /\ moved \in [Contexts -> 0 .. WORDS] /\ "irq" \in Contexts
      /\ moved' = [moved EXCEPT !["irq"] = @ + 1]
      /\ moved["irq"] \in 0 .. WORDS
      /\ cache \in Seq(Words) /\ Len(cache) \in 0 .. WORDS
  BY IrqTypes, Limits DEF Ours, MoveWord, MoveThroughPort, At, busVars
<1>a. moved'["irq"] = moved["irq"] + 1
  BY <1>0
<1>1. task.command # "store"
  BY <1>0, Limits DEF StoreTask
<1>2. ASSUME task'.command \notin {"write", "store"} PROVE Ours'
  BY <1>0, <1>2 DEF Ours, WriteTask, StoreTask, Registers, Addressing
<1>3. CASE op["irq"] = "read"
  <2>1. task.command # "write"
    BY <1>0, <1>3 DEF WriteTask, Loading
  <2>2. MoveThroughPort("read", Port)
    BY <1>3 DEF MoveWord
  <2>3. task' = task \/ task' = NoTask
    BY <2>2 DEF MoveThroughPort, Moved, Moves
  <2>4. task'.command \notin {"write", "store"}
    BY <1>1, <2>1, <2>3 DEF NoTask
  <2> QED BY <1>2, <2>4
<1>4. CASE op["irq"] = "write" /\ UNCHANGED buf /\ MoveThroughPort("write", buf["irq"][moved["irq"] + 1])
  <2>1. CASE task.command # "write"
    <3>1. task' = task
      BY <1>4, <2>1 DEF MoveThroughPort, Moves
    <3> QED BY <1>1, <1>2, <2>1, <3>1
  <2>2. CASE task.command = "write"
    <3>1. /\ status = {"DRQ"} /\ Loading
      BY <1>0, <2>2, IrqTypes DEF WriteTask, IInv, Machine, Busy
    <3>2. cache' = Append(cache, buf["irq"][moved["irq"] + 1]) /\ Moved
      BY <1>4, <2>2, <3>1 DEF MoveThroughPort, Moves
    <3>3. Len(cache) = moved["irq"] /\ task.sector = sector["irq"] /\ \A i \in 1 .. Len(cache) : cache[i] = buf["irq"][i]
      BY <3>1 DEF Loading
    <3>4. /\ Len(cache') = moved["irq"] + 1 /\ cache'[moved["irq"] + 1] = buf["irq"][moved["irq"] + 1]
          /\ \A i \in 1 .. Len(cache) : cache'[i] = cache[i]
      BY <1>0, <3>2, <3>3
    <3>5. \A i \in 1 .. Len(cache') : cache'[i] = buf["irq"][i]
      BY <1>0, <3>3, <3>4
    <3>6. CASE Len(cache') < WORDS
      <4>1. UNCHANGED <<status, task>>
        BY <3>2, <3>6 DEF Moved
      <4>2. Loading'
        BY <1>0, <1>a, <1>4, <3>3, <3>4, <3>5, <4>1 DEF Loading
      <4> QED BY <1>0, <2>2, <3>1, <4>1, <4>2 DEF Ours, WriteTask, StoreTask, Registers, Addressing
    <3>7. CASE ~(Len(cache') < WORDS)
      <4>1. status' = {"BSY"} /\ task' = [task EXCEPT !.command = "store"]
        BY <2>2, <3>2, <3>7 DEF Moved
      <4>2. task'.command = "store" /\ task'.sector = sector["irq"]
        BY <3>3, <4>1, IrqTypes DEF IInv, Types, DeviceTypes
      <4>3. moved'["irq"] = WORDS /\ Len(cache') = WORDS
        BY <1>0, <1>a, <3>4, <3>7, Limits
      <4>4. cache' \in Seq(Words) /\ buf["irq"] \in Seq(Words) /\ Len(buf["irq"]) = WORDS
        <5>1. buf["irq"] \in Seq(Words) /\ Len(buf["irq"]) = WORDS
          BY <1>4, Limits DEF IInv, Types, Buffers, Driver
        <5>2. moved["irq"] + 1 \in 1 .. WORDS
          BY <1>0, Limits
        <5>3. buf["irq"][moved["irq"] + 1] \in Words
          BY <5>1, <5>2
        <5> QED BY <1>0, <3>2, <5>1, <5>3
      <4>5. cache' = buf["irq"]
        BY <3>5, <4>3, <4>4
      <4> QED BY <1>0, <1>4, <4>2, <4>3, <4>5 DEF Ours, WriteTask, StoreTask, Registers, Addressing
    <3> QED BY <3>6, <3>7
  <2> QED BY <2>1, <2>2
<1> QED BY <1>3, <1>4 DEF MoveWord

\* FLUSH does not disturb a sector that is being stored.
LEMMA FlushOurs ==
  ASSUME IInv, Ours, ~late, Flush("irq")
  PROVE  Ours'
<1>0. /\ WriteTask /\ StoreTask /\ Registers /\ UNCHANGED <<lba, op, sector, buf, moved>>
      /\ pc["irq"] = "words" /\ pc'["irq"] = "flush" /\ moved["irq"] = WORDS
  BY IrqTypes, Limits DEF Ours, Flush, OutCommand, Goto, At, locals, busVars
<1>1. task.command # "write"
  BY <1>0, Limits, IrqTypes DEF WriteTask, Loading, IInv, Machine, Busy
<1>2. CASE UNCHANGED <<status, task, cache>>
  BY <1>0, <1>1, <1>2 DEF Ours, WriteTask, StoreTask, Registers, Addressing
<1>3. CASE task' = [command |-> "flush", sector |-> lba]
  BY <1>0, <1>3 DEF Ours, WriteTask, StoreTask, Registers, Addressing
<1> QED BY <1>2, <1>3 DEF Flush, OutCommand

\* Nothing of a transfer that returns is left to write.
LEMMA DoneOurs ==
  ASSUME IInv, Ours, ~late, ReadDone("irq") \/ WriteDone("irq")
  PROVE  Ours'
<1>1. /\ WriteTask /\ StoreTask /\ task' = task /\ pc'["irq"] = "idle"
      /\ (pc["irq"] = "words" /\ op["irq"] = "read") \/ pc["irq"] = "flushed"
  BY IrqTypes, Limits DEF Ours, ReadDone, WriteDone, Return, At, deviceVars
<1>2. task.command \notin {"write", "store"}
  BY <1>1 DEF WriteTask, StoreTask, Loading
<1> QED BY <1>1, <1>2 DEF Ours, WriteTask, StoreTask, Registers, Addressing

\* The device goes from the command to the words, or ends.
LEMMA DeviceOurs ==
  ASSUME IInv, Ours, DeviceAnswers
  PROVE  Ours'
<1> SUFFICES ASSUME ~late' PROVE Ours'
  BY DEF Ours
<1>0. /\ ~late /\ WriteTask /\ StoreTask /\ Registers /\ "BSY" \in status
      /\ UNCHANGED <<pc, op, sector, buf, moved, tries, lba, cache>>
  BY DEF Ours, DeviceAnswers, driverVars, locals, busVars
<1>1. pc["irq"] \notin Addressing
  BY <1>0 DEF Registers
<1>2. Registers'
  BY <1>0, <1>1 DEF Registers, Addressing
<1>3. CASE status' = {"DRQ"} /\ task' = task
  BY <1>0, <1>2, <1>3 DEF Ours, WriteTask, StoreTask, Loading
<1>4. CASE task' = NoTask
  BY <1>2, <1>4 DEF Ours, WriteTask, StoreTask, NoTask
<1> QED BY <1>3, <1>4 DEF DeviceAnswers

\* Every step keeps Ours.
LEMMA OursStep == IInv /\ Ours /\ [Next]_vars => Ours'
<1> SUFFICES ASSUME IInv, Ours, [Next]_vars PROVE Ours'
  OBVIOUS
<1>1. CASE AtaInit \/ Step("boot")
  BY <1>1, BootStepOurs
<1>2. CASE Step("irq")
  <2>0. UNCHANGED calls
    BY <1>2 DEF Step
  <2>1. late => late'
    BY <1>2 DEF Step, WaitReady, SelectMaster, SetLow, SetHigh, SendCommand, PollBusy, PollData, MoveWord, ReadDone, Flush, WriteDone
  <2>2. CASE late
    BY <2>1, <2>2 DEF Ours
  <2>3. CASE ~late
    <3>1. CASE WaitReady("irq", "wait", "select") \/ WaitReady("irq", "settle", "low") \/ WaitReady("irq", "flush", "flushed")
      BY <3>1, WaitOurs
    <3>2. CASE SelectMaster("irq") \/ SetLow("irq") \/ SetHigh("irq") \/ SendCommand("irq")
      BY <2>0, <2>3, <3>2, SelectOurs, SendOurs
    <3>3. CASE PollBusy("irq") \/ PollData("irq")
      BY <3>3, PollOurs
    <3>4. CASE MoveWord("irq") \/ ReadDone("irq") \/ WriteDone("irq") \/ Flush("irq")
      BY <2>3, <3>4, MoveOurs, DoneOurs, FlushOurs
    <3> QED BY <1>2, <3>1, <3>2, <3>3, <3>4, Zenon DEF Step
  <2> QED BY <2>2, <2>3
<1>3. ASSUME NEW c \in Contexts, NEW s \in Asked, ReadSector(c, s) PROVE Ours'
  BY <1>3, CallOurs DEF ReadSector
<1>4. ASSUME NEW s \in Asked, NEW v \in 1 .. VERSIONS, WriteSector(s, v) PROVE Ours'
  BY <1>4, Limits, CallOurs DEF WriteSector
<1>5. CASE DeviceAnswers
  BY <1>5, DeviceOurs
<1>6. CASE UNCHANGED vars
  BY <1>6 DEF vars, driverVars, locals, busVars, deviceVars, Ours, WriteTask, StoreTask, Registers, Addressing, Loading, Busy
<1> QED BY <1>1, <1>2, <1>3, <1>4, <1>5, <1>6 DEF Next, Contexts

\* Whenever a command stops a transfer of the boot and however long the device takes:
\* as long as no loop of ata.c ran out of turns, a write goes to its own sector and
\* gives it its own words.
THEOREM WritesInPlace == Spec => WritesStayPut
<1>1. Init => Ours
  BY DEF Init, Ours, WriteTask, StoreTask, Registers, Addressing, NoTask, Contexts
<1>2. IInv /\ Ours /\ [Next]_vars =>
        [disk' # disk =>
           \/ late
           \/ /\ op["irq"] = "write" /\ pc["irq"] \in {"words", "flush"}
              /\ disk' = [disk EXCEPT ![sector["irq"]] = buf["irq"]]]_vars
  BY WritesStayPutStep
<1> QED BY InitI, IInvStep, OursStep, <1>1, <1>2, PTL DEF Spec, WritesStayPut

-----------------------------------------------------------------------------
(* What a transfer leaves behind. *)

\* Words move in the loop over words only.
Unmoved == \A c \in Contexts : pc[c] \notin {"words", "flush", "flushed"} => moved[c] = 0

\* The boot's read, interrupted while it polls or moves words; as many words are left
\* for it as it will ask for, or fewer.
BootLeft ==
  /\ pc["boot"] \in {"poll", "drq", "words"} /\ task.command = "read"
  /\ pc["boot"] = "drq" => "DRQ" \in status /\ tries["boot"] > 0
  /\ pc["boot"] = "words" => "DRQ" \in status /\ moved["boot"] <= Len(cache)

\* What the device may still have to do, by where the command is: the boot's read, or
\* the command's own task.
Left ==
  ~late /\ Busy =>
    \/ BootLeft /\ pc["irq"] \in {"idle", "wait"}
    \/ BootLeft /\ "DRQ" \in status /\ pc["irq"] \in Addressing \cup {"poll", "drq", "flush", "flushed"}
    \/ BootLeft /\ "DRQ" \in status /\ pc["irq"] = "words" /\ op["irq"] = "write"
    \/ task.command = op["irq"] /\ pc["irq"] = "poll"
    \/ task.command = op["irq"] /\ pc["irq"] = "drq" /\ "DRQ" \in status /\ tries["irq"] > 0
    \/ /\ task.command = "read" /\ pc["irq"] = "words" /\ op["irq"] = "read"
       /\ "DRQ" \in status /\ moved["irq"] <= Len(cache)
    \/ /\ task.command = "write" /\ pc["irq"] = "words" /\ op["irq"] = "write"
       /\ "DRQ" \in status /\ moved["irq"] < WORDS
    \/ task.command = "store" /\ pc["irq"] = "words" /\ op["irq"] = "write" /\ moved["irq"] = WORDS
    \/ task.command \in {"store", "flush"} /\ pc["irq"] = "flush"

\* Every step keeps Unmoved.
LEMMA UnmovedStep == IInv /\ Unmoved /\ [Next]_vars => Unmoved'
<1> SUFFICES ASSUME IInv, Unmoved, [Next]_vars PROVE Unmoved'
  OBVIOUS
<1>0. pc \in [Contexts -> Places] /\ moved \in [Contexts -> 0 .. WORDS] /\ "boot" \in Contexts
  BY Limits DEF IInv, Types, DriverTypes
<1>1. ASSUME NEW c \in Contexts, NEW to, Goto(c, to),
             pc[c] \in {"words", "flush", "flushed"} => to \in {"words", "flush", "flushed"}
      PROVE  Unmoved'
  BY <1>0, <1>1 DEF Unmoved, Goto, locals
<1>2. ASSUME NEW c \in Contexts, Return(c) PROVE Unmoved'
  BY <1>0, <1>2 DEF Unmoved, Return
<1>3. ASSUME UNCHANGED <<pc, moved>> PROVE Unmoved'
  BY <1>3 DEF Unmoved
<1>4. ASSUME NEW c \in Contexts, Step(c) PROVE Unmoved'
  <2>1. CASE MoveWord(c)
    BY <1>0, <2>1 DEF Unmoved, MoveWord, At
  <2>2. CASE WaitReady(c, "wait", "select") \/ WaitReady(c, "settle", "low") \/ WaitReady(c, "flush", "flushed")
    BY <1>1, <1>3, <2>2 DEF WaitReady, At, Again, locals
  <2>3. CASE SelectMaster(c) \/ SetLow(c) \/ SetHigh(c) \/ SendCommand(c) \/ Flush(c)
    BY <1>1, <2>3 DEF SelectMaster, SetLow, SetHigh, SendCommand, Flush, At
  <2>4. CASE PollBusy(c) \/ PollData(c)
    BY <1>1, <1>2, <1>3, <2>4 DEF PollBusy, PollData, At, Again, locals
  <2>5. CASE ReadDone(c) \/ WriteDone(c)
    BY <1>2, <2>5 DEF ReadDone, WriteDone
  <2> QED BY <1>4, <2>1, <2>2, <2>3, <2>4, <2>5, Zenon DEF Step
<1>5. ASSUME NEW c \in Contexts, NEW o, NEW s, NEW b, Call(c, o, s, b) PROVE Unmoved'
  BY <1>0, <1>5 DEF Unmoved, Call
<1>6. ASSUME NEW c \in Contexts, NEW s \in Asked, ReadSector(c, s) PROVE Unmoved'
  BY <1>5, <1>6 DEF ReadSector
<1>7. ASSUME NEW s \in Asked, NEW v \in 1 .. VERSIONS, WriteSector(s, v) PROVE Unmoved'
  BY <1>5, <1>7, Limits DEF WriteSector
<1>8. CASE AtaInit
  BY <1>0, <1>2, <1>8 DEF AtaInit
<1>9. CASE DeviceAnswers \/ UNCHANGED vars
  BY <1>3, <1>9 DEF DeviceAnswers, vars, driverVars, locals
<1> QED BY <1>4, <1>6, <1>7, <1>8, <1>9, Zenon DEF Next

\* The types a step of the boot needs.
LEMMA BootTypes ==
  ASSUME IInv
  PROVE  /\ moved["boot"] \in 0 .. WORDS /\ tries["boot"] \in 0 .. TIMEOUT
         /\ moved["irq"] \in 0 .. WORDS /\ tries["irq"] \in 0 .. TIMEOUT
         /\ op["boot"] = "read" /\ Len(cache) \in 0 .. WORDS
         /\ "boot" \in Contexts /\ "irq" \in Contexts /\ "boot" # "irq"
BY IrqTypes, Limits DEF IInv, Types, DriverTypes, Driver

\* While boot executes, only its own read can be on its way.
LEMMA IdleLeft ==
  /\ Left /\ ~late /\ pc["irq"] = "idle" /\ Busy => BootLeft
  /\ pc["irq"] = "idle" /\ (Busy => BootLeft) => Left
  /\ late => Left
  /\ ~Busy => Left
BY DEF Left, Addressing

\* The boot reads all the words of its task before it returns.
LEMMA BootStepLeft ==
  ASSUME IInv, Unmoved, Left, ~late, Step("boot")
  PROVE  Left'
<1> SUFFICES ASSUME ~late', Busy' PROVE Left'
  BY DEF Left
<1>0. pc["irq"] = "idle" /\ pc'["irq"] = "idle" /\ op["boot"] = "read"
  BY IrqTypes DEF Step, WaitReady, SelectMaster, SetLow, SetHigh, SendCommand, PollBusy, PollData, MoveWord, ReadDone,
     Flush, WriteDone, Goto, Again, Return, At, locals, Contexts, Driver, IInv
<1>1. Busy => BootLeft
  BY <1>0, IdleLeft
<1>2. SUFFICES BootLeft'
  BY <1>0 DEF Left
<1>3. ASSUME UNCHANGED <<status, task, cache>>, pc["boot"] \notin {"poll", "drq", "words"} PROVE FALSE
  BY <1>1, <1>3 DEF BootLeft, Busy
<1>4. CASE SendCommand("boot")
  <2>1. ~Busy /\ pc'["boot"] = "poll"
    BY <1>1, <1>4, IrqTypes, BootTypes DEF SendCommand, At, Goto, BootLeft
  <2>2. task'.command = "read"
    BY <1>0, <1>4, <2>1 DEF SendCommand, OutCommand, Busy
  <2> QED BY <2>1, <2>2 DEF BootLeft
<1>5. CASE PollBusy("boot")
  <2>0. pc["boot"] = "poll" /\ UNCHANGED <<status, task, cache>> /\ BootLeft
    BY <1>1, <1>5 DEF PollBusy, At, deviceVars, Busy
  <2>1. CASE Again("boot")
    BY <2>0, <2>1 DEF BootLeft, Again, locals
  <2>2. CASE "BSY" \notin status /\ Goto("boot", "drq")
    <3>1. pc'["boot"] = "drq" /\ tries'["boot"] > 0
      BY <2>2, IrqTypes, BootTypes, Limits DEF Goto
    <3>2. "DRQ" \in status'
      BY <2>0, <2>2 DEF Busy
    <3> QED BY <2>0, <3>1, <3>2 DEF BootLeft
  <2>3. CASE status = {"ERR"}
    BY <2>0, <2>3 DEF Busy
  <2> QED BY <1>5, <2>1, <2>2, <2>3, IrqTypes DEF PollBusy
<1>6. CASE PollData("boot")
  <2>0. pc["boot"] = "drq" /\ UNCHANGED <<status, task, cache>> /\ BootLeft /\ moved["boot"] = 0
    BY <1>1, <1>6, BootTypes DEF PollData, At, deviceVars, Busy, Unmoved
  <2>1. status = {"DRQ"} /\ tries["boot"] > 0
    BY <2>0, IrqTypes DEF BootLeft
  <2>2. Goto("boot", "words")
    <3>1. status # {"ERR"} /\ status \notin {{}, {"BSY"}}
      BY <2>1
    <3>2. tries["boot"] # 0
      BY <2>1, BootTypes
    <3> QED BY <1>6, <3>1, <3>2, IrqTypes DEF PollData
  <2>3. pc'["boot"] = "words" /\ moved'["boot"] = 0 /\ Len(cache') \in Nat
    BY <2>0, <2>2, IrqTypes, BootTypes DEF Goto, locals
  <2> QED BY <2>0, <2>1, <2>3, Limits DEF BootLeft
<1>7. CASE MoveWord("boot")
  <2>0. pc["boot"] = "words" /\ pc'["boot"] = "words" /\ MoveThroughPort("read", Port)
        /\ moved'["boot"] = moved["boot"] + 1 /\ UNCHANGED tries
    BY <1>0, <1>7, IrqTypes, BootTypes DEF MoveWord, At
  <2>1. Moves("read")
    BY <1>1, <2>0 DEF MoveThroughPort, Moves, BootLeft, Busy
  <2>2. task.command = "read" /\ moved["boot"] <= Len(cache) /\ status = {"DRQ"} /\ Len(cache') = Len(cache) + 1
    BY <1>1, <2>0, <2>1, IrqTypes DEF BootLeft, Moves, Busy, MoveThroughPort
  <2>3. UNCHANGED <<status, task>>
    BY <2>0, <2>1, <2>2 DEF MoveThroughPort, Moved, Busy
  <2>4. moved'["boot"] <= Len(cache')
    BY <2>0, <2>2, BootTypes
  <2> QED BY <2>0, <2>2, <2>3, <2>4 DEF BootLeft
<1>8. CASE ReadDone("boot")
  <2>1. pc["boot"] = "words" /\ moved["boot"] = WORDS /\ UNCHANGED <<status, task, cache>>
    BY <1>8 DEF ReadDone, At, deviceVars
  <2>2. WORDS <= Len(cache) /\ Len(cache) < WORDS
    BY <1>1, <2>1 DEF BootLeft, IInv, Machine, Busy
  <2> QED BY <2>2, BootTypes, Limits
<1>9. CASE \/ SelectMaster("boot") \/ SetLow("boot") \/ SetHigh("boot") \/ WriteDone("boot")
           \/ WaitReady("boot", "wait", "select") \/ WaitReady("boot", "settle", "low") \/ WaitReady("boot", "flush", "flushed")
  BY <1>3, <1>9 DEF SelectMaster, SetLow, SetHigh, WriteDone, WaitReady, OutDrive, OutLba, deviceVars, At
<1> QED BY <1>0, <1>4, <1>5, <1>6, <1>7, <1>8, <1>9 DEF Step, Flush

\* A command finds the device at rest, or with the boot's read.
LEMMA CallLeft ==
  ASSUME IInv, Left, NEW c \in Contexts, NEW o, NEW s, NEW b, Call(c, o, s, b)
  PROVE  Left'
<1> SUFFICES ASSUME ~late', Busy' PROVE Left'
  BY DEF Left
<1>1. Busy /\ ~late /\ UNCHANGED <<status, task, cache>>
  <2>1. UNCHANGED <<status, task, cache>> /\ (~late \/ Ready)
    BY DEF Call, deviceVars
  <2>2. Busy
    BY <2>1 DEF Busy
  <2> QED BY <2>1, <2>2, ReadyIs
<1>2. pc["irq"] = "idle" /\ pc["boot"] # "idle" => c = "irq"
  BY DEF Call, At, Contexts
<1>3. pc["irq"] = "idle"
  BY DEF Call, At, Contexts
<1>4. BootLeft
  BY <1>1, <1>3, IdleLeft
<1>5. c = "irq"
  BY <1>4 DEF BootLeft, Call, At, Contexts
<1>6. pc'["irq"] = "wait" /\ pc'["boot"] = pc["boot"] /\ moved'["boot"] = moved["boot"] /\ tries'["boot"] = tries["boot"]
  BY <1>5, IrqTypes, BootTypes DEF Call
<1> QED BY <1>1, <1>4, <1>6 DEF Left, BootLeft

\* A step of a command that leaves the device alone leaves the boot's read alone.
LEMMA BootLeftStays ==
  ASSUME IInv, UNCHANGED <<status, task, cache>>, BootLeft,
         (\E to : Goto("irq", to)) \/ Again("irq") \/ Return("irq")
  PROVE  BootLeft'
<1>1. pc'["boot"] = pc["boot"] /\ moved'["boot"] = moved["boot"] /\ tries'["boot"] = tries["boot"]
  BY IrqTypes, BootTypes DEF Goto, Again, Return, locals
<1> QED BY <1>1 DEF BootLeft

\* The steps of a command one by one.
LEMMA WaitLeft ==
  ASSUME IInv, Unmoved, Left, ~late, NEW from, NEW to, WaitReady("irq", from, to),
         <<from, to>> \in {<<"wait", "select">>, <<"settle", "low">>, <<"flush", "flushed">>}
  PROVE  Left'
<1> SUFFICES ASSUME ~late', Busy' PROVE Left'
  BY DEF Left
<1>0. Busy /\ pc["irq"] = from /\ UNCHANGED <<status, task, cache>>
  BY DEF WaitReady, At, deviceVars, Busy
<1>1. CASE Again("irq")
  BY <1>0, <1>1, BootLeftStays DEF Again, locals, Left, Addressing
<1>2. CASE "BSY" \notin status /\ Goto("irq", to)
  <2>1. "DRQ" \in status /\ task.command \in {"read", "write"} /\ pc'["irq"] = to
    BY <1>0, <1>2, IrqTypes, BootTypes DEF Busy, IInv, Machine, Goto
  <2>2. BootLeft
    BY <1>0, <2>1 DEF Left, Addressing
  <2>3. BootLeft'
    BY <1>0, <1>2, <2>2, BootLeftStays
  <2> QED BY <1>0, <2>1, <2>3 DEF Left, Addressing
<1> QED BY <1>1, <1>2, IrqTypes DEF WaitReady

LEMMA SelectLeft ==
  ASSUME IInv, Left, ~late, SelectMaster("irq") \/ SetLow("irq") \/ SetHigh("irq")
  PROVE  Left'
<1> SUFFICES ASSUME ~late', Busy' PROVE Left'
  BY DEF Left
<1>0. /\ UNCHANGED <<status, task, cache>> /\ Busy /\ pc["irq"] \in {"select", "low", "high"}
      /\ \E to \in {"settle", "high", "command"} : Goto("irq", to)
  BY DEF SelectMaster, SetLow, SetHigh, OutDrive, OutLba, At, deviceVars, Busy
<1>1. BootLeft /\ "DRQ" \in status
  BY <1>0 DEF Left, Addressing
<1>2. BootLeft' /\ pc'["irq"] \in {"settle", "high", "command"}
  BY <1>0, <1>1, BootLeftStays, IrqTypes, BootTypes DEF Goto
<1> QED BY <1>0, <1>1, <1>2 DEF Left, Addressing

LEMMA SendLeft ==
  ASSUME IInv, Left, ~late, SendCommand("irq")
  PROVE  Left'
<1> SUFFICES ASSUME ~late', Busy' PROVE Left'
  BY DEF Left
<1>0. pc["irq"] = "command" /\ pc'["irq"] = "poll" /\ op' = op /\ Goto("irq", "poll")
  BY IrqTypes, BootTypes DEF SendCommand, At, Goto, locals
<1>1. CASE UNCHANGED <<status, task, cache>>
  <2>1. Busy
    BY <1>1 DEF Busy
  <2>2. BootLeft /\ "DRQ" \in status
    BY <1>0, <2>1 DEF Left, Addressing
  <2>3. BootLeft'
    BY <1>0, <1>1, <2>2, BootLeftStays
  <2> QED BY <1>0, <1>1, <2>2, <2>3 DEF Left, Addressing
<1>2. CASE task' = [command |-> op["irq"], sector |-> lba]
  BY <1>0, <1>2 DEF Left
<1> QED BY <1>1, <1>2 DEF SendCommand, OutCommand

LEMMA PollLeft ==
  ASSUME IInv, Unmoved, Left, ~late, PollBusy("irq") \/ PollData("irq")
  PROVE  Left'
<1> SUFFICES ASSUME ~late', Busy' PROVE Left'
  BY DEF Left
<1>0. UNCHANGED <<status, task, cache>> /\ Busy /\ status \in {{"BSY"}, {"DRQ"}} /\ Status = status
  BY IrqTypes DEF PollBusy, PollData, deviceVars, Busy
<1>1. CASE PollBusy("irq")
  <2>0. pc["irq"] = "poll"
    BY <1>1 DEF PollBusy, At
  <2>1. CASE Again("irq")
    BY <1>0, <2>0, <2>1, BootLeftStays DEF Again, locals, Left, Addressing
  <2>2. CASE "BSY" \notin status /\ Goto("irq", "drq")
    <3>1. pc'["irq"] = "drq" /\ tries'["irq"] > 0 /\ op' = op /\ "DRQ" \in status
      BY <1>0, <2>2, IrqTypes, BootTypes, Limits DEF Goto, locals
    <3> QED BY <1>0, <2>0, <2>2, <3>1, BootLeftStays DEF Left, Addressing
  <2>3. status # {"ERR"}
    BY <1>0
  <2> QED BY <1>0, <1>1, <2>1, <2>2, <2>3 DEF PollBusy
<1>2. CASE PollData("irq")
  <2>0. pc["irq"] = "drq" /\ moved["irq"] = 0
    BY <1>2, BootTypes DEF PollData, At, Unmoved
  <2>1. "DRQ" \in status /\ (BootLeft \/ (task.command = op["irq"] /\ tries["irq"] > 0))
    BY <1>0, <2>0 DEF Left, Addressing
  <2>2. status = {"DRQ"} /\ status # {"ERR"} /\ status \notin {{}, {"BSY"}}
    BY <1>0, <2>1
  <2>3. CASE Goto("irq", "words")
    <3>1. pc'["irq"] = "words" /\ UNCHANGED op /\ moved'["irq"] = 0
      BY <2>0, <2>3, IrqTypes, BootTypes DEF Goto, locals
    <3>2. 0 <= Len(cache') /\ 0 < WORDS
      BY <1>0, BootTypes, Limits
    <3>3. CASE op["irq"] = "write" /\ BootLeft
      BY <1>0, <2>1, <2>3, <3>1, <3>3, BootLeftStays DEF Left
    <3>4. CASE op["irq"] = "read"
      <4>1. task.command = "read"
        BY <2>1, <3>4 DEF BootLeft
      <4> QED BY <1>0, <2>1, <3>1, <3>2, <3>4, <4>1 DEF Left
    <3>5. CASE op["irq"] = "write" /\ task.command = op["irq"]
      BY <1>0, <2>1, <3>1, <3>2, <3>5 DEF Left
    <3> QED BY <2>1, <3>3, <3>4, <3>5, IrqTypes, BootTypes
  <2>4. CASE tries["irq"] = 0 /\ Return("irq")
    <3>1. BootLeft /\ pc'["irq"] = "idle"
      BY <2>1, <2>4, IrqTypes, BootTypes DEF Return
    <3> QED BY <1>0, <2>4, <3>1, BootLeftStays DEF Left
  <2> QED BY <1>0, <1>2, <2>2, <2>3, <2>4 DEF PollData
<1> QED BY <1>1, <1>2

\* A command that reads takes the boot's words, one that writes leaves them.
LEMMA MoveLeft ==
  ASSUME IInv, Ours, Left, ~late, MoveWord("irq")
  PROVE  Left'
<1> SUFFICES ASSUME ~late', Busy' PROVE Left'
  BY DEF Left
<1>0. /\ pc["irq"] = "words" /\ moved["irq"] < WORDS /\ moved'["irq"] = moved["irq"] + 1
      /\ UNCHANGED <<pc, op, tries>> /\ moved'["boot"] = moved["boot"]
      /\ cache \in Seq(Words)
  BY IrqTypes, BootTypes DEF MoveWord, At
<1>1. ASSUME UNCHANGED <<status, task, cache>>
      PROVE  Busy /\ (BootLeft => BootLeft')
  BY <1>0, <1>1 DEF Busy, BootLeft
<1>2. CASE op["irq"] = "read" /\ MoveThroughPort("read", Port)
  <2>1. CASE Moves("read")
    <3>1. /\ task.command = "read" /\ "DRQ" \in status /\ Len(cache') = Len(cache) + 1 /\ Moved
      BY <1>0, <1>2, <2>1 DEF MoveThroughPort, Moves
    <3>2. UNCHANGED <<status, task>>
      BY <3>1 DEF Moved, Busy
    <3>3. Busy
      BY <3>1 DEF Busy
    <3>4. moved["irq"] <= Len(cache)
      BY <1>0, <1>2, <3>1, <3>3 DEF Left, Addressing
    <3>5. moved'["irq"] <= Len(cache')
      BY <1>0, <3>1, <3>4, BootTypes
    <3> QED BY <1>0, <1>2, <3>1, <3>2, <3>5 DEF Left
  <2>2. CASE ~Moves("read")
    <3>1. UNCHANGED <<status, task, cache>>
      BY <1>2, <2>2 DEF MoveThroughPort
    <3>2. Busy
      BY <1>1, <3>1
    <3>3. task.command = "read" /\ "DRQ" \in status
      BY <1>0, <1>2, <3>2 DEF Left, Addressing
    <3> QED BY <2>2, <3>3 DEF Moves
  <2> QED BY <2>1, <2>2
<1>3. CASE op["irq"] = "write" /\ MoveThroughPort("write", buf["irq"][moved["irq"] + 1])
  <2>1. CASE Moves("write")
    <3>1. /\ task.command = "write" /\ "DRQ" \in status /\ Len(cache') = Len(cache) + 1 /\ Moved
      BY <1>0, <1>3, <2>1 DEF MoveThroughPort, Moves
    <3>2. Len(cache) = moved["irq"]
      BY <3>1 DEF Ours, WriteTask, Loading
    <3>3. CASE Len(cache') < WORDS
      <4>1. UNCHANGED <<status, task>> /\ moved'["irq"] < WORDS
        BY <1>0, <3>1, <3>2, <3>3 DEF Moved
      <4> QED BY <1>0, <1>3, <3>1, <4>1 DEF Left
    <3>4. CASE ~(Len(cache') < WORDS)
      <4>1. task' = [task EXCEPT !.command = "store"]
        BY <3>1, <3>4 DEF Moved
      <4>2. task'.command = "store"
        BY <4>1 DEF IInv, Types, DeviceTypes
      <4>3. moved'["irq"] = WORDS
        BY <1>0, <3>1, <3>2, <3>4, BootTypes, Limits
      <4> QED BY <1>0, <1>3, <4>2, <4>3 DEF Left
    <3> QED BY <3>3, <3>4
  <2>2. CASE ~Moves("write")
    <3>1. UNCHANGED <<status, task, cache>>
      BY <1>3, <2>2 DEF MoveThroughPort
    <3>2. Busy /\ (BootLeft => BootLeft')
      BY <1>1, <3>1
    <3>3. moved["irq"] # WORDS
      BY <1>0, BootTypes, Limits
    <3>4. BootLeft /\ "DRQ" \in status
      BY <1>0, <1>3, <2>2, <3>2, <3>3 DEF Left, Addressing, Moves
    <3> QED BY <1>0, <1>3, <3>1, <3>2, <3>4 DEF Left
  <2> QED BY <2>1, <2>2
<1> QED BY <1>2, <1>3 DEF MoveWord

\* FLUSH comes after the last word.
LEMMA FlushLeft ==
  ASSUME IInv, Left, ~late, Flush("irq")
  PROVE  Left'
<1> SUFFICES ASSUME ~late', Busy' PROVE Left'
  BY DEF Left
<1>0. /\ pc["irq"] = "words" /\ pc'["irq"] = "flush" /\ moved["irq"] = WORDS /\ op["irq"] = "write"
      /\ Goto("irq", "flush")
  BY IrqTypes, BootTypes DEF Flush, At, Goto
<1>1. CASE UNCHANGED <<status, task, cache>>
  <2>1. Busy
    BY <1>1 DEF Busy
  <2>2. (BootLeft /\ "DRQ" \in status) \/ task.command = "store"
    BY <1>0, <2>1, BootTypes, Limits DEF Left, Addressing
  <2>3. CASE BootLeft /\ "DRQ" \in status
    BY <1>0, <1>1, <2>3, BootLeftStays DEF Left, Addressing
  <2>4. CASE task.command = "store"
    BY <1>0, <1>1, <2>4 DEF Left
  <2> QED BY <2>2, <2>3, <2>4
<1>2. CASE task' = [command |-> "flush", sector |-> lba]
  BY <1>0, <1>2 DEF Left
<1> QED BY <1>1, <1>2 DEF Flush, OutCommand

\* A transfer that returns has left nothing of its own.
LEMMA DoneLeft ==
  ASSUME IInv, Left, ~late, ReadDone("irq") \/ WriteDone("irq")
  PROVE  Left'
<1> SUFFICES ASSUME ~late', Busy' PROVE Left'
  BY DEF Left
<1>0. /\ UNCHANGED <<status, task, cache>> /\ Busy /\ Return("irq") /\ pc'["irq"] = "idle"
      /\ \/ pc["irq"] = "words" /\ op["irq"] = "read" /\ moved["irq"] = WORDS
         \/ pc["irq"] = "flushed"
  BY IrqTypes, BootTypes DEF ReadDone, WriteDone, Return, At, deviceVars, Busy
<1>1. CASE pc["irq"] = "flushed"
  <2>1. BootLeft
    BY <1>0, <1>1 DEF Left, Addressing
  <2> QED BY <1>0, <2>1, BootLeftStays DEF Left
<1>2. CASE pc["irq"] = "words" /\ op["irq"] = "read" /\ moved["irq"] = WORDS
  <2>1. "DRQ" \in status /\ moved["irq"] <= Len(cache)
    BY <1>0, <1>2 DEF Left, Addressing
  <2>2. Len(cache) < WORDS
    BY <2>1 DEF IInv, Machine
  <2> QED BY <1>2, <2>1, <2>2, BootTypes, Limits
<1> QED BY <1>0, <1>1, <1>2

\* An answer changes neither of whom the task is nor for what.
LEMMA DeviceLeft ==
  ASSUME IInv, Left, ~late, DeviceAnswers
  PROVE  Left'
<1> SUFFICES ASSUME ~late', Busy' PROVE Left'
  BY DEF Left
<1>0. /\ "BSY" \in status /\ UNCHANGED <<pc, op, moved, tries, cache>> /\ Busy /\ "DRQ" \notin status
  BY IrqTypes DEF DeviceAnswers, driverVars, locals, Busy
<1>1. status' = {"DRQ"} /\ task' = task /\ task.command \in {"read", "write"}
  BY DEF DeviceAnswers, Busy
<1>2. BootLeft => BootLeft'
  BY <1>0, <1>1 DEF BootLeft
<1> QED BY <1>0, <1>1, <1>2 DEF Left, Addressing

\* Every step keeps Left.
LEMMA LeftStep == IInv /\ Ours /\ Unmoved /\ Left /\ [Next]_vars => Left'
<1> SUFFICES ASSUME IInv, Ours, Unmoved, Left, [Next]_vars PROVE Left'
  OBVIOUS
<1>1. ASSUME NEW c \in Contexts, Step(c) PROVE Left'
  <2>0. late => late'
    BY <1>1 DEF Step, WaitReady, SelectMaster, SetLow, SetHigh, SendCommand, PollBusy, PollData, MoveWord, ReadDone, Flush, WriteDone
  <2>1. CASE late
    BY <2>0, <2>1 DEF Left
  <2>2. CASE ~late /\ c = "boot"
    BY <1>1, <2>2, BootStepLeft
  <2>3. CASE ~late /\ c = "irq"
    <3>1. CASE WaitReady("irq", "wait", "select") \/ WaitReady("irq", "settle", "low") \/ WaitReady("irq", "flush", "flushed")
      BY <2>3, <3>1, WaitLeft
    <3>2. CASE SelectMaster("irq") \/ SetLow("irq") \/ SetHigh("irq") \/ SendCommand("irq")
      BY <2>3, <3>2, SelectLeft, SendLeft
    <3>3. CASE PollBusy("irq") \/ PollData("irq")
      BY <2>3, <3>3, PollLeft
    <3>4. CASE MoveWord("irq") \/ ReadDone("irq") \/ WriteDone("irq") \/ Flush("irq")
      BY <2>3, <3>4, MoveLeft, DoneLeft, FlushLeft
    <3> QED BY <1>1, <2>3, <3>1, <3>2, <3>3, <3>4, Zenon DEF Step
  <2> QED BY <2>1, <2>2, <2>3 DEF Contexts
<1>2. ASSUME NEW c \in Contexts, NEW s \in Asked, ReadSector(c, s) PROVE Left'
  BY <1>2, CallLeft DEF ReadSector
<1>3. ASSUME NEW s \in Asked, NEW v \in 1 .. VERSIONS, WriteSector(s, v) PROVE Left'
  BY <1>3, Limits, CallLeft DEF WriteSector
<1>4. CASE AtaInit
  <2>1. status' = {}
    BY <1>4 DEF AtaInit, At, IInv, Driver, deviceVars
  <2> QED BY <2>1 DEF Left, Busy
<1>5. CASE DeviceAnswers
  BY <1>5, DeviceLeft DEF DeviceAnswers, Left
<1>6. CASE UNCHANGED vars
  BY <1>6 DEF vars, driverVars, locals, busVars, deviceVars, Left, BootLeft, Addressing, Busy
<1> QED BY <1>1, <1>2, <1>3, <1>4, <1>5, <1>6, Zenon DEF Next

-----------------------------------------------------------------------------
(* A transfer that nothing comes between. *)

\* The other context, and a task of this one.
Other(c) == IF c = "boot" THEN "irq" ELSE "boot"

Mine(c) == task.command = op[c] /\ task.sector = sector[c]

Stored == disk[sector["irq"]] = buf["irq"] \/ refused

\* The transfer TransfersAreTrue is about.
Clean(c) == ~late /\ c \notin cut /\ pc[c] \notin {"off", "idle"}

\* Until the command is sent the device is at rest and takes the registers;
Addressed(c) ==
  /\ pc[c] \in {"wait"} \cup Addressing => ~Busy
  /\ pc[c] \in {"settle", "low", "high", "command"} => selected = "master"
  /\ pc[c] \in {"high", "command"} => lba[1] = sector[c][1]
  /\ pc[c] = "command" => lba[2] = sector[c][2]

\* it then has the transfer's task, or has failed;
Answered(c) ==
  /\ pc[c] = "poll" => (Mine(c) /\ cache = <<>>) \/ status = {"ERR"}
  /\ pc[c] = "drq" => Mine(c) /\ cache = <<>> /\ status = {"DRQ"} /\ tries[c] > 0

\* word by word buffer and sector agree, and the last word is being stored or is;
Moving(c) ==
  /\ pc[c] = "words" /\ moved[c] < WORDS => Mine(c) /\ status = {"DRQ"} /\ Len(cache) = moved[c]
  /\ pc[c] = "words" /\ op[c] = "read" => \A i \in 1 .. moved[c] : buf[c][i] = disk[sector[c]][i]
  /\ pc[c] = "words" /\ op[c] = "write" /\ moved[c] = WORDS => task.command = "store" \/ (~Busy /\ Stored)

\* after FLUSH likewise.
Flushing(c) ==
  pc[c] \in {"flush", "flushed"} =>
    op[c] = "write" /\ (task.command = "store" \/ (Stored /\ task.command \in {"none", "flush"}))

Progress(c) == pc[Other(c)] = "idle" /\ Addressed(c) /\ Answered(c) /\ Moving(c) /\ Flushing(c)

Progresses == \A c \in Contexts : Clean(c) => Progress(c)

\* A sequence and a sector of the same words are the same.
LEMMA SameWords ==
  ASSUME NEW S, NEW T, NEW n \in Nat, NEW f \in Seq(S), Len(f) = n, NEW g \in [1 .. n -> T],
         \A i \in 1 .. n : f[i] = g[i]
  PROVE  f = g
<1>1. f \in [1 .. n -> S]
  OBVIOUS
<1> QED BY <1>1

\* At its return such a transfer is true.
LEMMA Transferred ==
  ASSUME IInv, Ours, Progresses, NEW c \in Contexts, ~late, c \notin cut
  PROVE  /\ ReadDone(c) => buf[c] = disk[sector[c]]
         /\ WriteDone(c) => disk[sector[c]] = buf[c] \/ refused
<1>1. ASSUME ReadDone(c) PROVE buf[c] = disk[sector[c]]
  <2>0. pc[c] = "words" /\ moved[c] = WORDS /\ op[c] = "read"
    BY <1>1 DEF ReadDone, At
  <2>1. \A i \in 1 .. WORDS : buf[c][i] = disk[sector[c]][i]
    BY <2>0 DEF Progresses, Progress, Clean, Moving
  <2>2. buf[c] \in Seq(Words \cup {Junk}) /\ Len(buf[c]) = WORDS
    BY <2>0 DEF IInv, Types, Buffers
  <2>3. disk[sector[c]] \in [1 .. WORDS -> Words]
    BY DEF IInv, Types, DriverTypes, DeviceTypes
  <2>4. WORDS \in Nat
    BY Limits
  <2> QED BY <2>1, <2>2, <2>3, <2>4, SameWords
<1>2. ASSUME WriteDone(c) PROVE disk[sector[c]] = buf[c] \/ refused
  <2>0. pc[c] = "flushed"
    BY <1>2 DEF WriteDone, At
  <2>1. op[c] = "write" /\ (task.command = "store" \/ Stored)
    BY <2>0 DEF Progresses, Progress, Clean, Flushing
  <2>2. c = "irq"
    BY <2>1 DEF IInv, Driver, Contexts
  <2>3. task.command # "store"
    BY <2>0, <2>2 DEF Ours, StoreTask
  <2> QED BY <2>1, <2>2, <2>3 DEF Stored
<1> QED BY <1>1, <1>2

\* While one context executes a transfer nothing came between, the other is idle.
LEMMA OneProgresses ==
  ASSUME IInv, Progresses, NEW c \in Contexts, Step(c),
         Clean(c) /\ Progress(c) /\ ~late /\ pc'[Other(c)] = "idle" /\ Clean(c)' => Progress(c)'
  PROVE  Progresses'
<1> SUFFICES ASSUME NEW d \in Contexts, Clean(d)' PROVE Progress(d)'
  BY DEF Progresses
<1>0. ~late /\ cut' = cut
  BY DEF Clean, Step, WaitReady, SelectMaster, SetLow, SetHigh, SendCommand, PollBusy, PollData, MoveWord, ReadDone, Flush, WriteDone
<1>1. pc[c] \notin {"off", "idle"} /\ pc \in [Contexts -> Places]
  BY DEF Step, WaitReady, SelectMaster, SetLow, SetHigh, SendCommand, PollBusy, PollData, MoveWord, ReadDone,
     Flush, WriteDone, At, IInv, Types, DriverTypes
<1>2. \A e \in Contexts : e # c => pc'[e] = pc[e]
  BY <1>1 DEF Step, WaitReady, SelectMaster, SetLow, SetHigh, SendCommand, PollBusy, PollData, MoveWord, ReadDone,
     Flush, WriteDone, Goto, Again, Return
<1>3. CASE d # c
  <2>1. Clean(d)
    BY <1>0, <1>2, <1>3 DEF Clean
  <2>2. pc[Other(d)] = "idle" /\ Other(d) = c
    BY <2>1, <1>3 DEF Progresses, Progress, Other, Contexts
  <2> QED BY <1>1, <2>2
<1>4. CASE d = c
  <2>1. Clean(c) /\ Progress(c)
    BY <1>0, <1>1, <1>4 DEF Clean, Progresses
  <2>2. Other(c) \in Contexts /\ Other(c) # c
    BY DEF Other, Contexts
  <2>3. pc'[Other(c)] = "idle"
    BY <1>2, <2>1, <2>2 DEF Progress
  <2> QED BY <1>0, <1>4, <2>1, <2>3
<1> QED BY <1>3, <1>4

\* The types a step of either context needs.
LEMMA ContextTypes ==
  ASSUME IInv, NEW c \in Contexts
  PROVE  /\ moved[c] \in 0 .. WORDS /\ tries[c] \in 0 .. TIMEOUT /\ Len(cache) \in 0 .. WORDS
         /\ op[c] \in {"read", "write"} /\ (op[c] = "write" => c = "irq")
         /\ status \in {{}, {"BSY"}, {"DRQ"}, {"ERR"}} /\ Status = status /\ (Ready <=> ~Busy)
         /\ pc \in [Contexts -> Places] /\ moved \in [Contexts -> 0 .. WORDS] /\ tries \in [Contexts -> 0 .. TIMEOUT]
         /\ buf \in [Contexts -> Seq(Words \cup {Junk})]
         /\ lba \in Digits \X Digits /\ sector[c] \in Digits \X Digits
         /\ cache \in Seq(Words)
BY IrqTypes, ReadyIs DEF IInv, Types, DriverTypes, DeviceTypes, Buffers, Driver, Contexts, Sectors

\* The steps of a transfer one by one.
LEMMA WaitProgress ==
  ASSUME IInv, Ours, NEW c \in Contexts, Clean(c), Progress(c), pc'[Other(c)] = "idle", Clean(c)', ~late,
         NEW from, NEW to, WaitReady(c, from, to),
         <<from, to>> \in {<<"wait", "select">>, <<"settle", "low">>, <<"flush", "flushed">>}
  PROVE  Progress(c)'
<1>0. /\ pc[c] = from /\ UNCHANGED <<selected, lba, status, task, cache, disk, refused, op, sector, buf, moved>>
      /\ ~late'
  BY DEF WaitReady, At, busVars, deviceVars, Goto, Again, locals, Clean
<1>1. CASE Again(c)
  <2>1. pc' = pc
    BY <1>1 DEF Again
  <2> QED BY <1>0, <2>1 DEF Progress, Addressed, Answered, Moving, Flushing, Mine, Busy, Stored, Addressing
<1>2. CASE Goto(c, to)
  <2>1. pc'[c] = to
    BY <1>2, ContextTypes DEF Goto
  <2> QED BY <1>0, <2>1 DEF Progress, Addressed, Answered, Moving, Flushing, Mine, Busy, Stored, Addressing
<1> QED BY <1>1, <1>2 DEF WaitReady

LEMMA SelectProgress ==
  ASSUME IInv, NEW c \in Contexts, Progress(c), pc'[Other(c)] = "idle",
         SelectMaster(c) \/ SetLow(c) \/ SetHigh(c)
  PROVE  Progress(c)'
<1>0. UNCHANGED <<status, task, cache, disk, refused, op, sector, buf, moved>>
  BY DEF SelectMaster, SetLow, SetHigh, OutDrive, OutLba, Goto, locals, deviceVars
<1>1. pc[c] \in {"select", "low", "high"} /\ ~Busy /\ Ready /\ ~Busy'
  BY <1>0, ContextTypes DEF SelectMaster, SetLow, SetHigh, At, Progress, Addressed, Addressing, Busy
<1>2. CASE SelectMaster(c)
  <2>1. pc'[c] = "settle" /\ selected' = "master"
    BY <1>1, <1>2, ContextTypes DEF SelectMaster, Goto, OutDrive
  <2> QED BY <1>1, <2>1 DEF Progress, Addressed, Answered, Moving, Flushing, Addressing
<1>3. CASE SetLow(c)
  <2>1. pc'[c] = "high" /\ selected' = selected /\ lba' = [lba EXCEPT ![1] = sector[c][1]] /\ pc[c] = "low"
    BY <1>1, <1>3, ContextTypes DEF SetLow, Goto, OutLba, At
  <2>2. lba'[1] = sector'[c][1]
    BY <1>0, <2>1, ContextTypes
  <2> QED BY <1>1, <2>1, <2>2 DEF Progress, Addressed, Answered, Moving, Flushing, Addressing
<1>4. CASE SetHigh(c)
  <2>1. pc'[c] = "command" /\ selected' = selected /\ lba' = [lba EXCEPT ![2] = sector[c][2]] /\ pc[c] = "high"
    BY <1>1, <1>4, ContextTypes DEF SetHigh, Goto, OutLba, At
  <2>2. lba'[2] = sector'[c][2] /\ lba'[1] = lba[1]
    BY <1>0, <2>1, ContextTypes
  <2> QED BY <1>0, <1>1, <2>1, <2>2 DEF Progress, Addressed, Answered, Moving, Flushing, Addressing
<1> QED BY <1>2, <1>3, <1>4

LEMMA SendProgress ==
  ASSUME IInv, NEW c \in Contexts, Progress(c), pc'[Other(c)] = "idle", SendCommand(c)
  PROVE  Progress(c)'
<1>1. pc[c] = "command" /\ pc'[c] = "poll" /\ UNCHANGED <<op, sector>>
  BY ContextTypes DEF SendCommand, Goto, At, locals
<1>2. Ready /\ selected = "master" /\ lba[1] = sector[c][1] /\ lba[2] = sector[c][2]
  BY <1>1, ContextTypes DEF Progress, Addressed, Addressing
<1>3. lba = sector[c]
  <2>1. lba \in Digits \X Digits /\ sector[c] \in Digits \X Digits
    BY ContextTypes
  <2> QED BY <1>2, <2>1
<1>4. task' = [command |-> op[c], sector |-> lba] /\ cache' = <<>>
  BY <1>2 DEF SendCommand, OutCommand
<1>5. Mine(c)'
  BY <1>1, <1>3, <1>4 DEF Mine
<1> QED BY <1>1, <1>4, <1>5 DEF Progress, Addressed, Answered, Moving, Flushing, Addressing

LEMMA PollProgress ==
  ASSUME IInv, Unmoved, NEW c \in Contexts, Progress(c), pc'[Other(c)] = "idle", PollBusy(c) \/ PollData(c),
         Clean(c)'
  PROVE  Progress(c)'
<1>0. /\ UNCHANGED <<status, task, cache, disk, refused>> /\ ~late' /\ pc'[c] # "idle"
      /\ pc[c] \in {"poll", "drq"} /\ moved[c] = 0
  BY DEF PollBusy, PollData, deviceVars, Clean, At, Unmoved
<1>1. CASE Again(c)
  <2>1. UNCHANGED <<pc, op, sector, buf, moved>>
    BY <1>1 DEF Again, locals
  <2>2. pc[c] = "drq" => FALSE
    <3>1. ASSUME pc[c] = "drq" PROVE FALSE
      <4>1. status = {"DRQ"} /\ tries[c] > 0 /\ PollData(c)
        BY <3>1 DEF Progress, Answered, PollBusy, PollData, At
      <4>2. status # {"ERR"} /\ status \notin {{}, {"BSY"}}
        BY <4>1
      <4>4. tries[c] # 0
        BY <4>1, ContextTypes
      <4>3. Goto(c, "words")
        BY <4>1, <4>2, <4>4, ContextTypes DEF PollData
      <4> QED BY <2>1, <3>1, <4>3, ContextTypes DEF Goto
    <3> QED BY <3>1
  <2> QED BY <1>0, <2>1, <2>2 DEF Progress, Addressed, Answered, Moving, Flushing, Addressing, Mine, Stored, Busy
<1>2. CASE "BSY" \notin status /\ Goto(c, "drq") /\ status # {"ERR"} /\ pc[c] = "poll"
  <2>1. pc'[c] = "drq" /\ tries'[c] > 0 /\ UNCHANGED <<op, sector, buf, moved>>
    BY <1>2, ContextTypes, Limits DEF Goto, locals
  <2>2. Mine(c) /\ cache = <<>>
    BY <1>2 DEF Progress, Answered
  <2>3. status = {"DRQ"}
    <3>1. task.command # "none"
      BY <2>2, ContextTypes DEF Mine
    <3>2. Busy
      BY <3>1 DEF IInv, Machine
    <3>3. status \in {{}, {"BSY"}, {"DRQ"}, {"ERR"}}
      BY ContextTypes
    <3> QED BY <1>2, <3>2, <3>3 DEF Busy
  <2> QED BY <1>0, <2>1, <2>2, <2>3 DEF Progress, Addressed, Answered, Moving, Flushing, Addressing, Mine
<1>3. CASE Goto(c, "words") /\ pc[c] = "drq"
  <2>1. pc'[c] = "words" /\ UNCHANGED <<op, sector, buf, moved>>
    BY <1>3, ContextTypes DEF Goto, locals
  <2>2. Mine(c) /\ cache = <<>> /\ status = {"DRQ"} /\ Len(cache) = 0
    BY <1>3 DEF Progress, Answered
  <2>3. moved'[c] # WORDS /\ \A i \in 1 .. moved'[c] : FALSE
    BY <1>0, <2>1, Limits
  <2> QED BY <1>0, <2>1, <2>2, <2>3 DEF Progress, Addressed, Answered, Moving, Flushing, Addressing, Mine
<1>4. ~Return(c)
  BY <1>0, ContextTypes DEF Return
<1>5. ASSUME PollBusy(c) PROVE Again(c) \/ ("BSY" \notin status /\ Goto(c, "drq") /\ status # {"ERR"} /\ pc[c] = "poll")
  <2>1. Status \in {{}, {"DRQ"}} => "BSY" \notin Status /\ Status # {"ERR"}
    OBVIOUS
  <2> QED BY <1>0, <1>4, <1>5, <2>1, ContextTypes DEF PollBusy, At
<1> QED BY <1>1, <1>2, <1>3, <1>4, <1>5 DEF PollData, At

\* A word that moves is a word of the sector the transfer is for.
LEMMA MoveProgress ==
  ASSUME IInv, NEW c \in Contexts, Progress(c), pc'[Other(c)] = "idle", MoveWord(c)
  PROVE  Progress(c)'
<1>0. /\ pc[c] = "words" /\ moved[c] < WORDS /\ UNCHANGED <<pc, op, sector, tries>>
      /\ moved'[c] = moved[c] + 1 /\ cache \in Seq(Words) /\ moved[c] \in 0 .. WORDS
      /\ op[c] \in {"read", "write"}
  BY ContextTypes DEF MoveWord, At
<1>1. task.command = op[c] /\ task.sector = sector[c] /\ status = {"DRQ"} /\ Len(cache) = moved[c]
  BY <1>0 DEF Progress, Moving, Mine
<1>2. Moves(op[c])
  BY <1>1 DEF Moves
<1>3. ASSUME NEW word, MoveThroughPort(op[c], word)
      PROVE  /\ UNCHANGED disk /\ Moved /\ Len(cache') = moved'[c]
             /\ moved'[c] < WORDS => UNCHANGED <<status, task>>
  <2>1. UNCHANGED disk /\ cache' = Append(cache, word) /\ Moved
    BY <1>2, <1>3 DEF MoveThroughPort
  <2>2. Len(cache') = moved'[c]
    BY <1>0, <1>1, <2>1
  <2> QED BY <2>1, <2>2 DEF Moved
<1>4. CASE op[c] = "read" /\ MoveThroughPort("read", Port) /\ buf' = [buf EXCEPT ![c] = Append(@, Port)]
  <2>1. UNCHANGED disk /\ Len(cache') = moved'[c] /\ (moved'[c] < WORDS => UNCHANGED <<status, task>>)
    BY <1>3, <1>4
  <2>2. Port = disk[sector[c]][moved[c] + 1]
    BY <1>1, <1>2, <1>4 DEF Port
  <2>3. \A i \in 1 .. moved[c] : buf[c][i] = disk[sector[c]][i]
    BY <1>0, <1>4 DEF Progress, Moving
  <2>4. buf[c] \in Seq(Words \cup {Junk}) /\ Len(buf[c]) = moved[c] /\ buf \in [Contexts -> Seq(Words \cup {Junk})]
    BY <1>4 DEF IInv, Types, Buffers
  <2>5. buf'[c] = Append(buf[c], Port)
    BY <1>4, <2>4
  <2>6. buf'[c][moved[c] + 1] = Port /\ \A i \in 1 .. moved[c] : buf'[c][i] = buf[c][i]
    BY <1>0, <2>4, <2>5
  <2>7. \A i \in 1 .. moved'[c] : buf'[c][i] = disk'[sector'[c]][i]
    <3> SUFFICES ASSUME NEW i \in 1 .. moved'[c] PROVE buf'[c][i] = disk[sector[c]][i]
      BY <1>0, <2>1
    <3>1. CASE i = moved[c] + 1
      BY <2>2, <2>6, <3>1
    <3>2. CASE i # moved[c] + 1
      <4>1. i \in 1 .. moved[c]
        BY <1>0, <3>2
      <4> QED BY <2>3, <2>6, <4>1
    <3> QED BY <3>1, <3>2
  <2>8. Moving(c)'
    BY <1>0, <1>1, <1>4, <2>1, <2>7 DEF Moving, Mine
  <2> QED BY <1>0, <2>8 DEF Progress, Addressed, Answered, Flushing, Addressing
<1>5. CASE op[c] = "write" /\ MoveThroughPort("write", buf[c][moved[c] + 1])
  <2>1. Moved /\ Len(cache') = moved'[c] /\ (moved'[c] < WORDS => UNCHANGED <<status, task>>)
    BY <1>3, <1>5
  <2>2. moved'[c] = WORDS => task' = [task EXCEPT !.command = "store"]
    BY <1>1, <1>5, <2>1, Limits DEF Moved
  <2>3. moved'[c] = WORDS => task'.command = "store"
    BY <2>2 DEF IInv, Types, DeviceTypes
  <2>4. Moving(c)'
    BY <1>0, <1>1, <1>5, <2>1, <2>3 DEF Moving, Mine
  <2> QED BY <1>0, <2>4 DEF Progress, Addressed, Answered, Flushing, Addressing
<1> QED BY <1>4, <1>5 DEF MoveWord

\* FLUSH changes neither what is stored nor what is being stored.
LEMMA FlushProgress ==
  ASSUME IInv, NEW c \in Contexts, Progress(c), pc'[Other(c)] = "idle", Flush(c)
  PROVE  Progress(c)'
<1>0. /\ pc[c] = "words" /\ moved[c] = WORDS /\ op[c] = "write" /\ pc'[c] = "flush"
      /\ UNCHANGED <<op, sector, buf, moved, disk>> /\ OutCommand("flush")
  BY ContextTypes DEF Flush, At, Goto, locals, OutCommand
<1>1. task.command = "store" \/ (~Busy /\ Stored)
  BY <1>0 DEF Progress, Moving
<1>2. CASE task.command = "store"
  <2>1. UNCHANGED task
    BY <1>0, <1>2, ContextTypes DEF OutCommand, IInv, Machine
  <2> QED BY <1>0, <1>2, <2>1 DEF Progress, Addressed, Answered, Moving, Flushing, Addressing
<1>3. CASE ~Busy /\ Stored
  <2>1. task.command = "none"
    BY <1>3 DEF IInv, Machine
  <2>2. task'.command \in {"none", "flush"} /\ refused' = refused
    BY <1>0, <2>1 DEF OutCommand, IInv, Types, DeviceTypes
  <2>3. Stored'
    BY <1>0, <1>3, <2>2 DEF Stored
  <2> QED BY <1>0, <2>2, <2>3 DEF Progress, Addressed, Answered, Moving, Flushing, Addressing
<1> QED BY <1>1, <1>2, <1>3

\* So every step of either context keeps Progresses,
LEMMA StepProgresses ==
  ASSUME IInv, Ours, Unmoved, Progresses, NEW c \in Contexts, Step(c)
  PROVE  Progresses'
<1> SUFFICES ASSUME Clean(c), Progress(c), ~late, pc'[Other(c)] = "idle", Clean(c)'
             PROVE  Progress(c)'
  BY OneProgresses
<1>1. CASE WaitReady(c, "wait", "select") \/ WaitReady(c, "settle", "low") \/ WaitReady(c, "flush", "flushed")
  BY <1>1, WaitProgress
<1>2. CASE SelectMaster(c) \/ SetLow(c) \/ SetHigh(c) \/ SendCommand(c)
  BY <1>2, SelectProgress, SendProgress
<1>3. CASE PollBusy(c) \/ PollData(c)
  BY <1>3, PollProgress
<1>4. CASE MoveWord(c) \/ Flush(c)
  BY <1>4, MoveProgress, FlushProgress
<1>5. ~(ReadDone(c) \/ WriteDone(c))
  BY ContextTypes DEF ReadDone, WriteDone, Return, Clean
<1> QED BY <1>1, <1>2, <1>3, <1>4, <1>5, Zenon DEF Step

\* a call begins with the device at rest or marks both as cut,
LEMMA CallProgresses ==
  ASSUME IInv, Left, Progresses, NEW c \in Contexts, NEW o, NEW s, NEW b, Call(c, o, s, b)
  PROVE  Progresses'
<1> SUFFICES ASSUME NEW d \in Contexts, Clean(d)' PROVE Progress(d)'
  BY DEF Progresses
<1>0. /\ pc[c] = "idle" /\ pc'[c] = "wait" /\ (c = "boot" => pc["irq"] = "idle")
      /\ \A e \in Contexts : e # c => pc'[e] = pc[e]
      /\ UNCHANGED <<status, task, cache>> /\ pc["boot"] # "off"
  BY ContextTypes DEF Call, At, deviceVars
<1>1. CASE c = "irq" /\ pc["boot"] # "idle"
  BY <1>1 DEF Call, Clean
<1>2. CASE pc["boot"] = "idle" /\ pc["irq"] = "idle"
  <2>1. d = c /\ pc'[Other(c)] = "idle"
    BY <1>0, <1>2 DEF Clean, Contexts, Other
  <2>2. ~Busy
    <3>1. ~late \/ Ready
      BY DEF Call, Clean
    <3>2. ~BootLeft
      BY <1>2 DEF BootLeft
    <3> QED BY <1>2, <3>1, <3>2, IdleLeft, ReadyIs
  <2>3. ~Busy'
    BY <1>0, <2>2 DEF Busy
  <2> QED BY <1>0, <2>1, <2>3 DEF Progress, Addressed, Answered, Moving, Flushing, Addressing
<1> QED BY <1>0, <1>1, <1>2 DEF Contexts

\* an answer stores the sector, or the device has refused to,
LEMMA DeviceProgresses ==
  ASSUME IInv, Ours, Left, Progresses, DeviceAnswers
  PROVE  Progresses'
<1> SUFFICES ASSUME NEW c \in Contexts, Clean(c)' PROVE Progress(c)'
  BY DEF Progresses
<1>0. /\ UNCHANGED <<pc, op, sector, buf, moved, tries, selected, lba, cache>>
      /\ ~late /\ status = {"BSY"} /\ Busy
      /\ refused' = (refused \/ (task.command = "store" /\ status' = {"ERR"}))
  <2>1. "BSY" \in status
    BY DEF DeviceAnswers
  <2>2. status = {"BSY"}
    <3>1. status \in {{}, {"BSY"}, {"DRQ"}, {"ERR"}}
      BY IrqTypes
    <3> QED BY <2>1, <3>1
  <2> QED BY <2>1, <2>2 DEF DeviceAnswers, driverVars, locals, busVars, Clean, Busy
<1>1. Clean(c) /\ Progress(c) /\ pc[c] \notin {"off", "idle"} /\ pc[c] \in Places
  BY <1>0, ContextTypes DEF DeviceAnswers, Clean, Progresses
<1>2. pc'[Other(c)] = "idle"
  BY <1>0, <1>1 DEF Progress
<1>3. pc[c] \in {"poll", "words", "flush", "flushed"}
  BY <1>0, <1>1 DEF Places, Progress, Addressed, Answered, Addressing
<1>4. CASE pc[c] = "poll"
  <2>1. Mine(c) /\ cache = <<>> /\ task.command \in {"read", "write"}
    BY <1>0, <1>1, <1>4, ContextTypes DEF Progress, Answered, Mine
  <2>2. UNCHANGED task \/ status' = {"ERR"}
    BY <2>1 DEF DeviceAnswers
  <2> QED BY <1>0, <1>2, <1>4, <2>1, <2>2 DEF Progress, Addressed, Answered, Moving, Flushing, Addressing, Mine
<1>5. CASE pc[c] = "words"
  <2>1. moved[c] = WORDS
    <3>1. ~(moved[c] < WORDS)
      <4>1. {"BSY"} # {"DRQ"}
        OBVIOUS
      <4> QED BY <1>0, <1>1, <1>5, <4>1 DEF Progress, Moving
    <3>2. moved[c] \in 0 .. WORDS
      BY ContextTypes
    <3> QED BY <3>1, <3>2, Limits
  <2>2. op[c] = "write"
    <3>1. ASSUME op[c] = "read" PROVE "DRQ" \in status
      <4>1. CASE c = "irq"
        BY <1>0, <1>5, <3>1, <4>1 DEF Left, Addressing
      <4>2. CASE c = "boot"
        BY <1>0, <1>1, <1>5, <4>2, IdleLeft DEF Progress, Other, BootLeft
      <4> QED BY <4>1, <4>2 DEF Contexts
    <3> QED BY <1>0, <3>1, ContextTypes
  <2>3. task.command = "store" /\ c = "irq" /\ task.sector = sector["irq"] /\ cache = buf["irq"]
    BY <1>0, <1>1, <1>5, <2>1, <2>2, ContextTypes DEF Progress, Moving, Ours, StoreTask
  <2>4. status' \in {{}, {"ERR"}} /\ (status' = {"ERR"} \/ disk' = [disk EXCEPT ![task.sector] = cache])
    BY <2>3 DEF DeviceAnswers
  <2>5. ~Busy'
    BY <2>4 DEF Busy
  <2>6. Stored'
    <3>1. CASE status' = {"ERR"}
      BY <1>0, <2>3, <3>1 DEF Stored
    <3>2. CASE disk' = [disk EXCEPT ![task.sector] = cache]
      BY <1>0, <2>3, <3>2 DEF Stored, IInv, Types, DeviceTypes
    <3> QED BY <2>4, <3>1, <3>2
  <2> QED BY <1>0, <1>2, <1>5, <2>1, <2>2, <2>5, <2>6, Limits DEF Progress, Addressed, Answered, Moving, Flushing, Addressing
<1>6. CASE pc[c] \in {"flush", "flushed"}
  <2>0. op[c] = "write" /\ c = "irq" /\ NoTask.command = "none"
    BY <1>1, <1>6, ContextTypes DEF Progress, Flushing, NoTask
  <2>1. CASE task.command = "store"
    <3>1. task.sector = sector["irq"] /\ cache = buf["irq"] /\ task'.command = "none"
      BY <1>0, <2>0, <2>1 DEF Ours, StoreTask, DeviceAnswers
    <3>2. Stored'
      <4>1. CASE status' = {"ERR"}
        BY <1>0, <2>1, <4>1 DEF Stored
      <4>2. CASE disk' = [disk EXCEPT ![task.sector] = cache]
        BY <1>0, <3>1, <4>2 DEF Stored, IInv, Types, DeviceTypes
      <4> QED BY <2>1, <4>1, <4>2 DEF DeviceAnswers
    <3> QED BY <1>0, <1>2, <1>6, <2>0, <3>1, <3>2 DEF Progress, Addressed, Answered, Moving, Flushing, Addressing
  <2>2. CASE Stored /\ task.command \in {"none", "flush"}
    <3>1. disk' = disk /\ refused' = refused /\ task'.command = "none"
      BY <1>0, <2>0, <2>2 DEF DeviceAnswers, IInv, Types, DeviceTypes
    <3>2. Stored'
      BY <1>0, <2>2, <3>1 DEF Stored
    <3> QED BY <1>0, <1>2, <1>6, <2>0, <3>1, <3>2 DEF Progress, Addressed, Answered, Moving, Flushing, Addressing
  <2> QED BY <1>1, <1>6, <2>1, <2>2 DEF Progress, Flushing
<1> QED BY <1>3, <1>4, <1>5, <1>6

\* and so every step keeps it.
LEMMA ProgressesStep == IInv /\ Ours /\ Unmoved /\ Left /\ Progresses /\ [Next]_vars => Progresses'
<1> SUFFICES ASSUME IInv, Ours, Unmoved, Left, Progresses, [Next]_vars PROVE Progresses'
  OBVIOUS
<1>1. ASSUME NEW c \in Contexts, Step(c) PROVE Progresses'
  BY <1>1, StepProgresses
<1>2. ASSUME NEW c \in Contexts, NEW s \in Asked, ReadSector(c, s) PROVE Progresses'
  BY <1>2, CallProgresses DEF ReadSector
<1>3. ASSUME NEW s \in Asked, NEW v \in 1 .. VERSIONS, WriteSector(s, v) PROVE Progresses'
  BY <1>3, Limits, CallProgresses DEF WriteSector
<1>4. CASE AtaInit
  <2>1. pc["irq"] = "idle" /\ pc'["irq"] = "idle" /\ pc'["boot"] = "idle"
    BY <1>4, IrqTypes, BootTypes DEF AtaInit, At, Return, IInv, Driver
  <2> QED BY <2>1 DEF Progresses, Clean, Contexts
<1>5. CASE DeviceAnswers
  BY <1>5, DeviceProgresses
<1>6. CASE UNCHANGED vars
  BY <1>6 DEF vars, driverVars, locals, busVars, deviceVars, Progresses, Clean, Progress, Addressed, Answered,
     Moving, Flushing, Mine, Stored, Busy
<1> QED BY <1>1, <1>2, <1>3, <1>4, <1>5, <1>6, Zenon DEF Next

\* A sector ata_read_sector reports as read is the disk's, and one ata_write_sector
\* reports as written is on the disk or the device failed to store it, as long as no
\* loop ran out of turns and no command came between.
THEOREM TrueTransfers == Spec => TransfersAreTrue
<1> DEFINE All == IInv /\ Ours /\ Unmoved /\ Left /\ Progresses
<1>1. Init => All
  <2> SUFFICES ASSUME Init PROVE All
    OBVIOUS
  <2>1. pc = [c \in Contexts |-> IF c = "boot" THEN "off" ELSE "idle"] /\ moved = [c \in Contexts |-> 0]
        /\ status = {} /\ task = NoTask /\ task.command = "none"
    BY DEF Init, NoTask
  <2>2. pc["irq"] = "idle" /\ \A c \in Contexts : pc[c] \in {"off", "idle"} /\ moved[c] = 0
    BY <2>1 DEF Contexts
  <2> QED BY <2>1, <2>2, InitI DEF Ours, WriteTask, StoreTask, Registers, Addressing, Unmoved, Left, Busy, Progresses, Clean
<1>2. All /\ [Next]_vars => All'
  BY IInvStep, OursStep, UnmovedStep, LeftStep, ProgressesStep, Zenon
<1>3. All /\ [Next]_vars =>
        [\A c \in Contexts : ~late /\ c \notin cut =>
           /\ ReadDone(c) => buf[c] = disk[sector[c]]
           /\ WriteDone(c) => disk[sector[c]] = buf[c] \/ refused]_vars
  BY Transferred
<1> HIDE DEF All
<1> QED BY <1>1, <1>2, <1>3, PTL DEF Spec, TransfersAreTrue

-----------------------------------------------------------------------------
(* How long a transfer can take.                                           *)

\* The stages of a transfer still to come, each at most TIMEOUT turns or WORDS words.
Stage ==
  [p \in Places |->
     CASE p = "wait" -> 11 [] p = "select" -> 10 [] p = "settle" -> 9 [] p = "low" -> 8
       [] p = "high" -> 7 [] p = "command" -> 6 [] p = "poll" -> 5 [] p = "drq" -> 4
       [] p = "words" -> 3 [] p = "flush" -> 2 [] p = "flushed" -> 1 [] OTHER -> 0]

\* More than the port accesses a transfer still has before it.
ToGo(c) == Stage[pc[c]] * (TIMEOUT + WORDS + 1) + tries[c] + (WORDS - moved[c])

\* Every port access of a transfer brings it nearer its end, and nobody else's takes it
\* back.
TransferShortens ==
  [][\A c \in Contexts :
       /\ ToGo(c) \in Nat
       /\ Step(c) => pc'[c] = "idle" \/ ToGo(c)' < ToGo(c)
       /\ pc[c] \notin {"off", "idle"} => pc'[c] = "idle" \/ ToGo(c)' <= ToGo(c)]_vars

\* What ToGo adds up.
LEMMA ToGoIs ==
  ASSUME IInv, NEW c \in Contexts
  PROVE  /\ pc[c] \in Places /\ tries[c] \in 0 .. TIMEOUT /\ moved[c] \in 0 .. WORDS
         /\ TIMEOUT \in Nat /\ WORDS \in Nat
BY Limits DEF IInv, Types, DriverTypes

\* One stage less makes up for the turns of the next.
LEMMA GotoShortens ==
  ASSUME IInv, NEW c \in Contexts, NEW to \in Places, Goto(c, to),
         Stage[to] < Stage[pc[c]]
  PROVE  ToGo(c)' < ToGo(c)
<1>1. pc'[c] = to /\ tries'[c] = TIMEOUT /\ moved'[c] = moved[c]
  BY DEF Goto, locals, IInv, Types, DriverTypes
<1>2. Stage[to] \in Nat /\ Stage[pc[c]] \in Nat
  BY ToGoIs DEF Stage
<1> DEFINE lap == TIMEOUT + WORDS + 1
<1>3. lap \in Nat /\ lap > TIMEOUT
  BY ToGoIs
<1>4. \A m, n, l \in Nat : m < n => m * l + l <= n * l
  <2> SUFFICES ASSUME NEW m \in Nat, NEW n \in Nat, NEW l \in Nat, m < n
               PROVE  m * l + l <= n * l
    OBVIOUS
  <2>1. PICK k \in Nat : n = m + 1 + k
    <3> WITNESS n - m - 1 \in Nat
    <3> QED OBVIOUS
  <2>2. n * l = m * l + l + k * l /\ k * l \in Nat /\ m * l \in Nat
    BY <2>1, Z3
  <2> QED BY <2>2
<1> HIDE DEF lap
<1>5. Stage[to] * lap + lap <= Stage[pc[c]] * lap
  BY <1>2, <1>3, <1>4
<1>6. ToGo(c)' = Stage[to] * lap + TIMEOUT + (WORDS - moved[c])
  BY <1>1 DEF ToGo, lap
<1>7. ToGo(c) = Stage[pc[c]] * lap + tries[c] + (WORDS - moved[c])
  BY DEF ToGo, lap
<1> DEFINE a == Stage[to] * lap
           b == Stage[pc[c]] * lap
<1>8. a \in Int /\ b \in Int
  BY <1>2, <1>3
<1> HIDE DEF a, b
<1>9. a + lap <= b /\ ToGo(c)' = a + TIMEOUT + (WORDS - moved[c])
      /\ ToGo(c) = b + tries[c] + (WORDS - moved[c])
  BY <1>5, <1>6, <1>7 DEF a, b
<1> QED BY <1>3, <1>8, <1>9, ToGoIs

\* A turn or a word less.
LEMMA TurnShortens ==
  ASSUME IInv, NEW c \in Contexts, pc' = pc,
         tries'[c] + (WORDS - moved'[c]) < tries[c] + (WORDS - moved[c]),
         tries'[c] \in Int, moved'[c] \in Int
  PROVE  ToGo(c)' < ToGo(c)
<1> DEFINE a == Stage[pc[c]] * (TIMEOUT + WORDS + 1)
<1>1. a \in Int
  <2>1. Stage[pc[c]] \in Int
    BY ToGoIs DEF Stage
  <2> QED BY <2>1, ToGoIs
<1>2. ToGo(c) = a + tries[c] + (WORDS - moved[c])
  BY DEF ToGo
<1>3. ToGo(c)' = a + tries'[c] + (WORDS - moved'[c])
  BY DEF ToGo
<1> HIDE DEF a
<1> QED BY <1>1, <1>2, <1>3, ToGoIs

\* Every step of the driver is one of these, for one context.
LEMMA StepShortens ==
  ASSUME IInv, NEW c \in Contexts, Step(c)
  PROVE  /\ pc'[c] = "idle" \/ ToGo(c)' < ToGo(c)
         /\ \A d \in Contexts \ {c} : UNCHANGED <<pc[d], tries[d], moved[d]>>
<1>0. /\ pc \in [Contexts -> Places] /\ tries \in [Contexts -> 0 .. TIMEOUT]
      /\ moved \in [Contexts -> 0 .. WORDS]
  BY DEF IInv, Types, DriverTypes
<1>1. ASSUME Return(c)
      PROVE  pc'[c] = "idle" /\ \A d \in Contexts \ {c} : UNCHANGED <<pc[d], tries[d], moved[d]>>
  BY <1>0, <1>1 DEF Return
<1>2. ASSUME NEW to \in Places, Goto(c, to)
      PROVE  \A d \in Contexts \ {c} : UNCHANGED <<pc[d], tries[d], moved[d]>>
  BY <1>0, <1>2 DEF Goto, locals
<1>3. ASSUME Again(c), tries[c] > 0
      PROVE  ToGo(c)' < ToGo(c) /\ \A d \in Contexts \ {c} : UNCHANGED <<pc[d], tries[d], moved[d]>>
  <2>1. /\ pc' = pc /\ moved' = moved /\ tries'[c] = tries[c] - 1
        /\ \A d \in Contexts \ {c} : tries'[d] = tries[d]
    BY <1>0, <1>3 DEF Again, locals
  <2>2. ToGo(c)' < ToGo(c)
    BY <2>1, TurnShortens, ToGoIs
  <2> QED BY <2>1, <2>2
<1>4. /\ Stage["wait"] = 11 /\ Stage["select"] = 10 /\ Stage["settle"] = 9 /\ Stage["low"] = 8
      /\ Stage["high"] = 7 /\ Stage["command"] = 6 /\ Stage["poll"] = 5 /\ Stage["drq"] = 4
      /\ Stage["words"] = 3 /\ Stage["flush"] = 2 /\ Stage["flushed"] = 1
  BY DEF Stage, Places
<1>5. ASSUME NEW from \in Places, NEW to \in Places, pc[c] = from, Stage[to] < Stage[from],
             Goto(c, to)
      PROVE  /\ ToGo(c)' < ToGo(c)
             /\ \A d \in Contexts \ {c} : UNCHANGED <<pc[d], tries[d], moved[d]>>
  BY <1>2, <1>5, GotoShortens, Zenon
<1>6. ASSUME NEW from \in Places, NEW to \in Places, Stage[to] < Stage[from],
             WaitReady(c, from, to)
      PROVE  /\ ToGo(c)' < ToGo(c)
             /\ \A d \in Contexts \ {c} : UNCHANGED <<pc[d], tries[d], moved[d]>>
  <2>1. pc[c] = from /\ (Goto(c, to) \/ (tries[c] > 0 /\ Again(c)))
    BY <1>6, Zenon DEF WaitReady, At
  <2> QED BY <1>3, <1>5, <1>6, <2>1, Zenon
<1> USE DEF At, Places
<1>7. CASE WaitReady(c, "wait", "select") \/ WaitReady(c, "settle", "low")
           \/ WaitReady(c, "flush", "flushed")
  <2>1. Stage["select"] < Stage["wait"] /\ Stage["low"] < Stage["settle"]
        /\ Stage["flushed"] < Stage["flush"]
    BY <1>4
  <2> QED BY <1>6, <1>7, <2>1
<1>8. CASE SelectMaster(c)
  BY <1>4, <1>5, <1>8 DEF SelectMaster
<1>9. CASE SetLow(c)
  BY <1>4, <1>5, <1>9 DEF SetLow
<1>10. CASE SetHigh(c)
  BY <1>4, <1>5, <1>10 DEF SetHigh
<1>11. CASE SendCommand(c)
  BY <1>4, <1>5, <1>11 DEF SendCommand
<1>12. CASE Flush(c)
  BY <1>4, <1>5, <1>12 DEF Flush
<1>13. CASE PollBusy(c)
  <2>1. pc[c] = "poll" /\ (Goto(c, "drq") \/ Return(c) \/ (tries[c] > 0 /\ Again(c)))
    BY <1>13, Zenon DEF PollBusy
  <2> QED BY <1>1, <1>3, <1>4, <1>5, <2>1
<1>14. CASE PollData(c)
  <2>1. pc[c] = "drq" /\ (Goto(c, "words") \/ Return(c) \/ (tries[c] > 0 /\ Again(c)))
    BY <1>14, Zenon DEF PollData
  <2> QED BY <1>1, <1>3, <1>4, <1>5, <2>1
<1>15. CASE MoveWord(c)
  <2>1. /\ pc' = pc /\ tries' = tries /\ moved'[c] = moved[c] + 1
        /\ \A d \in Contexts \ {c} : moved'[d] = moved[d]
    BY <1>0, <1>15 DEF MoveWord
  <2>2. ToGo(c)' < ToGo(c)
    BY <2>1, TurnShortens, ToGoIs
  <2> QED BY <2>1, <2>2
<1>16. CASE ReadDone(c) \/ WriteDone(c)
  BY <1>1, <1>16 DEF ReadDone, WriteDone
<1> QED BY <1>7, <1>8, <1>9, <1>10, <1>11, <1>12, <1>13, <1>14, <1>15, <1>16, Zenon DEF Step

\* For every sector size, every number of turns and every device, each port access of
\* a transfer brings it nearer its end, and no step of the other context, of the
\* device or of the boot takes it back: at most 12 * (TIMEOUT + WORDS + 1) of them.
THEOREM TransfersAreShort == Spec => TransferShortens
<1>1. IInv /\ [Next]_vars =>
        [\A c \in Contexts :
           /\ ToGo(c) \in Nat
           /\ Step(c) => pc'[c] = "idle" \/ ToGo(c)' < ToGo(c)
           /\ pc[c] \notin {"off", "idle"} => pc'[c] = "idle" \/ ToGo(c)' <= ToGo(c)]_vars
  <2> SUFFICES ASSUME IInv, Next, NEW c \in Contexts
               PROVE  /\ ToGo(c) \in Nat
                      /\ Step(c) => pc'[c] = "idle" \/ ToGo(c)' < ToGo(c)
                      /\ pc[c] \notin {"off", "idle"} => pc'[c] = "idle" \/ ToGo(c)' <= ToGo(c)
    BY Zenon
  <2>1. ASSUME Step(c) PROVE pc'[c] = "idle" \/ ToGo(c)' < ToGo(c)
    BY <2>1, StepShortens
  <2>2. ToGo(c) \in Nat
    <3>1. Stage[pc[c]] \in Nat
      BY ToGoIs DEF Stage
    <3>2. Stage[pc[c]] * (TIMEOUT + WORDS + 1) \in Nat
      BY <3>1, ToGoIs
    <3> QED BY <3>2, ToGoIs DEF ToGo
  <2>3. ASSUME UNCHANGED <<pc[c], tries[c], moved[c]>> PROVE ToGo(c)' <= ToGo(c)
    <3>1. ToGo(c)' = ToGo(c)
      BY <2>3, Zenon DEF ToGo
    <3> QED BY <2>2, <3>1
  <2>4. /\ pc \in [Contexts -> Places] /\ tries \in [Contexts -> 0 .. TIMEOUT]
        /\ moved \in [Contexts -> 0 .. WORDS]
    BY DEF IInv, Types, DriverTypes
  <2>5. ASSUME pc[c] \notin {"off", "idle"} PROVE pc'[c] = "idle" \/ ToGo(c)' <= ToGo(c)
    <3>1. CASE AtaInit
      <4>1. c # "boot" /\ Return("boot")
        BY <2>5, <3>1 DEF AtaInit, At
      <4>2. UNCHANGED <<pc[c], tries[c], moved[c]>>
        BY <2>4, <4>1 DEF Return, Contexts
      <4> QED BY <2>3, <4>2
    <3>2. ASSUME NEW d \in Contexts, Step(d) PROVE pc'[c] = "idle" \/ ToGo(c)' <= ToGo(c)
      <4>1. CASE d = c
        <5>1. ToGo(c)' \in Int
          <6>1. IInv'
            BY IInvStep
          <6>2. pc'[c] \in Places /\ tries'[c] \in 0 .. TIMEOUT /\ moved'[c] \in 0 .. WORDS
            BY <6>1 DEF IInv, Types, DriverTypes
          <6>3. Stage[pc'[c]] \in Int
            BY <6>2 DEF Stage
          <6> QED BY <6>2, <6>3, ToGoIs DEF ToGo
        <5> QED BY <2>1, <2>2, <3>2, <4>1, <5>1
      <4>2. CASE d # c
        <5>1. UNCHANGED <<pc[c], tries[c], moved[c]>>
          BY <3>2, <4>2, StepShortens
        <5> QED BY <2>3, <5>1
      <4> QED BY <4>1, <4>2
    <3>3. ASSUME NEW d \in Contexts, NEW o, NEW s, NEW b, Call(d, o, s, b)
          PROVE  ToGo(c)' <= ToGo(c)
      <4>1. d # c
        BY <2>5, <3>3 DEF Call, At
      <4>2. UNCHANGED <<pc[c], tries[c], moved[c]>>
        BY <2>4, <3>3, <4>1 DEF Call
      <4> QED BY <2>3, <4>2
    <3>4. CASE DeviceAnswers
      BY <2>3, <3>4 DEF DeviceAnswers, driverVars, locals
    <3> QED BY <3>1, <3>2, <3>3, <3>4, Zenon DEF Next, ReadSector, WriteSector, Contexts
  <2> QED BY <2>1, <2>2, <2>5
<1> QED BY <1>1, IInvStep, InitI, PTL DEF Spec, TransferShortens
=============================================================================
