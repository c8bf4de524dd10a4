-------------------------------- MODULE Ata --------------------------------
(***************************************************************************)
(* The ATA driver (kernel/ata.c) port access by port access, beside a      *)
(* device that answers when it likes.                                      *)
(*                                                                         *)
(* Two contexts call it.  "boot" is kernel_main, which reads the boot      *)
(* sector and the weights with interrupts on; "irq" is a shell command in  *)
(* the timer interrupt, which stops boot between any two port accesses and *)
(* runs to its end.  After the boot only irq is left.                      *)
(*                                                                         *)
(* A sector number is two digits for the LBA registers, its words say      *)
(* which sector they were meant for and in which version.                  *)
(***************************************************************************)
EXTENDS Integers, Sequences

CONSTANTS
  WORDS,      \* words of a sector (256)
  TIMEOUT,    \* turns of a waiting loop (100000)
  Digits,     \* values of an LBA register
  VERSIONS,   \* versions of a sector a command may write
  CALLS       \* transfers a behaviour may begin

Sectors == Digits \X Digits

\* What callers ask for; a half written address is one of the other sectors.
Asked == {<<d, d>> : d \in Digits}

ASSUME AtaAssumption ==
  /\ WORDS \in Nat \ {0} /\ TIMEOUT \in Nat \ {0} /\ VERSIONS \in Nat \ {0}
  /\ CALLS \in Nat
  /\ Digits \subseteq Nat /\ 0 \in Digits

Words == Sectors \X (0 .. VERSIONS)
Junk  == <<(<<-1, -1>>), 0>>     \* what the data port gives when there is no data

Content(s, v) == [i \in 1 .. WORDS |-> <<s, v>>]

Contexts == {"boot", "irq"}

VARIABLES
  pc,        \* where each context is in ata_read_sector or ata_write_sector
  op, sector, buf, moved,     \* its locals: buf holds what was read, or is to be
             \* written, moved is the number of words moved,
  tries,     \* and the turns left in the loop it waits in
  selected,  \* the drive DRIVE_HEAD selects; there is no slave
  lba,       \* the LBA registers
  status,    \* of the master, a set of bits
  task,      \* what the master is doing, and for which sector
  cache,     \* its buffer
  disk,
  calls,     \* not in the code: transfers begun
  refused,   \* not in the code: the device failed to store the last write
  late,      \* not in the code: a loop ran out of turns before the device answered
  cut        \* not in the code: contexts in whose transfer, or that in a transfer,
             \* came between

locals     == <<op, sector, buf, moved>>
driverVars == <<pc, locals, tries>>
busVars    == <<selected, lba>>
deviceVars == <<status, task, cache, disk, refused>>
vars       == <<driverVars, busVars, deviceVars, late, cut, calls>>

NoTask == [command |-> "none", sector |-> <<0, 0>>]

Init ==
  /\ pc = [c \in Contexts |-> IF c = "boot" THEN "off" ELSE "idle"]
  /\ op = [c \in Contexts |-> "read"]
  /\ sector = [c \in Contexts |-> <<0, 0>>]
  /\ buf = [c \in Contexts |-> <<>>]
  /\ moved = [c \in Contexts |-> 0]
  /\ tries = [c \in Contexts |-> 0]
  /\ selected = "master"
  /\ lba = <<0, 0>>
  /\ status = {}
  /\ task = NoTask
  /\ cache = <<>>
  /\ disk = [s \in Sectors |-> Content(s, 0)]
  /\ refused = FALSE
  /\ late = FALSE
  /\ cut = {}
  /\ calls = 0

-----------------------------------------------------------------------------
(* The device.  It takes no register and no command while it is busy or    *)
(* has words to move.                                                      *)

Status == IF selected = "master" THEN status ELSE {}
Ready  == Status \cap {"BSY", "DRQ"} = {}

OutCommand(command) ==
  /\ \/ /\ Ready /\ selected = "master"
        /\ status' = {"BSY"}
        /\ task' = [command |-> command, sector |-> lba]
        /\ cache' = <<>>
        /\ refused' = (refused /\ command = "flush")
     \/ /\ ~(Ready /\ selected = "master")
        /\ UNCHANGED <<status, task, cache, refused>>
  /\ UNCHANGED <<busVars, disk>>

OutDrive(drive) ==
  /\ selected' = IF Ready THEN drive ELSE selected
  /\ UNCHANGED <<lba, deviceVars>>

OutLba(i, digit) ==
  /\ lba' = IF Ready THEN [lba EXCEPT ![i] = digit] ELSE lba
  /\ UNCHANGED <<selected, deviceVars>>

\* the last word of a read ends it, the last word of a write has to be stored
Moved ==
  IF Len(cache') < WORDS THEN UNCHANGED <<status, task>>
  ELSE IF task.command = "read" THEN status' = {} /\ task' = NoTask
  ELSE status' = {"BSY"} /\ task' = [task EXCEPT !.command = "store"]

Moves(command) == "DRQ" \in status /\ task.command = command

Port == IF Moves("read") THEN disk[task.sector][Len(cache) + 1] ELSE Junk

MoveThroughPort(command, word) ==
  /\ IF Moves(command) THEN cache' = Append(cache, word) /\ Moved
     ELSE UNCHANGED <<cache, status, task>>
  /\ UNCHANGED <<busVars, disk, refused>>

\* Sooner or later or never: the words can move, or what was asked for is done,
\* or has failed.
DeviceAnswers ==
  /\ "BSY" \in status
  /\ \/ /\ task.command \in {"read", "write"}
        /\ status' = {"DRQ"}
        /\ UNCHANGED <<task, disk>>
     \/ /\ task.command \in {"store", "flush"}
        /\ status' = {} /\ task' = NoTask
        /\ disk' = IF task.command = "store" THEN [disk EXCEPT ![task.sector] = cache]
                   ELSE disk
     \/ status' = {"ERR"} /\ task' = NoTask /\ UNCHANGED disk
  /\ refused' = (refused \/ (task.command = "store" /\ status' = {"ERR"}))
  /\ UNCHANGED <<driverVars, busVars, cache, late, cut, calls>>

-----------------------------------------------------------------------------
(* The driver.                                                             *)

\* boot executes only while no command does
At(c, where) == pc[c] = where /\ (c = "boot" => pc["irq"] = "idle")

Goto(c, where) ==
  /\ pc' = [pc EXCEPT ![c] = where]
  /\ tries' = [tries EXCEPT ![c] = TIMEOUT]
  /\ UNCHANGED locals

\* the locals are gone
Return(c) ==
  /\ pc' = [pc EXCEPT ![c] = "idle"]
  /\ op' = [op EXCEPT ![c] = "read"]
  /\ sector' = [sector EXCEPT ![c] = <<0, 0>>]
  /\ buf' = [buf EXCEPT ![c] = <<>>]
  /\ moved' = [moved EXCEPT ![c] = 0]
  /\ tries' = [tries EXCEPT ![c] = 0]

Again(c) ==
  /\ tries' = [tries EXCEPT ![c] = @ - 1]
  /\ UNCHANGED <<pc, locals>>

\* ata_init: IDENTIFY goes to the slave, whose status is 0
AtaInit ==
  /\ At("boot", "off")
  /\ selected' = "slave"
  /\ lba' = <<0, 0>>
  /\ Return("boot")
  /\ UNCHANGED <<deviceVars, late, cut, calls>>

Call(c, o, s, b) ==
  /\ At(c, "idle") /\ pc["boot"] # "off"
  /\ calls < CALLS /\ calls' = calls + 1
  /\ pc' = [pc EXCEPT ![c] = "wait"]
  /\ tries' = [tries EXCEPT ![c] = TIMEOUT]
  /\ op' = [op EXCEPT ![c] = o]
  /\ sector' = [sector EXCEPT ![c] = s]
  /\ buf' = [buf EXCEPT ![c] = b]
  /\ moved' = [moved EXCEPT ![c] = 0]
  /\ late' = (late /\ ~Ready)
  /\ cut' = IF c = "irq" /\ pc["boot"] # "idle" THEN Contexts ELSE cut \ {c}
  /\ UNCHANGED <<busVars, deviceVars>>

ReadSector(c, s) == Call(c, "read", s, <<>>)

\* nothing in the boot writes
WriteSector(s, v) == Call("irq", "write", s, Content(s, v))

WaitReady_Mut(c, from, to) ==
  /\ At(c, from)
  /\ \/ "BSY" \in Status /\ Again(c) /\ UNCHANGED late
     \/ "BSY" \notin Status /\ Goto(c, to) /\ UNCHANGED late
  /\ UNCHANGED <<busVars, deviceVars, cut>>

\* while (timeout-- && BSY): when the turns are used up the driver goes on
WaitReady(c, from, to) ==
  /\ At(c, from)
  /\ \/ tries[c] > 0 /\ "BSY" \in Status /\ Again(c) /\ UNCHANGED late
     \/ tries[c] > 0 /\ "BSY" \notin Status /\ Goto(c, to) /\ UNCHANGED late
     \/ tries[c] = 0 /\ Goto(c, to) /\ late' = TRUE
  /\ UNCHANGED <<busVars, deviceVars, cut>>

SelectMaster(c) ==
  /\ At(c, "select")
  /\ OutDrive("master")
  /\ Goto(c, "settle")
  /\ UNCHANGED <<late, cut>>

SetLow(c) ==
  /\ At(c, "low")
  /\ OutLba(1, sector[c][1])
  /\ Goto(c, "high")
  /\ UNCHANGED <<late, cut>>

SetHigh_Mut(c) ==
  /\ At(c, "high")
  /\ Goto(c, "command")
  /\ UNCHANGED <<busVars, deviceVars, late, cut>>

SetHigh(c) ==
  /\ At(c, "high")
  /\ OutLba(2, sector[c][2])
  /\ Goto(c, "command")
  /\ UNCHANGED <<late, cut>>

SendCommand(c) ==
  /\ At(c, "command")
  /\ OutCommand(op[c])
  /\ Goto(c, "poll")
  /\ UNCHANGED <<late, cut>>

PollBusy_Mut(c) ==
  /\ At(c, "poll")
  /\ \/ "BSY" \in Status /\ UNCHANGED driverVars
     \/ "BSY" \notin Status /\ "ERR" \in Status /\ Return(c)
     \/ "BSY" \notin Status /\ "ERR" \notin Status /\ Goto(c, "drq")
  /\ UNCHANGED <<busVars, deviceVars, late, cut>>

\* the first loop of ata_poll
PollBusy(c) ==
  /\ At(c, "poll")
  /\ \/ tries[c] > 0 /\ "BSY" \in Status /\ Again(c) /\ UNCHANGED late
     \/ tries[c] > 0 /\ Status = {"ERR"} /\ Return(c) /\ UNCHANGED late
     \/ tries[c] > 0 /\ Status \in {{}, {"DRQ"}} /\ Goto(c, "drq") /\ UNCHANGED late
     \/ tries[c] = 0 /\ Goto(c, "drq") /\ late' = TRUE
  /\ UNCHANGED <<busVars, deviceVars, cut>>

\* the second loop of ata_poll
PollData(c) ==
  /\ At(c, "drq")
  /\ \/ tries[c] > 0 /\ "DRQ" \in Status /\ Goto(c, "words")
     \/ tries[c] > 0 /\ Status = {"ERR"} /\ Return(c)
     \/ tries[c] > 0 /\ Status \in {{}, {"BSY"}} /\ Again(c)
     \/ tries[c] = 0 /\ Return(c)
  /\ UNCHANGED <<busVars, deviceVars, late, cut>>

\* one of 256 inw or outw
MoveWord(c) ==
  /\ At(c, "words") /\ moved[c] < WORDS
  /\ moved' = [moved EXCEPT ![c] = @ + 1]
  /\ \/ /\ op[c] = "read"
        /\ MoveThroughPort("read", Port)
        /\ buf' = [buf EXCEPT ![c] = Append(@, Port)]
     \/ /\ op[c] = "write"
        /\ MoveThroughPort("write", buf[c][moved[c] + 1])
        /\ UNCHANGED buf
  /\ UNCHANGED <<pc, op, sector, tries, late, cut>>

Flush_Mut(c) ==
  /\ At(c, "words") /\ moved[c] = WORDS /\ op[c] = "write"
  /\ OutCommand("flush")
  /\ Goto(c, "flushed")
  /\ UNCHANGED <<late, cut>>

\* FLUSH follows at once, whether the last word is stored or not
Flush(c) ==
  /\ At(c, "words") /\ moved[c] = WORDS /\ op[c] = "write"
  /\ OutCommand("flush")
  /\ Goto(c, "flush")
  /\ UNCHANGED <<late, cut>>

ReadDone(c) ==
  /\ At(c, "words") /\ moved[c] = WORDS /\ op[c] = "read"
  /\ Return(c)
  /\ UNCHANGED <<busVars, deviceVars, late, cut>>

WriteDone(c) ==
  /\ At(c, "flushed")
  /\ Return(c)
  /\ UNCHANGED <<busVars, deviceVars, late, cut>>

Step(c) ==
  /\ UNCHANGED calls
  /\ \/ WaitReady(c, "wait", "select") \/ SelectMaster(c) \/ WaitReady(c, "settle", "low")
     \/ SetLow(c) \/ SetHigh(c) \/ SendCommand(c)
     \/ PollBusy(c) \/ PollData(c) \/ MoveWord(c) \/ ReadDone(c)
     \/ Flush(c) \/ WaitReady(c, "flush", "flushed") \/ WriteDone(c)

Next ==
  \/ AtaInit
  \/ \E c \in Contexts : Step(c) \/ \E s \in Asked : ReadSector(c, s)
  \/ \E s \in Asked, v \in 1 .. VERSIONS : WriteSector(s, v)
  \/ DeviceAnswers

\* A command in the interrupt keeps the CPU; between two interrupts the boot gets
\* on.  The device need not answer.
Fairness == WF_vars(Step("irq")) /\ SF_vars(Step("boot"))

Spec == Init /\ [][Next]_vars
FairSpec == Spec /\ Fairness

-----------------------------------------------------------------------------
(* Properties.                                                             *)

\* Calls, registers, device and disk are well formed.
TypeOK ==
  /\ pc \in [Contexts -> {"off", "idle", "wait", "select", "settle", "low", "high",
                          "command", "poll", "drq", "words", "flush", "flushed"}]
  /\ op \in [Contexts -> {"read", "write"}]
  /\ sector \in [Contexts -> Sectors]
  /\ buf \in [Contexts -> Seq(Words \cup {Junk})]
  /\ \A c \in Contexts : Len(buf[c]) = IF op[c] = "read" THEN moved[c] ELSE WORDS
  /\ tries \in [Contexts -> 0 .. TIMEOUT]
  /\ moved \in [Contexts -> 0 .. WORDS]
  /\ selected \in {"master", "slave"}
  /\ lba \in Sectors
  /\ status \in {{}, {"BSY"}, {"DRQ"}, {"ERR"}}
  /\ task \in [command : {"none", "read", "write", "store", "flush"}, sector : Sectors]
  /\ cache \in Seq(Words) /\ Len(cache) <= WORDS
  /\ disk \in [Sectors -> [1 .. WORDS -> Words]]
  /\ refused \in BOOLEAN
  /\ calls \in 0 .. CALLS
  /\ late \in BOOLEAN
  /\ cut \subseteq Contexts

\* A read that reports success has the content of its own sector, and a write that
\* does is on the disk, or the device has failed to store it, which ata_write_sector
\* does not look at; provided no loop ran out of turns before an answer and no
\* command came between.
TransfersAreTrue ==
  [][\A c \in Contexts : ~late /\ c \notin cut =>
       /\ ReadDone(c) => buf[c] = disk[sector[c]]
       /\ WriteDone(c) => disk[sector[c]] = buf[c] \/ refused]_vars

\* What changes on the disk is the sector the running write names, and it gets that
\* write's words, unless a loop ran out of turns: a command that stops a transfer of
\* the boot between any two port accesses writes to its own sector or nowhere.
WritesStayPut ==
  [][disk' # disk =>
       \/ late
       \/ /\ op["irq"] = "write" /\ pc["irq"] \in {"words", "flush"}
          /\ disk' = [disk EXCEPT ![sector["irq"]] = buf["irq"]]]_vars

\* Every transfer returns, whatever the device does, and whenever commands stop it.
TransferEnds ==
  \A c \in Contexts : (pc[c] \notin {"off", "idle"}) ~> (pc[c] = "idle")
=============================================================================
