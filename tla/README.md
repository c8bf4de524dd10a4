# PrajnaOS in TLA+

A verification development for PrajnaOS, a 32-bit x86 kernel whose scheduler
takes the decisions of an "AI kernel" (Prajna) into account. It models the parts
of `kernel/` that keep state and make decisions, checks them with TLC and proves
every invariant, action property and refinement the passing runs check, with TLAPS.
Paths are relative to the root of the repository.

## 1. The system

There is one CPU and no memory protection. `kernel_main` sets the hardware up
(interrupts go on in `idt_flush`, long before the rest is ready), initialises the
page allocator, the filesystem, the heap, the scheduler and the network's
weights, creates the only task (`shell_task`, priority 5, which only halts), waits
five seconds and starts the scheduler. From then on everything happens in two
interrupt handlers that run with interrupts off:

* the keyboard interrupt pushes a scancode into a ring and returns;
* the timer interrupt (100 per second) charges the tick to the current task, takes
  every scancode out of the ring (Enter runs a shell command to its end, disk
  transfers included, *inside* the interrupt) and on every 100th tick
  calls `scheduler_tick`, which runs the AI cycle, scores the tasks, picks one
  and switches to it.

So the concurrency is that of a boot sequence interrupted between any two of its
instructions (a command's disk transfers among them), of a keyboard that strikes
between timer interrupts, of a device that answers late or never, of power cuts
between two sectors, and of tasks that are switched in the middle of a handler.

### Inventory

| component | state it keeps | operations | talks to | what makes it correct |
|---|---|---|---|---|
| Scheduler (`scheduler.c`, `switch.asm`) | `tasks[8]`, `current_task`, `task_count`, pending switch, `prajna_fallback` | `task_create`, `scheduler_tick`, `scheduler_start`, `scheduler_do_pending_switch`, `scheduler_prajna_offline` | reads Prajna's `perm_table`, calls `ai_kernel_tick` and `ml_score_tasks`, takes stacks from the PMM | bookkeeping and CPU agree on who runs; every task runs again; the boot is not pre-empted |
| Timer and boot (`pit.c`, `kernel.c`) | `ticks`, where `kernel_main` is | `pit_handler`, `wait`, `kernel_main` | calls the scheduler and the line editor | the ticks of a turn are charged to the one who had them, in spite of 32- and 8-bit counters |
| Prajna (`ai_kernel.c`) | `perm_table`, `current_state`, `last_ai_tick`, `ai_online`, decision log, memory history, per-task histories | `ai_kernel_tick` (sense, think, act), `ai_kernel_offline`, `ai_get_log`, `ai_get_memory_history` | reads tasks, scores and free pages | decisions are fresh; the shell survives an ALERT; logs return what was logged; forecasts come in time |
| ML inference (`ml/*.c`) | the weights | `ml_weights_load`, `ml_infer` | reads `WEIGHTS.BIN` through FAT32 | scores in 0..1 |
| Page allocator (`pmm.c`) | `bitmap`, `kernel_pages` | `pmm_init`, `pmm_alloc`, `pmm_free`, `pmm_free_pages` | scheduler, heap, Prajna | no page lost, shared, or taken from the kernel |
| FAT32 (`fat32.c`) | the disk; geometry read at the boot | init, find, read, write, create, delete, list, find a directory | ATA below, shell and weights above | clusters have one owner, whenever the power goes and whatever transfer fails; commands end and do what they report |
| Shell (`shell.c`) | current and previous directory | `shell_handle` | everything | reports are true; `cd ..` leads up |
| Keyboard and line editor (`isr.c`) | scancode ring, shift, line buffer | `keyboard_handler`, `process_scancode` | timer, shell | strokes in order, lost only when the ring is full; the shell gets the edited line |
| Console (`isr.c`) | row, column | `put_char`, `scroll`, `clear_screen` | VGA memory | position stays on the screen |
| Heap (`heap.c`) | list of blocks | `heap_init`, `kmalloc`, `kfree` (no caller of the last two yet) | PMM | allocations do not overlap; no byte is lost; `kmalloc` returns |
| ATA (`ata.c`) | the controller | init, identify, read, write | ports | no answer is taken for another's; a write hits its own sector; every transfer ends |
| Descriptor tables, entry code | none at run time | set-up | | straight-line code |

The hard behaviours, with the line where each bites and the properties that
cover it, are the `hazards` of `PROJECT.json`. In short: ticks during the boot
(interleaving); save and load of two stack pointers (sequence of calls); a
permission table that could be old (stale state); counters that wrap at 2^32 and
2^8 at times that do not fit the 100-tick period (numeric edge); starvation under a
network that prefers somebody, low memory and a missing weights file (liveness,
limits, partial failure); rings that wrap (numeric edge); power cuts and failed
transfers between sectors, noticed or not (crash recovery, partial failure); disk
answers that come after a waiting loop has given up, and commands that stop a
transfer of the boot (timeouts, interleaving); a heap whose merges do not look at
addresses (stale state).

## 2. The modules

| module | models | remarks |
|---|---|---|
| `Prajna` | `ai_think`, `ai_act`'s table | the decision as a pure function |
| `Scheduler` | boot, timer tick, AI cycle, choice and switch | extends `Prajna`; `MCScheduler` adds networks and what is assumed of the shipped one |
| `SchedulerProofs` | | types, who owns the CPU, what a turn charges, decides and switches to, how long a task waits |
| `PrajnaLog` | decision log, memory history, forecast, their readers | a history variable holds all that was ever logged |
| `PrajnaLogProofs` | | the rings return the latest entries; a decline is announced |
| `TaskHistory` | the anomaly check of one task | averages as a sum over a count |
| `TaskHistoryProofs` | | types, what a flag means |
| `PageAllocator` | abstract: a pool of pages | |
| `Pmm` | the bitmap | refines `PageAllocator` |
| `PmmProofs` | | conservation, kernel protection, the free count, the refinement |
| `Heap` | `kmalloc` and `kfree` | extends `Pmm`: both in one state, with the other callers of `pmm_alloc` |
| `HeapProofs` | | allocations keep apart, no byte is lost, `kmalloc` is short; extends `PmmProofs` |
| `FileStore` | abstract: files changed atomically, by name, in a folder | |
| `Fat32` | touch, write, rm, cd; a step for every sector written | refines `FileStore`; `MCFat32` adds volumes |
| `Fat32Proofs` | | types, order of entries, one owner, no leak, `cd ..`, the refinement, commands are short |
| `Ata` | a transfer port access by port access, and the device | two contexts, boot and interrupt |
| `AtaProofs` | | types, a write hits its own sector, an undisturbed transfer is true, transfers are short |
| `Terminal` | abstract: a line discipline with a bounded queue | |
| `Keyboard` | the two interrupt handlers around the ring | refines `Terminal` |
| `KeyboardProofs` | | types, shift, the refinement, the loop is short |

`Fat32` and `Ata` meet in the outcomes of a transfer. `Transfer` of `Fat32` has three:
done; reported as failed, with the sector on the disk or not; taken for done
although it failed. `TransfersAreTrue` of `Ata` says what a reported success means, and
`refused` there is where the third comes from.

### How they correspond to the code

**Scheduler.** `tasks[i].f` is the function `f[i]`. Two variables are not C
variables: `cpu`, whose context the processor executes, and `saved[i]`, whose
context `tasks[i].esp` points into. `context_switch` is what relates them:
`saved' = [saved EXCEPT ![current_task] = cpu]` and `cpu' = saved[best]`. A tick is
one action because interrupts are off in the handler: `PlainTick` or, when
`ticks % 100 == 0 && task_count > 0`, `SchedulerTick` = AI cycle (or not),
scoring, aging of `wait_ticks`, choice, switch. `kernel_main` is three actions, one
for every stretch between two effects others see: `CreateShell`, `Greeting`,
`SchedulerStart`. `CreateTask`, `PrajnaOffline` and `MemoryChanges` are the calls
other code may make later; the shipped kernel makes none of them
(`LaterPriorities = {}`, `WATCHDOG = FALSE`, `MemoryLevels = {}`), and instances that
use them say so. Scores are integers in millionths; `ml_infer` is a parameter
`Infer` with a *set* of possible outputs, so `AnyPreference` stands for every
network that can say "rather this one", and `ShippedNetwork` tabulates the
`weights.bin` of the repository. Whether the history check flags a task is left open
in this module (any flag, every cycle), which is more than `TaskHistory` allows; only tasks that are
HIGH by their score or starve need one, as the flag is read for no other.

**PrajnaLog and TaskHistory** are one action per cycle; readers are operators on
the state between two cycles, since shell commands run in the same interrupt.

**Pmm.** A bitmap byte is the set of its 1-bits. `held` is what the callers own;
`pmm_free` is modelled under its contract (an address that came from `pmm_alloc`).

**Heap.** `blocks` is the linked list with the addresses of its blocks, `mine`
the pages the heap took, `given` what callers own. `kmalloc` calls itself after it took
a page; every turn of the recursion is a step (`Grow`), and the last is `Take` or `Fail`.
`OtherCaller` is any step of `Pmm` on pages that are not the heap's, between two calls.
`kfree` merges with the next block of the *list*; when that block lies elsewhere the
merged size spans memory that belongs to others. `crossed` records such a merge, the
model makes no further call after it, and the properties hold up to there. Nothing in
the kernel calls `kmalloc` or `kfree` yet.

**Fat32.** `pc` is the next sector the running command writes; between two of
them the power may go, and each transfer may fail, `FAILURES` times in a behaviour. Errors
the code ignores are ignored in the model: `blind` says that a write it took for done
did not reach the disk. A text is its length, a name is a model
value, a directory entry is a record; `dir` holds the directories by first cluster.
`write` to a file that is not found (or could not be read) calls `create` and goes
on with an entry that was never filled in (`shell.c:309-314`); the text then goes to
whatever sector the stack names. The model follows the creation and stops there
(`garbled`), as nothing is known of the disk after it. `cd` changes
`current_cluster` and remembers one directory, `previous_cluster`.
`Owners(c)` are the entries, FAT links, the root and the command's own claim that
refer to cluster `c`; a claim bridges the sectors between which neither disk
structure refers to it.

**Ata.** One action per port access. `At` lets the boot run only while no command
does, so a command may stop it anywhere. The device's answer is an action without
fairness: it may come late, or never. Each waiting loop has `TIMEOUT` turns. A register
write that the device ignores (while busy or with words to move) has no effect.
`late` says that a loop ran out of turns, `cut` that a command came between.

**Keyboard.** The model begins at the ring: the controller's one-byte buffer is
not in it. The timer's loop is a step per scancode and no keyboard interrupt falls
into it. `down` and `lost` say what the user's hands did and whether the ring
dropped the last stroke of a shift key; the code has no such variables.

## 3. The runs

| run | instance | question and answer |
|---|---|---|
| `any_network` | 3 tasks, any scores, memory that falls and rises, tasks created at any time, `ticks` that wrap in the middle of a period | the boot is not disturbed; the CPU runs the current task; the ticks since the last cycle are on the account of the one who had them, modulo the byte's width; every switch rests on a decision of its own tick; in ALERT the shell has every second turn; a blocked task runs only then |
| `shipped_weights` | 4 tasks of priorities 0, 5 and 10, the repository's weights, memory around the threshold, a watchdog | types, in the fallback too; the shell keeps running until Prajna is given up; every READY task runs again when memory stays above the threshold long enough |
| `starvation_guard` | the code's 8 tasks and threshold of 5 turns, the repository's weights, priorities 0 and 5 | nobody waits longer than 11 turns, the threshold and a turn for all but two of the tasks |
| `offline` | weights missing | **violated**: "falls back to round-robin automatically" |
| `decision_log` | log of 3, history of 2, bytes modulo 3, 6 cycles with 0 to 5 free pages each | readers return the latest entries, before, at and after the wrap; an ALERT's page count is exact; a steady decline is announced |
| `task_history` | ring of 4, four usages | a flag means a deviation from one of the recent cycles |
| `rolling_average` | the same | **violated**: the usage is not compared with the average of the ring |
| `memory` | 16 pages, 3 of them above the kernel; requests of half a page, of a page with too little left to split, of more than a page | pages are conserved and never the kernel's; allocations keep apart and blocks fill the heap's pages up to the first merge across a gap; `kmalloc` returns; the bitmap implements the pool |
| `ata` | sectors of two words, loops of one turn, three transfers | an undisturbed transfer is true; a write hits its own sector unless a loop ran out; every transfer ends |
| `fat_crash` | 7 clusters, three nested directories, a two-cluster file, a file without a cluster, a full first sector; one transfer fails, power cuts anywhere | one owner for every cluster and nothing in use is free, until a failed write goes unnoticed; no file behind the end mark; only cuts, failures and a text for a file without a cluster lose clusters; `cd ..` leads up; the file store is implemented; commands end |
| `fat_size` | touch, write without any failure | **violated**: `Written`, but `cat` shows nothing |
| `keyboard` | ring of 3 slots, lines of 2 characters, a character key, a shift key | order, loss only at a full ring, exact lines, shift not stuck, the ring drains |

### Bounds, and why they are enough

* *Tasks*: three is the least number for which a choice, a loser and a shell
  differ; four lets two losers compete for the guard. `starvation_guard` has the code's eight, as
  its bound depends on how many there are; there the tasks are created in the first turns (`CreatedEarly`,
  `CREATED_BY`); `GuardBoundsWaiting` has tasks that come at any time. The
  bookkeeping theorems hold for any number.
* *Time*: `PERIOD` 1 or 2 for 100. `TICK_MOD` 9 with `PERIOD` 2 keeps what matters of
  2^32 and 100: the remainder is not 0 (2^32 % 100 = 96), yet at least the AI
  interval, so the cycle after the wrap is due. `RUN_MOD` divides `TICK_MOD`, as
  256 divides 2^32. An `ASSUME` states both. `BOOT_TICKS` bounds
  the time until the greeting (seconds, not a wrap of `ticks`).
* *Waiting*: `wait_ticks` saturates at `WAIT_CAP`, above every threshold a decision
  compares it with. In `starvation_guard` that is 12, one more than `BoundedWait` allows: the wait of 11 turns
  is reached (with one turn less the bound is violated) and the cap is not.
* *Watchdog*: it is in `shipped_weights` only, as a frozen permission table multiplies the states of
  `any_network`. The theorems have it in every instance.
* *Rings*: 2 to 4 slots and enough pushes to wrap twice. The log's theorems hold for
  every size.
* *Bytes*: 3 values for 256, with page counts that exceed it, threshold within it
  (64 <= 256 in the code).
* *Bitmap and heap*: two bytes, so that a scan leaves a full byte for the next; the
  kernel ends inside a page just above low memory; page and header have their real sizes.
  Three pages give the heap a page, a gap held by another caller, and a page behind it.
  The theorems of `Pmm` and `Heap` hold for every size.
* *Volume*: three levels of directories, so that `cd ..` can go wrong; chains of one and
  two clusters and none; a directory whose first sector is full and one with room
  only there (`FIRST < SLOTS`). A text has length 0 or 1: a line has at most 255
  characters, less than a sector, so the loop of `fat32_write_file` never comes
  round. One step with a failing transfer reaches every branch of the code; the
  theorems hold for any number of failures, names, entries and clusters.
* *Room in the FAT*: touch and write need a free entry; the volume that has none is in section 6.
* *Disk transfers*: two words tell a first from a later one, one turn tells an answer in
  time from a late one, three transfers let one of the boot, one that stops it and a
  following one meet. A sector address has two digits, as it goes through several registers.
* *Keyboard*: one shift key. With two, releasing one while the other is held
  clears `shift_held`; that is what the code does, and `ShiftNotStuck` is about the
  other direction.

### Fairness

`Scheduler`: weak fairness of the timer (it never stops and its handler runs
to its end; `CountTick` is the part of `Tick` that is always possible when a tick is, and no other step counts one) and of `BootStep` (the boot code executes between ticks; its guard for
the end of the wait is the code's own). Nothing is assumed of task creation, memory or
the watchdog. `Fat32`: weak fairness of the running command's steps; it holds the
CPU with interrupts off, and a power cut ends it. Nobody has to start a command.
`Heap`: weak fairness of the turns of a `kmalloc` that has begun. `Ata`: weak fairness of
the command's steps, strong fairness of the boot's, which is stopped again and again
but gets on between two interrupts; none of the device.
`Keyboard`: weak fairness of the timer's steps, none of the keyboard. The safety
properties use no fairness.

The deadlock check is off where behaviours end: `decision_log` (`MAX_CYCLES`), `ata`
(`CALLS`), `fat_crash` (nothing follows a `garbled` write). The
heap's model goes on with the other callers after a crossed merge.

## 4. What is proved

All proofs are for every value of the constants that satisfies the modules'
named assumptions, which are the ones TLC evaluates in the runs.

* **`PmmProofs`** (`PmmAssumption`). `TypeCorrect`, `PagesConserved`,
  `KernelProtected`, `FreeCountCorrect`, `ImplementsPool`. The inductive invariant adds two facts
  to types and conservation: before `pmm_init` nothing is held and the bitmap is
  clear, and held pages are never reserved ones. Without the latter, freeing a held
  page could put a reserved page into the pool. Lemmas say that `/ 8` and `% 8` name
  one bit for every page, that setting and clearing a bit changes one page only, and
  that first fit finds a free page and fails only on a full bitmap. The
  refinement maps the bitmap to the set of its free pages; `TypeCorrect` and
  the invariant supply what each step of the pool asks for. `FreeCountCorrect`, that
  the count Prajna decides on is the number of pages neither reserved nor held, follows
  from conservation: pages and marked pages are finite sets and one contains the other.
* **`HeapProofs`** (`PmmAssumption`, `HeapAssumption`). `HeapCallsPmm`, `AllocationsStayApart`,
  `HeapLosesNothing`, `KmallocIsShort`. The first says that the heap is one more caller of the page allocator, so
  what is proved of `Pmm` holds with the heap in place. The other two are one
  argument. `AllocationsApart` alone is not inductive: it says nothing of where the free
  blocks lie, and `kmalloc` hands these out. `HeapInv` says of *all* blocks that
  they keep apart (`Apart`), that every byte of a page the heap took lies in exactly one of them and
  no other byte does (`Tiles`), that what callers own are used blocks (`Served`), and
  that no address has two owners (`OneOwner`). `kmalloc` and `kfree` exchange one or two
  neighbours of the list for others that cover the same bytes (`Splice`), a new page adds a
  block and its bytes together. A merge keeps this if the two blocks are adjacent in memory, which is what
  `crossed` says; that the code does not look is why the theorems have it as a
  condition. `NothingLost` then counts: the sum of the blocks' sizes is the size of the set
  of their bytes.
* **`SchedulerProofs`** (`PrajnaAssumption`, `SchedulerAssumption`,
  `NetworkAssumption`). `TypeCorrect`, `BootUndisturbed`, `CpuAgrees`: the invariant is
  the conjunction of the three. `CpuRunsCurrent` has its base in `BootOwnsTheCpu`: when
  `scheduler_start` runs, slot 0 is the only task and its saved stack is the
  one `task_create` made. A switch preserves it because the candidates exclude the
  current task and every other slot is READY with its own stack. One lemma per
  action, for any network, periods and number of tasks.

  Of a turn: `ChargesFollowTheCpu`, `DecisionsAreFresh`, `ShellRecovers`, `BlockedAfterShell`. The
  invariant `TurnInv` adds `Modes` (which of the modes go together), `NoneMissed`
  (`last_ai_tick` is a multiple of the period, and no later one has passed
  except while no task existed), and `Charges` (the ticks since that cycle are on the current
  task's account). `NoneMissed` is why every switch has a cycle of its own tick: a
  scheduler tick is a multiple of the period, so it is at least a period after the last
  one; where the counter wraps in the middle of a period, the unsigned difference is the
  remainder of 2^32, which the assumption puts above the AI interval. `Charges` survives
  the wraps because 256 divides 2^32.

  Of the starvation guard: `GuardBoundsWaiting`, that `BoundedWait` holds as long as Prajna is in
  charge and memory is not low (`PrajnaInCharge`). `BoundedWait` speaks of tasks between whom the network is
  even-handed (`EvenHanded`): it makes
  nobody HIGH by his score, and differs by less than a step of priority between two tasks that did not
  run. Tasks come and never go, so tasks that are even-handed together now always were, and
  `GuardInv` carries the induction under that condition (`EvenBefore`). The one hypothesis is
  `FewTasks`: at most `STARVATION_THRESHOLD + 3` tasks, and a saturation of
  the model's counter above the limit. The bound itself is not inductive. A task that starves
  (waits longer than the threshold) is HIGH, so it is passed over only for another
  that starves; the invariant `Overtaken` counts these: a task that has waited n turns beyond the
  threshold leaves behind it n + 1 that have waited n - 1 turns at most. They cannot starve again in the meantime, unless there
  are so many tasks that the first of them exceeds the threshold before all had their turn. That
  is where the limit on the number of tasks comes from, and it is sharp: with a threshold of 1 and
  4 tasks TLC reaches the bound, with a threshold of 0 and 4 tasks, one more than allowed, it exceeds it. The
  code's `MAX_TASKS` 8 and threshold 5 are at the limit exactly, and the wait is then 11 turns, as the run
  `starvation_guard` finds. The
  shipped weights are even-handed between the priorities 0 and 5 (the assumption
  `ShippedIsEvenHanded` of `MCScheduler`, which TLC evaluates), but not beyond: section 5.
* **`PrajnaLogProofs`** (`PrajnaLogAssumption`). `TypeCorrect`, `LogIsRecent`,
  `SamplesAreRecent`, `ReasonIsExact`, `AlertIsWarned`. One invariant, `RingHolds`, is stated for any
  ring and used for both: slots below the write index belong to the current round,
  the others to the previous one. `RingPush` shows that storing and advancing keep
  it; `RingNewest` and `RingOldest` read it off in the two directions the code does.
  `ReasonIsExact` rests on the threshold being at most 256. `AlertIsWarned` needs an invariant over the past:
  `Warned` says that the screen shows the warning if some cycle gave it and no later one
  made another forecast. Under a steady loss the last cycle above the threshold is less than one
  cycle's loss away from it, so the forecast is less than one cycle, within any horizon; when it finds exactly the threshold
  the code makes no forecast, and the cycle before it gave the warning. The cycles are counted
  without the bound of the run (`MAX_CYCLES` is any number).
* **`TaskHistoryProofs`** (`TaskHistoryAssumption`). `TypeCorrect`, `FlagsAreDeviations`. The
  invariant `RingIsRecent` relates every slot to the cycle that filled it. What `avg_history`
  averages is, swapped arguments and all, a set of slots of the ring, so of recent cycles
  (`rolling_average` shows that it is not the set the name promises). `SumClose` adds up: a usage within
  60% of every sample is within 60% of their sum over their number.
* **`KeyboardProofs`** (`KeyboardAssumption`). `TypeCorrect`, `ShiftFollowsKeys`,
  `ImplementsTerminal`, `LoopIsShort`. `Held` reads the ring between its two indices as a sequence; pushing
  appends to it, popping takes its head, and it is full at one less than the slots,
  for any number of slots. `LineFilled` (no NUL before `buf_pos`) is why the line the
  shell sees ends where the editor put its NUL. `ShiftInv` follows `shift_held` through the
  strokes still in the ring: what it will be once they are handled is never "held"
  with no shift key down, unless a stroke was dropped.
* **`Fat32Proofs`** (`Fat32Assumption`, `HostAssumption`: the volume was left in order, with
  end marks in FAT entries 0 and 1, and in its directories only `..` says cluster 0, as
  the FAT's rules have it). `TypeCorrect`,
  `OrderedDirectories`, `NoSharedClusters`, `AllocatedWhileOwned`, `NothingLeaks`, `UpLeadsUp`,
  `ImplementsStore`, `CommandsAreShort`, for every volume and any number of failing transfers. `IInv` adds to types and order what the
  locals say of the disk (`Locals`): the cluster taken is still free when it is marked,
  the slot chosen has no end mark before it, the entry found still holds the
  cluster that was read, and entries 0 and 1 never lead into the volume. On it rests
  `OInv`, that a cluster has at most one owner and then a FAT entry that is not 0. Every
  writing step leaves a cluster's owners alone or hands it from one to the next: a link
  to the claim (`FreeOwned`), a claim to an entry (`EntryTakes`), an entry to a claim
  (`UnlinkOwned`); `Mark` claims a cluster nothing refers to. The refinement needs all of
  this in one place: a text changes one file only because no other entry owns its
  cluster. Files are found by name, which the invariant `Named` carries from the
  search to the write.

  `NothingLeaks` is about steps: on a disk as `IInv` has it, a step without a failure moves each
  cluster that had an owner or was free to an owner or to the free ones. `UpLeadsUp` has an invariant of its
  own (`UInv`): no command writes a directory's entry (`Tree`), so where `cd` went
  down stays the way up (`Above`). It needs the rule on cluster 0: an entry other than `..` that said 0 would
  lead to the root, and `cd ..` from there to a directory that is not above it.
* **`AtaProofs`** (`AtaAssumption`). `TypeCorrect`, `WritesInPlace`, `TrueTransfers`, `TransfersAreShort`, for
  every sector size, every length of the loops and any number of transfers. `IInv` adds to
  the types what status, task and buffer of the device say of one another. `Ours` says that a task that
  writes is the running command's: its sector, its words so far. That is `WritesStayPut`, although
  the registers a command sets may have been ignored: they are only while the
  device waits for the boot to move words, and then it ignores the command too. `TransfersAreTrue`
  needs more, that a transfer begins with the device at rest. `Left` is that fact made inductive: what the
  device may still have to do, for every place the command is at, the boot's interrupted read
  among it. `Progresses` follows a transfer that nothing comes between from there to its return.

**Sums.** The heap's bytes and the history's average are folds, which the definitions compute
recursively. They are unfolded to their recursion over prefixes, and what holds of every prefix is
proved by a least counterexample: strict inclusion is well-founded on finite sets (`WellFoundedInduction`),
so a set of prefixes that violate the claim has a smallest member, and the recursion refutes it.

**What ends.** A liveness property says that something is reached under fairness, and the
second half of that is out of the prover's reach. The first half is a measure, a natural number that every step
of the operation lowers and no other step raises, and it is proved as an action property. These are not
run: TLC checks the liveness properties that follow from them and the fairness of section 3.

* `LoopIsShort` (for `RingDrains`): the strokes in the ring. None comes in behind those the timer interrupt
  found, so its loop has at most `SCANCODE_BUFFER_SIZE - 1` turns.
* `KmallocIsShort` (for `KmallocReturns`): the free pages. The recursion is no deeper than there are.
* `TransfersAreShort` (for `TransferEnds`): the stages to come, and within one the turns or words left.
  A command that stops a transfer of the boot leaves its measure where it was.
* `CommandsAreShort` (for `CommandEnds`): the FAT entries that are not 0 and the failures to come, twice, and one more
  while the loop of delete is not at entry 0. A turn at an entry that is 0 already
  frees nothing, but it leads to entry 0, and entry 0 to the end mark, unless it has been cleared. The one
  step excepted is a turn at entry 0 when that is 0, and the theorem adds that no chain leads there before a
  failed write goes unnoticed: with the hypothesis of `CommandEnds` it is not reached.

**Only model-checked.** Liveness itself (`EveryTaskRuns`, `ShellRuns`, `RingDrains`, `CommandEnds`,
`KmallocReturns`, `TransferEnds`). There is no theorem about waiting for every network: the
guard makes a starved task HIGH, which only makes it equal to a task the network has made HIGH already, so
two of these with the better scores take turns and a third waits for ever; `AnyPreference` has such networks.
The three violated properties of section 5 are false, and TLC's counterexamples are all there is to say.

## 5. Disagreements with the code's own comments

Three have a run:

1. `offline`: `ai_kernel.c:357` says the scheduler falls back to round-robin. With
   the weights missing every entry of `perm_table` stays 0, so all tasks are blocked
   and the fallback loop takes the first READY slot: two tasks alternate, a third
   never runs. The shipped kernel has one task, so this shows once a third is created.
2. `rolling_average`: `avg_history(hist, filled, len, index)` is called with `len` and
   `index` swapped, so a full ring is averaged below its write index only.
3. `fat_size`: the `return 0` inside the loop of `fat32_write_file` leaves before the
   size is stored. `write` reports success and `cat` prints nothing.

Observed while modelling and kept in the models as the code has it, without a run:

* `ai_kernel.c:222` and `shell.c:326` say only the shell runs in ALERT. A blocked task
  gets every second turn through the fallback, as the current task is never a
  candidate. `RecoveryShell` and `BlockedRunsOnlyAfterShell` say exactly how far this goes.
* `ai_kernel.c:246` means to force a starved task "even in ALERT"; the `continue` at 226
  comes first.
* `README.md:128` and `:237` speak of a decision every 50 ticks or 50 ms. A cycle needs
  a scheduler tick, so it comes every 100 ticks, one second.
* `touch` reports success although both of its writes may have failed
  (`fat32.c:291,303`).
* `ata.c:145` and `:179` say to wait until BSY clears. When the loop has run out of turns the
  driver goes on all the same; if the device answers then, the late answer can be taken for that of the
  next command, and an address of which only some registers were accepted names another sector. The
  conditions `~late` in `Ata`'s properties are there because of this.
* `ata_write_sector` sends FLUSH at once after the last word, which a device that still stores
  the sector ignores, and reads no ERR after it: a refused sector counts as written.
* `ata_identify` selects the slave (0xB0) where its comment at `ata.c:71` says master; the master's
  status is never looked at by it.
* A command that stops a transfer of the boot leaves the boot with another's registers and
  data. Only what it reads is wrong: `WritesStayPut` shows that the disk is not.
* `rm` of a file without a cluster (0), as other systems make empty files, clears FAT entry 0 and
  ends; the next one goes round on entry 0 for ever, in the timer interrupt. No failure is
  needed for it. `CommandEnds` excepts exactly this, and a wrong chain after an unnoticed failure.
* `write` to such a file takes a cluster that nothing refers to (`NoLeak` excepts it).
* `cd ..` knows one directory: two levels down it goes up once and then to the root, and after
  `cd .` it stays. `UpIsUp` says how far it can be trusted.
* `ai_kernel.c:243` means to "force" a task that waited too long "to run". The guard makes it HIGH, which
  orders it before others only where nobody is HIGH by his score; between two HIGH tasks the score
  decides. A task of priority 10 is HIGH after six turns of waiting, and
  once more when it has just run: `scheduler_do_pending_switch` resets `wait_ticks` but not `wait_time`, which is
  what the network scores and is refreshed only while a task waits (`scheduler.c:101-102`). With eight tasks
  of priorities 0 and 10 TLC finds such a task chosen after one turn, before one that starves. In
  a simulation of the same rules with the repository's weights the wait of the others reaches 318
  turns instead of 11 when seven or eight tasks are there and most have priority 10, until the score of their long
  wait alone puts them first. No task of priority 10 is created today. So `BoundedWait`
  promises nothing beside tasks the network prefers; that such a task runs in the end is `EveryTaskRuns`, for four.
* `pit.c:129` counts a turn's ticks in a byte. After the boot a period has 100, but of a boot of
  256 ticks or more before the first cycle every 256 are lost; `CpuAccounting` is about the remainder.
* `heap.c:79` merges "with next block if it's also free"; the list's next block need not be adjacent.

## 6. What is not modelled

* *A full volume* (`fat32.c:236`): the scan for a free cluster stops only at 0x0FFFFFF8 or a read
  error and goes on behind the FAT. What it finds there depends on bytes that are no FAT; `Fat32`
  ends where the FAT has no free entry.
* *After a write with an entry that was never filled in* (`shell.c:311`): any sector may be hit.
  `Fat32` stops.
* *`fat32_init` failing* (`kernel.c:117`): the kernel goes on with a geometry of zeros, and
  `touch` writes into sector 0. `Fat32` starts from a volume that was read.
* *Why `cd` fails* (`fat32.c:339`): the comparison reads the eight characters of the argument past its
  end, so it depends on what an earlier line left in the buffer. A `cd` that fails changes
  nothing, and that is how `Fat32` sees it. The comparison of file names in the FAT's 8.3 form is abstracted
  to equality of names.
* *Listing, reading a file for `cat` and the weights*: they change nothing; what they show is
  `Shown` of `Fat32`.
* *`ata_identify`'s data*: nothing reads it. The master's registers that are always written alike
  (sector count) are part of the address.
* *The heap after a crossed merge*: memory is shared then, and anything may follow.
* *`kmalloc` without a heap* (`heap.c:59-66`): the guard `HeapUp` of `Kmalloc` is not in the code. If `heap_init` found
  no page, `kmalloc` takes every page there is, writes each one's address through a null pointer, and returns 0. `kernel_main`
  calls `heap_init` when every managed page is still free (`kernel.c:114-120`), so only a machine without one gets there.
* *Two failures in one step*: a turn of the delete loop whose reads and writes fail together counts as one failure. When
  `write` could not read the directory and creates the file once more, that creation goes well (`WriteUnread`).
* *Console, top bar, warnings on rows 22 and 23*: output. `row` and `col` are read by nothing
  else. `put_char` wraps at row 25 and `scroll` moves rows 9 to 22 only, so a character may be
  written to cell 2000, one behind the screen, before the row is looked at. Of the top rows only the
  forecast on row 22 is modelled, for `WarnedBeforeAlert`.
* *`starvation_warned`*: it only keeps a warning from being drawn twice.
* *The network's floating-point layers and `ml_math.c`*: pure arithmetic on floats; the values are a
  parameter, and the shipped weights are tabulated. `ml_weights_load` is a success or a failure.
* *Descriptor tables, entry code, string library*: straight-line code. The order of
  `sti` and the tail of the interrupted handler in `switch.asm:26` (a handler nested on a
  resumed task's stack) is a hazard without a property: the tail draws and returns, and
  stack depth is not in the models.

## 7. How it was built, and what is left

Order: `Prajna`, `Scheduler` and `MCScheduler`; `Pmm` against `PageAllocator`; `SchedulerProofs`;
`PrajnaLog`, with proofs, and `TaskHistory`; `Fat32` against `FileStore`; `Keyboard` against
`Terminal`; `Ata`; `Heap` on `Pmm`; directories, `cd` and unnoticed failures in `Fat32`;
turns in `SchedulerProofs`, `KeyboardProofs`, `Fat32Proofs`, `AtaProofs`; `HeapProofs`,
`TaskHistoryProofs`, the warning in `PrajnaLogProofs`, leaks and `cd ..` in `Fat32Proofs`; the starvation
guard in `SchedulerProofs`, and the measures of what ends in `KeyboardProofs`, `HeapProofs`, `AtaProofs` and `Fat32Proofs`.

Left, where the models could be taken further: the nesting of handlers at `switch.asm:26` with stack depths; the console's
cursor.

## 8. Running it

In `tla/`: `tlc -workers 2 -config AnyNet.cfg MCScheduler` (the `runs` of `PROJECT.json`
pair modules with configurations), `tlapm PmmProofs.tla` for the proofs. Operators
whose names end in `_Mut` are deliberate mutations, named in `mutants`: with one of them
in place of the definition it mutates, the run's property is violated.
