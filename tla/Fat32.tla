------------------------------- MODULE Fat32 -------------------------------
(***************************************************************************)
(* The FAT32 driver (kernel/fat32.c) under the shell's touch, write, rm    *)
(* and cd (kernel/shell.c), one action per sector it writes.               *)
(*                                                                         *)
(* Commands run to their end in the timer interrupt, so no two overlap;    *)
(* what can happen between two sectors is that a transfer fails or the     *)
(* power goes.  A sector is written as a whole or not at all.              *)
(*                                                                         *)
(* A text stands for its length: 0 is the empty text.  What the line       *)
(* buffer holds (255 characters) fits one sector, so a write is one sector *)
(* and the loop of fat32_write_file never comes round.                     *)
(***************************************************************************)
EXTENDS Integers

CONSTANTS
  Names,       \* 8.3 names of files after folding to upper case
  Typed,       \* those the user types
  Folders,     \* names of directories, "." and ".." among them
  LENGTH,      \* longest text
  LAST,        \* last entry of the FAT
  FIRST,       \* directory entries in the first sector (16)
  SLOTS,       \* directory entries in all sectors
  Dirs,        \* first clusters of the directories
  HostDir,     \* directories, FAT and data as another system left them
  HostFat,
  HostData,
  FAILURES,    \* steps in which transfers may fail
  CRASHES,     \* the power may go
  NEW_FILES    \* write is also used on files that do not exist

EOC      == LAST + 1     \* 0x0FFFFFF8 and above
ROOT     == 2
Slots    == 1 .. SLOTS
Clusters == 2 .. LAST
Texts    == 0 .. LENGTH
NONE     == -1           \* no report

\* "other" is a volume label or part of a long name.  Nothing reads more of an end
\* mark or a deleted entry than that it is one.
Entries ==
  [kind : {"live"}, name : Names, cluster : 0 .. EOC, size : Texts]
  \cup [kind : {"dir"}, name : Folders, cluster : {0} \cup Dirs, size : {0}]
  \cup [kind : {"end", "deleted", "other"}, name : {""}, cluster : {0}, size : {0}]

Blank(kind) == [kind |-> kind, name |-> "", cluster |-> 0, size |-> 0]

ASSUME Fat32Assumption ==
  /\ "" \notin Names /\ Typed \subseteq Names
  /\ LENGTH \in Nat \ {0} /\ LAST \in Nat /\ LAST >= ROOT
  /\ SLOTS \in Nat /\ FIRST \in 1 .. SLOTS
  /\ ROOT \in Dirs /\ Dirs \subseteq Clusters
  /\ HostDir \in [Dirs -> [Slots -> Entries]]
  /\ HostFat \in [0 .. LAST -> {0} \cup 2 .. EOC]
  /\ HostData \in [Clusters -> Texts]
  /\ FAILURES \in Nat /\ CRASHES \in BOOLEAN /\ NEW_FILES \in BOOLEAN

VARIABLES
  fat, dir, data,    \* the disk
  current_cluster, previous_cluster,    \* the shell's directory and cd ..'s
  pc,                \* the sector the running command comes to next
  command, name, slot, cluster, text,   \* its locals
  said,              \* what a command has just reported
  failures,          \* not in the code: steps in which a transfer failed
  blind,             \* not in the code: a write among them the driver took for done
  garbled            \* not in the code: write used an entry it never filled in

disk   == <<fat, dir, data>>
place  == <<current_cluster, previous_cluster>>
locals == <<pc, command, name, slot, cluster, text, said>>
faults == <<failures, blind>>
vars   == <<disk, place, locals, faults, garbled>>

Idle ==
  pc = "idle" /\ command = "" /\ name = "" /\ slot = 0 /\ cluster = 0 /\ text = 0

Init ==
  /\ fat = HostFat
  /\ dir = HostDir
  /\ data = HostData
  /\ current_cluster = ROOT /\ previous_cluster = ROOT     \* fat32_init
  /\ Idle
  /\ said = NONE
  /\ failures = 0 /\ blind = FALSE /\ garbled = FALSE

-----------------------------------------------------------------------------
(* Control.                                                                *)

Goto(at, cmd, f, s, c, x) ==
  /\ pc' = at
  /\ command' = cmd
  /\ name' = f
  /\ slot' = s
  /\ cluster' = c
  /\ text' = x
  /\ said' = NONE
  /\ UNCHANGED <<place, garbled>>

\* the command is over and its locals with it
Return(code) ==
  /\ pc' = "idle" /\ command' = "" /\ name' = ""
  /\ slot' = 0 /\ cluster' = 0 /\ text' = 0
  /\ said' = code

Finish(code) == Return(code) /\ UNCHANGED <<place, garbled>>

-----------------------------------------------------------------------------
(* Transfers.                                                              *)

Fails == failures < FAILURES /\ failures' = failures + 1

\* ata_write_sector, whose caller takes it for done or not: a failure is reported,
\* with the sector on the disk or not; or it is not, because the disk's answer to
\* the flush is never read or the caller looks at no result.
Transfer(sector, new, ok) ==
  \/ ok /\ sector' = new /\ UNCHANGED faults
  \/ ok /\ Fails /\ blind' = TRUE /\ UNCHANGED sector
  \/ ~ok /\ Fails /\ sector' \in {sector, new} /\ UNCHANGED blind

\* fat_set_cluster, whose caller never learns that it failed
SetFat(c, value) == Transfer(fat, [fat EXCEPT ![c] = value], TRUE)

-----------------------------------------------------------------------------
(* The FAT and the directory.                                              *)

\* fat32_find_free_cluster.  The code goes on behind the FAT when it finds nothing
\* in it; the model ends there: touch and write are bounded to volumes with room.
FirstFree == CHOOSE c \in Clusters : fat[c] = 0 /\ \A d \in 2 .. c - 1 : fat[d] # 0
FatHasFree == \E c \in Clusters : fat[c] = 0

Here == dir[current_cluster]

\* fat32_find_file and fat32_find_dir: up to the end mark, files or directories only
Matches(kind, f) ==
  {s \in Slots : /\ Here[s].kind = kind /\ Here[s].name = f
                 /\ \A t \in 1 .. s - 1 : Here[t].kind # "end"}
Least(S) == CHOOSE s \in S : \A t \in S : s <= t
Files(f) == Matches("live", f)
Found(f) == Least(Files(f))

\* fat32_create_file looks at the first sector only
Unused   == {s \in 1 .. FIRST : Here[s].kind \in {"end", "deleted"}}

FreeSlot_Mut == Least(Unused) - 1

FreeSlot == Least(Unused)

-----------------------------------------------------------------------------
(* fat32_write_file, on a file that was found                              *)

\* Its start, given the entry in slot s with first cluster c.
WriteFile(f, s, c, x) ==
  /\ UNCHANGED <<disk, blind>>
  /\ \/ c # 0 /\ Goto("data", "write", f, s, c, x) /\ UNCHANGED failures
     \/ c = 0 /\ Fails /\ Finish(1)
     \/ c = 0 /\ FatHasFree /\ Goto("take", "write", f, s, FirstFree, x) /\ UNCHANGED failures

\* the cluster of an empty file: allocated, and noted in the caller's entry only
TakeCluster ==
  /\ pc = "take"
  /\ SetFat(cluster, EOC)
  /\ UNCHANGED <<dir, data>>
  /\ Goto("data", command, name, slot, cluster, text)

WriteText ==
  /\ pc = "data" /\ text > 0
  /\ \E ok \in BOOLEAN :
       /\ Transfer(data, IF cluster \in Clusters THEN [data EXCEPT ![cluster] = text]
                         ELSE data, ok)
       /\ Finish(IF ok THEN 0 ELSE 2)
  /\ UNCHANGED <<fat, dir>>

\* only an empty text gets past the loop, to the directory entry
WriteEntry ==
  /\ pc = "data" /\ text = 0
  /\ \/ Fails /\ UNCHANGED <<dir, blind>> /\ Finish(3)
     \/ \E ok \in BOOLEAN :
          /\ Transfer(dir, [dir EXCEPT ![current_cluster][slot].size = 0,
                                       ![current_cluster][slot].cluster = cluster], ok)
          /\ Finish(IF ok THEN 0 ELSE 4)
  /\ UNCHANGED <<fat, data>>

-----------------------------------------------------------------------------
(* fat32_create_file                                                       *)

\* What follows it.  touch reports the code.  write ignores it and goes on with an
\* entry nothing was ever stored in: the text goes to any sector, and what the disk
\* holds from there on is not modelled.
Created(cmd, code) ==
  \/ cmd = "touch" /\ Finish(code)
  \/ cmd = "write" /\ Return(NONE) /\ garbled' = TRUE /\ UNCHANGED place

\* the first sector is read, an entry and a cluster are chosen
CreateFile(cmd, f) ==
  /\ UNCHANGED <<disk, blind>>
  /\ \/ Fails /\ \E code \in {1} \cup {2 : s \in Unused} : Created(cmd, code)
     \/ Unused = {} /\ Created(cmd, 3) /\ UNCHANGED failures
     \/ /\ Unused # {} /\ FatHasFree
        /\ Goto("mark", cmd, f, FreeSlot, FirstFree, 0)
        /\ UNCHANGED failures

MarkCluster_Mut ==
  /\ pc = "mark"
  /\ UNCHANGED <<disk, faults>>
  /\ Goto("entry", command, name, slot, cluster, text)

MarkCluster ==
  /\ pc = "mark"
  /\ SetFat(cluster, EOC)
  /\ UNCHANGED <<dir, data>>
  /\ Goto("entry", command, name, slot, cluster, text)

\* whether the entry was written is not looked at
StoreEntry ==
  /\ pc = "entry"
  /\ Transfer(dir, [dir EXCEPT ![current_cluster][slot] =
                      [kind |-> "live", name |-> name, cluster |-> cluster, size |-> 0]], TRUE)
  /\ UNCHANGED <<fat, data>>
  /\ Created(command, 0)

-----------------------------------------------------------------------------
(* fat32_file_delete                                                       *)

Unlink_Mut ==
  /\ pc = "unlink"
  /\ dir' = [dir EXCEPT ![current_cluster][slot] = Blank("end")]
  /\ Goto("free", command, name, slot, cluster, text)
  /\ UNCHANGED <<fat, data, faults>>

Unlink ==
  /\ pc = "unlink"
  /\ \E ok \in BOOLEAN :
       /\ Transfer(dir, [dir EXCEPT ![current_cluster][slot] = Blank("deleted")], ok)
       /\ IF ok THEN Goto("free", command, name, slot, cluster, text) ELSE Finish(253)
  /\ UNCHANGED <<fat, data>>

FreeCluster_Mut ==
  /\ pc = "free" /\ cluster # EOC
  /\ fat' = [fat EXCEPT ![cluster] = 0]
  /\ UNCHANGED <<dir, data, faults>>
  /\ Goto("free", command, name, slot, fat'[cluster], text)

\* One turn of the loop: follow the link, or stop after this cluster when it cannot
\* be read, and free the cluster.  What keeps the link from being read may keep the
\* cluster from being freed.
FreeCluster ==
  /\ pc = "free" /\ cluster # EOC
  /\ UNCHANGED <<dir, data>>
  /\ \/ SetFat(cluster, 0) /\ Goto("free", command, name, slot, fat[cluster], text)
     \/ /\ Fails /\ Goto("free", command, name, slot, EOC, text)
        /\ \/ fat' = [fat EXCEPT ![cluster] = 0] /\ UNCHANGED blind
           \/ UNCHANGED fat /\ blind' = TRUE

Deleted ==
  /\ pc = "free" /\ cluster = EOC
  /\ UNCHANGED <<disk, faults>>
  /\ Finish(0)

-----------------------------------------------------------------------------
(* The shell's commands.                                                   *)

Ready == pc = "idle" /\ ~garbled

Touch(f) ==
  /\ Ready
  /\ CreateFile("touch", f)

WriteOld(f, x) ==
  /\ Ready /\ Files(f) # {}
  /\ WriteFile(f, Found(f), Here[Found(f)].cluster, x)

\* the file is not found
WriteNew(f) ==
  /\ Ready /\ NEW_FILES /\ Files(f) = {}
  /\ CreateFile("write", f)

\* The search failed, and the file is created once more; reads of one failing
\* transfer at a time, so the rest of create goes well.
WriteUnread(f) ==
  /\ Ready /\ Files(f) # {} /\ Fails
  /\ UNCHANGED <<disk, blind>>
  /\ \/ Unused = {} /\ Created("write", 3)
     \/ Unused # {} /\ FatHasFree /\ Goto("mark", "write", f, FreeSlot, FirstFree, 0)

Rm(f) ==
  /\ Ready
  /\ UNCHANGED <<disk, blind>>
  /\ \/ /\ Files(f) # {} /\ UNCHANGED failures
        /\ Goto("unlink", "rm", f, Found(f), Here[Found(f)].cluster, 0)
     \/ Files(f) = {} /\ Finish(255) /\ UNCHANGED failures
     \/ Files(f) # {} /\ Fails /\ Finish(255)
     \/ Files(f) # {} /\ Fails /\ Finish(254)

CdUp_Mut ==
  /\ Ready
  /\ current_cluster' = previous_cluster
  /\ previous_cluster' = current_cluster
  /\ UNCHANGED <<disk, locals, faults, garbled>>

CdUp ==
  /\ Ready
  /\ current_cluster' = previous_cluster
  /\ previous_cluster' = ROOT
  /\ UNCHANGED <<disk, locals, faults, garbled>>

\* A directory is also not found when a transfer fails, or when an earlier, longer
\* line left other characters behind the end of the name, which are compared too.
Cd(f) ==
  /\ Ready /\ f # ".." /\ Matches("dir", f) # {}
  /\ LET c == Here[Least(Matches("dir", f))].cluster IN
       current_cluster' = IF c = 0 THEN ROOT ELSE c
  /\ previous_cluster' = current_cluster
  /\ UNCHANGED <<disk, locals, faults, garbled>>

\* fat32_init reads the same boot sector again; only the disk survives
PowerCut ==
  /\ CRASHES /\ pc # "idle"
  /\ Return(NONE)
  /\ current_cluster' = ROOT /\ previous_cluster' = ROOT
  /\ UNCHANGED <<disk, faults, garbled>>

Step ==
  \/ TakeCluster \/ WriteText \/ WriteEntry
  \/ MarkCluster \/ StoreEntry
  \/ Unlink \/ FreeCluster \/ Deleted

Next ==
  \/ \E f \in Typed :
       Touch(f) \/ Rm(f) \/ WriteNew(f) \/ WriteUnread(f) \/ \E x \in Texts : WriteOld(f, x)
  \/ CdUp \/ \E f \in Folders : Cd(f)
  \/ Step
  \/ PowerCut

Spec == Init /\ [][Next]_vars

\* A command that has begun holds the processor, interrupts off, until it ends.
FairSpec == Spec /\ WF_vars(Step)

-----------------------------------------------------------------------------
(* Who refers to a cluster.                                                *)

\* "." and ".." name a directory that another entry owns
Owns(e, c) ==
  e.cluster = c /\ (e.kind = "live" \/ (e.kind = "dir" /\ e.name \notin {".", ".."}))

Referrers(d, f, c) ==
  {<<"entry", p>> : p \in {p \in Dirs \X Slots : Owns(d[p[1]][p[2]], c)}}
  \cup {<<"link", k>> : k \in {k \in Clusters : f[k] = c}}
  \cup {<<"root", k>> : k \in {ROOT} \cap {c}}

\* a command's own claim, between the disk's last sector and its next
Claiming ==
  pc \in {"entry", "free"} \/ (pc = "data" /\ Here[slot].cluster # cluster)

Claim(c) == {<<"claim", k>> : k \in {k \in Clusters \cap {c} : Claiming /\ k = cluster}}

Owners(c) == Referrers(dir, fat, c) \cup Claim(c)

InOrder(d) ==
  \A e \in Dirs : \A s, t \in Slots : t < s /\ d[e][t].kind = "end" => d[e][s].kind = "end"

\* Another system leaves end marks in entries 0 and 1 and a volume without lost
\* ends, crossed chains and files in free clusters.  In a directory only ".." may
\* say cluster 0, which means the root, and "." is the directory itself.
ASSUME HostAssumption ==
  /\ HostFat[0] = EOC /\ HostFat[1] = EOC
  /\ InOrder(HostDir)
  /\ \A c \in Clusters :
       /\ Referrers(HostDir, HostFat, c) # {} => HostFat[c] # 0
       /\ \A r1, r2 \in Referrers(HostDir, HostFat, c) : r1 = r2
  /\ \A d \in Dirs, s \in Slots :
       HostDir[d][s].kind = "dir" /\ HostDir[d][s].name # ".." =>
         HostDir[d][s].cluster # 0 /\ (HostDir[d][s].name = "." => HostDir[d][s].cluster = d)

-----------------------------------------------------------------------------
(* Properties.                                                             *)

\* Clusters, links, entries and locals stay within the volume and its FAT.
TypeOK ==
  /\ fat \in [0 .. LAST -> {0} \cup 2 .. EOC]
  /\ dir \in [Dirs -> [Slots -> Entries]]
  /\ data \in [Clusters -> Texts]
  /\ current_cluster \in Dirs /\ previous_cluster \in Dirs
  /\ pc \in {"idle", "take", "data", "mark", "entry", "unlink", "free"}
  /\ command \in {"", "touch", "write", "rm"}
  /\ name \in Names \cup {""}
  /\ slot \in 0 .. SLOTS
  /\ pc # "idle" => slot \in Slots /\ name \in Names
  /\ cluster \in 0 .. EOC
  /\ pc \in {"take", "mark", "entry"} => cluster \in Clusters
  /\ text \in Texts
  /\ said \in {NONE} \cup 0 .. 255
  /\ failures \in 0 .. FAILURES
  /\ blind \in BOOLEAN /\ garbled \in BOOLEAN

\* No two files share a cluster and none runs into another's chain, wherever the
\* power went during touch, write and rm and whichever transfer failed, as long as
\* the driver did not take a failed write for done.
OneOwner ==
  ~blind => \A c \in Clusters : \A r1, r2 \in Owners(c) : r1 = r2

\* A cluster something refers to is never free in the FAT, with the same exception:
\* create marks it before the entry is written, delete frees it after the entry is
\* gone.
OwnedIsAllocated ==
  ~blind => \A c \in Clusters : Owners(c) # {} => fat[c] # 0

\* No file hides behind the mark at which the searches stop, whatever fails.
NothingBehindEnd == InOrder(dir)

Lost == {c \in Clusters : fat[c] # 0 /\ Owners(c) = {}}

\* Only a power cut, a failed transfer and a text for a file that has no cluster
\* yet cost clusters: rm gives back the whole chain, and what touch takes ends up
\* in an entry.
NoLeak ==
  [][~PowerCut /\ failures' = failures =>
       Lost' \subseteq Lost \cup {c \in {cluster} : WriteText /\ Here[slot].cluster = 0}]_vars

\* The file store: the live entries with what their first sector holds.
Content(e) ==
  IF e.kind = "live"
  THEN [name |-> e.name, text |-> IF e.cluster \in Clusters THEN data[e.cluster] ELSE 0]
  ELSE [name |-> "", text |-> 0]

Store == INSTANCE FileStore WITH
  Places <- Slots,
  target <- name,
  folder <- current_cluster,
  files  <- [d \in Dirs |-> [s \in Slots |-> Content(dir[d][s])]]

\* Sector by sector, cut off anywhere and with transfers failing, the commands do
\* what the file store promises until a failed write goes unnoticed: only files the
\* command names change, in the directory it works in, each in one step.
StoreSpec == Store!Init /\ [][blind \/ Store!Next]_(Store!vars)

\* Every command ends and gives the processor back, unless it follows a chain to
\* FAT entry 0 after an earlier rm has cleared that.
CommandEnds ==
  (pc \notin {"idle", "free"} /\ ~(fat[0] = 0 /\ (cluster = 0 \/ blind))) ~> (pc = "idle")

Parents(c) == {d \in Dirs : \E s \in Slots : dir[d][s].kind = "dir" /\ Owns(dir[d][s], c)}

\* cd .. never goes down or sideways: it leads to the directory above, or past it
\* to the root, or nowhere after cd . .
UpIsUp ==
  previous_cluster \in Parents(current_cluster) \cup {current_cluster, ROOT}

-----------------------------------------------------------------------------
(* What the source says and the code does not do.                          *)

Shown(s) ==
  LET e == Here[s] IN IF e.size < data[e.cluster] THEN e.size ELSE data[e.cluster]

\* Once the shell has said "Written", cat shows the text (fat32_write_file ends
\* with the file's size set).
WrittenIsShown ==
  [][\A s \in Slots : command = "write" /\ said' = 0 /\ s = slot => Shown(s)' = text]_vars
=============================================================================
