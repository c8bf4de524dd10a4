---------------------------- MODULE Fat32Proofs ----------------------------
(***************************************************************************)
(* Proofs about the FAT32 driver, for every volume, every set of names and *)
(* any number of failing transfers.                                        *)
(*                                                                         *)
(* Types, the order of the entries and what a command's locals say of the  *)
(* disk form one inductive invariant, IInv: the cluster a command took is  *)
(* still free when its FAT entry is written, its directory entry is still  *)
(* the one it found.  On that rests OInv: a cluster has one owner, an      *)
(* entry, a link, the root or the running command, and every step passes   *)
(* it on from one to the next.  With both, the file store of FileStore is  *)
(* implemented: a text is written where no other file's entry points.      *)
(* IInv alone gives NoLeak, step by step, and with Tree, that no command   *)
(* writes a directory's entry, where cd .. leads.                          *)
(***************************************************************************)
EXTENDS Fat32, FiniteSetTheorems, WellFoundedInduction, TLAPS

\* A set of numbers that is not empty has a least one.
LEMMA LeastIn ==
  ASSUME NEW S \in SUBSET Nat, S # {}
  PROVE  Least(S) \in S /\ \A t \in S : Least(S) <= t
<1> DEFINE Less == {ss \in Nat \X Nat : ss[1] < ss[2]}
<1>1. IsWellFoundedOn(Less, Nat)
  BY NatLessThanWellFounded DEF OpToRel
<1> HIDE DEF Less
<1>2. PICK s \in S : \A t \in S : ~(<<t, s>> \in Less)
  BY <1>1, WFMin, Zenon
<1>3. \A t \in S : s <= t
  <2> SUFFICES ASSUME NEW t \in S PROVE s <= t
    OBVIOUS
  <2>1. <<t, s>> \in Nat \X Nat /\ ~(<<t, s>> \in Less)
    BY <1>2
  <2>2. ~(t < s)
    BY <2>1 DEF Less
  <2> QED BY <2>2, SMT
<1> QED BY <1>3 DEF Least

-----------------------------------------------------------------------------
(* Types.                                                                  *)

(***************************************************************************)
(* What the locals of the running command say of the disk: the cluster it  *)
(* chose is still free, the entry it chose is still unused and has no end  *)
(* mark before it, the entry it found still holds the cluster it read.     *)
(***************************************************************************)
Reserved == fat[0] \in {0, EOC} /\ fat[1] \in {0, EOC}

Locals ==
  /\ pc \in {"take", "mark"} => fat[cluster] = 0
  /\ pc \in {"mark", "entry"} => /\ Here[slot].kind \in {"end", "deleted"}
                                 /\ \A t \in 1 .. slot - 1 : Here[t].kind # "end"
  /\ pc \in {"take", "data", "unlink"} => Here[slot].kind = "live"
  /\ pc = "take" => Here[slot].cluster = 0
  /\ pc = "data" => Here[slot].cluster \in {0, cluster}
  /\ pc = "unlink" => Here[slot].cluster = cluster
  /\ Reserved

IInv == TypeOK /\ Locals /\ NothingBehindEnd

LEMMA Numbers ==
  /\ LENGTH \in Nat \ {0} /\ LAST \in Nat /\ LAST >= 2 /\ EOC = LAST + 1
  /\ SLOTS \in Nat /\ FIRST \in 1 .. SLOTS
BY Fat32Assumption DEF EOC, ROOT

LEMMA Limits ==
  /\ "" \notin Names /\ Typed \subseteq Names
  /\ LENGTH \in Nat \ {0} /\ LAST \in Nat /\ LAST >= 2 /\ EOC = LAST + 1
  /\ SLOTS \in Nat /\ FIRST \in 1 .. SLOTS
  /\ ROOT \in Dirs /\ Dirs \subseteq Clusters /\ ROOT \in Clusters
  /\ 0 \in Texts /\ 0 \in 0 .. EOC /\ EOC \in 0 .. EOC
  /\ \A c \in Clusters : c \in 0 .. EOC /\ c \in 0 .. LAST /\ c # 0 /\ c # EOC
<1>1. /\ "" \notin Names /\ Typed \subseteq Names
      /\ LENGTH \in Nat \ {0} /\ LAST \in Nat /\ LAST >= 2 /\ EOC = LAST + 1
      /\ SLOTS \in Nat /\ FIRST \in 1 .. SLOTS
      /\ ROOT \in Dirs /\ Dirs \subseteq Clusters
  BY Fat32Assumption DEF EOC, ROOT
<1>2. 0 \in Texts /\ 0 \in 0 .. EOC /\ EOC \in 0 .. EOC
  <2> USE Numbers
  <2>1. 0 \in 0 .. LENGTH
    BY SMT
  <2>2. 0 \in 0 .. EOC /\ EOC \in 0 .. EOC
    BY SMT
  <2> QED BY <2>1, <2>2 DEF Texts
<1>3. \A c \in Clusters : c \in 0 .. EOC /\ c \in 0 .. LAST /\ c # 0 /\ c # EOC
  BY Numbers, SMT DEF Clusters
<1> QED BY <1>1, <1>2, <1>3

\* The parts of an entry, and the entries the driver stores.
LEMMA EntryParts ==
  ASSUME NEW e \in Entries
  PROVE  /\ e.cluster \in 0 .. EOC /\ e.size \in Texts
         /\ e.kind \in {"live", "dir", "end", "deleted", "other"}
         /\ e.kind = "live" => e \in [kind : {"live"}, name : Names, cluster : 0 .. EOC, size : Texts]
         /\ e.kind = "dir" => e.cluster \in {0} \cup Dirs
<1>1. CASE e \in [kind : {"live"}, name : Names, cluster : 0 .. EOC, size : Texts]
  BY <1>1
<1>2. CASE e \in [kind : {"dir"}, name : Folders, cluster : {0} \cup Dirs, size : {0}]
  BY <1>2, Limits
<1>3. CASE e \in [kind : {"end", "deleted", "other"}, name : {""}, cluster : {0}, size : {0}]
  BY <1>3, Limits
<1> QED BY <1>1, <1>2, <1>3 DEF Entries

LEMMA EntriesStored ==
  /\ Blank("deleted") \in Entries /\ Blank("deleted").kind = "deleted"
  /\ \A f \in Names, c \in 0 .. EOC :
       [kind |-> "live", name |-> f, cluster |-> c, size |-> 0] \in Entries
  /\ \A e \in Entries, c \in 0 .. EOC : e.kind = "live" =>
       /\ [e EXCEPT !.size = 0, !.cluster = c] \in Entries
       /\ [e EXCEPT !.size = 0, !.cluster = c].kind = "live"
       /\ [e EXCEPT !.size = 0, !.cluster = c].cluster = c
       /\ [e EXCEPT !.size = 0, !.cluster = c].name = e.name
<1>1. Blank("deleted") \in Entries /\ Blank("deleted").kind = "deleted"
  BY DEF Blank, Entries
<1>2. \A f \in Names, c \in 0 .. EOC :
        [kind |-> "live", name |-> f, cluster |-> c, size |-> 0] \in Entries
  BY Limits DEF Entries
<1>3. ASSUME NEW e \in Entries, NEW c \in 0 .. EOC, e.kind = "live"
      PROVE  /\ [e EXCEPT !.size = 0, !.cluster = c] \in Entries
             /\ [e EXCEPT !.size = 0, !.cluster = c].kind = "live"
             /\ [e EXCEPT !.size = 0, !.cluster = c].cluster = c
             /\ [e EXCEPT !.size = 0, !.cluster = c].name = e.name
  <2>1. e \in [kind : {"live"}, name : Names, cluster : 0 .. EOC, size : Texts]
    BY <1>3, EntryParts
  <2> QED BY <2>1, Limits DEF Entries
<1> QED BY <1>1, <1>2, <1>3

\* One entry changes.
LEMMA PutEntry ==
  ASSUME TypeOK, NEW e \in Entries, slot \in Slots
  PROVE  LET new == [dir EXCEPT ![current_cluster][slot] = e] IN
         /\ new \in [Dirs -> [Slots -> Entries]]
         /\ new[current_cluster][slot] = e
         /\ \A d \in Dirs : \A s \in Slots :
              d # current_cluster \/ s # slot => new[d][s] = dir[d][s]
BY DEF TypeOK

LEMMA HereType ==
  ASSUME TypeOK
  PROVE  Here \in [Slots -> Entries]
BY DEF TypeOK, Here

\* The searches give what they look for.
LEMMA FoundFile ==
  ASSUME TypeOK, NEW f, Files(f) # {}
  PROVE  Found(f) \in Slots /\ Here[Found(f)].kind = "live" /\ Here[Found(f)].name = f
<1>1. Files(f) \in SUBSET Nat
  BY SMT DEF Files, Matches, Slots
<1>2. Least(Files(f)) \in Files(f)
  BY <1>1, LeastIn
<1> QED BY <1>2 DEF Found, Files, Matches

LEMMA FoundDir ==
  ASSUME TypeOK, NEW f, Matches("dir", f) # {}
  PROVE  Least(Matches("dir", f)) \in Slots /\ Here[Least(Matches("dir", f))].kind = "dir"
<1>1. Matches("dir", f) \in SUBSET Nat
  BY SMT DEF Matches, Slots
<1>2. Least(Matches("dir", f)) \in Matches("dir", f)
  BY <1>1, LeastIn
<1> QED BY <1>2 DEF Matches

LEMMA FoundSlot ==
  ASSUME TypeOK, Unused # {}
  PROVE  /\ FreeSlot \in Slots /\ Here[FreeSlot].kind \in {"end", "deleted"}
         /\ \A t \in 1 .. FreeSlot - 1 : Here[t].kind # "end"
<1>1. Unused \in SUBSET Nat
  BY SMT DEF Unused
<1>2. FreeSlot \in Unused /\ \A t \in Unused : FreeSlot <= t
  BY <1>1, LeastIn DEF FreeSlot
<1>3. FreeSlot \in 1 .. FIRST /\ Here[FreeSlot].kind \in {"end", "deleted"}
  BY <1>2 DEF Unused
<1>4. FreeSlot \in Slots
  BY <1>3, Numbers, SMT DEF Slots
<1>5. ASSUME NEW t \in 1 .. FreeSlot - 1 PROVE Here[t].kind # "end"
  <2>1. t \in 1 .. FIRST /\ ~(FreeSlot <= t)
    BY <1>3, Numbers, SMT
  <2> QED BY <1>2, <2>1 DEF Unused
<1> QED BY <1>3, <1>4, <1>5

LEMMA FoundCluster ==
  ASSUME TypeOK, FatHasFree
  PROVE  FirstFree \in Clusters /\ fat[FirstFree] = 0
<1> DEFINE S == {c \in Clusters : fat[c] = 0}
<1>1. S \in SUBSET Nat /\ S # {}
  BY SMT DEF Clusters, FatHasFree
<1>2. Least(S) \in S /\ \A c \in S : Least(S) <= c
  BY <1>1, LeastIn
<1> DEFINE m == Least(S)
<1>3. m \in Clusters /\ fat[m] = 0 /\ \A d \in 2 .. m - 1 : fat[d] # 0
  <2>1. m \in Clusters /\ fat[m] = 0
    BY <1>2
  <2>2. ASSUME NEW d \in 2 .. m - 1 PROVE fat[d] # 0
    <3> HIDE DEF m
    <3>1. d \in Clusters /\ ~(m <= d)
      BY <2>1, Numbers, SMT DEF Clusters
    <3> QED BY <1>2, <3>1 DEF m
  <2> QED BY <2>1, <2>2
<1> HIDE DEF m
<1> QED BY <1>3, Zenon DEF FirstFree

-----------------------------------------------------------------------------
(* Types, locals and the order of the entries, step by step.               *)

DiskType ==
  /\ fat \in [0 .. LAST -> {0} \cup 2 .. EOC]
  /\ dir \in [Dirs -> [Slots -> Entries]]
  /\ data \in [Clusters -> Texts]
  /\ failures \in 0 .. FAILURES
  /\ blind \in BOOLEAN

LEMMA InitI == Init => IInv
<1> SUFFICES ASSUME Init PROVE IInv
  OBVIOUS
<1>1. /\ HostDir \in [Dirs -> [Slots -> Entries]]
      /\ HostFat \in [0 .. LAST -> {0} \cup 2 .. EOC]
      /\ HostData \in [Clusters -> Texts]
      /\ HostFat[0] = EOC /\ HostFat[1] = EOC /\ InOrder(HostDir)
  BY Fat32Assumption, HostAssumption
<1>2. 0 \in 0 .. FAILURES /\ 0 \in 0 .. SLOTS
  <2>1. FAILURES \in Nat /\ SLOTS \in Nat
    BY Fat32Assumption
  <2> QED BY <2>1, SMT
<1>3. TypeOK
  BY <1>1, <1>2, Limits DEF Init, Idle, TypeOK
<1>4. Locals /\ NothingBehindEnd
  <2>1. Reserved /\ NothingBehindEnd
    BY <1>1 DEF Init, Reserved, NothingBehindEnd
  <2>2. pc = "idle"
    BY DEF Init, Idle
  <2> QED BY <2>1, <2>2 DEF Locals
<1> QED BY <1>3, <1>4 DEF IInv

\* A step that ends the command.
LEMMA Ends ==
  ASSUME IInv, NEW code \in {NONE} \cup 0 .. 255, Return(code), DiskType',
         current_cluster' \in Dirs, previous_cluster' \in Dirs, garbled' \in BOOLEAN,
         InOrder(dir)', Reserved'
  PROVE  IInv'
<1>1. 0 \in 0 .. SLOTS
  BY Numbers, SMT
<1>2. pc' = "idle" /\ command' = "" /\ name' = "" /\ slot' = 0 /\ cluster' = 0 /\ text' = 0 /\ said' = code
  BY DEF Return
<1>3. TypeOK'
  BY <1>1, <1>2, Limits DEF TypeOK, DiskType
<1>4. Locals' /\ NothingBehindEnd'
  BY <1>2 DEF Locals, Reserved, NothingBehindEnd
<1> QED BY <1>3, <1>4 DEF IInv

\* A step to another sector of the command.
LEMMA Goes ==
  ASSUME IInv, DiskType',
         NEW at \in {"take", "data", "mark", "entry", "unlink", "free"},
         NEW cmd \in {"touch", "write", "rm"}, NEW f \in Names, NEW s \in Slots,
         NEW c \in 0 .. EOC, NEW x \in Texts, Goto(at, cmd, f, s, c, x),
         at \in {"take", "mark", "entry"} => c \in Clusters
  PROVE  TypeOK'
<1>1. /\ pc' = at /\ command' = cmd /\ name' = f /\ slot' = s /\ cluster' = c /\ text' = x
      /\ said' = NONE /\ current_cluster' = current_cluster
      /\ previous_cluster' = previous_cluster /\ garbled' = garbled
  BY DEF Goto, place
<1>2. s \in 0 .. SLOTS
  BY Numbers, SMT DEF Slots
<1> QED BY <1>1, <1>2 DEF IInv, TypeOK, DiskType

LEMMA FailsType ==
  ASSUME TypeOK, Fails
  PROVE  failures' \in 0 .. FAILURES
<1>1. FAILURES \in Nat
  BY Fat32Assumption
<1>2. failures \in 0 .. FAILURES /\ failures < FAILURES /\ failures' = failures + 1
  BY DEF TypeOK, Fails
<1> QED BY <1>1, <1>2, SMT

\* What a transfer leaves of the sector and of the counters.
LEMMA FatTransfer ==
  ASSUME TypeOK, NEW new, NEW ok \in BOOLEAN, Transfer(fat, new, ok)
  PROVE  /\ failures' \in 0 .. FAILURES /\ blind' \in BOOLEAN /\ (blind => blind')
         /\ fat' \in {fat, new} /\ (~blind' /\ ok => fat' = new)
BY FailsType DEF Transfer, faults, TypeOK

LEMMA DirTransfer ==
  ASSUME TypeOK, NEW new, NEW ok \in BOOLEAN, Transfer(dir, new, ok)
  PROVE  /\ failures' \in 0 .. FAILURES /\ blind' \in BOOLEAN /\ (blind => blind')
         /\ dir' \in {dir, new} /\ (~blind' /\ ok => dir' = new)
BY FailsType DEF Transfer, faults, TypeOK

LEMMA DataTransfer ==
  ASSUME TypeOK, NEW new, NEW ok \in BOOLEAN, Transfer(data, new, ok)
  PROVE  /\ failures' \in 0 .. FAILURES /\ blind' \in BOOLEAN /\ (blind => blind')
         /\ data' \in {data, new}
BY FailsType DEF Transfer, faults, TypeOK

\* Steps that change no entry keep the order, and those that change one in use or
\* the first unused one.
LEMMA OrderKept ==
  ASSUME IInv, slot \in Slots, NEW e \in Entries, e.kind # "end",
         \/ Here[slot].kind # "end"
         \/ \A t \in 1 .. slot - 1 : Here[t].kind # "end",
         dir' \in {dir, [dir EXCEPT ![current_cluster][slot] = e]}
  PROVE  InOrder(dir)'
<1>1. CASE dir' = dir
  BY <1>1 DEF IInv, NothingBehindEnd, InOrder
<1>2. CASE dir' = [dir EXCEPT ![current_cluster][slot] = e]
  <2>1. /\ dir'[current_cluster][slot] = e
        /\ \A d \in Dirs : \A s \in Slots :
             d # current_cluster \/ s # slot => dir'[d][s] = dir[d][s]
    BY <1>2, PutEntry DEF IInv
  <2> SUFFICES ASSUME NEW d \in Dirs, NEW s \in Slots, NEW t \in Slots, t < s,
                      dir'[d][t].kind = "end"
               PROVE  dir'[d][s].kind = "end"
    BY DEF InOrder
  <2>2. /\ d # current_cluster \/ t # slot
        /\ dir[d][t].kind = "end"
    BY <2>1
  <2>3. dir[d][s].kind = "end"
    BY <2>2 DEF IInv, NothingBehindEnd, InOrder
  <2>4. d # current_cluster \/ s # slot
    <3> SUFFICES ASSUME d = current_cluster, s = slot PROVE FALSE
      OBVIOUS
    <3>1. Here[slot].kind = "end" /\ Here[t].kind = "end"
      BY <2>2, <2>3 DEF Here
    <3>2. t \in 1 .. slot - 1
      BY Numbers, SMT DEF Slots
    <3> QED BY <3>1, <3>2
  <2> QED BY <2>1, <2>3, <2>4
<1> QED BY <1>1, <1>2

(* The steps in which a command begins.                                    *)

LEMMA StillDisk ==
  ASSUME IInv, UNCHANGED <<disk, blind>>, failures' = failures \/ Fails
  PROVE  DiskType' /\ InOrder(dir)' /\ Reserved'
<1>1. failures' \in 0 .. FAILURES
  BY FailsType DEF IInv, TypeOK
<1> QED BY <1>1 DEF IInv, TypeOK, DiskType, disk, InOrder, NothingBehindEnd, Locals, Reserved

LEMMA FinishEnds ==
  ASSUME IInv, NEW code \in {NONE} \cup 0 .. 255, Finish(code), DiskType', InOrder(dir)',
         Reserved'
  PROVE  IInv'
<1>1. Return(code) /\ current_cluster' \in Dirs /\ previous_cluster' \in Dirs /\ garbled' \in BOOLEAN
  BY DEF Finish, place, IInv, TypeOK
<1> QED BY <1>1, Ends

LEMMA CreatedEnds ==
  ASSUME IInv, NEW cmd, NEW code \in 0 .. 255, Created(cmd, code), DiskType', InOrder(dir)',
         Reserved'
  PROVE  IInv'
<1>1. CASE Finish(code)
  BY <1>1, FinishEnds
<1>2. CASE Return(NONE) /\ garbled' = TRUE /\ UNCHANGED place
  <2>1. NONE \in {NONE} \cup 0 .. 255 /\ Return(NONE)
    BY <1>2
  <2>2. current_cluster' \in Dirs /\ previous_cluster' \in Dirs /\ garbled' \in BOOLEAN
    BY <1>2 DEF place, IInv, TypeOK
  <2> QED BY <2>1, <2>2, Ends
<1> QED BY <1>1, <1>2 DEF Created

LEMMA Codes == \A i \in {0, 1, 2, 3, 4, 253, 254, 255} : i \in 0 .. 255 /\ i \in {NONE} \cup 0 .. 255
BY SMT

\* The entry and the cluster create chose.
LEMMA Chosen ==
  ASSUME IInv, UNCHANGED <<disk, blind>>, failures' = failures \/ Fails,
         Unused # {}, FatHasFree, NEW cmd \in {"touch", "write"}, NEW f \in Names,
         Goto("mark", cmd, f, FreeSlot, FirstFree, 0)
  PROVE  IInv'
<1>1. /\ FreeSlot \in Slots /\ Here[FreeSlot].kind \in {"end", "deleted"}
      /\ \A t \in 1 .. FreeSlot - 1 : Here[t].kind # "end"
      /\ FirstFree \in Clusters /\ fat[FirstFree] = 0
  BY FoundSlot, FoundCluster DEF IInv
<1>2. DiskType' /\ InOrder(dir)' /\ Reserved'
  BY StillDisk
<1>3. TypeOK'
  <2>1. /\ FirstFree \in 0 .. EOC /\ 0 \in Texts
        /\ "mark" \in {"take", "data", "mark", "entry", "unlink", "free"}
        /\ cmd \in {"touch", "write", "rm"}
    BY <1>1, Limits
  <2> QED BY <1>1, <1>2, <2>1, Goes
<1>4. pc' = "mark" /\ slot' = FreeSlot /\ cluster' = FirstFree /\ Here' = Here /\ fat' = fat
  BY DEF Goto, place, disk, Here
<1>5. Locals'
  BY <1>1, <1>2, <1>4 DEF Locals, Reserved
<1> QED BY <1>2, <1>3, <1>5 DEF IInv, NothingBehindEnd

LEMMA CreateStep ==
  ASSUME IInv, NEW cmd \in {"touch", "write"}, NEW f \in Names, CreateFile(cmd, f)
  PROVE  IInv'
<1>1. UNCHANGED <<disk, blind>>
  BY DEF CreateFile
<1>2. CASE Fails /\ \E code \in {1} \cup {2 : s \in Unused} : Created(cmd, code)
  <2>1. PICK code \in {1, 2} : Created(cmd, code)
    BY <1>2
  <2>2. DiskType' /\ InOrder(dir)' /\ Reserved'
    BY <1>1, <1>2, StillDisk
  <2> QED BY <2>1, <2>2, CreatedEnds, Codes
<1>3. CASE Unused = {} /\ Created(cmd, 3) /\ UNCHANGED failures
  <2>1. DiskType' /\ InOrder(dir)' /\ Reserved'
    BY <1>1, <1>3, StillDisk
  <2> QED BY <1>3, <2>1, CreatedEnds, Codes
<1>4. CASE /\ Unused # {} /\ FatHasFree
           /\ Goto("mark", cmd, f, FreeSlot, FirstFree, 0)
           /\ UNCHANGED failures
  BY <1>1, <1>4, Chosen
<1> QED BY <1>2, <1>3, <1>4 DEF CreateFile

LEMMA WriteUnreadStep ==
  ASSUME IInv, NEW f \in Names, WriteUnread(f)
  PROVE  IInv'
<1>1. UNCHANGED <<disk, blind>> /\ Fails
  BY DEF WriteUnread
<1>2. CASE Unused = {} /\ Created("write", 3)
  <2>1. DiskType' /\ InOrder(dir)' /\ Reserved'
    BY <1>1, StillDisk
  <2> QED BY <1>2, <2>1, CreatedEnds, Codes
<1>3. CASE Unused # {} /\ FatHasFree /\ Goto("mark", "write", f, FreeSlot, FirstFree, 0)
  BY <1>1, <1>3, Chosen
<1> QED BY <1>2, <1>3 DEF WriteUnread

LEMMA WriteOldStep ==
  ASSUME IInv, NEW f \in Names, NEW x \in Texts, WriteOld(f, x)
  PROVE  IInv'
<1> DEFINE s == Found(f)
           c == Here[Found(f)].cluster
<1>1. s \in Slots /\ Here[s].kind = "live" /\ c \in 0 .. EOC /\ WriteFile(f, s, c, x)
      /\ UNCHANGED <<disk, blind>>
  <2>1. s \in Slots /\ Here[s].kind = "live"
    BY FoundFile DEF WriteOld, IInv
  <2>2. Here[s] \in Entries
    BY <2>1, HereType DEF IInv
  <2> QED BY <2>1, <2>2, EntryParts DEF WriteOld, WriteFile
<1>2. CASE c # 0 /\ Goto("data", "write", f, s, c, x) /\ UNCHANGED failures
  <2>1. DiskType' /\ InOrder(dir)' /\ Reserved'
    BY <1>1, <1>2, StillDisk
  <2>2. TypeOK'
    BY <1>1, <1>2, <2>1, Goes
  <2>3. pc' = "data" /\ slot' = s /\ cluster' = c /\ Here' = Here
    BY <1>1, <1>2 DEF Goto, place, disk, Here
  <2> QED BY <1>1, <2>1, <2>2, <2>3 DEF IInv, Locals, Reserved, NothingBehindEnd
<1>3. CASE Fails /\ Finish(1)
  BY <1>1, <1>3, StillDisk, FinishEnds, Codes
<1>4. CASE c = 0 /\ FatHasFree /\ Goto("take", "write", f, s, FirstFree, x) /\ UNCHANGED failures
  <2>1. DiskType' /\ InOrder(dir)' /\ Reserved'
    BY <1>1, <1>4, StillDisk
  <2>2. FirstFree \in Clusters /\ fat[FirstFree] = 0
    BY <1>4, FoundCluster DEF IInv
  <2>3. TypeOK'
    BY <1>1, <1>4, <2>1, <2>2, Goes, Limits
  <2>4. pc' = "take" /\ slot' = s /\ cluster' = FirstFree /\ Here' = Here /\ fat' = fat
    BY <1>1, <1>4 DEF Goto, place, disk, Here
  <2> QED BY <1>1, <1>4, <2>1, <2>2, <2>3, <2>4 DEF IInv, Locals, Reserved, NothingBehindEnd
<1> QED BY <1>1, <1>2, <1>3, <1>4 DEF WriteFile

LEMMA RmStep ==
  ASSUME IInv, NEW f \in Names, Rm(f)
  PROVE  IInv'
<1>1. UNCHANGED <<disk, blind>>
  BY DEF Rm
<1>2. CASE /\ Files(f) # {} /\ UNCHANGED failures
           /\ Goto("unlink", "rm", f, Found(f), Here[Found(f)].cluster, 0)
  <2>1. DiskType' /\ InOrder(dir)' /\ Reserved'
    BY <1>1, <1>2, StillDisk
  <2>2. Found(f) \in Slots /\ Here[Found(f)].kind = "live"
    BY <1>2, FoundFile DEF IInv
  <2>3. Here[Found(f)].cluster \in 0 .. EOC
    BY <2>2, HereType, EntryParts DEF IInv
  <2>4. TypeOK'
    BY <1>2, <2>1, <2>2, <2>3, Goes, Limits
  <2>5. pc' = "unlink" /\ slot' = Found(f) /\ cluster' = Here[Found(f)].cluster /\ Here' = Here
    BY <1>1, <1>2 DEF Goto, place, disk, Here
  <2> QED BY <2>1, <2>2, <2>4, <2>5 DEF IInv, Locals, Reserved, NothingBehindEnd
<1>3. CASE (Finish(255) \/ Finish(254)) /\ (failures' = failures \/ Fails)
  <2>1. DiskType' /\ InOrder(dir)' /\ Reserved'
    BY <1>1, <1>3, StillDisk
  <2> QED BY <1>3, <2>1, FinishEnds, Codes
<1> QED BY <1>2, <1>3 DEF Rm


(* The steps of a running command.                                         *)

LEMMA EocIsValue == EOC \in {0} \cup 2 .. EOC /\ 0 \in {0} \cup 2 .. EOC
BY Numbers, SMT

\* What a step that writes one FAT entry leaves of the types.
LEMMA FatPut ==
  ASSUME IInv, NEW c \in 0 .. LAST, NEW v \in {0, EOC}, UNCHANGED <<dir, data>>,
         fat' \in {fat, [fat EXCEPT ![c] = v]}, failures' \in 0 .. FAILURES, blind' \in BOOLEAN
  PROVE  DiskType' /\ InOrder(dir)' /\ Reserved'
<1>1. 0 \in 0 .. LAST /\ 1 \in 0 .. LAST
  BY Numbers, SMT
<1>2. fat \in [0 .. LAST -> {0} \cup 2 .. EOC] /\ v \in {0} \cup 2 .. EOC
  BY EocIsValue, ZenonT(60) DEF IInv, TypeOK
<1>3. fat' \in [0 .. LAST -> {0} \cup 2 .. EOC]
  BY <1>2
<1>4. Reserved'
  <2>1. Reserved
    BY DEF IInv, Locals, Reserved
  <2>2. \A k \in 0 .. LAST : fat'[k] \in {fat[k], 0, EOC}
    BY <1>2
  <2> QED BY <1>1, <2>1, <2>2 DEF Reserved
<1> QED BY <1>3, <1>4 DEF IInv, TypeOK, DiskType, InOrder, NothingBehindEnd

LEMMA TakeStep ==
  ASSUME IInv, TakeCluster \/ MarkCluster
  PROVE  IInv'
<1> DEFINE at == IF pc = "take" THEN "data" ELSE "entry"
<1>1. /\ pc \in {"take", "mark"} /\ cluster \in Clusters
      /\ SetFat(cluster, EOC) /\ UNCHANGED <<dir, data>>
      /\ Goto(at, command, name, slot, cluster, text)
  BY DEF TakeCluster, MarkCluster, IInv, TypeOK
<1>2. /\ slot \in Slots /\ name \in Names /\ command \in {"", "touch", "write", "rm"}
      /\ cluster \in 0 .. EOC /\ text \in Texts /\ cluster \in 0 .. LAST /\ cluster # 0
  BY <1>1, Limits DEF IInv, TypeOK
<1>3. DiskType' /\ InOrder(dir)' /\ Reserved'
  <2>1. Transfer(fat, [fat EXCEPT ![cluster] = EOC], TRUE)
    BY <1>1 DEF SetFat
  <2>2. /\ fat' \in {fat, [fat EXCEPT ![cluster] = EOC]}
        /\ failures' \in 0 .. FAILURES /\ blind' \in BOOLEAN
    BY <2>1, FatTransfer DEF IInv
  <2> QED BY <1>1, <1>2, <2>2, FatPut, EocIsValue
<1>4. /\ pc' = at /\ slot' = slot /\ cluster' = cluster /\ Here' = Here
      /\ command' = command
  BY <1>1 DEF Goto, place, Here
<1>5. Locals'
  BY <1>1, <1>3, <1>4 DEF IInv, Locals, Reserved
<1>6. TypeOK'
  BY <1>1, <1>2, <1>3 DEF IInv, TypeOK, DiskType, Goto, place
<1> QED BY <1>3, <1>5, <1>6 DEF IInv, NothingBehindEnd

LEMMA TextStep ==
  ASSUME IInv, WriteText
  PROVE  IInv'
<1>1. PICK ok \in BOOLEAN :
        /\ Transfer(data, IF cluster \in Clusters THEN [data EXCEPT ![cluster] = text] ELSE data, ok)
        /\ Finish(IF ok THEN 0 ELSE 2)
  BY DEF WriteText
<1>2. UNCHANGED <<fat, dir>>
  BY DEF WriteText
<1>3. /\ data' \in [Clusters -> Texts]
      /\ failures' \in 0 .. FAILURES /\ blind' \in BOOLEAN
  <2> DEFINE new == IF cluster \in Clusters THEN [data EXCEPT ![cluster] = text] ELSE data
  <2>1. data \in [Clusters -> Texts] /\ text \in Texts
    BY DEF IInv, TypeOK
  <2>2. new \in [Clusters -> Texts]
    BY <2>1
  <2>3. Transfer(data, new, ok) /\ TypeOK
    BY <1>1 DEF IInv
  <2> HIDE DEF new
  <2>4. failures' \in 0 .. FAILURES /\ blind' \in BOOLEAN /\ data' \in {data, new}
    BY <2>3, DataTransfer
  <2> QED BY <2>1, <2>2, <2>4
<1>4. DiskType' /\ InOrder(dir)' /\ Reserved'
  BY <1>2, <1>3 DEF IInv, TypeOK, DiskType, InOrder, NothingBehindEnd, Locals, Reserved
<1>5. (IF ok THEN 0 ELSE 2) \in {NONE} \cup 0 .. 255
  BY Codes
<1> QED BY <1>1, <1>4, <1>5, FinishEnds

\* What a step that writes the entry leaves of the types.
LEMMA DirPut ==
  ASSUME IInv, slot \in Slots, NEW e \in Entries, e.kind # "end",
         \/ Here[slot].kind # "end"
         \/ \A t \in 1 .. slot - 1 : Here[t].kind # "end",
         dir' \in {dir, [dir EXCEPT ![current_cluster][slot] = e]},
         UNCHANGED <<fat, data>>, failures' \in 0 .. FAILURES, blind' \in BOOLEAN
  PROVE  DiskType' /\ InOrder(dir)' /\ Reserved'
<1>1. InOrder(dir)'
  BY OrderKept
<1>2. dir' \in [Dirs -> [Slots -> Entries]]
  <2>1. dir \in [Dirs -> [Slots -> Entries]] /\ TypeOK
    BY DEF IInv, TypeOK
  <2>2. [dir EXCEPT ![current_cluster][slot] = e] \in [Dirs -> [Slots -> Entries]]
    BY <2>1, PutEntry
  <2> QED BY <2>1, <2>2, Zenon
<1> QED BY <1>1, <1>2 DEF IInv, TypeOK, DiskType, Locals, Reserved

Emptied == [Here[slot] EXCEPT !.size = 0, !.cluster = cluster]

LEMMA EntryStep ==
  ASSUME IInv, WriteEntry
  PROVE  /\ IInv'
         /\ dir' \in {dir, [dir EXCEPT ![current_cluster][slot] = Emptied]}
<1>1. UNCHANGED <<fat, data>> /\ slot \in Slots /\ Here[slot].kind = "live" /\ cluster \in 0 .. EOC
      /\ Here[slot] \in Entries
  BY HereType DEF WriteEntry, IInv, TypeOK, Locals, Reserved
<1>2. [dir EXCEPT ![current_cluster][slot].size = 0,
                  ![current_cluster][slot].cluster = cluster]
        = [dir EXCEPT ![current_cluster][slot] = Emptied]
  BY <1>1 DEF IInv, TypeOK, Emptied, Here
<1>3. Emptied \in Entries /\ Emptied.kind = "live"
  BY <1>1, EntriesStored DEF Emptied
<1>4. PICK code \in {0, 3, 4} : Finish(code)
  BY DEF WriteEntry
<1>5. /\ dir' \in {dir, [dir EXCEPT ![current_cluster][slot] = Emptied]}
      /\ failures' \in 0 .. FAILURES /\ blind' \in BOOLEAN
  <2>1. CASE Fails /\ UNCHANGED <<dir, blind>>
    BY <2>1, FailsType DEF IInv, TypeOK
  <2>2. ASSUME NEW ok \in BOOLEAN,
               Transfer(dir, [dir EXCEPT ![current_cluster][slot].size = 0,
                                         ![current_cluster][slot].cluster = cluster], ok)
        PROVE  /\ dir' \in {dir, [dir EXCEPT ![current_cluster][slot] = Emptied]}
               /\ failures' \in 0 .. FAILURES /\ blind' \in BOOLEAN
    BY <1>2, <2>2, DirTransfer DEF IInv
  <2> QED BY <2>1, <2>2 DEF WriteEntry
<1>6. DiskType' /\ InOrder(dir)' /\ Reserved'
  BY <1>1, <1>3, <1>5, DirPut
<1>7. code \in {NONE} \cup 0 .. 255
  BY <1>4, Codes
<1> QED BY <1>4, <1>5, <1>6, <1>7, FinishEnds

NewEntry == [kind |-> "live", name |-> name, cluster |-> cluster, size |-> 0]

LEMMA StoreStep ==
  ASSUME IInv, StoreEntry
  PROVE  /\ IInv'
         /\ dir' \in {dir, [dir EXCEPT ![current_cluster][slot] = NewEntry]}
         /\ ~blind' => dir' = [dir EXCEPT ![current_cluster][slot] = NewEntry]
<1>1. Transfer(dir, [dir EXCEPT ![current_cluster][slot] = NewEntry], TRUE)
  BY DEF StoreEntry, NewEntry
<1>2. /\ UNCHANGED <<fat, data>> /\ slot \in Slots /\ name \in Names /\ cluster \in 0 .. EOC
      /\ \A t \in 1 .. slot - 1 : Here[t].kind # "end"
      /\ Created(command, 0)
  BY Limits DEF StoreEntry, IInv, TypeOK, Locals, Reserved
<1>3. NewEntry \in Entries /\ NewEntry.kind = "live"
  BY <1>2, EntriesStored DEF NewEntry
<1>4. /\ dir' \in {dir, [dir EXCEPT ![current_cluster][slot] = NewEntry]}
      /\ ~blind' => dir' = [dir EXCEPT ![current_cluster][slot] = NewEntry]
      /\ failures' \in 0 .. FAILURES /\ blind' \in BOOLEAN
  BY <1>1, DirTransfer DEF IInv
<1>5. DiskType' /\ InOrder(dir)' /\ Reserved'
  BY <1>2, <1>3, <1>4, DirPut
<1> QED BY <1>2, <1>4, <1>5, CreatedEnds, Codes

LEMMA UnlinkStep ==
  ASSUME IInv, Unlink
  PROVE  /\ IInv'
         /\ dir' \in {dir, [dir EXCEPT ![current_cluster][slot] = Blank("deleted")]}
         /\ ~blind' /\ pc' = "free" => dir' = [dir EXCEPT ![current_cluster][slot] = Blank("deleted")]
         /\ pc' = "free" => cluster' = cluster
<1>1. PICK ok \in BOOLEAN :
        /\ Transfer(dir, [dir EXCEPT ![current_cluster][slot] = Blank("deleted")], ok)
        /\ IF ok THEN Goto("free", command, name, slot, cluster, text) ELSE Finish(253)
  BY DEF Unlink
<1>2. /\ UNCHANGED <<fat, data>> /\ slot \in Slots /\ name \in Names /\ cluster \in 0 .. EOC
      /\ text \in Texts /\ command \in {"", "touch", "write", "rm"}
      /\ Here[slot].kind = "live"
  BY DEF Unlink, IInv, TypeOK, Locals, Reserved
<1>3. /\ dir' \in {dir, [dir EXCEPT ![current_cluster][slot] = Blank("deleted")]}
      /\ ~blind' /\ ok => dir' = [dir EXCEPT ![current_cluster][slot] = Blank("deleted")]
      /\ failures' \in 0 .. FAILURES /\ blind' \in BOOLEAN
  BY <1>1, DirTransfer DEF IInv
<1>4. DiskType' /\ InOrder(dir)' /\ Reserved'
  BY <1>2, <1>3, DirPut, EntriesStored
<1>5. CASE ok
  <2>1. Goto("free", command, name, slot, cluster, text)
    BY <1>1, <1>5
  <2>2. TypeOK'
    BY <1>2, <1>4, <2>1 DEF IInv, TypeOK, DiskType, Goto, place
  <2>3. Locals' /\ cluster' = cluster
    BY <1>4, <2>1 DEF Locals, Reserved, Goto
  <2> QED BY <1>3, <1>4, <1>5, <2>2, <2>3 DEF IInv, NothingBehindEnd
<1>6. CASE ~ok
  <2>1. Finish(253)
    BY <1>1, <1>6
  <2> QED BY <1>3, <1>4, <2>1, FinishEnds, Codes, ZenonT(60) DEF Finish, Return
<1> QED BY <1>5, <1>6

LEMMA FreeStep ==
  ASSUME IInv, FreeCluster
  PROVE  IInv'
<1>1. /\ pc = "free" /\ cluster # EOC /\ UNCHANGED <<dir, data>>
      /\ slot \in Slots /\ name \in Names /\ cluster \in 0 .. EOC
      /\ text \in Texts /\ command \in {"", "touch", "write", "rm"}
      /\ fat \in [0 .. LAST -> {0} \cup 2 .. EOC]
  BY DEF FreeCluster, IInv, TypeOK
<1>2. cluster \in 0 .. LAST
  <2>1. cluster \in 0 .. EOC /\ cluster # EOC
    BY <1>1
  <2> QED BY <2>1, Numbers, SMT
<1>3. PICK c \in {fat[cluster], EOC} : Goto("free", command, name, slot, c, text)
  BY DEF FreeCluster
<1>4. c \in 0 .. EOC
  <2>1. \A v \in {0} \cup 2 .. EOC : v \in 0 .. EOC
    BY Numbers, SMT
  <2> QED BY <1>1, <1>2, <1>3, <2>1, EocIsValue
<1>5. /\ fat' \in {fat, [fat EXCEPT ![cluster] = 0]}
      /\ failures' \in 0 .. FAILURES /\ blind' \in BOOLEAN
  <2>1. CASE SetFat(cluster, 0)
    <3>1. Transfer(fat, [fat EXCEPT ![cluster] = 0], TRUE)
      BY <2>1 DEF SetFat
    <3> QED BY <3>1, FatTransfer DEF IInv
  <2>2. CASE Fails /\ UNCHANGED blind /\ fat' = [fat EXCEPT ![cluster] = 0]
    BY <2>2, FailsType DEF IInv, TypeOK
  <2>3. CASE Fails /\ blind' = TRUE /\ UNCHANGED fat
    BY <2>3, FailsType DEF IInv, TypeOK
  <2> QED BY <2>1, <2>2, <2>3 DEF FreeCluster
<1>6. DiskType' /\ InOrder(dir)' /\ Reserved'
  BY <1>1, <1>2, <1>5, FatPut, EocIsValue
<1>7. TypeOK'
  BY <1>1, <1>3, <1>4, <1>6 DEF IInv, TypeOK, DiskType, Goto, place
<1>8. Locals'
  BY <1>3, <1>6 DEF Locals, Reserved, Goto
<1> QED BY <1>6, <1>7, <1>8 DEF IInv, NothingBehindEnd

LEMMA OtherSteps ==
  ASSUME IInv, Deleted \/ CdUp \/ (\E f \in Folders : Cd(f)) \/ PowerCut \/ UNCHANGED vars
  PROVE  IInv' /\ UNCHANGED <<fat, dir, failures, blind>>
<1>1. UNCHANGED <<disk, failures, blind>>
  BY DEF Deleted, CdUp, Cd, PowerCut, vars, faults
<1>2. DiskType' /\ InOrder(dir)' /\ Reserved'
  BY <1>1, StillDisk
<1>3. ASSUME Deleted PROVE IInv'
  <2>1. Finish(0) /\ 0 \in {NONE} \cup 0 .. 255
    BY <1>3, Codes DEF Deleted
  <2>2. \A code \in {NONE} \cup 0 .. 255 : Finish(code) => IInv'
    BY <1>2, FinishEnds, Zenon
  <2> QED BY <2>1, <2>2, Zenon
<1>4. ASSUME PowerCut PROVE IInv'
  <2>1. /\ Return(NONE) /\ UNCHANGED garbled
        /\ current_cluster' = ROOT /\ previous_cluster' = ROOT
    BY <1>4 DEF PowerCut
  <2>2. /\ ROOT \in Dirs /\ garbled \in BOOLEAN
    BY Limits DEF IInv, TypeOK
  <2>3. current_cluster' \in Dirs /\ previous_cluster' \in Dirs /\ garbled' \in BOOLEAN
    BY <2>1, <2>2, Zenon
  <2>4. \A code \in {NONE} \cup 0 .. 255 : Return(code) => IInv'
    BY <1>2, <2>3, Ends, Zenon
  <2>5. NONE \in {NONE} \cup 0 .. 255
    OBVIOUS
  <2> QED BY <2>1, <2>4, <2>5, Zenon
<1>5. ASSUME Ready, UNCHANGED <<locals, garbled>>,
             current_cluster' \in Dirs, previous_cluster' \in Dirs
      PROVE  IInv'
  <2>1. /\ pc = "idle" /\ pc' = pc /\ command' = command /\ name' = name /\ slot' = slot
        /\ cluster' = cluster /\ text' = text /\ said' = said /\ garbled' = garbled
    BY <1>5 DEF locals, Ready
  <2>2. TypeOK'
    BY <1>2, <1>5, <2>1 DEF IInv, TypeOK, DiskType
  <2>3. Locals' /\ NothingBehindEnd'
    BY <1>2, <2>1 DEF Locals, Reserved, NothingBehindEnd
  <2> QED BY <2>2, <2>3 DEF IInv
<1>6. ASSUME CdUp \/ (\E f \in Folders : Cd(f)) PROVE IInv'
  <2>1. current_cluster \in Dirs /\ previous_cluster \in Dirs /\ ROOT \in Dirs
    BY Limits DEF IInv, TypeOK
  <2>2. CASE CdUp
    <3>1. /\ Ready /\ UNCHANGED <<locals, garbled>>
          /\ current_cluster' = previous_cluster /\ previous_cluster' = ROOT
      BY <2>2 DEF CdUp
    <3> QED BY <1>5, <2>1, <3>1
  <2>3. ASSUME NEW f \in Folders, Cd(f) PROVE IInv'
    <3> DEFINE s == Least(Matches("dir", f))
               c == Here[s].cluster
    <3>1. Matches("dir", f) # {}
      BY <2>3 DEF Cd
    <3>2. s \in Slots /\ Here[s].kind = "dir"
      BY <3>1, FoundDir DEF IInv
    <3>3. c \in {0} \cup Dirs
      <4>1. Here[s] \in Entries
        BY <3>2, HereType DEF IInv
      <4> QED BY <3>2, <4>1, EntryParts
    <3>4. /\ Ready /\ UNCHANGED <<locals, garbled>>
          /\ current_cluster' = (IF c = 0 THEN ROOT ELSE c)
          /\ previous_cluster' = current_cluster
      BY <2>3 DEF Cd
    <3> HIDE DEF s, c
    <3>5. current_cluster' \in Dirs /\ previous_cluster' \in Dirs
      BY <2>1, <3>3, <3>4
    <3> QED BY <1>5, <3>4, <3>5
  <2> QED BY <1>6, <2>2, <2>3
<1>7. ASSUME UNCHANGED vars PROVE IInv'
  <2>1. /\ pc' = pc /\ command' = command /\ name' = name /\ slot' = slot
        /\ cluster' = cluster /\ text' = text /\ said' = said /\ garbled' = garbled
        /\ current_cluster' = current_cluster /\ previous_cluster' = previous_cluster
        /\ fat' = fat /\ dir' = dir
    BY <1>7 DEF vars, disk, place, locals
  <2>2. TypeOK'
    <3>1. /\ pc \in {"idle", "take", "data", "mark", "entry", "unlink", "free"}
          /\ pc # "idle" => slot \in Slots /\ name \in Names
          /\ pc \in {"take", "mark", "entry"} => cluster \in Clusters
      BY DEF IInv, TypeOK
    <3>2. /\ command \in {"", "touch", "write", "rm"} /\ name \in Names \cup {""}
          /\ slot \in 0 .. SLOTS /\ cluster \in 0 .. EOC /\ text \in Texts
          /\ said \in {NONE} \cup 0 .. 255 /\ garbled \in BOOLEAN
          /\ current_cluster \in Dirs /\ previous_cluster \in Dirs
      BY DEF IInv, TypeOK
    <3> QED BY <1>2, <2>1, <3>1, <3>2, ZenonT(60) DEF TypeOK, DiskType
  <2>3. Locals' /\ NothingBehindEnd'
    BY <1>2, <2>1 DEF IInv, Locals, Reserved, Here, NothingBehindEnd
  <2> QED BY <2>2, <2>3 DEF IInv
<1> QED BY <1>1, <1>3, <1>4, <1>6, <1>7 DEF disk

LEMMA NextI == IInv /\ [Next]_vars => IInv'
<1> SUFFICES ASSUME IInv, [Next]_vars PROVE IInv'
  OBVIOUS
<1>1. ASSUME NEW f \in Typed,
             Touch(f) \/ Rm(f) \/ WriteNew(f) \/ WriteUnread(f) \/ \E x \in Texts : WriteOld(f, x)
      PROVE  IInv'
  <2>1. f \in Names
    BY Limits
  <2> QED BY <1>1, <2>1, CreateStep, RmStep, WriteUnreadStep, WriteOldStep DEF Touch, WriteNew
<1>2. CASE Step
  BY <1>2, TakeStep, TextStep, EntryStep, StoreStep, UnlinkStep, FreeStep, OtherSteps DEF Step
<1>3. CASE CdUp \/ (\E f \in Folders : Cd(f)) \/ PowerCut \/ UNCHANGED vars
  BY <1>3, OtherSteps
<1> QED BY <1>1, <1>2, <1>3 DEF Next

LEMMA AlwaysI == Spec => []IInv
BY InitI, NextI, PTL DEF Spec


\* What a command left in its locals, the directories it worked in and what the host
\* wrote there stay within the volume, whatever fails (all of fat32.c).
THEOREM TypeCorrect == Spec => []TypeOK
BY AlwaysI, PTL DEF IInv

\* No file hides behind an end mark (fat32_create_file, fat32_file_delete).
THEOREM OrderedDirectories == Spec => []NothingBehindEnd
BY AlwaysI, PTL DEF IInv

-----------------------------------------------------------------------------
(* Owners.                                                                 *)

OwnedOnce(c) == (\A r1, r2 \in Owners(c) : r1 = r2) /\ (Owners(c) # {} => fat[c] # 0)

OInv == ~blind => \A c \in Clusters : OwnedOnce(c)

LEMMA Refers ==
  ASSUME NEW d, NEW f, NEW c
  PROVE  /\ \A e \in Dirs, s \in Slots : Owns(d[e][s], c) <=> <<"entry", <<e, s>>>> \in Referrers(d, f, c)
         /\ \A k \in Clusters : f[k] = c <=> <<"link", k>> \in Referrers(d, f, c)
         /\ \A k : <<"claim", k>> \notin Referrers(d, f, c)
<1> DEFINE R == Referrers(d, f, c)
<1>1. ASSUME NEW r
      PROVE  r \in R <=> \/ \E p \in Dirs \X Slots : r = <<"entry", p>> /\ Owns(d[p[1]][p[2]], c)
                         \/ \E k \in Clusters : r = <<"link", k>> /\ f[k] = c
                         \/ \E k \in {ROOT} \cap {c} : r = <<"root", k>>
  <2> DEFINE A == {p \in Dirs \X Slots : Owns(d[p[1]][p[2]], c)}
             B == {k \in Clusters : f[k] = c}
  <2>1. R = {<<"entry", p>> : p \in A} \cup {<<"link", k>> : k \in B}
              \cup {<<"root", k>> : k \in {ROOT} \cap {c}}
    BY DEF Referrers
  <2>2. /\ \A p : p \in A <=> p \in Dirs \X Slots /\ Owns(d[p[1]][p[2]], c)
        /\ \A k : k \in B <=> k \in Clusters /\ f[k] = c
    BY Zenon
  <2> HIDE DEF R, A, B
  <2>3. r \in R <=> \/ \E p \in A : r = <<"entry", p>>
                    \/ \E k \in B : r = <<"link", k>>
                    \/ \E k \in {ROOT} \cap {c} : r = <<"root", k>>
    BY <2>1
  <2>4. (\E p \in A : r = <<"entry", p>>)
          <=> (\E p \in Dirs \X Slots : r = <<"entry", p>> /\ Owns(d[p[1]][p[2]], c))
    BY <2>2, Zenon
  <2>5. (\E k \in B : r = <<"link", k>>) <=> (\E k \in Clusters : r = <<"link", k>> /\ f[k] = c)
    BY <2>2, Zenon
  <2> QED BY <2>3, <2>4, <2>5
<1> HIDE DEF R
<1>2. ASSUME NEW e \in Dirs, NEW s \in Slots PROVE Owns(d[e][s], c) <=> <<"entry", <<e, s>>>> \in R
  <2> DEFINE r == <<"entry", <<e, s>>>>
  <2>1. <<e, s>> \in Dirs \X Slots /\ <<e, s>>[1] = e /\ <<e, s>>[2] = s
    OBVIOUS
  <2>2. r[1] = "entry" /\ r[2] = <<e, s>>
    OBVIOUS
  <2>3. ASSUME r \in R PROVE Owns(d[e][s], c)
    <3>1. \A k : r # <<"link", k>> /\ r # <<"root", k>>
      BY <2>2
    <3>2. PICK p \in Dirs \X Slots : r = <<"entry", p>> /\ Owns(d[p[1]][p[2]], c)
      BY <1>1, <2>3, <3>1, Zenon
    <3>3. p = <<e, s>>
      BY <3>2
    <3> QED BY <2>1, <3>2, <3>3
  <2>4. ASSUME Owns(d[e][s], c) PROVE r \in R
    BY <1>1, <2>1, <2>4
  <2> QED BY <2>3, <2>4
<1>3. ASSUME NEW k \in Clusters PROVE f[k] = c <=> <<"link", k>> \in R
  BY <1>1
<1>4. ASSUME NEW k PROVE <<"claim", k>> \notin R
  BY <1>1
<1> QED BY <1>2, <1>3, <1>4 DEF R

\* Fewer entries and links refer to a cluster, but for one entry.
LEMMA Fewer ==
  ASSUME NEW d1, NEW f1, NEW d2, NEW f2, NEW c, NEW at,
         \A e \in Dirs, s \in Slots : Owns(d2[e][s], c) => Owns(d1[e][s], c) \/ at = <<e, s>>,
         \A k \in Clusters : f2[k] = c => f1[k] = c
  PROVE  Referrers(d2, f2, c) \subseteq Referrers(d1, f1, c) \cup {<<"entry", at>>}
<1> SUFFICES ASSUME NEW r \in Referrers(d2, f2, c), r # <<"entry", at>>
             PROVE  r \in Referrers(d1, f1, c)
  OBVIOUS
<1>1. CASE \E p \in Dirs \X Slots : r = <<"entry", p>> /\ Owns(d2[p[1]][p[2]], c)
  <2>1. PICK e \in Dirs, s \in Slots : r = <<"entry", <<e, s>>>> /\ Owns(d2[e][s], c)
    BY <1>1
  <2>2. Owns(d1[e][s], c)
    BY <2>1
  <2> QED BY <2>1, <2>2, Refers
<1>2. CASE \E k \in Clusters : r = <<"link", k>> /\ f2[k] = c
  BY <1>2, Refers
<1>3. CASE r \in {<<"root", k>> : k \in {ROOT} \cap {c}}
  BY <1>3 DEF Referrers
<1> QED BY <1>1, <1>2, <1>3 DEF Referrers

LEMMA FewerAll ==
  ASSUME NEW d1, NEW f1, NEW d2, NEW f2, NEW c,
         \A e \in Dirs, s \in Slots : Owns(d2[e][s], c) => Owns(d1[e][s], c),
         \A k \in Clusters : f2[k] = c => f1[k] = c
  PROVE  Referrers(d2, f2, c) \subseteq Referrers(d1, f1, c)
<1> SUFFICES ASSUME NEW r \in Referrers(d2, f2, c)
             PROVE  r \in Referrers(d1, f1, c)
  OBVIOUS
<1>1. CASE \E p \in Dirs \X Slots : r = <<"entry", p>> /\ Owns(d2[p[1]][p[2]], c)
  <2>1. PICK e \in Dirs, s \in Slots : r = <<"entry", <<e, s>>>> /\ Owns(d2[e][s], c)
    BY <1>1
  <2>2. Owns(d1[e][s], c)
    BY <2>1
  <2> QED BY <2>1, <2>2, Refers
<1>2. CASE \E k \in Clusters : r = <<"link", k>> /\ f2[k] = c
  BY <1>2, Refers
<1>3. CASE r \in {<<"root", k>> : k \in {ROOT} \cap {c}}
  BY <1>3 DEF Referrers
<1> QED BY <1>1, <1>2, <1>3 DEF Referrers

LEMMA Claims ==
  ASSUME NEW c \in Clusters
  PROVE  /\ Claiming /\ c = cluster => Claim(c) = {<<"claim", c>>}
         /\ ~(Claiming /\ c = cluster) => Claim(c) = {}
         /\ Claiming' /\ c = cluster' => Claim(c)' = {<<"claim", c>>}
         /\ ~(Claiming' /\ c = cluster') => Claim(c)' = {}
BY DEF Claim

\* The two ways in which a cluster goes on having one owner.
LEMMA Kept ==
  ASSUME NEW c \in Clusters, OwnedOnce(c), Owners(c)' \subseteq Owners(c), fat[c] # 0 => fat'[c] # 0
  PROVE  OwnedOnce(c)'
BY DEF OwnedOnce

LEMMA Passed ==
  ASSUME NEW c \in Clusters, NEW r, Owners(c)' \subseteq {r}, fat'[c] # 0
  PROVE  OwnedOnce(c)'
BY DEF OwnedOnce

LEMMA InitO == Init => OInv
<1> SUFFICES ASSUME Init, NEW c \in Clusters PROVE OwnedOnce(c)
  BY DEF OInv
<1>1. dir = HostDir /\ fat = HostFat /\ ~Claiming
  BY DEF Init, Idle, Claiming
<1>2. Owners(c) = Referrers(HostDir, HostFat, c)
  BY <1>1, Claims DEF Owners
<1> QED BY <1>1, <1>2, HostAssumption DEF OwnedOnce

\* Steps that leave the entries and links alone and hold no cluster after.
LEMMA StillOwned ==
  ASSUME OInv, ~blind, UNCHANGED <<fat, dir>>, ~Claiming', NEW c \in Clusters
  PROVE  OwnedOnce(c)'
<1>1. Claim(c)' = {}
  BY Claims
<1>2. Owners(c)' \subseteq Owners(c)
  BY <1>1 DEF Owners
<1> QED BY <1>2, Kept DEF OInv


(* The steps that write.                                                   *)

LEMMA MarkOwned ==
  ASSUME IInv, OInv, TakeCluster \/ MarkCluster, ~blind', NEW c \in Clusters
  PROVE  OwnedOnce(c)'
<1>1. /\ pc \in {"take", "mark"} /\ cluster \in Clusters /\ fat[cluster] = 0
      /\ SetFat(cluster, EOC) /\ UNCHANGED dir /\ cluster' = cluster
      /\ TypeOK /\ fat \in [0 .. LAST -> {0} \cup 2 .. EOC]
  BY DEF TakeCluster, MarkCluster, IInv, TypeOK, Locals, Goto
<1>2. fat' = [fat EXCEPT ![cluster] = EOC] /\ ~blind
  <2>1. Transfer(fat, [fat EXCEPT ![cluster] = EOC], TRUE)
    BY <1>1 DEF SetFat
  <2> QED BY <1>1, <2>1, FatTransfer
<1>3. OwnedOnce(c)
  BY <1>2 DEF OInv
<1>4. EOC # 0 /\ EOC # c /\ c # 0 /\ c \in 0 .. LAST /\ cluster \in 0 .. LAST
  <2>1. EOC # 0
    BY Numbers, SMT
  <2> QED BY <1>1, <2>1, Limits
<1>5. Referrers(dir', fat', c) \subseteq Referrers(dir, fat, c)
  <2>1. \A k \in Clusters : fat'[k] = c => fat[k] = c
    BY <1>1, <1>2, <1>4, Limits
  <2>2. \A e \in Dirs, s \in Slots : Owns(dir'[e][s], c) => Owns(dir[e][s], c)
    BY <1>1
  <2> QED BY <2>1, <2>2, FewerAll
<1>6. CASE c = cluster
  <2>1. Owners(c) = {}
    BY <1>1, <1>3, <1>6 DEF OwnedOnce
  <2>2. Owners(c)' \subseteq {<<"claim", c>>}
    BY <1>5, <2>1, Claims DEF Owners
  <2>3. fat'[c] # 0
    BY <1>1, <1>2, <1>4, <1>6
  <2> QED BY <2>2, <2>3, Passed
<1>7. CASE c # cluster
  <2>1. Owners(c)' \subseteq Owners(c)
    BY <1>1, <1>5, <1>7, Claims DEF Owners
  <2>2. fat'[c] = fat[c]
    BY <1>1, <1>2, <1>4, <1>7
  <2> QED BY <1>3, <2>1, <2>2, Kept
<1> QED BY <1>6, <1>7

\* The entry in the slot comes to own the cluster in the command's hands, which no
\* other entry or link refers to.
LEMMA EntryTakes ==
  ASSUME IInv, OInv, ~blind, ~Claiming', UNCHANGED fat, slot \in Slots, NEW e \in Entries,
         e.cluster = cluster, e.kind = "live",
         dir' = [dir EXCEPT ![current_cluster][slot] = e], Claiming,
         NEW c \in Clusters
  PROVE  OwnedOnce(c)'
<1>1. /\ dir'[current_cluster][slot] = e
      /\ \A d \in Dirs : \A s \in Slots :
           d # current_cluster \/ s # slot => dir'[d][s] = dir[d][s]
  BY PutEntry DEF IInv
<1>2. OwnedOnce(c)
  BY DEF OInv
<1>3. Claim(c)' = {}
  BY Claims
<1>4. CASE c # cluster
  <2>1. \A d \in Dirs, s \in Slots : Owns(dir'[d][s], c) => Owns(dir[d][s], c)
    <3>1. ~Owns(e, c)
      BY <1>4 DEF Owns
    <3> QED BY <1>1, <3>1
  <2>2. Referrers(dir', fat', c) \subseteq Referrers(dir, fat, c)
    BY <2>1, FewerAll
  <2>3. Owners(c)' \subseteq Owners(c)
    BY <1>3, <2>2 DEF Owners
  <2> QED BY <1>2, <2>3, Kept
<1>5. CASE c = cluster
  <2>1. <<"claim", c>> \in Owners(c)
    BY <1>5, Claims DEF Owners
  <2>2. Referrers(dir, fat, c) = {} /\ fat[c] # 0
    <3>1. \A r \in Referrers(dir, fat, c) : r = <<"claim", c>>
      BY <1>2, <2>1 DEF OwnedOnce, Owners
    <3>2. <<"claim", c>> \notin Referrers(dir, fat, c)
      BY Refers
    <3> QED BY <1>2, <2>1, <3>1, <3>2 DEF OwnedOnce
  <2>3. \A d \in Dirs, s \in Slots :
          Owns(dir'[d][s], c) => Owns(dir[d][s], c) \/ <<current_cluster, slot>> = <<d, s>>
    BY <1>1
  <2>4. Referrers(dir', fat', c) \subseteq Referrers(dir, fat, c) \cup {<<"entry", <<current_cluster, slot>>>>}
    <3> DEFINE at == <<current_cluster, slot>>
    <3>1. \A d \in Dirs, s \in Slots : Owns(dir'[d][s], c) => Owns(dir[d][s], c) \/ at = <<d, s>>
      BY <2>3
    <3>2. \A k \in Clusters : fat'[k] = c => fat[k] = c
      OBVIOUS
    <3> HIDE DEF at
    <3>3. Referrers(dir', fat', c) \subseteq Referrers(dir, fat, c) \cup {<<"entry", at>>}
      <4>1. \A d2, f2 :
              /\ \A d \in Dirs, s \in Slots : Owns(d2[d][s], c) => Owns(dir[d][s], c) \/ at = <<d, s>>
              /\ \A k \in Clusters : f2[k] = c => fat[k] = c
              => Referrers(d2, f2, c) \subseteq Referrers(dir, fat, c) \cup {<<"entry", at>>}
        BY Fewer, Zenon
      <4> QED BY <3>1, <3>2, <4>1, Zenon
    <3> QED BY <3>3 DEF at
  <2>5. Owners(c)' \subseteq {<<"entry", <<current_cluster, slot>>>>}
    BY <1>3, <2>2, <2>4 DEF Owners
  <2> QED BY <2>2, <2>5, Passed
<1> QED BY <1>4, <1>5

LEMMA WriteOwned ==
  ASSUME IInv, OInv, WriteEntry, ~blind', NEW c \in Clusters
  PROVE  OwnedOnce(c)'
<1>1. /\ pc = "data" /\ UNCHANGED fat /\ slot \in Slots /\ Here[slot].kind = "live"
      /\ Here[slot].cluster \in {0, cluster} /\ Here[slot] \in Entries /\ cluster \in 0 .. EOC
      /\ pc' = "idle"
  BY HereType DEF WriteEntry, IInv, TypeOK, Locals, Finish, Return
<1>2. dir' \in {dir, [dir EXCEPT ![current_cluster][slot] = Emptied]}
  BY EntryStep
<1>3. ~blind
  <2>1. CASE UNCHANGED blind
    BY <2>1
  <2>2. ASSUME NEW ok \in BOOLEAN,
               Transfer(dir, [dir EXCEPT ![current_cluster][slot].size = 0,
                                         ![current_cluster][slot].cluster = cluster], ok)
        PROVE  ~blind
    BY <2>2, DirTransfer DEF IInv
  <2> QED BY <2>1, <2>2 DEF WriteEntry
<1>4. ~Claiming'
  BY <1>1 DEF Claiming
<1>5. CASE dir' = dir
  BY <1>1, <1>3, <1>4, <1>5, StillOwned
<1>6. CASE dir' = [dir EXCEPT ![current_cluster][slot] = Emptied]
  <2>1. Emptied \in Entries /\ Emptied.kind = "live" /\ Emptied.cluster = cluster
    BY <1>1, EntriesStored DEF Emptied
  <2>2. CASE Here[slot].cluster # cluster
    BY <1>1, <1>3, <1>4, <1>6, <2>1, <2>2, EntryTakes DEF Claiming
  <2>3. CASE Here[slot].cluster = cluster
    <3>1. Owns(Emptied, c) => Owns(dir[current_cluster][slot], c)
      BY <1>1, <2>1, <2>3 DEF Owns, Here
    <3>2. /\ dir'[current_cluster][slot] = Emptied
          /\ \A d \in Dirs : \A s \in Slots :
               d # current_cluster \/ s # slot => dir'[d][s] = dir[d][s]
      BY <1>1, <1>6, <2>1, PutEntry DEF IInv
    <3>3. Referrers(dir', fat', c) \subseteq Referrers(dir, fat, c)
      BY <1>1, <3>1, <3>2, FewerAll
    <3>4. Owners(c)' \subseteq Owners(c)
      BY <1>4, <3>3, Claims DEF Owners
    <3> QED BY <1>1, <1>3, <3>4, Kept DEF OInv
  <2> QED BY <2>2, <2>3
<1> QED BY <1>2, <1>5, <1>6

LEMMA StoreOwned ==
  ASSUME IInv, OInv, StoreEntry, ~blind', NEW c \in Clusters
  PROVE  OwnedOnce(c)'
<1>1. /\ pc = "entry" /\ UNCHANGED fat /\ slot \in Slots /\ name \in Names /\ cluster \in 0 .. EOC
  BY Limits DEF StoreEntry, IInv, TypeOK
<1>2. dir' = [dir EXCEPT ![current_cluster][slot] = NewEntry]
  BY StoreStep
<1>3. ~blind
  <2>1. Transfer(dir, [dir EXCEPT ![current_cluster][slot] = NewEntry], TRUE)
    BY DEF StoreEntry, NewEntry
  <2> QED BY <2>1, DirTransfer DEF IInv
<1>4. pc' = "idle"
  BY DEF StoreEntry, Created, Finish, Return
<1>5. NewEntry \in Entries /\ NewEntry.kind = "live" /\ NewEntry.cluster = cluster
  BY <1>1, EntriesStored DEF NewEntry
<1>6. Claiming /\ ~Claiming'
  BY <1>1, <1>4 DEF Claiming
<1> QED BY <1>1, <1>2, <1>3, <1>5, <1>6, EntryTakes

LEMMA BlankPut ==
  ASSUME IInv, slot \in Slots, dir' = [dir EXCEPT ![current_cluster][slot] = Blank("deleted")]
  PROVE  /\ dir'[current_cluster][slot] = Blank("deleted")
         /\ \A d \in Dirs : \A s \in Slots :
              d # current_cluster \/ s # slot => dir'[d][s] = dir[d][s]
<1> DEFINE e == Blank("deleted")
<1>1. e \in Entries /\ dir' = [dir EXCEPT ![current_cluster][slot] = e] /\ TypeOK
  BY EntriesStored DEF IInv
<1> HIDE DEF e
<1>2. /\ dir'[current_cluster][slot] = e
      /\ \A d \in Dirs : \A s \in Slots :
           d # current_cluster \/ s # slot => dir'[d][s] = dir[d][s]
  BY <1>1, PutEntry
<1> QED BY <1>2 DEF e

LEMMA UnlinkOwned ==
  ASSUME IInv, OInv, Unlink, ~blind', NEW c \in Clusters
  PROVE  OwnedOnce(c)'
<1>1. /\ pc = "unlink" /\ UNCHANGED fat /\ slot \in Slots /\ Here[slot].kind = "live"
      /\ Here[slot].cluster = cluster /\ current_cluster \in Dirs
  BY DEF Unlink, IInv, TypeOK, Locals
<1>2. PICK ok \in BOOLEAN :
        /\ Transfer(dir, [dir EXCEPT ![current_cluster][slot] = Blank("deleted")], ok)
        /\ IF ok THEN Goto("free", command, name, slot, cluster, text) ELSE Finish(253)
  BY DEF Unlink
<1>3. /\ ~blind /\ dir' \in {dir, [dir EXCEPT ![current_cluster][slot] = Blank("deleted")]}
      /\ ok => dir' = [dir EXCEPT ![current_cluster][slot] = Blank("deleted")]
  BY <1>2, DirTransfer DEF IInv
<1>4. OwnedOnce(c)
  BY <1>3 DEF OInv
<1>5. Referrers(dir', fat', c) \subseteq Referrers(dir, fat, c)
  <2>1. CASE dir' = dir
    BY <1>1, <2>1
  <2>2. CASE dir' = [dir EXCEPT ![current_cluster][slot] = Blank("deleted")]
    <3>1. ~Owns(Blank("deleted"), c)
      BY DEF Owns, Blank
    <3>2. /\ dir'[current_cluster][slot] = Blank("deleted")
          /\ \A d \in Dirs : \A s \in Slots :
               d # current_cluster \/ s # slot => dir'[d][s] = dir[d][s]
      BY <1>1, <2>2, BlankPut
    <3>3. \A d \in Dirs, s \in Slots : Owns(dir'[d][s], c) => Owns(dir[d][s], c)
      BY <3>1, <3>2
    <3> QED BY <1>1, <3>3, FewerAll
  <2> QED BY <1>3, <2>1, <2>2
<1>6. CASE ~ok \/ c # cluster
  <2>1. ~(Claiming' /\ c = cluster')
    BY <1>2, <1>6 DEF Claiming, Goto, Finish, Return
  <2>2. Owners(c)' \subseteq Owners(c)
    BY <1>5, <2>1, Claims DEF Owners
  <2> QED BY <1>1, <1>4, <2>2, Kept
<1>7. CASE ok /\ c = cluster
  <2> DEFINE r == <<"entry", <<current_cluster, slot>>>>
  <2>1. Owns(dir[current_cluster][slot], c)
    BY <1>1, <1>7 DEF Owns, Here
  <2>2. r \in Owners(c)
    BY <1>1, <2>1, Refers DEF Owners
  <2>3. ~Owns(dir'[current_cluster][slot], c)
    <3>1. dir'[current_cluster][slot] = Blank("deleted")
      <4>1. slot \in Slots /\ dir' = [dir EXCEPT ![current_cluster][slot] = Blank("deleted")]
        BY <1>1, <1>3, <1>7
      <4> QED BY <4>1, BlankPut, Zenon
    <3>2. ~Owns(Blank("deleted"), c)
      BY DEF Owns, Blank
    <3> QED BY <3>1, <3>2, Zenon
  <2>4. r \notin Referrers(dir', fat', c)
    BY <1>1, <2>3, Refers
  <2> HIDE DEF r
  <2>5. Referrers(dir', fat', c) = {}
    BY <1>4, <1>5, <2>2, <2>4 DEF Owners, OwnedOnce
  <2>6. Owners(c)' \subseteq {<<"claim", c>>}
    BY <2>5, Claims DEF Owners
  <2>7. fat'[c] # 0
    BY <1>1, <1>4, <2>2 DEF OwnedOnce
  <2> QED BY <2>6, <2>7, Passed
<1> QED BY <1>6, <1>7

LEMMA FreeOwned ==
  ASSUME IInv, OInv, FreeCluster, ~blind', NEW c \in Clusters
  PROVE  OwnedOnce(c)'
<1>1. /\ pc = "free" /\ cluster \in 0 .. EOC /\ cluster # EOC /\ UNCHANGED dir
      /\ TypeOK /\ fat \in [0 .. LAST -> {0} \cup 2 .. EOC]
      /\ pc' = "free" /\ cluster' \in {fat[cluster], EOC} /\ Reserved
  BY DEF FreeCluster, IInv, TypeOK, Locals, Goto
<1>2. cluster \in 0 .. LAST /\ (cluster \in Clusters \/ cluster \in {0, 1})
  <2>1. cluster \in 0 .. EOC /\ cluster # EOC
    BY <1>1
  <2> QED BY <2>1, Numbers, SMT DEF Clusters
<1>3. fat' = [fat EXCEPT ![cluster] = 0] /\ ~blind
  <2>1. CASE SetFat(cluster, 0)
    <3>1. Transfer(fat, [fat EXCEPT ![cluster] = 0], TRUE)
      BY <2>1 DEF SetFat
    <3> QED BY <1>1, <3>1, FatTransfer
  <2>2. CASE UNCHANGED blind /\ fat' = [fat EXCEPT ![cluster] = 0]
    BY <2>2
  <2> QED BY <2>1, <2>2 DEF FreeCluster
<1>4. OwnedOnce(c) /\ c # 0 /\ c # EOC /\ c \in 0 .. LAST
  BY <1>3, Limits DEF OInv
<1>5. /\ \A k \in Clusters : fat'[k] = c => fat[k] = c /\ k # cluster
      /\ c # cluster => fat'[c] = fat[c]
  BY <1>1, <1>2, <1>3, <1>4, Limits
<1>6. Referrers(dir', fat', c) \subseteq Referrers(dir, fat, c)
  <2>1. \A e \in Dirs, s \in Slots : Owns(dir'[e][s], c) => Owns(dir[e][s], c)
    BY <1>1
  <2> QED BY <1>5, <2>1, FewerAll
<1>7. CASE c = cluster
  <2>1. <<"claim", c>> \in Owners(c)
    BY <1>1, <1>7, Claims DEF Owners, Claiming
  <2>2. Referrers(dir, fat, c) = {}
    <3>1. \A r \in Referrers(dir, fat, c) : r = <<"claim", c>>
      BY <1>4, <2>1 DEF OwnedOnce, Owners
    <3> QED BY <3>1, Refers
  <2>3. fat[c] # c
    BY <2>2, Refers
  <2>4. Claim(c)' = {}
    BY <1>1, <1>4, <1>7, <2>3, Claims
  <2>5. Owners(c)' = {}
    BY <1>6, <2>2, <2>4 DEF Owners
  <2> QED BY <2>5 DEF OwnedOnce
<1>8. CASE c # cluster /\ c # cluster'
  <2>1. Owners(c)' \subseteq Owners(c)
    BY <1>6, <1>8, Claims DEF Owners
  <2> QED BY <1>4, <1>5, <1>8, <2>1, Kept
<1>9. CASE c # cluster /\ c = cluster'
  <2>1. fat[cluster] = c
    BY <1>1, <1>4, <1>9
  <2>2. cluster \in Clusters
    BY <1>1, <1>2, <1>4, <2>1 DEF Reserved
  <2>3. <<"link", cluster>> \in Owners(c)
    BY <2>1, <2>2, Refers DEF Owners
  <2>4. <<"link", cluster>> \notin Referrers(dir', fat', c)
    BY <1>5, <2>2, Refers
  <2>5. Referrers(dir', fat', c) = {}
    BY <1>4, <1>6, <2>3, <2>4 DEF Owners, OwnedOnce
  <2>6. Owners(c)' \subseteq {<<"claim", c>>}
    BY <2>5, Claims DEF Owners
  <2>7. fat'[c] # 0
    BY <1>4, <1>5, <1>9, <2>3 DEF OwnedOnce
  <2> QED BY <2>6, <2>7, Passed
<1> QED BY <1>7, <1>8, <1>9


\* Entries and links stay; the command ends, is cut off, or has only begun.
LEMMA OtherOwned ==
  ASSUME IInv, OInv, UNCHANGED <<fat, dir>>, ~blind, pc' \in {"idle", "take", "mark", "unlink"},
         NEW c \in Clusters
  PROVE  OwnedOnce(c)'
<1>1. ~Claiming'
  BY DEF Claiming
<1> QED BY <1>1, StillOwned

LEMMA CreateOwned ==
  ASSUME IInv, OInv, NEW cmd, NEW f, CreateFile(cmd, f), ~blind', NEW c \in Clusters
  PROVE  OwnedOnce(c)'
<1>1. UNCHANGED <<fat, dir>> /\ ~blind /\ pc' \in {"idle", "mark"}
  BY DEF CreateFile, disk, Created, Finish, Return, Goto
<1> QED BY <1>1, OtherOwned

LEMMA WriteOldOwned ==
  ASSUME IInv, OInv, NEW f, NEW x, WriteOld(f, x), ~blind', NEW c \in Clusters
  PROVE  OwnedOnce(c)'
<1>1. /\ UNCHANGED <<fat, dir>> /\ ~blind
      /\ \/ pc' \in {"idle", "take"}
         \/ /\ pc' = "data" /\ slot' = Found(f) /\ cluster' = Here[Found(f)].cluster
            /\ current_cluster' = current_cluster
  BY DEF WriteOld, WriteFile, disk, Finish, Return, Goto, place
<1>2. CASE pc' \in {"idle", "take"}
  BY <1>1, <1>2, OtherOwned
<1>3. CASE /\ pc' = "data" /\ slot' = Found(f) /\ cluster' = Here[Found(f)].cluster
           /\ current_cluster' = current_cluster
  <2>1. ~Claiming'
    BY <1>1, <1>3 DEF Claiming, Here
  <2> QED BY <1>1, <2>1, StillOwned
<1> QED BY <1>1, <1>2, <1>3

LEMMA NextO == IInv /\ OInv /\ [Next]_vars => OInv'
<1> SUFFICES ASSUME IInv, OInv, [Next]_vars, ~blind', NEW c \in Clusters PROVE OwnedOnce(c)'
  BY DEF OInv
<1>1. ASSUME NEW f \in Typed,
             Touch(f) \/ Rm(f) \/ WriteNew(f) \/ WriteUnread(f) \/ \E x \in Texts : WriteOld(f, x)
      PROVE  OwnedOnce(c)'
  <2>1. CASE Touch(f) \/ WriteNew(f)
    BY <2>1, CreateOwned DEF Touch, WriteNew
  <2>2. CASE Rm(f)
    <3>1. UNCHANGED <<fat, dir>> /\ ~blind /\ pc' \in {"idle", "unlink"}
      BY <2>2 DEF Rm, disk, Finish, Return, Goto
    <3> QED BY <3>1, OtherOwned
  <2>3. CASE WriteUnread(f)
    <3>1. UNCHANGED <<fat, dir>> /\ ~blind /\ pc' \in {"idle", "mark"}
      BY <2>3 DEF WriteUnread, disk, Created, Finish, Return, Goto
    <3> QED BY <3>1, OtherOwned
  <2>4. CASE \E x \in Texts : WriteOld(f, x)
    BY <2>4, WriteOldOwned
  <2> QED BY <1>1, <2>1, <2>2, <2>3, <2>4
<1>2. CASE Step
  <2>1. CASE WriteText
    <3>1. UNCHANGED <<fat, dir>> /\ ~blind /\ pc' = "idle"
      <4>1. PICK ok \in BOOLEAN :
                Transfer(data, IF cluster \in Clusters THEN [data EXCEPT ![cluster] = text] ELSE data, ok)
        BY <2>1 DEF WriteText
      <4>2. ~blind
        BY <4>1, DataTransfer DEF IInv
      <4> QED BY <2>1, <4>2 DEF WriteText, Finish, Return
    <3> QED BY <3>1, OtherOwned
  <2>2. CASE Deleted
    <3>1. UNCHANGED <<fat, dir>> /\ ~blind /\ pc' = "idle"
      BY <2>2 DEF Deleted, disk, faults, Finish, Return
    <3> QED BY <3>1, OtherOwned
  <2> QED BY <1>2, <2>1, <2>2, MarkOwned, WriteOwned, StoreOwned, UnlinkOwned, FreeOwned DEF Step
<1>3. CASE CdUp \/ (\E f \in Folders : Cd(f)) \/ PowerCut
  <2>1. UNCHANGED <<fat, dir>> /\ ~blind /\ pc' = "idle"
    <3>1. CASE CdUp
      BY <3>1 DEF CdUp, disk, faults, locals, Ready
    <3>2. CASE \E f \in Folders : Cd(f)
      BY <3>2 DEF Cd, disk, faults, locals, Ready
    <3>3. CASE PowerCut
      BY <3>3 DEF PowerCut, disk, faults, Return
    <3> QED BY <1>3, <3>1, <3>2, <3>3
  <2> QED BY <2>1, OtherOwned
<1>4. CASE UNCHANGED vars
  <2>1. UNCHANGED <<fat, dir, pc, slot, cluster, current_cluster>> /\ ~blind
    BY <1>4 DEF vars, disk, faults, locals, place
  <2>2. Owners(c)' \subseteq Owners(c)
    BY <2>1 DEF Owners, Claim, Claiming, Here
  <2> QED BY <2>1, <2>2, Kept DEF OInv
<1> QED BY <1>1, <1>2, <1>3, <1>4 DEF Next

LEMMA AlwaysO == Spec => []OInv
BY AlwaysI, InitO, NextI, NextO, InitI, PTL DEF Spec

\* No two files share a cluster, and none runs into another's chain, as long as no
\* failed write went unnoticed (fat32_create_file, fat32_write_file,
\* fat32_file_delete and the FAT they write).
THEOREM NoSharedClusters == Spec => []OneOwner
<1>1. OInv => OneOwner
  BY DEF OInv, OwnedOnce, OneOwner
<1> QED BY <1>1, AlwaysO, PTL

\* What an entry, a link or a command refers to is not free in the FAT, as long as no
\* failed write went unnoticed (the order of the writes of create and delete).
THEOREM AllocatedWhileOwned == Spec => []OwnedIsAllocated
<1>1. OInv => OwnedIsAllocated
  BY DEF OInv, OwnedOnce, OwnedIsAllocated
<1> QED BY <1>1, AlwaysO, PTL


-----------------------------------------------------------------------------
(* The file store.                                                         *)

\* Between commands no name is left, and the entry a command found has its name.
Named ==
  /\ pc = "idle" => name = ""
  /\ pc \in {"take", "data", "unlink"} => Here[slot].name = name

LEMMA InitN == Init => Named
BY DEF Init, Idle, Named

LEMMA EndsNamed ==
  ASSUME pc' = "idle", name' = ""
  PROVE  Named'
BY DEF Named

LEMMA BeginNamed ==
  ASSUME IInv, Named, NEW f, Touch(f) \/ Rm(f) \/ WriteNew(f) \/ WriteUnread(f) \/ \E x : WriteOld(f, x)
  PROVE  Named'
<1>1. UNCHANGED <<dir, data, fat>>
  BY DEF Touch, Rm, WriteNew, WriteUnread, WriteOld, CreateFile, WriteFile, disk
<1>2. CASE pc' = "idle" /\ name' = ""
  BY <1>2, EndsNamed
<1>3. CASE pc' = "mark"
  BY <1>3 DEF Named
<1>4. CASE /\ Files(f) # {} /\ pc' \in {"take", "data", "unlink"} /\ slot' = Found(f) /\ name' = f
           /\ current_cluster' = current_cluster
  <2>1. Here[Found(f)].name = f
    BY <1>4, FoundFile DEF IInv
  <2> QED BY <1>1, <1>4, <2>1 DEF Named, Here
<1>5. CASE Touch(f) \/ WriteNew(f) \/ WriteUnread(f)
  BY <1>2, <1>3, <1>5 DEF Touch, WriteNew, WriteUnread, CreateFile, Created, Finish, Return, Goto
<1>6. CASE Rm(f)
  BY <1>2, <1>4, <1>6 DEF Rm, Finish, Return, Goto, place
<1>7. CASE \E x : WriteOld(f, x)
  BY <1>2, <1>4, <1>7 DEF WriteOld, WriteFile, Finish, Return, Goto, place
<1> QED BY <1>5, <1>6, <1>7

LEMMA NextN == IInv /\ Named /\ [Next]_vars => Named'
<1> SUFFICES ASSUME IInv, Named, [Next]_vars PROVE Named'
  OBVIOUS
<1>1. CASE WriteText \/ WriteEntry \/ StoreEntry \/ Deleted \/ PowerCut
  <2>1. pc' = "idle" /\ name' = ""
    BY <1>1 DEF WriteText, WriteEntry, StoreEntry, Deleted, PowerCut, Created, Finish, Return
  <2> QED BY <2>1, EndsNamed
<1>2. CASE TakeCluster
  BY <1>2 DEF TakeCluster, Goto, place, Named, Here
<1>3. CASE MarkCluster \/ FreeCluster
  BY <1>3 DEF MarkCluster, FreeCluster, Goto, Named
<1>4. CASE Unlink
  <2>1. (pc' = "idle" /\ name' = "") \/ pc' = "free"
    BY <1>4 DEF Unlink, Finish, Return, Goto
  <2> QED BY <2>1, EndsNamed DEF Named
<1>5. CASE CdUp \/ \E f \in Folders : Cd(f)
  <2>1. pc' = "idle" /\ name' = ""
    BY <1>5 DEF CdUp, Cd, Ready, locals, Named
  <2> QED BY <2>1, EndsNamed
<1>6. CASE UNCHANGED vars
  BY <1>6 DEF vars, disk, place, locals, Named, Here
<1>7. ASSUME NEW f \in Typed,
             Touch(f) \/ Rm(f) \/ WriteNew(f) \/ WriteUnread(f) \/ \E x \in Texts : WriteOld(f, x)
      PROVE  Named'
  BY <1>7, BeginNamed
<1> QED BY <1>1, <1>2, <1>3, <1>4, <1>5, <1>6, <1>7 DEF Next, Step


\* What an entry holds, given what the clusters hold.
Holds(e, texts) ==
  IF e.kind = "live"
  THEN [name |-> e.name, text |-> IF e.cluster \in Clusters THEN texts[e.cluster] ELSE 0]
  ELSE [name |-> "", text |-> 0]

Listing == [d \in Dirs |-> [s \in Slots |-> Holds(dir[d][s], data)]]

LEMMA Mapped ==
  /\ Listing = [d \in Dirs |-> [s \in Slots |-> Content(dir[d][s])]]
  /\ Listing' = [d \in Dirs |-> [s \in Slots |-> Content(dir[d][s])]]'
BY DEF Listing, Holds, Content

LEMMA ListingSame ==
  ASSUME \A d \in Dirs, s \in Slots : Holds(dir'[d][s], data') = Holds(dir[d][s], data)
  PROVE  Listing' = Listing
BY DEF Listing

LEMMA ListingPut ==
  ASSUME TypeOK, slot \in Slots, NEW file,
         \A d \in Dirs, s \in Slots :
           Holds(dir'[d][s], data') = IF d = current_cluster /\ s = slot THEN file
                                      ELSE Holds(dir[d][s], data)
  PROVE  Store!Put(slot, file)
<1>1. current_cluster \in Dirs
  BY DEF TypeOK
<1>2. Listing' = [Listing EXCEPT ![current_cluster][slot] = file]
  BY <1>1 DEF Listing
<1> QED BY <1>2, Mapped, Zenon DEF Store!Put

\* A step of a running command: it changes one file or none, and ends or goes on.
LEMMA Going ==
  ASSUME name # "",
         Listing' = Listing \/ \E p \in Slots : Store!Create(p) \/ Store!Write(p) \/ Store!Remove(p),
         UNCHANGED <<name, current_cluster>> \/ (name' = "" /\ current_cluster' \in Dirs)
  PROVE  Store!Next
<1>1. Store!Go
  BY Mapped, Zenon DEF Store!Go
<1> QED BY <1>1 DEF Store!Next

LEMMA Stutters ==
  ASSUME Listing' = Listing, UNCHANGED <<name, current_cluster>>
  PROVE  UNCHANGED Store!vars
<1>1. [d \in Dirs |-> [s \in Slots |-> Content(dir[d][s])]]' = [d \in Dirs |-> [s \in Slots |-> Content(dir[d][s])]]
  BY Mapped, Zenon
<1> QED BY <1>1, Zenon DEF Store!vars

LEMMA ListingStill ==
  ASSUME UNCHANGED <<dir, data>>
  PROVE  Listing' = Listing
BY DEF Listing

\* What a live entry holds.
LEMMA HoldsFile ==
  ASSUME NEW e \in Entries, NEW texts \in [Clusters -> Texts]
  PROVE  /\ e.kind = "live" => /\ Holds(e, texts).name = e.name /\ Holds(e, texts).text \in Texts
                               /\ Holds(e, texts) = [name |-> e.name, text |-> Holds(e, texts).text]
         /\ e.kind # "live" => Holds(e, texts) = Store!NoFile
<1>1. e.cluster \in Clusters => texts[e.cluster] \in Texts
  OBVIOUS
<1> QED BY <1>1, Limits DEF Holds, Store!NoFile

LEMMA InitS == Init => Store!Init
<1> SUFFICES ASSUME Init PROVE Store!Init
  OBVIOUS
<1>1. IInv /\ TypeOK
  BY InitI DEF IInv
<1>2. ASSUME NEW d \in Dirs, NEW s \in Slots
      PROVE  Listing[d][s] \in [name : Names, text : Texts] \cup {Store!NoFile}
  <2>1. dir[d][s] \in Entries /\ data \in [Clusters -> Texts]
    BY <1>1, ZenonT(60) DEF TypeOK
  <2>2. Listing[d][s] = Holds(dir[d][s], data)
    BY DEF Listing
  <2>3. CASE dir[d][s].kind = "live"
    <3>1. dir[d][s].name \in Names
      BY <2>1, <2>3, EntryParts
    <3> QED BY <2>1, <2>2, <2>3, <3>1, HoldsFile
  <2>4. CASE dir[d][s].kind # "live"
    BY <2>1, <2>2, <2>4, HoldsFile
  <2> QED BY <2>3, <2>4
<1>3. Listing \in [Dirs -> [Slots -> [name : Names, text : Texts] \cup {Store!NoFile}]]
  BY <1>2 DEF Listing
<1>4. current_cluster \in Dirs /\ name = ""
  BY <1>1 DEF TypeOK, Init, Idle
<1> QED BY <1>3, <1>4, Mapped DEF Store!Init, Store!Files


\* The cluster in the command's hands belongs to one entry, or to the command.
LEMMA OnlyEntry ==
  ASSUME OInv, ~blind, cluster \in Clusters, NEW d \in Dirs, NEW s \in Slots, Owns(dir[d][s], cluster)
  PROVE  ~Claiming /\ \A e \in Dirs, t \in Slots : Owns(dir[e][t], cluster) => e = d /\ t = s
<1>1. OwnedOnce(cluster)
  BY DEF OInv
<1>2. <<"entry", <<d, s>>>> \in Owners(cluster)
  BY Refers DEF Owners
<1>3. ~Claiming
  <2> SUFFICES ASSUME Claiming PROVE FALSE
    OBVIOUS
  <2>1. <<"claim", cluster>> \in Owners(cluster)
    BY DEF Owners, Claim
  <2>2. <<"claim", cluster>> = <<"entry", <<d, s>>>>
    BY <1>1, <1>2, <2>1, Zenon DEF OwnedOnce
  <2> QED BY <2>2
<1>4. ASSUME NEW e \in Dirs, NEW t \in Slots, Owns(dir[e][t], cluster) PROVE e = d /\ t = s
  <2>1. <<"entry", <<e, t>>>> \in Owners(cluster)
    BY <1>4, Refers DEF Owners
  <2>2. <<"entry", <<e, t>>>> = <<"entry", <<d, s>>>>
    BY <1>1, <1>2, <2>1, Zenon DEF OwnedOnce
  <2> QED BY <2>2
<1> QED BY <1>3, <1>4

\* The names the running command works under.
LEMMA Running ==
  ASSUME IInv, Named, pc # "idle"
  PROVE  /\ slot \in Slots /\ name \in Names /\ name # "" /\ current_cluster \in Dirs
         /\ Here[slot] \in Entries /\ dir[current_cluster][slot] = Here[slot]
         /\ Listing[current_cluster][slot] = Holds(Here[slot], data)
         /\ data \in [Clusters -> Texts]
         /\ \A d \in Dirs, s \in Slots : dir[d][s] \in Entries
<1>1. /\ slot \in Slots /\ name \in Names /\ current_cluster \in Dirs /\ data \in [Clusters -> Texts]
      /\ dir \in [Dirs -> [Slots -> Entries]]
  BY DEF IInv, TypeOK
<1>2. name # ""
  BY <1>1, Limits
<1> QED BY <1>1, <1>2 DEF Listing, Here

LEMMA TextStore ==
  ASSUME IInv, OInv, Named, ~blind, WriteText
  PROVE  Store!Next
<1>1. /\ pc = "data" /\ UNCHANGED dir /\ name' = "" /\ current_cluster' = current_cluster
      /\ text \in Texts /\ Here[slot].kind = "live" /\ Here[slot].name = name
      /\ Here[slot].cluster \in {0, cluster}
  BY DEF WriteText, Finish, Return, place, IInv, TypeOK, Locals, Named
<1>2. /\ slot \in Slots /\ name \in Names /\ name # "" /\ current_cluster \in Dirs
      /\ Here[slot] \in Entries /\ dir[current_cluster][slot] = Here[slot]
      /\ Listing[current_cluster][slot] = Holds(Here[slot], data)
      /\ data \in [Clusters -> Texts]
      /\ \A d \in Dirs, s \in Slots : dir[d][s] \in Entries
  BY <1>1, Running
<1>3. data' = data \/ (cluster \in Clusters /\ data' = [data EXCEPT ![cluster] = text])
  <2>1. PICK ok \in BOOLEAN :
          Transfer(data, IF cluster \in Clusters THEN [data EXCEPT ![cluster] = text] ELSE data, ok)
    BY DEF WriteText
  <2> QED BY <2>1 DEF Transfer
<1>4. CASE data' = data
  <2>1. Listing' = Listing
    BY <1>1, <1>4, ListingStill
  <2> QED BY <1>1, <1>2, <2>1, Going
<1>5. CASE cluster \in Clusters /\ data' = [data EXCEPT ![cluster] = text]
  <2>1. \A c \in Clusters : data'[c] = IF c = cluster THEN text ELSE data[c]
    BY <1>2, <1>5
  <2>2. ASSUME NEW d \in Dirs, NEW s \in Slots, ~Owns(dir[d][s], cluster)
        PROVE  Holds(dir'[d][s], data') = Holds(dir[d][s], data)
    BY <1>1, <2>1, <2>2 DEF Holds, Owns
  <2>3. CASE Here[slot].cluster = cluster
    <3> DEFINE file == [name |-> name, text |-> text]
    <3>1. Owns(dir[current_cluster][slot], cluster)
      BY <1>1, <1>2, <2>3 DEF Owns
    <3>2. \A e \in Dirs, t \in Slots : Owns(dir[e][t], cluster) => e = current_cluster /\ t = slot
      BY <1>2, <1>5, <3>1, OnlyEntry
    <3>3. Holds(dir'[current_cluster][slot], data') = file
      BY <1>1, <1>2, <1>5, <2>1, <2>3 DEF Holds
    <3>4. Store!Put(slot, file)
      <4> HIDE DEF file
      <4>1. \A d \in Dirs, s \in Slots :
              Holds(dir'[d][s], data') = IF d = current_cluster /\ s = slot THEN file
                                         ELSE Holds(dir[d][s], data)
        BY <2>2, <3>2, <3>3
      <4>2. TypeOK
        BY DEF IInv
      <4> QED BY <1>2, <4>1, <4>2, ListingPut
    <3>5. Listing[current_cluster][slot].name = name
      BY <1>1, <1>2, HoldsFile
    <3>6. Store!Write(slot)
      BY <1>1, <3>4, <3>5, Mapped, Zenon DEF Store!Write
    <3> QED BY <1>1, <1>2, <3>6, Going
  <2>4. CASE Here[slot].cluster # cluster
    <3>1. Claiming
      BY <1>1, <2>4 DEF Claiming
    <3>2. \A d \in Dirs, s \in Slots : ~Owns(dir[d][s], cluster)
      BY <1>5, <3>1, OnlyEntry
    <3>3. Listing' = Listing
      BY <2>2, <3>2, ListingSame
    <3> QED BY <1>1, <1>2, <3>3, Going
  <2> QED BY <2>3, <2>4
<1> QED BY <1>3, <1>4, <1>5

\* A step that writes an entry in the command's slot, and maybe ends.
LEMMA EntryPut ==
  ASSUME IInv, Named, pc # "idle", UNCHANGED data, NEW e \in Entries,
         dir' = [dir EXCEPT ![current_cluster][slot] = e]
  PROVE  Store!Put(slot, Holds(e, data))
<1>1. slot \in Slots /\ TypeOK
  BY Running DEF IInv
<1>2. /\ dir'[current_cluster][slot] = e
      /\ \A d \in Dirs : \A s \in Slots :
           d # current_cluster \/ s # slot => dir'[d][s] = dir[d][s]
  BY <1>1, PutEntry
<1> DEFINE file == Holds(e, data)
<1>3. \A d \in Dirs, s \in Slots :
        Holds(dir'[d][s], data') = IF d = current_cluster /\ s = slot THEN file
                                   ELSE Holds(dir[d][s], data)
  BY <1>2
<1> HIDE DEF file
<1>4. Store!Put(slot, file)
  BY <1>1, <1>3, ListingPut
<1> QED BY <1>4 DEF file


LEMMA EntryStore ==
  ASSUME IInv, Named, WriteEntry
  PROVE  Store!Next
<1>1. /\ pc = "data" /\ UNCHANGED data /\ name' = "" /\ current_cluster' = current_cluster
      /\ Here[slot].kind = "live" /\ Here[slot].name = name /\ cluster \in 0 .. EOC
  BY DEF WriteEntry, Finish, Return, place, IInv, TypeOK, Locals, Named
<1>2. /\ slot \in Slots /\ name # "" /\ current_cluster \in Dirs /\ Here[slot] \in Entries
      /\ Listing[current_cluster][slot] = Holds(Here[slot], data) /\ data \in [Clusters -> Texts]
  BY <1>1, Running
<1>3. CASE dir' = dir
  <2>1. Listing' = Listing
    BY <1>1, <1>3, ListingStill
  <2> QED BY <1>1, <1>2, <2>1, Going
<1>4. CASE dir' = [dir EXCEPT ![current_cluster][slot] = Emptied]
  <2>1. Emptied \in Entries /\ Emptied.kind = "live" /\ Emptied.name = name
    BY <1>1, <1>2, EntriesStored DEF Emptied
  <2>2. pc # "idle"
    BY <1>1
  <2>3. Store!Put(slot, Holds(Emptied, data))
    BY <1>1, <1>4, <2>1, <2>2, EntryPut
  <2>4. PICK x \in Texts : Holds(Emptied, data) = [name |-> name, text |-> x]
    BY <1>2, <2>1, HoldsFile
  <2>5. Listing[current_cluster][slot].name = name
    BY <1>1, <1>2, HoldsFile
  <2>6. Store!Write(slot)
    BY <2>3, <2>4, <2>5, Mapped, Zenon DEF Store!Write
  <2> QED BY <1>1, <1>2, <2>6, Going
<1> QED BY <1>3, <1>4, EntryStep

LEMMA NewStore ==
  ASSUME IInv, Named, StoreEntry
  PROVE  Store!Next
<1>1. /\ pc = "entry" /\ UNCHANGED data /\ name' = "" /\ current_cluster' = current_cluster
      /\ Here[slot].kind \in {"end", "deleted"} /\ cluster \in 0 .. EOC
  BY DEF StoreEntry, Created, Finish, Return, place, IInv, TypeOK, Locals
<1>2. /\ slot \in Slots /\ name \in Names /\ name # "" /\ current_cluster \in Dirs
      /\ Here[slot] \in Entries
      /\ Listing[current_cluster][slot] = Holds(Here[slot], data) /\ data \in [Clusters -> Texts]
  BY <1>1, Running
<1>3. CASE dir' = dir
  <2>1. Listing' = Listing
    BY <1>1, <1>3, ListingStill
  <2> QED BY <1>1, <1>2, <2>1, Going
<1>4. CASE dir' = [dir EXCEPT ![current_cluster][slot] = NewEntry]
  <2>1. NewEntry \in Entries /\ NewEntry.kind = "live" /\ NewEntry.name = name
    BY <1>1, <1>2, EntriesStored DEF NewEntry
  <2>2. pc # "idle"
    BY <1>1
  <2>3. Store!Put(slot, Holds(NewEntry, data))
    BY <1>1, <1>4, <2>1, <2>2, EntryPut
  <2>4. PICK x \in Texts : Holds(NewEntry, data) = [name |-> name, text |-> x]
    BY <1>2, <2>1, HoldsFile
  <2>5. Listing[current_cluster][slot] = Store!NoFile
    BY <1>1, <1>2, HoldsFile
  <2>6. Store!Create(slot)
    BY <2>3, <2>4, <2>5, Mapped, Zenon DEF Store!Create
  <2> QED BY <1>1, <1>2, <2>6, Going
<1> QED BY <1>3, <1>4, StoreStep

LEMMA UnlinkStore ==
  ASSUME IInv, Named, Unlink
  PROVE  Store!Next
<1>1. /\ pc = "unlink" /\ UNCHANGED data /\ current_cluster' = current_cluster
      /\ name' = name \/ name' = ""
      /\ Here[slot].kind = "live" /\ Here[slot].name = name
  BY DEF Unlink, Goto, Finish, Return, place, IInv, Locals, Named
<1>2. /\ slot \in Slots /\ name # "" /\ current_cluster \in Dirs /\ Here[slot] \in Entries
      /\ Listing[current_cluster][slot] = Holds(Here[slot], data) /\ data \in [Clusters -> Texts]
  BY <1>1, Running
<1>3. CASE dir' = dir
  <2>1. Listing' = Listing
    BY <1>1, <1>3, ListingStill
  <2> QED BY <1>1, <1>2, <2>1, Going
<1>4. CASE dir' = [dir EXCEPT ![current_cluster][slot] = Blank("deleted")]
  <2> DEFINE e == Blank("deleted")
  <2>1. e \in Entries /\ e.kind # "live"
    BY EntriesStored
  <2>2. pc # "idle"
    BY <1>1
  <2>3. dir' = [dir EXCEPT ![current_cluster][slot] = e]
    BY <1>4
  <2> HIDE DEF e
  <2>4. Store!Put(slot, Holds(e, data))
    BY <1>1, <2>1, <2>2, <2>3, EntryPut
  <2>5. Holds(e, data) = Store!NoFile
    BY <1>2, <2>1, HoldsFile
  <2>6. Listing[current_cluster][slot].name = name
    BY <1>1, <1>2, HoldsFile
  <2>7. Store!Remove(slot)
    BY <2>4, <2>5, <2>6, Mapped, Zenon DEF Store!Remove
  <2> QED BY <1>1, <1>2, <2>7, Going
<1> QED BY <1>3, <1>4, UnlinkStep

LEMMA BeginStore ==
  ASSUME IInv, Named, NEW f \in Typed,
         Touch(f) \/ Rm(f) \/ WriteNew(f) \/ WriteUnread(f) \/ \E x : WriteOld(f, x)
  PROVE  Store!Next \/ UNCHANGED Store!vars
<1>1. UNCHANGED <<dir, data>> /\ pc = "idle"
  BY DEF Touch, Rm, WriteNew, WriteUnread, WriteOld, CreateFile, WriteFile, disk, Ready
<1>2. name' \in {"", f} /\ current_cluster' = current_cluster
  <2>1. CASE Touch(f) \/ WriteNew(f) \/ WriteUnread(f)
    BY <2>1 DEF Touch, WriteNew, WriteUnread, CreateFile, Created, Finish, Return, Goto, place
  <2>2. CASE Rm(f) \/ \E x : WriteOld(f, x)
    BY <2>2 DEF Rm, WriteOld, WriteFile, Finish, Return, Goto, place
  <2> QED BY <2>1, <2>2
<1>3. name = "" /\ f \in Names /\ Listing' = Listing
  BY <1>1, Limits, ListingStill DEF Named
<1>4. CASE name' = f
  <2>1. Store!Begin(f)
    BY <1>2, <1>3, <1>4, Mapped, Zenon DEF Store!Begin
  <2> QED BY <1>3, <2>1 DEF Store!Next
<1>5. CASE name' = ""
  BY <1>2, <1>3, <1>5, Stutters
<1> QED BY <1>2, <1>4, <1>5

LEMMA NextS ==
  ASSUME IInv, IInv', OInv, Named, [Next]_vars, ~blind
  PROVE  Store!Next \/ UNCHANGED Store!vars
<1>1. CASE Step
  <2>1. CASE TakeCluster \/ MarkCluster \/ FreeCluster
    <3>1. UNCHANGED <<dir, data, name, current_cluster>>
      BY <2>1 DEF TakeCluster, MarkCluster, FreeCluster, Goto, place
    <3> QED BY <3>1, ListingStill, Stutters
  <2>2. CASE Deleted
    <3>1. UNCHANGED <<dir, data, current_cluster>> /\ name' = "" /\ pc # "idle"
      BY <2>2 DEF Deleted, disk, Finish, Return, place
    <3>2. name # "" /\ current_cluster' \in Dirs
      BY <3>1, Running DEF IInv, TypeOK
    <3>3. Listing' = Listing
      BY <3>1, ListingStill
    <3> QED BY <3>1, <3>2, <3>3, Going
  <2> QED BY <1>1, <2>1, <2>2, TextStore, EntryStore, NewStore, UnlinkStore DEF Step
<1>2. CASE PowerCut
  <2>1. UNCHANGED <<dir, data>> /\ name' = "" /\ pc # "idle"
    BY <1>2 DEF PowerCut, disk, Return
  <2>2. name # "" /\ current_cluster' \in Dirs
    BY <2>1, Running DEF IInv, TypeOK
  <2> QED BY <2>1, <2>2, ListingStill, Going
<1>3. CASE CdUp \/ \E f \in Folders : Cd(f)
  <2>1. UNCHANGED <<dir, data, name>> /\ pc = "idle"
    BY <1>3 DEF CdUp, Cd, disk, locals, Ready
  <2>2. name = "" /\ current_cluster' \in Dirs /\ Listing' = Listing
    BY <2>1, ListingStill DEF Named, IInv, TypeOK
  <2>3. Store!Move
    BY <2>1, <2>2, Mapped, Zenon DEF Store!Move
  <2> QED BY <2>3 DEF Store!Next
<1>4. ASSUME NEW f \in Typed,
             Touch(f) \/ Rm(f) \/ WriteNew(f) \/ WriteUnread(f) \/ \E x \in Texts : WriteOld(f, x)
      PROVE  Store!Next \/ UNCHANGED Store!vars
  BY <1>4, BeginStore
<1>5. CASE UNCHANGED vars
  <2>1. UNCHANGED <<dir, data, name, current_cluster>>
    BY <1>5 DEF vars, disk, place, locals
  <2> QED BY <2>1, ListingStill, Stutters
<1> QED BY <1>1, <1>2, <1>3, <1>4, <1>5 DEF Next

\* Sector by sector, cut off anywhere and with transfers failing, touch, write, rm and
\* cd implement the file store, until a failed write goes unnoticed (fat32.c under
\* the shell's commands).
THEOREM ImplementsStore == Spec => StoreSpec
<1>1. Init => Store!Init
  BY InitS
<1>2. IInv /\ IInv' /\ OInv /\ Named /\ [Next]_vars => [blind \/ Store!Next]_(Store!vars)
  BY NextS
<1> QED BY <1>1, <1>2, InitN, NextN, AlwaysI, AlwaysO, PTL DEF Spec, StoreSpec

-----------------------------------------------------------------------------
(* Clusters that are lost.                                                 *)

\* No entry, no link and not the root refers to a cluster.
Unreferred(d, f, c) ==
  /\ \A e \in Dirs, s \in Slots : ~Owns(d[e][s], c)
  /\ \A k \in Clusters : f[k] # c
  /\ c # ROOT

LEMMA NoReferrer ==
  ASSUME NEW d, NEW f, NEW c
  PROVE  Referrers(d, f, c) = {} <=> Unreferred(d, f, c)
<1>1. ASSUME Referrers(d, f, c) = {} PROVE Unreferred(d, f, c)
  <2>1. /\ \A e \in Dirs, s \in Slots : ~Owns(d[e][s], c)
        /\ \A k \in Clusters : f[k] # c
    BY <1>1, Refers
  <2>2. c # ROOT
    <3> SUFFICES ASSUME c = ROOT PROVE FALSE
      OBVIOUS
    <3>1. <<"root", ROOT>> \in {<<"root", k>> : k \in {ROOT} \cap {c}}
      OBVIOUS
    <3> QED BY <1>1, <3>1 DEF Referrers
  <2> QED BY <2>1, <2>2 DEF Unreferred
<1>2. ASSUME Unreferred(d, f, c), NEW r \in Referrers(d, f, c) PROVE FALSE
  <2>1. ~(\E p \in Dirs \X Slots : Owns(d[p[1]][p[2]], c))
    BY <1>2 DEF Unreferred
  <2> QED BY <1>2, <2>1 DEF Referrers, Unreferred
<1> QED BY <1>1, <1>2

\* Lost clusters in these terms, before and after a step.
LEMMA LostParts ==
  ASSUME NEW c \in Clusters
  PROVE  /\ c \in Lost <=> /\ fat[c] # 0 /\ Unreferred(dir, fat, c)
                           /\ ~(Claiming /\ c = cluster)
         /\ c \in Lost' <=> /\ fat'[c] # 0 /\ Unreferred(dir', fat', c)
                            /\ ~(Claiming' /\ c = cluster')
<1>1. /\ Owners(c) = {} <=> Unreferred(dir, fat, c) /\ ~(Claiming /\ c = cluster)
      /\ Owners(c)' = {} <=> Unreferred(dir', fat', c) /\ ~(Claiming' /\ c = cluster')
  BY Claims, NoReferrer DEF Owners
<1> QED BY <1>1 DEF Lost

\* Steps that write neither the FAT nor a directory and held no cluster lose none.
LEMMA NoneLost ==
  ASSUME UNCHANGED <<fat, dir>>, NEW c \in Clusters, c \in Lost',
         ~Claiming \/ c # cluster
  PROVE  c \in Lost
BY LostParts

\* A step that writes one entry loses at most the clusters in it that it does not
\* hold afterwards.
LEMMA EntryLost ==
  ASSUME IInv, UNCHANGED fat, slot \in Slots, NEW e \in Entries,
         dir' = [dir EXCEPT ![current_cluster][slot] = e],
         NEW c \in Clusters, c \in Lost',
         Owns(Here[slot], c) => Owns(e, c) \/ (Claiming' /\ c = cluster'),
         Claiming /\ c = cluster => Owns(e, c) \/ (Claiming' /\ c = cluster')
  PROVE  c \in Lost
<1>1. /\ dir'[current_cluster][slot] = e
      /\ \A d \in Dirs : \A s \in Slots :
           d # current_cluster \/ s # slot => dir'[d][s] = dir[d][s]
  BY PutEntry DEF IInv
<1>2. /\ fat'[c] # 0 /\ Unreferred(dir', fat', c) /\ ~(Claiming' /\ c = cluster')
  BY LostParts
<1>3. ~Owns(e, c)
  <2>1. current_cluster \in Dirs
    BY DEF IInv, TypeOK
  <2> QED BY <1>1, <1>2, <2>1 DEF Unreferred
<1>4. Unreferred(dir, fat, c)
  BY <1>1, <1>2, <1>3 DEF Unreferred, Here
<1> QED BY <1>2, <1>3, <1>4, LostParts

LEMMA NoFailure ==
  ASSUME TypeOK, failures' = failures
  PROVE  ~Fails
<1>1. failures \in Int
  <2>1. FAILURES \in Nat /\ failures \in 0 .. FAILURES
    BY Fat32Assumption DEF TypeOK
  <2> QED BY <2>1, SMT
<1>2. failures + 1 # failures
  BY <1>1, SMT
<1> QED BY <1>2 DEF Fails

\* touch and write mark a cluster that nothing refers to and hold it.
LEMMA MarkLost ==
  ASSUME IInv, TakeCluster \/ MarkCluster, failures' = failures,
         NEW c \in Clusters, c \in Lost'
  PROVE  c \in Lost
<1>1. /\ pc \in {"take", "mark"} /\ cluster \in Clusters /\ fat[cluster] = 0
      /\ SetFat(cluster, EOC) /\ UNCHANGED dir /\ cluster' = cluster
      /\ fat \in [0 .. LAST -> {0} \cup 2 .. EOC]
      /\ pc = "take" => pc' = "data" /\ Here[slot].cluster = 0
      /\ pc = "mark" => pc' = "entry"
      /\ slot' = slot /\ Here' = Here
  BY DEF TakeCluster, MarkCluster, IInv, TypeOK, Locals, Goto, place, Here
<1>2. fat' = [fat EXCEPT ![cluster] = EOC]
  BY <1>1, NoFailure DEF SetFat, Transfer, IInv
<1>3. cluster \in 0 .. LAST /\ c \in 0 .. LAST /\ c # 0 /\ cluster # 0
  BY <1>1, Limits
<1>4. fat'[c] # 0 /\ Unreferred(dir', fat', c) /\ ~(Claiming' /\ c = cluster')
  BY LostParts
<1>5. Claiming'
  BY <1>1, <1>3 DEF Claiming
<1>6. c # cluster /\ fat'[c] = fat[c] /\ ~Claiming
  BY <1>1, <1>2, <1>3, <1>4, <1>5 DEF Claiming
<1>7. \A k \in Clusters : fat[k] # c
  BY <1>1, <1>2, <1>3, <1>4, Limits DEF Unreferred
<1> QED BY <1>1, <1>4, <1>6, <1>7, LostParts DEF Unreferred

LEMMA StoreLost ==
  ASSUME IInv, StoreEntry, failures' = failures, NEW c \in Clusters, c \in Lost'
  PROVE  c \in Lost
<1>1. /\ pc = "entry" /\ UNCHANGED fat /\ slot \in Slots /\ name \in Names /\ cluster \in 0 .. EOC
      /\ Here[slot].kind \in {"end", "deleted"}
      /\ Transfer(dir, [dir EXCEPT ![current_cluster][slot] = NewEntry], TRUE)
  BY Limits DEF StoreEntry, IInv, TypeOK, Locals, NewEntry
<1>2. dir' = [dir EXCEPT ![current_cluster][slot] = NewEntry]
  BY <1>1, NoFailure DEF Transfer, IInv
<1>3. NewEntry \in Entries /\ NewEntry.kind = "live" /\ NewEntry.cluster = cluster
  BY <1>1, EntriesStored DEF NewEntry
<1>4. ~Owns(Here[slot], c) /\ (c = cluster => Owns(NewEntry, c))
  BY <1>1, <1>3 DEF Owns
<1> QED BY <1>1, <1>2, <1>3, <1>4, EntryLost

LEMMA WriteLost ==
  ASSUME IInv, WriteEntry, failures' = failures, NEW c \in Clusters, c \in Lost'
  PROVE  c \in Lost
<1>1. /\ pc = "data" /\ UNCHANGED fat /\ slot \in Slots /\ Here[slot].kind = "live"
      /\ Here[slot].cluster \in {0, cluster} /\ Here[slot] \in Entries /\ cluster \in 0 .. EOC
  BY HereType DEF WriteEntry, IInv, TypeOK, Locals
<1>2. dir' = [dir EXCEPT ![current_cluster][slot] = Emptied]
  <2>1. [dir EXCEPT ![current_cluster][slot].size = 0,
                    ![current_cluster][slot].cluster = cluster]
          = [dir EXCEPT ![current_cluster][slot] = Emptied]
    BY <1>1 DEF IInv, TypeOK, Emptied, Here
  <2>2. PICK ok \in BOOLEAN :
          Transfer(dir, [dir EXCEPT ![current_cluster][slot].size = 0,
                                    ![current_cluster][slot].cluster = cluster], ok)
    BY NoFailure DEF WriteEntry, IInv
  <2> QED BY <2>1, <2>2, NoFailure DEF Transfer, IInv
<1>3. Emptied \in Entries /\ Emptied.kind = "live" /\ Emptied.cluster = cluster
  BY <1>1, EntriesStored DEF Emptied
<1>4. /\ Owns(Here[slot], c) => Owns(Emptied, c)
      /\ c = cluster => Owns(Emptied, c)
  BY <1>1, <1>3, Limits DEF Owns
<1> QED BY <1>1, <1>2, <1>3, <1>4, EntryLost

\* rm takes the first cluster over from the entry it clears ...
LEMMA UnlinkLost ==
  ASSUME IInv, Unlink, failures' = failures, NEW c \in Clusters, c \in Lost'
  PROVE  c \in Lost
<1>1. /\ pc = "unlink" /\ UNCHANGED fat /\ slot \in Slots
      /\ Here[slot].kind = "live" /\ Here[slot].cluster = cluster
  BY DEF Unlink, IInv, TypeOK, Locals
<1>2. /\ dir' = [dir EXCEPT ![current_cluster][slot] = Blank("deleted")]
      /\ Goto("free", command, name, slot, cluster, text)
  BY NoFailure DEF Unlink, Transfer, IInv
<1>3. Claiming' /\ cluster' = cluster /\ ~Claiming
  BY <1>1, <1>2 DEF Claiming, Goto
<1>4. Owns(Here[slot], c) => c = cluster'
  BY <1>1, <1>3 DEF Owns
<1> DEFINE e == Blank("deleted")
<1>5. e \in Entries /\ dir' = [dir EXCEPT ![current_cluster][slot] = e]
  BY <1>2, EntriesStored
<1> HIDE DEF e
<1> QED BY <1>1, <1>3, <1>4, <1>5, EntryLost

\* ... and each further one from the link it clears.
LEMMA FreeLost ==
  ASSUME IInv, FreeCluster, failures' = failures, NEW c \in Clusters, c \in Lost'
  PROVE  c \in Lost
<1>1. /\ pc = "free" /\ cluster # EOC /\ UNCHANGED dir
      /\ cluster \in 0 .. EOC /\ fat \in [0 .. LAST -> {0} \cup 2 .. EOC]
  BY DEF FreeCluster, IInv, TypeOK
<1>2. cluster \in 0 .. LAST
  <2>1. cluster \in 0 .. EOC /\ cluster # EOC
    BY <1>1
  <2> QED BY <2>1, Numbers, SMT
<1>3. /\ fat' = [fat EXCEPT ![cluster] = 0]
      /\ Goto("free", command, name, slot, fat[cluster], text)
  BY NoFailure DEF FreeCluster, SetFat, Transfer, IInv
<1>4. Claiming' /\ cluster' = fat[cluster]
  BY <1>3 DEF Claiming, Goto
<1>5. fat'[c] # 0 /\ Unreferred(dir', fat', c) /\ c # cluster'
  BY <1>4, LostParts
<1>6. c \in 0 .. LAST /\ c # cluster
  BY <1>1, <1>2, <1>3, <1>5, Limits
<1>7. fat[c] # 0 /\ \A k \in Clusters : fat[k] # c
  BY <1>1, <1>2, <1>3, <1>4, <1>5, <1>6, Limits DEF Unreferred
<1> QED BY <1>1, <1>5, <1>6, <1>7, LostParts DEF Unreferred

LEMMA BeginLost ==
  ASSUME Ready, UNCHANGED <<fat, dir>>, NEW c \in Clusters, c \in Lost'
  PROVE  c \in Lost
BY NoneLost DEF Ready, Claiming

LEMMA TextLost ==
  ASSUME IInv, WriteText, NEW c \in Clusters, c \in Lost'
  PROVE  c \in Lost \/ (c = cluster /\ Here[slot].cluster = 0)
<1>1. /\ pc = "data" /\ UNCHANGED <<fat, dir>> /\ Here[slot].cluster \in {0, cluster}
  BY DEF WriteText, IInv, Locals
<1>2. CASE Claiming /\ c = cluster
  BY <1>1, <1>2 DEF Claiming
<1>3. CASE ~(Claiming /\ c = cluster)
  BY <1>1, <1>3, NoneLost
<1> QED BY <1>2, <1>3

LEMMA DeletedLost ==
  ASSUME IInv, Deleted, NEW c \in Clusters, c \in Lost'
  PROVE  c \in Lost
BY NoneLost, Limits DEF Deleted, disk

Spared == {c \in {cluster} : WriteText /\ Here[slot].cluster = 0}

LEMMA NextLost ==
  IInv /\ [Next]_vars => [~PowerCut /\ failures' = failures => Lost' \subseteq Lost \cup Spared]_vars
<1> SUFFICES ASSUME IInv, Next, ~PowerCut, failures' = failures, NEW c \in Clusters, c \in Lost'
             PROVE  c \in Lost \/ c \in Spared
  BY DEF Lost
<1>1. ASSUME NEW f \in Typed,
             Touch(f) \/ Rm(f) \/ WriteNew(f) \/ WriteUnread(f) \/ \E x \in Texts : WriteOld(f, x)
      PROVE  c \in Lost
  <2>1. Ready /\ UNCHANGED <<fat, dir>>
    BY <1>1 DEF Touch, Rm, WriteNew, WriteUnread, WriteOld, CreateFile, WriteFile, disk
  <2> QED BY <2>1, BeginLost
<1>2. ASSUME CdUp \/ \E f \in Folders : Cd(f) PROVE c \in Lost
  <2>1. Ready /\ UNCHANGED <<fat, dir>>
    BY <1>2 DEF CdUp, Cd, disk
  <2> QED BY <2>1, BeginLost
<1>3. CASE WriteText
  BY <1>3, TextLost DEF Spared
<1>4. CASE Step /\ ~WriteText
  BY <1>4, MarkLost, StoreLost, WriteLost, UnlinkLost, FreeLost, DeletedLost DEF Step
<1> QED BY <1>1, <1>2, <1>3, <1>4 DEF Next

\* Without a power cut and a failing transfer no step of touch, write, rm and cd loses
\* a cluster, except a text for a file that had none: the cluster goes from the
\* free ones to the command, to the entry or along the chain, and back
\* (fat32_create_file, fat32_write_file, fat32_file_delete).
THEOREM NothingLeaks == Spec => NoLeak
<1>1. IInv /\ [Next]_vars =>
        [~PowerCut /\ failures' = failures =>
           Lost' \subseteq Lost \cup {c \in {cluster} : WriteText /\ Here[slot].cluster = 0}]_vars
  BY NextLost DEF Spared
<1> QED BY AlwaysI, <1>1, PTL DEF Spec, NoLeak

-----------------------------------------------------------------------------
(* Directories.                                                            *)

(***************************************************************************)
(* No command writes an entry of a directory: the slots they write hold a  *)
(* file, or nothing.  So the tree is the one the other system left, and    *)
(* where cd .. leads was right when cd noted it and stays right.           *)
(***************************************************************************)
HostParents(c) ==
  {d \in Dirs : \E s \in Slots : HostDir[d][s].kind = "dir" /\ Owns(HostDir[d][s], c)}

Tree ==
  \A d \in Dirs, s \in Slots :
    /\ dir[d][s].kind = "dir" <=> HostDir[d][s].kind = "dir"
    /\ dir[d][s].kind = "dir" => dir[d][s] = HostDir[d][s]

Above == previous_cluster \in HostParents(current_cluster) \cup {current_cluster, ROOT}

UInv == Tree /\ Above

LEMMA TreeParents ==
  ASSUME Tree, NEW c
  PROVE  Parents(c) = HostParents(c)
BY DEF Tree, Parents, HostParents

LEMMA InitU == Init => UInv
BY DEF Init, UInv, Tree, Above

LEMMA TreeKept ==
  ASSUME IInv, Tree, slot \in Slots, Here[slot].kind # "dir", NEW e \in Entries, e.kind # "dir",
         dir' \in {dir, [dir EXCEPT ![current_cluster][slot] = e]}
  PROVE  Tree'
<1>1. CASE dir' = dir
  BY <1>1 DEF Tree
<1>2. CASE dir' = [dir EXCEPT ![current_cluster][slot] = e]
  <2>1. /\ dir'[current_cluster][slot] = e
        /\ \A d \in Dirs : \A s \in Slots :
             d # current_cluster \/ s # slot => dir'[d][s] = dir[d][s]
    BY <1>2, PutEntry DEF IInv
  <2> SUFFICES ASSUME NEW d \in Dirs, NEW s \in Slots
               PROVE  /\ dir'[d][s].kind = "dir" <=> HostDir[d][s].kind = "dir"
                      /\ dir'[d][s].kind = "dir" => dir'[d][s] = HostDir[d][s]
    BY DEF Tree
  <2>2. CASE d = current_cluster /\ s = slot
    BY <2>1, <2>2 DEF Tree, Here
  <2>3. CASE d # current_cluster \/ s # slot
    BY <2>1, <2>3 DEF Tree
  <2> QED BY <2>2, <2>3
<1> QED BY <1>1, <1>2

LEMMA StepTree ==
  ASSUME IInv, Tree, Step
  PROVE  Tree' /\ UNCHANGED place
<1>1. CASE TakeCluster \/ WriteText \/ MarkCluster \/ FreeCluster \/ Deleted
  BY <1>1 DEF TakeCluster, WriteText, MarkCluster, FreeCluster, Deleted, Goto, Finish, disk, Tree
<1>2. CASE WriteEntry
  <2>1. /\ slot \in Slots /\ Here[slot].kind = "live" /\ Here[slot] \in Entries
        /\ cluster \in 0 .. EOC /\ UNCHANGED place
    BY <1>2, HereType DEF WriteEntry, Finish, IInv, TypeOK, Locals
  <2>2. Emptied \in Entries /\ Emptied.kind = "live"
    BY <2>1, EntriesStored DEF Emptied
  <2> QED BY <1>2, <2>1, <2>2, EntryStep, TreeKept
<1>3. CASE StoreEntry
  <2>1. /\ slot \in Slots /\ Here[slot].kind \in {"end", "deleted"}
        /\ name \in Names /\ cluster \in 0 .. EOC /\ UNCHANGED place
    BY <1>3, Limits DEF StoreEntry, Created, Finish, IInv, TypeOK, Locals
  <2>2. NewEntry \in Entries /\ NewEntry.kind = "live"
    BY <2>1, EntriesStored DEF NewEntry
  <2> QED BY <1>3, <2>1, <2>2, StoreStep, TreeKept
<1>4. CASE Unlink
  <2>1. slot \in Slots /\ Here[slot].kind = "live" /\ UNCHANGED place
    BY <1>4 DEF Unlink, Goto, Finish, IInv, TypeOK, Locals
  <2> DEFINE e == Blank("deleted")
  <2>2. /\ e \in Entries /\ e.kind # "dir"
        /\ dir' \in {dir, [dir EXCEPT ![current_cluster][slot] = e]}
    BY <1>4, EntriesStored, UnlinkStep
  <2> HIDE DEF e
  <2> QED BY <2>1, <2>2, TreeKept
<1> QED BY <1>1, <1>2, <1>3, <1>4 DEF Step

\* cd into a directory: the one above it is the one cd was given in, or it is the
\* same directory (cd .).
LEMMA CdAbove ==
  ASSUME IInv, UInv, NEW f \in Folders, Cd(f)
  PROVE  Above'
<1> DEFINE s == Least(Matches("dir", f))
           e == Here[s]
<1>1. s \in Slots /\ e.kind = "dir" /\ e.name = f /\ f # ".."
  <2>1. Matches("dir", f) # {} /\ f # ".."
    BY DEF Cd
  <2>2. Matches("dir", f) \in SUBSET Nat
    BY SMT DEF Matches, Slots
  <2>3. s \in Matches("dir", f)
    BY <2>1, <2>2, LeastIn
  <2> QED BY <2>1, <2>3 DEF Matches
<1>2. /\ current_cluster' = IF e.cluster = 0 THEN ROOT ELSE e.cluster
      /\ previous_cluster' = current_cluster
  BY DEF Cd
<1>3. current_cluster \in Dirs /\ e = dir[current_cluster][s]
  BY DEF IInv, TypeOK, Here
<1> HIDE DEF s, e
<1>4. e = HostDir[current_cluster][s]
  BY <1>1, <1>3 DEF UInv, Tree
<1>5. e.cluster # 0 /\ (e.name = "." => e.cluster = current_cluster)
  BY <1>1, <1>3, <1>4, HostAssumption
<1>6. CASE f = "."
  BY <1>1, <1>2, <1>5, <1>6 DEF Above
<1>7. CASE f # "."
  <2>1. Owns(e, e.cluster)
    BY <1>1, <1>7 DEF Owns
  <2>2. current_cluster \in HostParents(e.cluster)
    BY <1>1, <1>3, <1>4, <2>1 DEF HostParents
  <2> QED BY <1>2, <1>5, <2>2 DEF Above
<1> QED BY <1>6, <1>7

LEMMA NextU == IInv /\ UInv /\ [Next]_vars => UInv'
<1> SUFFICES ASSUME IInv, UInv, [Next]_vars PROVE UInv'
  OBVIOUS
<1>1. ASSUME UNCHANGED place, Tree' PROVE UInv'
  BY <1>1 DEF UInv, Above, place
<1>2. ASSUME UNCHANGED dir PROVE Tree'
  BY <1>2 DEF UInv, Tree
<1>3. CASE Step
  BY <1>1, <1>3, StepTree DEF UInv
<1>4. ASSUME NEW f \in Typed,
             Touch(f) \/ Rm(f) \/ WriteNew(f) \/ WriteUnread(f) \/ \E x \in Texts : WriteOld(f, x)
      PROVE  UInv'
  <2>1. UNCHANGED place /\ UNCHANGED dir
    BY <1>4 DEF Touch, Rm, WriteNew, WriteUnread, WriteOld, CreateFile, WriteFile, Created,
                Goto, Finish, disk
  <2> QED BY <1>1, <1>2, <2>1
<1>5. CASE UNCHANGED vars
  <2>1. UNCHANGED place /\ UNCHANGED dir
    BY <1>5 DEF vars, disk
  <2> QED BY <1>1, <1>2, <2>1
<1>6. CASE CdUp \/ PowerCut
  <2>1. previous_cluster' = ROOT /\ UNCHANGED dir
    BY <1>6 DEF CdUp, PowerCut, disk
  <2> QED BY <1>2, <2>1 DEF UInv, Above
<1>7. CASE \E f \in Folders : Cd(f)
  <2>1. UNCHANGED dir
    BY <1>7 DEF Cd, disk
  <2> QED BY <1>2, <1>7, <2>1, CdAbove DEF UInv
<1> QED BY <1>3, <1>4, <1>5, <1>6, <1>7 DEF Next

\* cd .. leads to the directory above, past it to the root, or nowhere, whatever touch,
\* write and rm did since the cd that noted it (the shell's previous_cluster).
THEOREM UpLeadsUp == Spec => []UpIsUp
<1>1. UInv => UpIsUp
  BY TreeParents DEF UInv, Above, UpIsUp
<1>2. Spec => []UInv
  BY InitU, NextU, AlwaysI, PTL DEF Spec
<1> QED BY <1>1, <1>2, PTL

-----------------------------------------------------------------------------
(* How long a command can take.                                            *)

\* What the loop of fat32_file_delete can still use up: entries of the FAT that are
\* not 0, and failures.
Chain == 2 * (Cardinality({c \in 0 .. LAST : fat[c] # 0}) + FAILURES - failures)

\* More than the sectors a command still has before it.
Ahead ==
  CASE pc \in {"take", "mark"}  -> 2
    [] pc \in {"data", "entry"} -> 1
    [] pc = "unlink" -> Chain + 2
    [] pc = "free"   -> IF cluster = 0 THEN Chain ELSE Chain + 1
    [] OTHER -> 0

\* Every sector of a command brings it nearer its end, but for turns of the delete
\* loop at FAT entry 0 once that is cleared; and the loop does not get from a file's
\* chain to entry 0 before a failed write goes unnoticed.
CommandShortens ==
  [][/\ pc # "idle" =>
          \/ pc' = "idle"
          \/ pc = "free" /\ cluster = 0 /\ fat[0] = 0
          \/ Ahead \in Nat /\ Ahead' \in Nat /\ Ahead' < Ahead
     /\ pc = "free" /\ pc' = "free" /\ cluster \in Clusters /\ ~blind =>
          cluster' \in Clusters \cup {EOC}]_vars

\* The entries in use are finitely many, and clearing one makes them fewer.
LEMMA MarkedCount ==
  ASSUME NEW f \in [0 .. LAST -> {0} \cup 2 .. EOC]
  PROVE  /\ Cardinality({c \in 0 .. LAST : f[c] # 0}) \in Nat
         /\ \A k \in 0 .. LAST : f[k] # 0 =>
              Cardinality({c \in 0 .. LAST : [f EXCEPT ![k] = 0][c] # 0})
                = Cardinality({c \in 0 .. LAST : f[c] # 0}) - 1
<1> DEFINE M == {c \in 0 .. LAST : f[c] # 0}
<1>1. IsFiniteSet(M)
  <2>1. IsFiniteSet(0 .. LAST)
    BY FS_Interval, Numbers
  <2> QED BY <2>1, FS_Subset
<1>2. Cardinality(M) \in Nat
  BY <1>1, FS_CardinalityType
<1>3. ASSUME NEW k \in 0 .. LAST, f[k] # 0
      PROVE  Cardinality({c \in 0 .. LAST : [f EXCEPT ![k] = 0][c] # 0}) = Cardinality(M) - 1
  <2>1. {c \in 0 .. LAST : [f EXCEPT ![k] = 0][c] # 0} = M \ {k}
    OBVIOUS
  <2>2. k \in M
    BY <1>3
  <2>3. Cardinality(M \ {k}) = Cardinality(M) - 1
    BY <1>1, <2>2, FS_RemoveElement
  <2> QED BY <2>1, <2>3
<1> QED BY <1>2, <1>3

\* Both are never negative.
LEMMA ChainIs ==
  ASSUME IInv
  PROVE  Chain \in Nat /\ Ahead \in Nat
<1>1. fat \in [0 .. LAST -> {0} \cup 2 .. EOC] /\ failures \in 0 .. FAILURES
  BY DEF IInv, TypeOK
<1>2. FAILURES \in Nat
  BY Fat32Assumption
<1> DEFINE n == Cardinality({c \in 0 .. LAST : fat[c] # 0})
<1>3. n \in Nat
  BY <1>1, MarkedCount
<1>4. Chain = 2 * (n + FAILURES - failures)
  BY DEF Chain
<1> HIDE DEF n
<1>5. Chain \in Nat
  BY <1>1, <1>2, <1>3, <1>4
<1> QED BY <1>5 DEF Ahead

\* One turn of the loop.
LEMMA FreeShortens ==
  ASSUME IInv, FreeCluster, ~(cluster = 0 /\ fat[0] = 0)
  PROVE  Ahead' < Ahead
<1>1. /\ fat \in [0 .. LAST -> {0} \cup 2 .. EOC] /\ failures \in 0 .. FAILURES
      /\ cluster \in 0 .. EOC /\ cluster # EOC /\ pc = "free"
  BY DEF IInv, TypeOK, FreeCluster
<1>2. FAILURES \in Nat /\ cluster \in 0 .. LAST
  <2>1. FAILURES \in Nat
    BY Fat32Assumption
  <2> QED BY <1>1, <2>1, Numbers, SMT
<1> DEFINE n == Cardinality({c \in 0 .. LAST : fat[c] # 0})
           m == Cardinality({c \in 0 .. LAST : [fat EXCEPT ![cluster] = 0][c] # 0})
<1>3. n \in Nat /\ (fat[cluster] # 0 => m = n - 1)
  BY <1>1, <1>2, MarkedCount
<1>4. fat[cluster] = 0 => [fat EXCEPT ![cluster] = 0] = fat
  BY <1>1, <1>2
<1>5. fat[cluster] = 0 => m = n
  BY <1>4
<1>6. Chain = 2 * (n + FAILURES - failures)
  BY DEF Chain
<1>7. pc' = "free" /\ cluster' \in {fat[cluster], EOC}
  BY DEF FreeCluster, Goto
<1>8. /\ Ahead = IF cluster = 0 THEN Chain ELSE Chain + 1
      /\ Ahead' = IF cluster' = 0 THEN Chain' ELSE Chain' + 1
  BY <1>1, <1>7 DEF Ahead
<1>9. \/ fat' = [fat EXCEPT ![cluster] = 0] /\ failures' = failures /\ cluster' = fat[cluster]
      \/ fat' = fat /\ failures' = failures + 1
      \/ fat' = [fat EXCEPT ![cluster] = 0] /\ failures' = failures + 1
  BY DEF FreeCluster, SetFat, Transfer, Fails, faults, Goto
<1>10. /\ fat' = [fat EXCEPT ![cluster] = 0] => Chain' = 2 * (m + FAILURES - failures')
       /\ fat' = fat => Chain' = 2 * (n + FAILURES - failures')
  BY DEF Chain
<1> HIDE DEF n, m
<1>11. m \in {n, n - 1}
  BY <1>3, <1>5
<1>12. CASE failures' = failures + 1
  BY <1>1, <1>2, <1>3, <1>6, <1>8, <1>9, <1>10, <1>11, <1>12
<1>13. CASE fat' = [fat EXCEPT ![cluster] = 0] /\ failures' = failures /\ cluster' = fat[cluster]
  <2>1. CASE fat[cluster] # 0
    BY <1>1, <1>2, <1>3, <1>6, <1>8, <1>10, <1>13, <2>1
  <2>2. CASE fat[cluster] = 0
    BY <1>1, <1>2, <1>3, <1>5, <1>6, <1>8, <1>10, <1>13, <2>2
  <2> QED BY <2>1, <2>2
<1> QED BY <1>9, <1>12, <1>13

\* fat32_file_delete goes over to its loop.
LEMMA UnlinkShortens ==
  ASSUME IInv, Unlink, pc' # "idle"
  PROVE  Ahead' < Ahead
<1>1. failures \in 0 .. FAILURES /\ FAILURES \in Nat
  BY Fat32Assumption DEF IInv, TypeOK
<1>2. /\ pc = "unlink" /\ pc' = "free" /\ fat' = fat
      /\ failures' = failures \/ failures' = failures + 1
  BY DEF Unlink, Transfer, Fails, faults, Goto, Finish, Return
<1> DEFINE n == Cardinality({c \in 0 .. LAST : fat[c] # 0})
<1>3. n \in Nat
  BY MarkedCount DEF IInv, TypeOK
<1>4. Chain = 2 * (n + FAILURES - failures) /\ Chain' = 2 * (n + FAILURES - failures')
  BY <1>2 DEF Chain
<1>5. Ahead = Chain + 2 /\ Ahead' = IF cluster' = 0 THEN Chain' ELSE Chain' + 1
  BY <1>2 DEF Ahead
<1> HIDE DEF n
<1> QED BY <1>1, <1>2, <1>3, <1>4, <1>5

\* A cluster of a chain leads to another, or to its end.
LEMMA ChainGoesOn ==
  ASSUME IInv, OInv, FreeCluster, cluster \in Clusters, ~blind
  PROVE  cluster' \in Clusters \cup {EOC}
<1>1. /\ pc = "free" /\ cluster' \in {fat[cluster], EOC}
      /\ fat \in [0 .. LAST -> {0} \cup 2 .. EOC]
  BY DEF FreeCluster, Goto, IInv, TypeOK
<1>2. OwnedOnce(cluster)
  BY DEF OInv
<1>3. <<"claim", cluster>> \in Owners(cluster)
  BY <1>1, Claims DEF Owners, Claiming
<1>4. fat[cluster] # 0 /\ cluster \in 0 .. LAST
  BY <1>2, <1>3, Limits DEF OwnedOnce
<1>5. \A v \in 2 .. EOC : v \in Clusters \cup {EOC}
  BY Numbers, SMT DEF Clusters
<1> QED BY <1>1, <1>4, <1>5

\* For every volume and any failures the commands end after at most
\* 2 * (LAST + 1 + FAILURES) + 2 sectors, unless rm is sent to FAT entry 0 when that
\* is 0 itself: an empty file's first cluster, or a chain that a failed write broke.
THEOREM CommandsAreShort == Spec => CommandShortens
<1>0. (IInv => Ahead \in Nat)'
  BY ChainIs, PTL
<1>1. IInv /\ OInv /\ [Next]_vars =>
        [/\ pc # "idle" =>
              \/ pc' = "idle"
              \/ pc = "free" /\ cluster = 0 /\ fat[0] = 0
              \/ Ahead \in Nat /\ Ahead' \in Nat /\ Ahead' < Ahead
         /\ pc = "free" /\ pc' = "free" /\ cluster \in Clusters /\ ~blind =>
              cluster' \in Clusters \cup {EOC}]_vars
  <2> SUFFICES ASSUME IInv, OInv, Next, pc # "idle", pc' # "idle"
               PROVE  /\ \/ pc = "free" /\ cluster = 0 /\ fat[0] = 0
                         \/ Ahead \in Nat /\ Ahead' \in Nat /\ Ahead' < Ahead
                      /\ pc = "free" /\ pc' = "free" /\ cluster \in Clusters /\ ~blind =>
                           cluster' \in Clusters \cup {EOC}
    BY Zenon
  <2>1. IInv'
    BY NextI
  <2>2. Ahead \in Nat /\ Ahead' \in Nat
    <3>1. Ahead \in Nat
      BY ChainIs
    <3> QED BY <1>0, <2>1, <3>1, Zenon
  <2>3. Step
    BY DEF Next, Ready, Touch, Rm, WriteNew, WriteUnread, WriteOld, CdUp, Cd, PowerCut, Return
  <2>4. CASE TakeCluster \/ MarkCluster
    <3>1. pc \in {"take", "mark"} /\ pc' \in {"data", "entry"}
      BY <2>4 DEF TakeCluster, MarkCluster, Goto
    <3>2. Ahead = 2 /\ Ahead' = 1
      BY <3>1 DEF Ahead
    <3> QED BY <2>2, <3>1, <3>2
  <2>5. CASE Unlink
    BY <2>2, <2>5, UnlinkShortens DEF Unlink
  <2>6. CASE FreeCluster
    BY <2>2, <2>6, FreeShortens, ChainGoesOn DEF FreeCluster
  <2>7. ASSUME WriteText \/ WriteEntry \/ StoreEntry \/ Deleted PROVE FALSE
    BY <2>7 DEF WriteText, WriteEntry, StoreEntry, Deleted, Created, Finish, Return
  <2> QED BY <2>3, <2>4, <2>5, <2>6, <2>7 DEF Step
<1>2. Spec => [](IInv /\ OInv)
  BY AlwaysI, AlwaysO, PTL
<1> QED BY <1>1, <1>2, PTL DEF Spec, CommandShortens
============================================================================
