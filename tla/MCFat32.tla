------------------------------ MODULE MCFat32 ------------------------------
(***************************************************************************)
(* Volumes for the instances of Fat32.                                     *)
(***************************************************************************)
EXTENDS Fat32

Entry(k, f, c, x) == [kind |-> k, name |-> f, cluster |-> c, size |-> x]

\* A directory entry for each slot in use, end marks behind them.
Listing(entries) == [s \in Slots |-> IF s \in DOMAIN entries THEN entries[s] ELSE Blank("end")]

\* In the root a directory S, a file A of two clusters, 5 and 4, and a file B; in
\* S an empty A without a cluster, as other systems make them, and another S whose
\* first sector is full.
UsedDirs == {ROOT, 3, 6}
UsedDir ==
  [d \in Dirs |-> Listing(
     CASE d = ROOT -> <<Entry("dir", "S", 3, 0), Entry("live", "A", 5, 1), Entry("live", "B", 7, 1)>>
       [] d = 3 -> <<Entry("dir", ".", 3, 0), Entry("dir", "..", 0, 0), Entry("dir", "S", 6, 0), Entry("live", "A", 0, 0)>>
       [] d = 6 -> <<Entry("dir", ".", 6, 0), Entry("dir", "..", 3, 0), Blank("other"), Blank("other")>>)]
UsedFat  == [c \in 0 .. LAST |-> CASE c = 5 -> 4
                                   [] c <= 7 /\ c # 5 -> EOC
                                   [] OTHER -> 0]

\* The root directory's cluster and nothing else.
EmptyDirs == {ROOT}
EmptyDir == [d \in Dirs |-> Listing(<<>>)]
EmptyFat == [c \in 0 .. LAST |-> IF c <= ROOT THEN EOC ELSE 0]

\* The file's text is in its first cluster; the other clusters are blank.
OldData  == [c \in Clusters |-> IF c = 5 THEN 1 ELSE 0]
=============================================================================
