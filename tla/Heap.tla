-------------------------------- MODULE Heap --------------------------------
(***************************************************************************)
(* kernel/heap.c on top of kernel/pmm.c: kmalloc and kfree on a list of    *)
(* blocks in pages taken from the page allocator, beside its other callers *)
(* (the task stacks).                                                      *)
(*                                                                         *)
(* kmalloc is a step for every turn of its recursion, so that every step   *)
(* calls pmm_alloc at most once.  Nothing else runs meanwhile: the heap    *)
(* and the scheduler are called from one context.  Nothing in the kernel   *)
(* calls kmalloc yet; it is modelled under its contract, which is to free  *)
(* what was allocated, once.                                               *)
(***************************************************************************)
EXTENDS Pmm, SequencesExt

CONSTANTS
  HEADER,      \* sizeof(Block): 16
  SPARE,       \* least data a split leaves over: 4
  Requests     \* sizes kmalloc is called with

ASSUME HeapAssumption ==
  /\ HEADER \in Nat \ {0} /\ HEADER < PAGE_SIZE
  /\ SPARE \in Nat
  /\ Requests \subseteq Nat

VARIABLES
  blocks,     \* the list from heap_start on, with the address of every block
  mine,       \* not in the code: the pages of the heap, which never gives one back
  wanted,     \* size of the kmalloc that is running, NoCall if there is none
  given,      \* what the callers own: address and size they asked for
  crossed     \* not in the code: kfree has merged two blocks that are not adjacent

heapVars == <<blocks, mine, wanted, given, crossed>>

NoCall == -1
HeapUp == blocks # <<>>

Block(at, size, used) == [at |-> at, size |-> size, used |-> used]
PageBlock(at) == Block(at, PAGE_SIZE - HEADER, FALSE)

DataOf(b) == b.at + HEADER
EndOf(b)  == b.at + HEADER + b.size

HeapInit ==
  /\ Init
  /\ blocks = <<>>
  /\ mine = {}
  /\ wanted = NoCall
  /\ given = {}
  /\ crossed = FALSE

-----------------------------------------------------------------------------
(* heap_init                                                               *)

SetUpHeap ==
  /\ ~HeapUp /\ wanted = NoCall
  /\ \/ PmmAlloc /\ blocks' = <<PageBlock(ret')>> /\ mine' = {ret'}
     \/ PmmAllocFails /\ UNCHANGED <<blocks, mine>>
  /\ UNCHANGED <<wanted, given, crossed>>

-----------------------------------------------------------------------------
(* kmalloc                                                                 *)

\* HeapUp is not a condition of the code.  Without a heap kmalloc takes every page
\* there is, links each through a null pointer (heap.c:64) and returns 0.  kernel_main
\* calls heap_init with all managed pages free, so only a machine without one gets
\* there; the model leaves that call out.
Kmalloc(size) ==
  /\ HeapUp /\ ~crossed /\ wanted = NoCall
  /\ wanted' = size
  /\ UNCHANGED <<vars, blocks, mine, given, crossed>>

Fits(b) == ~b.used /\ b.size >= wanted

IsFirstFit(i) == Fits(blocks[i]) /\ \A j \in 1 .. i - 1 : ~Fits(blocks[j])

NothingFits == \A i \in DOMAIN blocks : ~Fits(blocks[i])

Split_Mut(b) == <<Block(b.at, wanted, TRUE),
                  Block(b.at + HEADER + wanted, b.size - wanted, FALSE)>>

Split(b) == <<Block(b.at, wanted, TRUE),
              Block(b.at + HEADER + wanted, b.size - wanted - HEADER, FALSE)>>

Whole(b) == <<Block(b.at, b.size, TRUE)>>

\* a block is found, and split when enough is left over
Take ==
  /\ wanted # NoCall
  /\ \E i \in DOMAIN blocks :
       /\ IsFirstFit(i)
       /\ blocks' = SubSeq(blocks, 1, i - 1)
                    \o (IF blocks[i].size > wanted + HEADER + SPARE
                        THEN Split(blocks[i]) ELSE Whole(blocks[i]))
                    \o SubSeq(blocks, i + 1, Len(blocks))
       /\ given' = given \cup {<<DataOf(blocks[i]), wanted>>}
  /\ wanted' = NoCall
  /\ UNCHANGED <<vars, mine, crossed>>

Grow_Mut ==
  /\ wanted # NoCall /\ NothingFits
  /\ PmmAlloc
  /\ blocks' = <<PageBlock(ret')>>
  /\ mine' = mine \cup {ret'}
  /\ UNCHANGED <<wanted, given, crossed>>

\* none is: one more page at the end of the list, and kmalloc calls itself
Grow ==
  /\ wanted # NoCall /\ NothingFits
  /\ PmmAlloc
  /\ blocks' = Append(blocks, PageBlock(ret'))
  /\ mine' = mine \cup {ret'}
  /\ UNCHANGED <<wanted, given, crossed>>

Fail_Mut ==
  /\ wanted # NoCall /\ NothingFits
  /\ PmmAllocFails
  /\ UNCHANGED heapVars

\* no page is left either
Fail ==
  /\ wanted # NoCall /\ NothingFits
  /\ PmmAllocFails
  /\ wanted' = NoCall
  /\ UNCHANGED <<blocks, mine, given, crossed>>

-----------------------------------------------------------------------------
(* kfree                                                                   *)

MergesNext_Mut(i) == i < Len(blocks)

MergesNext(i) == i < Len(blocks) /\ ~blocks[i + 1].used

\* the size grows by the next block's, wherever that is
Merged(i) ==
  SubSeq(blocks, 1, i - 1)
  \o <<Block(blocks[i].at, blocks[i].size + HEADER + blocks[i + 1].size, FALSE)>>
  \o SubSeq(blocks, i + 2, Len(blocks))

Kfree ==
  /\ ~crossed /\ wanted = NoCall
  /\ \E g \in given, i \in DOMAIN blocks :
       /\ DataOf(blocks[i]) = g[1]
       /\ given' = given \ {g}
       /\ \/ /\ MergesNext(i)
             /\ blocks' = Merged(i)
             /\ crossed' = (blocks[i + 1].at # EndOf(blocks[i]))
          \/ /\ ~MergesNext(i)
             /\ blocks' = [blocks EXCEPT ![i].used = FALSE]
             /\ UNCHANGED crossed
  /\ UNCHANGED <<vars, mine, wanted>>

-----------------------------------------------------------------------------

\* pmm_init, and the other callers of pmm_alloc, who free their own pages only
OtherCaller ==
  /\ wanted = NoCall
  /\ Next
  /\ mine \subseteq held'
  /\ UNCHANGED heapVars

KmallocStep == Take \/ Grow \/ Fail

HeapNext ==
  \/ OtherCaller
  \/ SetUpHeap \/ Kfree \/ KmallocStep
  \/ \E size \in Requests : Kmalloc(size)

HeapSpec == HeapInit /\ [][HeapNext]_<<vars, heapVars>>

\* kmalloc that has begun goes on.
HeapFairSpec == HeapSpec /\ WF_<<vars, heapVars>>(KmallocStep)

-----------------------------------------------------------------------------
(* Properties.                                                             *)

\* Every allocation has a used block of its own that is large enough, and lies in
\* pages the heap holds; no block reaches into another, or into its header.  So
\* no caller of kmalloc, and no other caller of pmm_alloc, shares memory with another.
\* It ends with the first merge across pages that are not adjacent.
AllocationsApart ==
  ~crossed =>
    /\ \A g \in given : \E i \in DOMAIN blocks :
         blocks[i].used /\ DataOf(blocks[i]) = g[1] /\ blocks[i].size >= g[2]
    /\ \A i, j \in DOMAIN blocks :
         i # j => EndOf(blocks[i]) <= blocks[j].at \/ EndOf(blocks[j]) <= blocks[i].at
    /\ \A i \in DOMAIN blocks : \A p \in Pages :
         blocks[i].at < (p + 1) * PAGE_SIZE /\ p * PAGE_SIZE < EndOf(blocks[i])
           => p * PAGE_SIZE \in mine \cap held

\* Splitting and merging lose no byte of the heap's pages: the blocks fill them.
NothingLost ==
  ~crossed => FoldLeft(LAMBDA sum, b : sum + HEADER + b.size, 0, blocks)
                = Cardinality(mine) * PAGE_SIZE

\* kmalloc comes back, also from a request no page can satisfy, which takes every
\* page there is before it fails.
KmallocReturns == (wanted # NoCall) ~> (wanted = NoCall)
=============================================================================
