-------------------------------- MODULE Pmm --------------------------------
(***************************************************************************)
(* kernel/pmm.c: the bitmap allocator of physical pages.                   *)
(*                                                                         *)
(* A bitmap byte is the set of its bits that are 1, so 0xFF is Bits and a  *)
(* page is free when its bit is absent.  Every operation is one step:      *)
(* interrupt handlers only read the bitmap (pmm_free_pages), the calls     *)
(* that write it come from one context at a time.                          *)
(***************************************************************************)
EXTENDS Integers, FiniteSets

CONSTANTS
  BYTES,        \* TOTAL_PAGES / 8, the length of the bitmap
  LOW_PAGES,    \* pages of the first megabyte (256 in the code)
  KERNEL_END    \* address of the kernel_end symbol of linker.ld

PAGE_SIZE == 4096

TOTAL_PAGES == 8 * BYTES

KernelPages_Mut == KERNEL_END \div PAGE_SIZE

\* kernel_pages: the page the kernel ends in counts as used, too
KernelPages == KERNEL_END \div PAGE_SIZE + 1

ASSUME PmmAssumption ==
  /\ BYTES \in Nat \ {0}
  /\ LOW_PAGES \in 1 .. TOTAL_PAGES
  /\ KERNEL_END \in Nat
  /\ KERNEL_END \div PAGE_SIZE + 1 <= TOTAL_PAGES

Bytes == 0 .. BYTES - 1
Bits  == 0 .. 7
Pages == 0 .. TOTAL_PAGES - 1

VARIABLES
  bitmap,   \* bitmap[i] is the set of bits of byte i that are 1
  up,       \* pmm_init has run
  held,     \* addresses handed out and not freed: what the callers own
  ret       \* address returned by the last pmm_alloc, 0 for failure

vars == <<bitmap, up, held, ret>>

-----------------------------------------------------------------------------
(* Bit operations: page / 8 selects the byte, page % 8 the bit.            *)

IsFree(page) == (page % 8) \notin bitmap[page \div 8]

SetUsed_Mut(bm, page) == [bm EXCEPT ![page \div 8] = @ \cup {page % 8, (page % 8) + 1}]

SetUsed(bm, page) == [bm EXCEPT ![page \div 8] = @ \cup {page % 8}]

SetFree_Mut(bm, page) == [bm EXCEPT ![page \div 8] = {}]

SetFree(bm, page) == [bm EXCEPT ![page \div 8] = @ \ {page % 8}]

FreeSet == {p \in Pages : IsFree(p)}

\* pmm_free_pages counts the zero bits
FreePages == Cardinality(FreeSet)

-----------------------------------------------------------------------------
(* bitmap[] lives in .bss: every bit is 0 until pmm_init runs.             *)
Init ==
  /\ bitmap = [i \in Bytes |-> {}]
  /\ up = FALSE
  /\ held = {}
  /\ ret = 0

\* pmm_init: clear the bitmap, then mark low memory and the kernel
PmmInit ==
  /\ ~up
  /\ up' = TRUE
  /\ bitmap' = [i \in Bytes |->
                  {b \in Bits : i * 8 + b < LOW_PAGES \/ i * 8 + b < KernelPages}]
  /\ UNCHANGED <<held, ret>>

\* the first byte with a zero bit, and the first zero bit of that byte
FirstFree_Mut(i, b) ==
  /\ bitmap[i] # Bits
  /\ \A j \in 0 .. i - 1 : bitmap[j] = Bits
  /\ \A c \in 0 .. b - 1 : c \in bitmap[i]

FirstFree(i, b) ==
  /\ bitmap[i] # Bits
  /\ \A j \in 0 .. i - 1 : bitmap[j] = Bits
  /\ b \notin bitmap[i]
  /\ \A c \in 0 .. b - 1 : c \in bitmap[i]

\* pmm_alloc finds a page
PmmAlloc ==
  /\ up
  /\ \E i \in Bytes, b \in Bits :
       /\ FirstFree(i, b)
       /\ bitmap' = SetUsed(bitmap, i * 8 + b)
       /\ ret' = (i * 8 + b) * PAGE_SIZE
       /\ held' = held \cup {(i * 8 + b) * PAGE_SIZE}
  /\ UNCHANGED up

\* pmm_alloc scans every byte in vain and returns 0
PmmAllocFails ==
  /\ up
  /\ \A i \in Bytes : bitmap[i] = Bits
  /\ ret' = 0
  /\ UNCHANGED <<bitmap, up, held>>

\* pmm_free, under its contract: the address came from pmm_alloc
PmmFree ==
  /\ up
  /\ \E addr \in held :
       /\ bitmap' = SetFree(bitmap, addr \div PAGE_SIZE)
       /\ held' = held \ {addr}
  /\ ret' = 0
  /\ UNCHANGED up

Next == PmmInit \/ PmmAlloc \/ PmmAllocFails \/ PmmFree

Spec == Init /\ [][Next]_vars

-----------------------------------------------------------------------------
(* Properties.                                                             *)

HeldPages == {a \div PAGE_SIZE : a \in held}

Reserved == {p \in Pages : p < LOW_PAGES \/ p < KernelPages}

\* The bitmap has one bit set per byte position in range, addresses are page
\* aligned and inside the managed memory.
TypeOK ==
  /\ bitmap \in [Bytes -> SUBSET Bits]
  /\ up \in BOOLEAN
  /\ held \subseteq {p * PAGE_SIZE : p \in Pages}
  /\ ret \in {p * PAGE_SIZE : p \in Pages}

\* A page is marked used exactly when it is reserved or somebody holds it:
\* pmm_alloc and pmm_free neither lose a page nor leave a held page free, so
\* no page can be handed out twice.
Conservation == up => \A p \in Pages : IsFree(p) <=> p \notin Reserved \cup HeldPages

\* Memory below 1 MB and below kernel_end is never handed out, whatever
\* alignment kernel_end has ("we mark everything below this as used", pmm.h).
KernelNeverHeld == \A a \in held : a >= KERNEL_END /\ a >= LOW_PAGES * PAGE_SIZE

\* The count Prajna and the top bar read is exact: every page is reserved,
\* held or counted, never two of these.
FreeCountExact ==
  up => FreePages = TOTAL_PAGES - Cardinality(Reserved) - Cardinality(held)

\* The bitmap allocator implements the page pool: in particular a call fails
\* only when no page at all is free.
Pool == INSTANCE PageAllocator WITH
          free <- FreeSet,
          held <- HeldPages,
          got  <- IF ret = 0 THEN -1 ELSE ret \div PAGE_SIZE

PoolSpec == Pool!Spec
=============================================================================
