--------------------------- MODULE PageAllocator ---------------------------
(***************************************************************************)
(* What the physical memory manager promises its callers, without the      *)
(* bitmap: a pool of pages from which any free page may be handed out, a   *)
(* failure only when the pool is empty, and a page back in the pool only   *)
(* when its holder gives it back.                                          *)
(***************************************************************************)
EXTENDS Integers

CONSTANTS
  Pages,     \* page numbers managed by the allocator
  Reserved   \* pages that are never handed out (low memory and the kernel)

VARIABLES
  free,      \* pages in the pool
  held,      \* pages the callers hold
  up,        \* TRUE once the pool has been set up
  got        \* page returned by the last call, -1 when there is none

vars == <<free, held, up, got>>

Init ==
  /\ free = Pages
  /\ held = {}
  /\ up = FALSE
  /\ got = -1

SetUp ==
  /\ ~up
  /\ up' = TRUE
  /\ free' = Pages \ Reserved
  /\ UNCHANGED <<held, got>>

Alloc ==
  /\ up
  /\ \E p \in free :
       /\ free' = free \ {p}
       /\ held' = held \cup {p}
       /\ got' = p
  /\ UNCHANGED up

Exhausted ==
  /\ up
  /\ free = {}
  /\ got' = -1
  /\ UNCHANGED <<free, held, up>>

Release ==
  /\ up
  /\ \E p \in held :
       /\ held' = held \ {p}
       /\ free' = free \cup {p}
  /\ got' = -1
  /\ UNCHANGED up

Next == SetUp \/ Alloc \/ Exhausted \/ Release

Spec == Init /\ [][Next]_vars
=============================================================================
