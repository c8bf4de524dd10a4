----------------------------- MODULE PmmProofs -----------------------------
(***************************************************************************)
(* Pmm is type correct, conserves pages, never hands out the kernel, and   *)
(* implements PageAllocator, for every amount of memory and every          *)
(* kernel_end.                                                             *)
(***************************************************************************)
EXTENDS Pmm, FiniteSetTheorems, FunctionTheorems, TLAPS

-----------------------------------------------------------------------------
(* Pages, bits and addresses.                                              *)

\* Bit b of byte i is one page, and the code's / 8 and % 8 find it again.
LEMMA PageOfBit ==
  ASSUME NEW i \in Bytes, NEW b \in Bits
  PROVE  /\ i * 8 + b \in Pages
         /\ (i * 8 + b) \div 8 = i
         /\ (i * 8 + b) % 8 = b
BY PmmAssumption DEF Bytes, Bits, Pages, TOTAL_PAGES

\* Every page is one bit of one byte of the bitmap.
LEMMA BitOfPage ==
  ASSUME NEW p \in Pages
  PROVE  /\ p \div 8 \in Bytes
         /\ p % 8 \in Bits
         /\ (p \div 8) * 8 + (p % 8) = p
BY PmmAssumption DEF Bytes, Bits, Pages, TOTAL_PAGES

\* An address made of a page number gives that page number back.
LEMMA PageOfAddress ==
  ASSUME NEW p \in Pages
  PROVE  /\ p * PAGE_SIZE \in Nat
         /\ (p * PAGE_SIZE) \div PAGE_SIZE = p
BY PmmAssumption DEF Pages, TOTAL_PAGES, PAGE_SIZE

\* pmm_set_used changes one page and nothing else.
LEMMA SetUsedPage ==
  ASSUME NEW q \in Pages,
         bitmap \in [Bytes -> SUBSET Bits],
         bitmap' = SetUsed(bitmap, q)
  PROVE  /\ bitmap' \in [Bytes -> SUBSET Bits]
         /\ \A p \in Pages : IsFree(p)' <=> IsFree(p) /\ p # q
<1>1. q \div 8 \in Bytes /\ q % 8 \in Bits
  BY BitOfPage
<1>2. bitmap' \in [Bytes -> SUBSET Bits]
  BY <1>1 DEF SetUsed
<1>3. ASSUME NEW p \in Pages
      PROVE  IsFree(p)' <=> IsFree(p) /\ p # q
  <2>1. p \div 8 \in Bytes /\ (p \div 8 = q \div 8 /\ p % 8 = q % 8 <=> p = q)
    BY BitOfPage
  <2>2. CASE p \div 8 = q \div 8
    BY <1>1, <2>1, <2>2 DEF SetUsed, IsFree
  <2>3. CASE p \div 8 # q \div 8
    BY <1>1, <2>1, <2>3 DEF SetUsed, IsFree
  <2> QED BY <2>2, <2>3
<1> QED BY <1>2, <1>3

\* pmm_set_free changes one page and nothing else.
LEMMA SetFreePage ==
  ASSUME NEW q \in Pages,
         bitmap \in [Bytes -> SUBSET Bits],
         bitmap' = SetFree(bitmap, q)
  PROVE  /\ bitmap' \in [Bytes -> SUBSET Bits]
         /\ \A p \in Pages : IsFree(p)' <=> IsFree(p) \/ p = q
<1>1. q \div 8 \in Bytes /\ q % 8 \in Bits
  BY BitOfPage
<1>2. bitmap' \in [Bytes -> SUBSET Bits]
  BY <1>1 DEF SetFree
<1>3. ASSUME NEW p \in Pages
      PROVE  IsFree(p)' <=> IsFree(p) \/ p = q
  <2>1. p \div 8 \in Bytes /\ (p \div 8 = q \div 8 /\ p % 8 = q % 8 <=> p = q)
    BY BitOfPage
  <2>2. CASE p \div 8 = q \div 8
    BY <1>1, <2>1, <2>2 DEF SetFree, IsFree
  <2>3. CASE p \div 8 # q \div 8
    BY <1>1, <2>1, <2>3 DEF SetFree, IsFree
  <2> QED BY <2>2, <2>3
<1> QED BY <1>2, <1>3

\* What pmm_alloc settles on is a free page.
LEMMA FirstFreeIsFree ==
  ASSUME NEW i \in Bytes, NEW b \in Bits, FirstFree(i, b)
  PROVE  i * 8 + b \in Pages /\ IsFree(i * 8 + b)
BY PageOfBit DEF FirstFree, IsFree

\* The scan fails only when there is no free page.
LEMMA FullBitmap ==
  ASSUME \A i \in Bytes : bitmap[i] = Bits
  PROVE  FreeSet = {}
BY BitOfPage DEF FreeSet, IsFree

-----------------------------------------------------------------------------
(***************************************************************************)
(* The inductive invariant.  Conservation alone is not inductive: without  *)
(* the last two parts a held page could be a reserved one, and freeing it  *)
(* would put it into the pool.                                             *)
(***************************************************************************)
NotUpYet == ~up => held = {} /\ bitmap = [i \in Bytes |-> {}]

HeldNotReserved == HeldPages \cap Reserved = {}

IInv == TypeOK /\ Conservation /\ NotUpYet /\ HeldNotReserved

\* The pages the callers hold are pages, and their addresses are their own.
LEMMA HeldAddress ==
  ASSUME TypeOK, NEW addr \in held
  PROVE  /\ addr \div PAGE_SIZE \in Pages
         /\ addr \div PAGE_SIZE \in HeldPages
         /\ addr = (addr \div PAGE_SIZE) * PAGE_SIZE
<1>1. PICK p \in Pages : addr = p * PAGE_SIZE
  BY DEF TypeOK
<1>2. addr \div PAGE_SIZE = p
  BY <1>1, PageOfAddress
<1> QED BY <1>1, <1>2 DEF HeldPages

LEMMA InitIInv == Init => IInv
<1> SUFFICES ASSUME Init PROVE IInv
  OBVIOUS
<1>1. TypeOK
  <2>1. 0 \in Pages /\ 0 = 0 * PAGE_SIZE
    BY PmmAssumption DEF Pages, TOTAL_PAGES, PAGE_SIZE
  <2> QED BY <2>1 DEF Init, TypeOK
<1>2. Conservation /\ NotUpYet /\ HeldNotReserved
  BY DEF Init, Conservation, NotUpYet, HeldNotReserved, HeldPages
<1> QED BY <1>1, <1>2 DEF IInv

\* What pmm_init leaves free: everything above low memory and the kernel.
LEMMA PmmInitPages ==
  ASSUME PmmInit
  PROVE  /\ bitmap' \in [Bytes -> SUBSET Bits]
         /\ \A p \in Pages : IsFree(p)' <=> p \notin Reserved
<1>1. bitmap' \in [Bytes -> SUBSET Bits]
  BY DEF PmmInit
<1>2. ASSUME NEW p \in Pages
      PROVE  IsFree(p)' <=> p \notin Reserved
  <2>1. p \div 8 \in Bytes /\ p % 8 \in Bits /\ (p \div 8) * 8 + (p % 8) = p
    BY BitOfPage
  <2>2. bitmap'[p \div 8] =
          {b \in Bits : (p \div 8) * 8 + b < LOW_PAGES \/ (p \div 8) * 8 + b < KernelPages}
    BY <2>1 DEF PmmInit
  <2> QED BY <2>1, <2>2 DEF IsFree, Reserved
<1> QED BY <1>1, <1>2

\* A step of pmm_alloc moves one page, neither reserved nor held, to the callers.
LEMMA AllocPage ==
  ASSUME IInv, PmmAlloc
  PROVE  \E q \in Pages :
           /\ IsFree(q) /\ q \notin Reserved \cup HeldPages
           /\ bitmap' = SetUsed(bitmap, q)
           /\ held' = held \cup {q * PAGE_SIZE}
           /\ HeldPages' = HeldPages \cup {q}
           /\ ret' = q * PAGE_SIZE
<1>1. PICK i \in Bytes, b \in Bits :
        /\ FirstFree(i, b)
        /\ bitmap' = SetUsed(bitmap, i * 8 + b)
        /\ ret' = (i * 8 + b) * PAGE_SIZE
        /\ held' = held \cup {(i * 8 + b) * PAGE_SIZE}
  BY DEF PmmAlloc
<1> DEFINE q == i * 8 + b
<1>2. q \in Pages /\ IsFree(q)
  BY <1>1, FirstFreeIsFree
<1>3. q \notin Reserved \cup HeldPages
  BY <1>2 DEF IInv, Conservation, PmmAlloc
<1>4. HeldPages' = HeldPages \cup {q}
  <2>1. (q * PAGE_SIZE) \div PAGE_SIZE = q
    BY <1>2, PageOfAddress
  <2> HIDE DEF q
  <2>2. held' = held \cup {q * PAGE_SIZE}
    BY <1>1 DEF q
  <2> QED BY <2>1, <2>2 DEF HeldPages
<1> QED BY <1>1, <1>2, <1>3, <1>4

\* A step of pmm_free moves one held page back.
LEMMA FreePage ==
  ASSUME IInv, PmmFree
  PROVE  \E q \in HeldPages :
           /\ q \in Pages /\ q \notin Reserved
           /\ bitmap' = SetFree(bitmap, q)
           /\ held' \subseteq held
           /\ HeldPages' = HeldPages \ {q}
<1>1. PICK addr \in held :
        /\ bitmap' = SetFree(bitmap, addr \div PAGE_SIZE)
        /\ held' = held \ {addr}
  BY DEF PmmFree
<1>2. /\ addr \div PAGE_SIZE \in Pages
      /\ addr \div PAGE_SIZE \in HeldPages
  BY <1>1, HeldAddress DEF IInv
<1>3. addr \div PAGE_SIZE \notin Reserved
  BY <1>2 DEF IInv, HeldNotReserved
<1>4. HeldPages' = HeldPages \ {addr \div PAGE_SIZE}
  <2>1. ASSUME NEW a \in held, a \div PAGE_SIZE = addr \div PAGE_SIZE
        PROVE  a = addr
    BY <1>1, <2>1, HeldAddress DEF IInv
  <2> QED BY <1>1, <2>1 DEF HeldPages
<1> QED BY <1>1, <1>2, <1>3, <1>4

LEMMA NextIInv == IInv /\ [Next]_vars => IInv'
<1> SUFFICES ASSUME IInv, [Next]_vars PROVE IInv'
  OBVIOUS
<1>0. 0 \in Pages /\ 0 * PAGE_SIZE = 0
  BY PmmAssumption DEF Pages, TOTAL_PAGES, PAGE_SIZE
<1>1. CASE PmmInit
  <2>1. up' = TRUE /\ held' = {} /\ HeldPages' = {}
    BY <1>1 DEF PmmInit, IInv, NotUpYet, HeldPages
  <2>2. TypeOK'
    BY <1>1, <2>1, PmmInitPages DEF PmmInit, IInv, TypeOK
  <2>3. Conservation'
    BY <1>1, <2>1, PmmInitPages DEF Conservation, Reserved
  <2> QED BY <2>1, <2>2, <2>3 DEF IInv, NotUpYet, HeldNotReserved
<1>2. CASE PmmAlloc
  <2>1. PICK q \in Pages :
          /\ IsFree(q) /\ q \notin Reserved \cup HeldPages
          /\ bitmap' = SetUsed(bitmap, q)
          /\ held' = held \cup {q * PAGE_SIZE}
          /\ HeldPages' = HeldPages \cup {q}
          /\ ret' = q * PAGE_SIZE
    BY <1>2, AllocPage
  <2>2. /\ bitmap' \in [Bytes -> SUBSET Bits]
        /\ \A p \in Pages : IsFree(p)' <=> IsFree(p) /\ p # q
    BY <2>1, SetUsedPage DEF IInv, TypeOK
  <2>3. up /\ up'
    BY <1>2 DEF PmmAlloc
  <2>4. TypeOK'
    BY <2>1, <2>2, <2>3 DEF IInv, TypeOK
  <2>5. Conservation'
    BY <2>1, <2>2, <2>3 DEF IInv, Conservation, Reserved
  <2>6. HeldNotReserved'
    BY <2>1 DEF IInv, HeldNotReserved, Reserved
  <2> QED BY <2>3, <2>4, <2>5, <2>6 DEF IInv, NotUpYet
<1>3. CASE PmmAllocFails
  BY <1>0, <1>3 DEF PmmAllocFails, IInv, TypeOK, Conservation, NotUpYet,
     HeldNotReserved, HeldPages, IsFree, Reserved
<1>4. CASE PmmFree
  <2>1. PICK q \in HeldPages :
          /\ q \in Pages /\ q \notin Reserved
          /\ bitmap' = SetFree(bitmap, q)
          /\ held' \subseteq held
          /\ HeldPages' = HeldPages \ {q}
    BY <1>4, FreePage
  <2>2. /\ bitmap' \in [Bytes -> SUBSET Bits]
        /\ \A p \in Pages : IsFree(p)' <=> IsFree(p) \/ p = q
    BY <2>1, SetFreePage DEF IInv, TypeOK
  <2>3. up /\ up' /\ ret' = 0
    BY <1>4 DEF PmmFree
  <2>4. TypeOK'
    BY <1>0, <2>1, <2>2, <2>3 DEF IInv, TypeOK
  <2>5. Conservation'
    BY <2>1, <2>2, <2>3 DEF IInv, Conservation, Reserved
  <2>6. HeldNotReserved'
    BY <2>1 DEF IInv, HeldNotReserved, Reserved
  <2> QED BY <2>3, <2>4, <2>5, <2>6 DEF IInv, NotUpYet
<1>5. CASE UNCHANGED vars
  BY <1>5 DEF vars, IInv, TypeOK, Conservation, NotUpYet, HeldNotReserved,
     HeldPages, IsFree, Reserved
<1> QED BY <1>1, <1>2, <1>3, <1>4, <1>5 DEF Next

\* pmm_init, pmm_alloc and pmm_free keep the inductive invariant.
THEOREM Invariance == Spec => []IInv
BY InitIInv, NextIInv, PTL DEF Spec

-----------------------------------------------------------------------------
(* The theorems.                                                           *)

\* The bitmap and what the callers own stay well formed.
THEOREM TypeCorrect == Spec => []TypeOK
<1>1. IInv => TypeOK
  BY DEF IInv
<1> QED BY <1>1, Invariance, PTL

\* No page is lost and no page has two owners, however many calls are made.
THEOREM PagesConserved == Spec => []Conservation
<1>1. IInv => Conservation
  BY DEF IInv
<1> QED BY <1>1, Invariance, PTL

\* pmm_alloc never hands out low memory or the kernel, for any kernel_end: the
\* + 1 of pmm_init covers the page the kernel ends in.
THEOREM KernelProtected == Spec => []KernelNeverHeld
<1>1. IInv => KernelNeverHeld
  <2> SUFFICES ASSUME IInv, NEW addr \in held
               PROVE  addr >= KERNEL_END /\ addr >= LOW_PAGES * PAGE_SIZE
    BY DEF KernelNeverHeld
  <2> DEFINE p == addr \div PAGE_SIZE
  <2>1. p \in Pages /\ p \in HeldPages /\ addr = p * PAGE_SIZE
    BY HeldAddress DEF IInv
  <2>2. p \notin Reserved
    BY <2>1 DEF IInv, HeldNotReserved
  <2> HIDE DEF p
  <2>3. p >= LOW_PAGES /\ p >= KERNEL_END \div PAGE_SIZE + 1
    BY <2>1, <2>2, PmmAssumption DEF Reserved, KernelPages, Pages, TOTAL_PAGES, PAGE_SIZE
  <2> QED BY <2>1, <2>3, PmmAssumption DEF Pages, TOTAL_PAGES, PAGE_SIZE
<1> QED BY <1>1, Invariance, PTL

-----------------------------------------------------------------------------
(* Counting.                                                               *)

\* Holding an address is holding a page: there are as many of both.
LEMMA HeldCount ==
  ASSUME TypeOK
  PROVE  IsFiniteSet(HeldPages) /\ Cardinality(held) = Cardinality(HeldPages)
<1> DEFINE page == [a \in held |-> a \div PAGE_SIZE]
<1>1. HeldPages \subseteq Pages
  BY HeldAddress DEF HeldPages
<1>2. IsFiniteSet(HeldPages)
  <2>1. IsFiniteSet(Pages)
    BY FS_Interval, PmmAssumption DEF Pages, TOTAL_PAGES
  <2> QED BY <1>1, <2>1, FS_Subset
<1>3. page \in Bijection(held, HeldPages)
  <2>1. page \in [held -> HeldPages]
    BY DEF HeldPages
  <2>2. ASSUME NEW a \in held, NEW b \in held, page[a] = page[b]
        PROVE  a = b
    BY <2>2, HeldAddress
  <2>3. \A p \in HeldPages : \E a \in held : page[a] = p
    BY DEF HeldPages
  <2> QED BY <2>1, <2>2, <2>3 DEF Bijection, Injection, Surjection, IsInjective
<1>4. ExistsBijection(held, HeldPages)
  BY <1>3 DEF ExistsBijection
<1>5. ExistsBijection(HeldPages, held)
  BY <1>4, Fun_ExistsBijSymmetric
<1> QED BY <1>2, <1>5, FS_Bijection

\* pmm_free_pages is exact: total, minus reserved, minus held pages, for every
\* size of the bitmap.  Prajna decides on this number.
THEOREM FreeCountCorrect == Spec => []FreeCountExact
<1>1. IInv => FreeCountExact
  <2> SUFFICES ASSUME IInv, up
               PROVE  FreePages = TOTAL_PAGES - Cardinality(Reserved) - Cardinality(held)
    BY DEF FreeCountExact
  <2> DEFINE Out == Reserved \cup HeldPages
  <2>1. TOTAL_PAGES \in Nat /\ IsFiniteSet(Pages) /\ Cardinality(Pages) = TOTAL_PAGES
    BY FS_Interval, PmmAssumption DEF Pages, TOTAL_PAGES
  <2>2. IsFiniteSet(HeldPages) /\ Cardinality(held) = Cardinality(HeldPages)
    BY HeldCount DEF IInv
  <2>3. Out \subseteq Pages
    BY HeldAddress DEF IInv, HeldPages, Reserved
  <2>4. FreeSet = Pages \ Out
    BY DEF IInv, Conservation, FreeSet
  <2>5. IsFiniteSet(Reserved)
    BY <2>1, FS_Subset DEF Reserved
  <2>6. Cardinality(Out) = Cardinality(Reserved) + Cardinality(HeldPages)
    <3>1. Reserved \cap HeldPages = {}
      BY DEF IInv, HeldNotReserved
    <3>2. Cardinality(Reserved) \in Nat /\ Cardinality(HeldPages) \in Nat
      BY <2>2, <2>5, FS_CardinalityType
    <3>3. Cardinality(Out) = Cardinality(Reserved) + Cardinality(HeldPages)
                               - Cardinality(Reserved \cap HeldPages)
      BY <2>2, <2>5, FS_Union
    <3>4. Cardinality(Reserved \cap HeldPages) = 0
      BY <3>1, FS_EmptySet
    <3> HIDE DEF Out
    <3> QED BY <3>2, <3>3, <3>4
  <2>7. Cardinality(FreeSet) = TOTAL_PAGES - Cardinality(Out)
    <3>1. Pages \cap Out = Out
      BY <2>3
    <3>2. Cardinality(Pages \ Out) = Cardinality(Pages) - Cardinality(Pages \cap Out)
      BY <2>1, FS_Difference
    <3> HIDE DEF Out
    <3> QED BY <2>1, <2>4, <3>1, <3>2
  <2>8. Cardinality(Reserved) \in Nat /\ Cardinality(HeldPages) \in Nat
    BY <2>2, <2>5, FS_CardinalityType
  <2> QED BY <2>1, <2>2, <2>6, <2>7, <2>8 DEF FreePages
<1> QED BY <1>1, Invariance, PTL

-----------------------------------------------------------------------------
(* Refinement: the first-fit bitmap is a pool of pages.                    *)

LEMMA InitPool == Init => Pool!Init
BY BitOfPage DEF Init, Pool!Init, FreeSet, IsFree, HeldPages

LEMMA StepPool == IInv /\ IInv' /\ [Next]_vars => [Pool!Next]_(Pool!vars)
<1> SUFFICES ASSUME IInv, IInv', [Next]_vars PROVE [Pool!Next]_(Pool!vars)
  OBVIOUS
<1>1. CASE PmmInit
  <2>1. FreeSet' = Pages \ Reserved
    BY <1>1, PmmInitPages DEF FreeSet
  <2>2. held' = held /\ HeldPages' = HeldPages /\ ret' = ret /\ ~up /\ up'
    BY <1>1 DEF PmmInit, HeldPages
  <2>3. Pool!SetUp
    BY <2>1, <2>2 DEF Pool!SetUp
  <2> QED BY <2>3 DEF Pool!Next
<1>2. CASE PmmAlloc
  <2>1. PICK q \in Pages :
          /\ IsFree(q) /\ q \notin Reserved \cup HeldPages
          /\ bitmap' = SetUsed(bitmap, q)
          /\ held' = held \cup {q * PAGE_SIZE}
          /\ HeldPages' = HeldPages \cup {q}
          /\ ret' = q * PAGE_SIZE
    BY <1>2, AllocPage
  <2>2. q \in FreeSet /\ FreeSet' = FreeSet \ {q}
    BY <2>1, SetUsedPage DEF IInv, TypeOK, FreeSet
  <2>3. ret' # 0 /\ ret' \div PAGE_SIZE = q
    BY <2>1, PageOfAddress, PmmAssumption
    DEF Reserved, Pages, TOTAL_PAGES, PAGE_SIZE
  <2>4. up /\ up' = up
    BY <1>2 DEF PmmAlloc
  <2>5. Pool!Alloc
    BY <2>1, <2>2, <2>3, <2>4 DEF Pool!Alloc
  <2> QED BY <2>5 DEF Pool!Next
<1>3. CASE PmmAllocFails
  <2>1. FreeSet = {} /\ FreeSet' = FreeSet /\ HeldPages' = HeldPages
    BY <1>3, FullBitmap DEF PmmAllocFails, FreeSet, IsFree, HeldPages
  <2>2. up /\ up' = up /\ ret' = 0
    BY <1>3 DEF PmmAllocFails
  <2>3. Pool!Exhausted
    BY <2>1, <2>2 DEF Pool!Exhausted
  <2> QED BY <2>3 DEF Pool!Next
<1>4. CASE PmmFree
  <2>1. PICK q \in HeldPages :
          /\ q \in Pages /\ q \notin Reserved
          /\ bitmap' = SetFree(bitmap, q)
          /\ held' \subseteq held
          /\ HeldPages' = HeldPages \ {q}
    BY <1>4, FreePage
  <2>2. FreeSet' = FreeSet \cup {q}
    BY <2>1, SetFreePage DEF IInv, TypeOK, FreeSet
  <2>3. up /\ up' = up /\ ret' = 0
    BY <1>4 DEF PmmFree
  <2>4. Pool!Release
    BY <2>1, <2>2, <2>3 DEF Pool!Release
  <2> QED BY <2>4 DEF Pool!Next
<1>5. CASE UNCHANGED vars
  BY <1>5 DEF vars, Pool!vars, FreeSet, IsFree, HeldPages
<1> QED BY <1>1, <1>2, <1>3, <1>4, <1>5 DEF Next

\* The bitmap allocator implements the abstract page pool: whatever first fit
\* picks is a free page, and a call fails only when no page is free.
THEOREM ImplementsPool == Spec => PoolSpec
BY InitPool, StepPool, Invariance, PTL DEF Spec, PoolSpec, Pool!Spec
=============================================================================
