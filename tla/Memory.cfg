\* Three pages for the heap and the other callers: half pages, a page with too
\* little left over to split, and more than a page.
SPECIFICATION HeapFairSpec
CONSTANTS
  BYTES = 2
  LOW_PAGES = 3
  KERNEL_END = 49168
  HEADER = 16
  SPARE = 4
  Requests = {2032, 4060, 5000}
INVARIANTS
  TypeOK
  Conservation
  KernelNeverHeld
  AllocationsApart
  NothingLost
PROPERTIES
  PoolSpec
  KmallocReturns
