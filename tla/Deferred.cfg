SPECIFICATION FairSpec
CONSTANTS
  Objects = {o1, o2}
  Actions = {act, destroy}
  DestroyObj = destroy
  ExtlFns = {fn}
  NULL = NULL
  Slots = {s1, s2}
  Heap = Heap
  MaxPending = 3
  MaxDepth = 2
INVARIANTS ListSound DestroySound
PROPERTY EventuallyServed
