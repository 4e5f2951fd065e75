SPECIFICATION MCSpec
CONSTANTS
  t1 = t1
  t2 = t2
  kmalloc = kmalloc
  rHeap = rHeap
  rAlloc = rAlloc
  rFree = rFree
  rFreeSize = rFreeSize
  rFreeAnySize = rFreeAnySize
  MemCheck_Alloc = MemCheck_Alloc
  MemCheck_Free = MemCheck_Free
  MemCheck_FreeSize = MemCheck_FreeSize
  MemCheck_FreeAnySize = MemCheck_FreeAnySize
  Elsewhere = Elsewhere
  Thread <- MCThread
  HeapFunction <- MCHeapFunction
  MarkFunction <- MCMarkFunction
  Site <- MCSite
  Callee <- MCCallee
  Restartable = {}
  MaxDepth = 2
  AddressSpace = 7
  m_MemoryAccessStart = 1
  m_MemoryAccessStop = 5
  AccessLength = {1, 2}
  Pointer = {2, 3}
  Size = {1, 2}
  MaxResets = 2
SYMMETRY Symmetry
  
PROPERTIES  WildAccessReported DoubleFreeReported UseAfterFreeReported
