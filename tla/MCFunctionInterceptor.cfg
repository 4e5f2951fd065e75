SPECIFICATION FairSpec
CONSTANTS
  t1 = t1
  t2 = t2
  kmalloc = kmalloc
  allocPages = allocPages
  markAlloc = markAlloc
  r1 = r1
  r2 = r2
  r3 = r3
  Elsewhere = Elsewhere
  Thread <- MCThread
  HeapFunction <- MCHeapFunction
  MarkFunction <- MCMarkFunction
  Site <- MCSite
  Callee <- MCCallee
  Restartable = {r1, r3}
  MaxDepth = 3
INVARIANTS RefCountsExact GateMatchesMap QuietMeansEnabled
PROPERTY EventuallyEnabled
