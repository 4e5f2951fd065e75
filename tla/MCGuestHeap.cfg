SPECIFICATION Spec
CONSTANTS
  t1 = t1
  t2 = t2
  Thread = {t1, t2}
  InitThread = t1
  Heap <- MCHeap
  Physical <- MCPhysical
  InitPages = {4, 5}
  BitmapPages = {6}
  Size = {0, 1, 2}
  MaxZero = 1
  Wrapper = {"kmalloc", "kmem_cache_alloc", "alloc_pages_node", "__alloc_bootmem",
             "kfree", "kmem_cache_free", "__free_pages", "__pagevec_free",
             "free_bootmem_node", "free_init_pages"}
  MayFail = {"kmalloc", "kmem_cache_alloc"}
CONSTRAINT
  NotOvertaken
INVARIANTS
  HeldIsMarked
  FreeIsUnmarked
PROPERTY
  ReportsExplained
