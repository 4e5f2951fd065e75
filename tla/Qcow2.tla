-------------------------------- MODULE Qcow2 --------------------------------
(***************************************************************************)
(* The disk image of the guest (block-qcow2.c): a table of level 1 (L1)    *)
(* names tables of level 2 (L2), which name the clusters of the disk.  A   *)
(* snapshot is a copy of the L1 table; tables and clusters are shared and  *)
(* counted, and an entry carries QCOW_OFLAG_COPIED when the count is one,  *)
(* so that a write may be done in place.  savevm, loadvm and delvm (vl.c)  *)
(* take, restore and delete snapshots with the state of the machine, which *)
(* is written behind the end of the disk.                                  *)
(*                                                                         *)
(* The file has one block of reference counts, a table takes one cluster,  *)
(* and a compressed cluster takes one sector of a cluster it shares with   *)
(* others.  The L2 cache holds every table (it has 16 entries).            *)
(***************************************************************************)
EXTENDS Integers, FiniteSets, FiniteSetsExt, SequencesExt

CONSTANTS
  NbClusters,              \* bound: clusters of the file
  L2Size,                  \* entries of an L2 table
  ClusterSectors,          \* sectors of a cluster
  Request,                 \* what the guest writes: <<cluster, first, last sector>>
  VmStateSize,             \* sizes of the saved machine state, in clusters
  Name,                    \* names of snapshots
  ReopenAllowed,           \* whether the program may be stopped and started again
  MaxOps                   \* bound: operations

VARIABLES
  s,                       \* BDRVQcowState and the file behind it
  pending,                 \* requests handed to the host, qcow_aio_write
  ops,                     \* operations so far; the data of a write is their number
  view                     \* what a reader finds in the image and its snapshots

vars == <<s, pending, ops, view>>

Cluster == 0 .. NbClusters - 1
Sectors == 1 .. ClusterSectors
Garbage == -100            \* bytes that were never written as data
Lost    == [k \in Sectors |-> Garbage]
NoCluster == [key |-> <<-1, 0>>, val |-> 0]
Header  == {0, 2, 3}       \* header, refcount table, refcount block

NoEntry == [off |-> 0, flag |-> "", part |-> 0]
Entry(c, f) == [off |-> c, flag |-> f, part |-> 0]
EmptyL2 == [j \in 1 .. L2Size |-> NoEntry]

VmStateIndex == 1          \* l1_vm_state_index: the disk takes the first L1 entry
VmCluster(n) == [k \in 1 .. n |-> VmStateIndex * L2Size + k - 1]
L1Index(v) == (v \div L2Size) + 1
L2Index(v) == (v % L2Size) + 1

WriteTable(st, c, t) == [st EXCEPT !.img[c] = [table |-> t, data |-> Lost]]
WriteData(st, c, d)  == [st EXCEPT !.img[c] = [table |-> <<>>, data |-> d]]

-----------------------------------------------------------------------------
\* Reference counts and the allocation of clusters.

update_cluster_refcount(st, c, addend) ==
  LET n == st.refcount[c] + addend IN
  IF n < 0 THEN st
  ELSE [st EXCEPT !.refcount[c] = n,
                  !.free_cluster_index = IF n = 0 /\ c < @ THEN c ELSE @]

free_clusters(st, c) == update_cluster_refcount(st, c, -1)

alloc_clusters_noref(st) ==
  Min({ c \in Cluster : c >= st.free_cluster_index /\ st.refcount[c] = 0 })

alloc_clusters(st) ==
  LET c == alloc_clusters_noref(st)
  IN [st EXCEPT !.refcount[c] = 1, !.free_cluster_index = c + 1, !.last = c]

-----------------------------------------------------------------------------
\* The two tables.

write_l1(st) ==
  [st EXCEPT !.img[st.l1_table_offset].table =
     [i \in DOMAIN @ |-> IF i <= st.l1_size THEN st.l1_table[i] ELSE @[i]]]

NewL1Size(n, min) ==
  LET grow[k \in Nat] == IF k >= min THEN k ELSE grow[(k * 3 + 1) \div 2] IN grow[n]

grow_l1_table(st, min) ==
  IF min <= st.l1_size THEN st
  ELSE LET size == NewL1Size(st.l1_size, min)
           new  == [i \in 1 .. size |->
                      IF i <= st.l1_size THEN st.l1_table[i] ELSE NoEntry]
           a    == alloc_clusters(st)
           w    == WriteTable(a, a.last, new)
           f    == free_clusters(w, st.l1_table_offset)
       IN [f EXCEPT !.l1_table_offset = a.last, !.l1_table = new,
                    !.l1_size = size, !.header_l1_size = size]

l2_load(st, t) ==
  IF t \in DOMAIN st.l2_cache THEN st
  ELSE [st EXCEPT !.l2_cache = (t :> st.img[t].table) @@ @]

l2_allocate(st, i) ==
  LET old == st.l1_table[i].off
      f   == IF old = 0 THEN st ELSE free_clusters(st, old)
      a   == alloc_clusters(f)
      t   == IF old = 0 THEN EmptyL2 ELSE a.img[old].table
      w   == write_l1([a EXCEPT !.l1_table[i] = Entry(a.last, "copied")])
  IN [WriteTable(w, a.last, t) EXCEPT !.l2_cache = (a.last :> t) @@ @]

L2For(st, i) ==
  IF st.l1_table[i].flag = "copied" THEN l2_load(st, st.l1_table[i].off)
  ELSE l2_allocate(st, i)

L2Entry(st, v) ==
  IF L1Index(v) > st.l1_size \/ st.l1_table[L1Index(v)].off = 0 THEN NoEntry
  ELSE st.l2_cache[st.l1_table[L1Index(v)].off][L2Index(v)]

-----------------------------------------------------------------------------
\* Reading and writing.  A negative number is the compressed form of a cluster
\* that holds the positive one in every sector.

Inflate(x) == IF x < 0 /\ x # Garbage THEN -x ELSE Garbage

decompress_cluster(st, e) ==
  IF st.cluster_cache.key = <<e.off, e.part>> THEN st
  ELSE [st EXCEPT !.cluster_cache =
          [key |-> <<e.off, e.part>>, val |-> Inflate(st.img[e.off].data[e.part])]]

ReadEntry(st, e) ==
  IF e.off = 0 THEN [k \in Sectors |-> 0]
  ELSE IF e.flag = "compressed"
       THEN [k \in Sectors |-> decompress_cluster(st, e).cluster_cache.val]
       ELSE st.img[e.off].data

qcow_read(st, v) ==
  LET i == L1Index(v)
      l == IF i > st.l1_size \/ st.l1_table[i].off = 0 THEN st
           ELSE l2_load(st, st.l1_table[i].off)
      e == L2Entry(l, v)
  IN IF e.flag = "compressed" THEN decompress_cluster(l, e) ELSE l

copy_sectors(st, v, c, S) ==
  IF S = {} THEN st
  ELSE LET r == qcow_read(st, v)
           d == ReadEntry(r, L2Entry(r, v))
       IN WriteData(r, c, [k \in Sectors |-> IF k \in S THEN d[k] ELSE st.img[c].data[k]])

\* Mutated form: the part behind the write is not copied to the new cluster.
AllocateCopiesHead(st, v, from, to) ==
  LET e == L2Entry(st, v)
      f == IF e.off = 0 THEN st ELSE free_clusters(st, e.off)
      a == alloc_clusters(f)
      c == copy_sectors(a, v, a.last, 1 .. from - 1)
      t == c.l1_table[L1Index(v)].off
      n == Entry(a.last, "copied")
  IN [c EXCEPT !.img[t].table[L2Index(v)] = n, !.l2_cache[t][L2Index(v)] = n]

cluster_allocate(st, v, from, to) ==
  LET e == L2Entry(st, v)
      f == IF e.off = 0 THEN st ELSE free_clusters(st, e.off)
      a == alloc_clusters(f)
      b == copy_sectors(a, v, a.last, 1 .. from - 1)
      c == copy_sectors(b, v, a.last, to + 1 .. ClusterSectors)
      t == c.l1_table[L1Index(v)].off
      n == Entry(a.last, "copied")
  IN [c EXCEPT !.img[t].table[L2Index(v)] = n, !.l2_cache[t][L2Index(v)] = n]

get_cluster_offset(st, v, from, to) ==
  LET l == L2For(grow_l1_table(st, L1Index(v)), L1Index(v))
  IN IF L2Entry(l, v).flag = "copied" THEN l ELSE cluster_allocate(l, v, from, to)

Put(st, c, from, to, x) ==
  WriteData(st, c, [k \in Sectors |-> IF k \in from .. to THEN x ELSE st.img[c].data[k]])

qcow_write(st, v, from, to, x) ==
  LET g == get_cluster_offset(st, v, from, to)
  IN [Put(g, L2Entry(g, v).off, from, to, x) EXCEPT !.cluster_cache = NoCluster]

-----------------------------------------------------------------------------
\* Snapshots.

L2Tables(l1) == { l1[i].off : i \in DOMAIN l1 } \ {0}

\* How often the tree below l1 names the cluster c.
References(st, l1, c) ==
  Cardinality({ i \in DOMAIN l1 : l1[i].off = c /\ c # 0 })
  + Cardinality({ x \in L2Tables(l1) \X (1 .. L2Size) :
                    c # 0 /\ st.img[x[1]].table[x[2]].off = c })

Flagged(e, refcount) ==
  IF e.off = 0 \/ e.flag = "compressed" THEN e
  ELSE Entry(e.off, IF refcount[e.off] = 1 THEN "copied" ELSE "")

\* The L1 table of a snapshot is only passed here when it is about to be freed.
update_snapshot_refcount(st, l1, addend) ==
  LET n == [c \in Cluster |-> st.refcount[c] + addend * References(st, l1, c)]
  IN [st EXCEPT
        !.l2_cache = <<>>,
        !.refcount = n,
        !.free_cluster_index = Min({@} \cup { c \in Cluster : n[c] = 0 /\ st.refcount[c] # 0 }),
        !.img = [c \in Cluster |->
                   IF c \in L2Tables(l1)
                   THEN [@[c] EXCEPT !.table = [j \in 1 .. L2Size |-> Flagged(@[j], n)]]
                   ELSE @[c]]]

\* The same for the tree of the disk: the L1 table in memory follows.
update_current_refcount(st, addend) ==
  LET u == update_snapshot_refcount(st, st.l1_table, addend)
  IN write_l1([u EXCEPT !.l1_table = [i \in 1 .. st.l1_size |-> Flagged(@[i], u.refcount)]])

\* Mutated form: the cluster of the old list of snapshots is not freed.
WriteSnapshotsLeaks(st, list) ==
  LET a == IF list = <<>>
           THEN [st EXCEPT !.free_cluster_index = alloc_clusters_noref(st) + 1]
           ELSE alloc_clusters(st)
  IN [a EXCEPT !.snapshots = list,
               !.snapshots_offset = IF list = <<>> THEN 0 ELSE a.last]

\* An empty table takes no cluster, but the search for free ones moves on.
qcow_write_snapshots(st, list) ==
  LET a == IF list = <<>>
           THEN [st EXCEPT !.free_cluster_index = alloc_clusters_noref(st) + 1]
           ELSE alloc_clusters(st)
      f == IF st.snapshots = <<>> THEN a ELSE free_clusters(a, st.snapshots_offset)
  IN [f EXCEPT !.snapshots = list,
               !.snapshots_offset = IF list = <<>> THEN 0 ELSE a.last]

qcow_snapshot_create(st, name) ==
  LET u  == update_current_refcount(st, 1)
      a  == alloc_clusters(u)
      sn == [name |-> name, l1_table_offset |-> a.last, l1_size |-> u.l1_size]
  IN qcow_write_snapshots(WriteTable(a, a.last, u.l1_table), Append(st.snapshots, sn))

Snapshot(st, name) == CHOOSE sn \in Range(st.snapshots) : sn.name = name
Exists(st, name) == \E sn \in Range(st.snapshots) : sn.name = name

qcow_snapshot_goto(st, name) ==
  LET sn == Snapshot(st, name)
      u  == grow_l1_table(update_current_refcount(st, -1), sn.l1_size)
  IN update_current_refcount(
       write_l1([u EXCEPT !.l1_size = sn.l1_size,
                          !.l1_table = u.img[sn.l1_table_offset].table]), 1)

\* Mutated form: the flags of the disk's own tables are not brought up to date.
DeleteKeepsFlags(st, name) ==
  LET sn == Snapshot(st, name)
      u  == update_snapshot_refcount(st, st.img[sn.l1_table_offset].table, -1)
      f  == free_clusters(u, sn.l1_table_offset)
  IN qcow_write_snapshots(f, SelectSeq(st.snapshots, LAMBDA x : x # sn))

qcow_snapshot_delete(st, name) ==
  LET sn == Snapshot(st, name)
      u  == update_snapshot_refcount(st, st.img[sn.l1_table_offset].table, -1)
      f  == free_clusters(update_current_refcount(u, 0), sn.l1_table_offset)
  IN qcow_write_snapshots(f, SelectSeq(st.snapshots, LAMBDA x : x # sn))

-----------------------------------------------------------------------------
\* The image as qemu-img create makes it, and as convert -c does, with two
\* compressed clusters that share a cluster.

Memory(img, size, offset, snapshots, snapshots_offset, refcount) ==
  [img |-> img, refcount |-> refcount, header_l1_size |-> size,
   l1_table_offset |-> offset, l1_size |-> size,
   l1_table |-> SubSeq(img[offset].table, 1, size),
   snapshots |-> snapshots, snapshots_offset |-> snapshots_offset,
   l2_cache |-> <<>>, cluster_cache |-> NoCluster, free_cluster_index |-> 0, last |-> 0]

qcow_open(st) ==
  Memory(st.img, st.header_l1_size, st.l1_table_offset, st.snapshots,
         st.snapshots_offset, st.refcount)

Fresh == [table |-> <<>>, data |-> Lost]

qcow_create ==
  Memory([c \in Cluster |-> IF c = 1 THEN [Fresh EXCEPT !.table = <<NoEntry>>] ELSE Fresh],
         VmStateIndex, 1, <<>>, 0, [c \in Cluster |-> IF c < 4 THEN 1 ELSE 0])

Compressed(c, k) == [off |-> c, flag |-> "compressed", part |-> k]

qcow_write_compressed(x) ==
  LET created == qcow_create
      l2  == [EmptyL2 EXCEPT ![1] = Compressed(5, 1), ![2] = Compressed(5, 2)]
      img == [created.img EXCEPT
                ![1].table = <<Entry(4, "copied")>>, ![4].table = l2,
                ![5].data = [Lost EXCEPT ![1] = -x, ![2] = -x]]
  IN Memory(img, VmStateIndex, 1, <<>>, 0,
            [created.refcount EXCEPT ![4] = 1, ![5] = 2])

-----------------------------------------------------------------------------
\* What is read through the tables, of the disk and of a snapshot.

Undefined == -1
GuestCluster == { q[1] : q \in Request }
SectorsOf(q) == { <<q[1], k>> : k \in q[2] .. q[3] }
StateSectors(n) == Range(VmCluster(n)) \X Sectors
DiskSectors == (GuestCluster \X Sectors) \cup UNION { StateSectors(n) : n \in VmStateSize }

Disk(st, busy) ==
  [x \in DiskSectors |->
     IF \E p \in busy : x \in SectorsOf(p.q) THEN Undefined
     ELSE LET r == qcow_read(st, x[1]) IN ReadEntry(r, L2Entry(r, x[1]))[x[2]]]

KeptBy(st, sn) ==
  LET l1 == st.img[sn.l1_table_offset].table
      e(v) == IF L1Index(v) > sn.l1_size \/ l1[L1Index(v)].off = 0 THEN NoEntry
              ELSE st.img[l1[L1Index(v)].off].table[L2Index(v)]
  IN [x \in DiskSectors |-> ReadEntry([st EXCEPT !.cluster_cache = NoCluster], e(x[1]))[x[2]]]

View(st, busy) ==
  [disk  |-> Disk(st, busy),
   saved |-> [n \in Name |-> IF Exists(st, n) THEN KeptBy(st, Snapshot(st, n))
                             ELSE [x \in DiskSectors |-> Undefined]]]

-----------------------------------------------------------------------------
\* The operations.

Init ==
  /\ s \in {qcow_create, qcow_write_compressed(1)}
  /\ pending = {}
  /\ ops = 1
  /\ view = View(s, {})

Room == Cardinality({ c \in Cluster : c >= s.free_cluster_index /\ s.refcount[c] = 0 }) > 8

Becomes(st, busy) ==
  /\ s' = [st EXCEPT !.last = 0]
  /\ pending' = busy
  /\ view' = View(s', pending')

Step(st, busy) == ops < MaxOps /\ Room /\ Becomes(st, busy) /\ ops' = ops + 1

qcow_aio_write(q) ==
  /\ \A p \in pending : SectorsOf(p.q) \cap SectorsOf(q) = {}
  /\ LET g == get_cluster_offset([s EXCEPT !.cluster_cache = NoCluster], q[1], q[2], q[3])
     IN Step(g, pending \cup {[q |-> q, x |-> ops + 1, off |-> L2Entry(g, q[1]).off]})

qcow_aio_write_cb(p) ==
  Becomes(Put(s, p.off, p.q[2], p.q[3], p.x), pending \ {p}) /\ UNCHANGED ops

qcow_aio_read(v) == Becomes(qcow_read(s, v), pending) /\ UNCHANGED ops

\* savevm waits for the requests under way; a snapshot of the same name goes.
do_savevm(name, n) ==
  /\ pending = {}
  /\ LET w == FoldLeft(LAMBDA st, v : qcow_write(st, v, 1, ClusterSectors, ops + 1),
                       s, VmCluster(n))
         d == IF Exists(w, name) THEN qcow_snapshot_delete(w, name) ELSE w
     IN Step(qcow_snapshot_create(d, name), {})

do_loadvm(name) ==
  pending = {} /\ Exists(s, name) /\ Step(qcow_snapshot_goto(s, name), {})

do_delvm(name) == Exists(s, name) /\ Step(qcow_snapshot_delete(s, name), pending)

\* The program ends and opens the image again.
Reopen == ReopenAllowed /\ pending = {} /\ Step(qcow_open(s), {})

Next ==
  \/ \E q \in Request : qcow_aio_write(q)
  \/ \E p \in pending : qcow_aio_write_cb(p)
  \/ \E v \in GuestCluster : qcow_aio_read(v)
  \/ \E name \in Name, n \in VmStateSize : do_savevm(name, n)
  \/ \E name \in Name : do_loadvm(name) \/ do_delvm(name)
  \/ Reopen

Spec == Init /\ [][Next]_vars

-----------------------------------------------------------------------------
\* What check_refcounts compares after every snapshot operation: the count of a
\* cluster is the number of times the header, the tables of the disk and those
\* of the snapshots name it.
Named(c) ==
  Cardinality({c} \cap (Header \cup {s.l1_table_offset}))
  + (IF s.snapshots # <<>> /\ c = s.snapshots_offset THEN 1 ELSE 0)
  + References(s, s.l1_table, c)
  + FoldLeft(LAMBDA n, sn : n + (IF sn.l1_table_offset = c THEN 1 ELSE 0)
                              + References(s, s.img[sn.l1_table_offset].table, c),
             0, s.snapshots)

RefcountsExact == \A c \in Cluster : s.refcount[c] = Named(c)

\* QCOW_OFLAG_COPIED says "that the refcount of the referenced cluster is
\* exactly one": so it does in the tables of the disk, which writes go by.
CopiedIsExact ==
  \A i \in 1 .. s.l1_size : s.l1_table[i].off # 0 =>
    /\ Flagged(s.l1_table[i], s.refcount) = s.l1_table[i]
    /\ \A j \in 1 .. L2Size :
         LET e == s.img[s.l1_table[i].off].table[j] IN Flagged(e, s.refcount) = e

\* The image keeps the promises of a disk with snapshots: requests under way,
\* shared and compressed clusters, the cache of tables, growing tables and a
\* restart of the program never show in what is read.
Promise == INSTANCE SnapshotDisk WITH
  Sector <- DiskSectors, Part <- { SectorsOf(q) : q \in Request },
  MachineState <- { StateSectors(n) : n \in VmStateSize },
  Content <- 0 .. MaxOps, disk <- view.disk, saved <- view.saved

ImplementsSnapshotDisk == Promise!Spec
=============================================================================
