-------------------------- MODULE DblVolume_proofs --------------------------
(***************************************************************************)
(* Proofs about DoubleSpace and DriveSpace volumes (not DriveSpace 3, so   *)
(* without fragmented clusters), for every size of the volume, every       *)
(* number of clusters, every payload and every setting of dmsdos_speedup.  *)
(*                                                                         *)
(* The inductive invariant is TypeOK, CallKeepsToItsSectors, UsedMarked    *)
(* and NoCrosslink together.  None of the last three is inductive alone: a *)
(* step is safe because of what the call made sure of several steps ago.   *)
(*                                                                         *)
(* The last part is about SimpleCheck, the volume with its check: there    *)
(* the invariant is shown to be enough for the repair, and to survive it.  *)
(***************************************************************************)
EXTENDS SimpleCheck, BitfatSearch_proofs, FiniteSetTheorems

(* Without fragmentation a cluster is stored in the extent of its entry.   *)
Own(c) == IF mdfat[c].used THEN Extent(mdfat[c]) ELSE {}
OwnMarked == \A c \in Clusters : Own(c) \subseteq bitfat
OwnDisjoint ==
  \A c, d \in Clusters : c # d => Own(c) \intersect Own(d) = {}

IInv == TypeOK /\ CallKeepsToItsSectors /\ OwnMarked /\ OwnDisjoint

LEMMA PlainView ==
  CallKeepsToItsSectors =>
    /\ \A c \in Clusters : SectorsOf(mdfat[c]) = Own(c) /\ Occupied(c) = Own(c)
    /\ UsedMarked <=> OwnMarked
    /\ NoCrosslink <=> OwnDisjoint
<1> SUFFICES ASSUME Plain
             PROVE  /\ \A c \in Clusters :
                         SectorsOf(mdfat[c]) = Own(c) /\ Occupied(c) = Own(c)
                    /\ UsedMarked <=> OwnMarked
                    /\ NoCrosslink <=> OwnDisjoint
  BY DEF CallKeepsToItsSectors
<1>1. \A c \in Clusters : SectorsOf(mdfat[c]) = Own(c) /\ Occupied(c) = Own(c)
  BY DEF Plain, SectorsOf, Own, Occupied
<1> QED BY <1>1 DEF UsedMarked, OwnMarked, NoCrosslink, OwnDisjoint

(* Keeping away from every other cluster, one by one.                      *)
LEMMA ForeignIsOthers ==
  ASSUME NEW c, NEW X
  PROVE  X \intersect Foreign(c) = {}
           <=> \A d \in Clusters \ {c} : X \intersect Own(d) = {}
BY DEF Foreign, Own

(* As long as no entry changes, neither does what the clusters are stored  *)
(* in.                                                                     *)
LEMMA SameEntries ==
  ASSUME UNCHANGED mdfat
  PROVE  /\ \A c : Own(c)' = Own(c) /\ Foreign(c)' = Foreign(c)
         /\ OwnDisjoint => OwnDisjoint'
         /\ \A e : Extent(e)' = Extent(e)
BY DEF Own, Foreign, OwnDisjoint, Extent

LEMMA IntervalsAreFinite ==
  /\ IsFiniteSet(Sectors) /\ Cardinality(Sectors) \in Nat
  /\ \A T \in SUBSET Sectors : Cardinality(Sectors \ T) \in Nat
<1>1. IsFiniteSet(Sectors)
  BY GeometryAssumption, FS_Interval DEF Sectors
<1>2. ASSUME NEW T \in SUBSET Sectors
      PROVE  Cardinality(Sectors \ T) \in Nat
  <2>1. IsFiniteSet(Sectors \ T)
    BY <1>1, FS_Difference
  <2> QED BY <2>1, FS_CardinalityType
<1> QED BY <1>1, <1>2, FS_CardinalityType

---------------------------------------------------------------------------
LEMMA InitKeeps == Init => IInv
<1> SUFFICES ASSUME Init PROVE IInv
  OBVIOUS
<1> USE GeometryAssumption DEF Init
<1>1. TypeOK
  <2>1. mdfat \in [Clusters -> MdfatEntry]
    BY DEF MdfatEntry, Unused
  <2>2. sb \in Superblock
    BY IntervalsAreFinite DEF Superblock, Unmounted
  <2>3. op \in Calls
    BY DEF Calls, Idle
  <2> QED BY <2>1, <2>2, <2>3 DEF TypeOK
<1>2. CallKeepsToItsSectors
  BY DEF CallKeepsToItsSectors, Plain, Running, Idle, Unused
<1>3. OwnMarked /\ OwnDisjoint
  BY DEF OwnMarked, OwnDisjoint, Own, Unused
<1> QED BY <1>1, <1>2, <1>3 DEF IInv
---------------------------------------------------------------------------
(* A call that has ended relies on nothing.                                *)
LEMMA EndedCall ==
  ASSUME op'.pc \in {"idle", "down"}, op'.val = None, ~op'.frag,
         \A c \in Clusters : ~mdfat'[c].frag
  PROVE  CallKeepsToItsSectors'
BY DEF CallKeepsToItsSectors, Plain, Running

LEMMA IdleIsCall == Idle \in Calls
BY GeometryAssumption DEF Idle, Calls

LEMMA FinishedCall ==
  ASSUME NEW code \in {"none", "ok", "nospace", "ioerror"}, Finish(code)
  PROVE  op' \in Calls /\ op'.pc = "idle" /\ op'.val = None /\ ~op'.frag
<1>1. \A x \in Calls : [x EXCEPT !.res = code] \in Calls
  BY DEF Calls
<1>2. op' = [Idle EXCEPT !.res = code]
  BY DEF Finish
<1>3. op' \in Calls
  BY <1>1, <1>2, IdleIsCall
<1> QED BY <1>2, <1>3 DEF Idle

LEMMA StartedCall ==
  ASSUME NEW pc \in {"erase", "alloc", "mdfat"}, NEW c \in Clusters,
         NEW v \in Payloads, NEW size \in 1 .. SectPerClust, NEW near \in Nat,
         NEW sector \in 0 .. DataEnd, NEW T \in SUBSET Sectors
  PROVE  [Idle EXCEPT !.pc = pc, !.cl = c, !.val = v, !.size = size, !.near = near,
                      !.sector = sector, !.target = T, !.frag = FALSE] \in Calls
<1>1. size \in 0 .. SectPerClust
  BY GeometryAssumption
<1> QED BY <1>1 DEF Calls, Idle

LEMMA CountsKeepTheType ==
  ASSUME NEW m \in Superblock, NEW B, NEW s
  PROVE  /\ CountAfterClear(m, B, s) \in Superblock
         /\ CountAfterSet(m, B, s) \in Superblock
         /\ [CountAfterClear(m, B, s) EXCEPT !.full = 0] \in Superblock
<1>1. \A x \in Int : [m EXCEPT !.free = x] \in Superblock
  BY DEF Superblock
<1>2. m.free \in Int /\ m.free + 1 \in Int /\ m.free - 1 \in Int
  BY DEF Superblock
<1>3. /\ CountAfterClear(m, B, s) \in Superblock
      /\ CountAfterSet(m, B, s) \in Superblock
  BY <1>1, <1>2 DEF CountAfterClear, CountAfterSet
<1>4. \A k \in Superblock : [k EXCEPT !.full = 0] \in Superblock
  BY DEF Superblock
<1> QED BY <1>3, <1>4

LEMMA RecountKeepsTheType ==
  ASSUME TypeOK, CheckFreeSectors
  PROVE  sb' \in Superblock
<1>1. FreeCount \in Nat /\ sb \in Superblock
  BY IntervalsAreFinite DEF FreeCount, TypeOK
<1> QED BY <1>1 DEF CheckFreeSectors, Superblock

---------------------------------------------------------------------------
(* One lemma for every action.                                             *)
LEMMA AllocateClusterKeeps ==
  ASSUME IInv, NEW c \in Clusters, AllocateCluster(c)
  PROVE  IInv'
<1>1. TypeOK'
  BY DEF IInv, TypeOK, AllocateCluster
<1>2. CallKeepsToItsSectors'
  BY SameEntries
  DEF IInv, AllocateCluster, CallKeepsToItsSectors, Plain, Running, Run
<1> QED BY <1>1, <1>2, SameEntries DEF IInv, AllocateCluster, OwnMarked

LEMMA DeleteClusterKeeps ==
  ASSUME IInv, NEW c \in Clusters, DeleteCluster(c)
  PROVE  IInv'
<1> USE DEF DeleteCluster
<1>1. /\ op' \in Calls /\ op'.pc = "erase" /\ op'.cl = c
      /\ op'.val = None /\ ~op'.frag
  <2>1. \A x \in Calls : [x EXCEPT !.pc = "erase", !.cl = c] \in Calls
    BY DEF Calls
  <2>2. [Idle EXCEPT !.pc = "erase", !.cl = c] \in Calls
    BY <2>1, IdleIsCall
  <2> QED BY <2>2 DEF Idle
<1>2. TypeOK'
  BY <1>1, RecountKeepsTheType DEF IInv, TypeOK
<1>3. CallKeepsToItsSectors'
  BY <1>1 DEF IInv, CallKeepsToItsSectors, Plain
<1> QED BY <1>2, <1>3, SameEntries DEF IInv, OwnMarked

LEMMA WriteClusterKeeps ==
  ASSUME Version # "DRVSP3", IInv,
         NEW c \in Clusters, NEW v \in Payloads, WriteCluster(c, v)
  PROVE  IInv'
<1> DEFINE e == mdfat[c]
<1>1. PICK size \in CompressedSizes[v] \union {Length[v]}, near \in NearHints :
        \/ WriteInPlace(c, v, size, near)
        \/ WriteOverFragments(c, v, size, near)
        \/ WriteElsewhere(c, v, size, near)
  BY DEF WriteCluster
<1>2. size \in 1 .. SectPerClust /\ near \in Nat /\ v # None
  BY PayloadAssumption, GeometryAssumption
<1>3. /\ e \in MdfatEntry /\ op.pc = "idle"
      /\ UNCHANGED disk /\ CheckFreeSectors
  BY <1>1 DEF IInv, TypeOK, WriteInPlace, WriteOverFragments, WriteElsewhere, Call
<1>4. ~WriteOverFragments(c, v, size, near)
  BY DEF WriteOverFragments, Refillable
<1>5. CASE WriteInPlace(c, v, size, near)
  <2>1. /\ e.used /\ e.size = size /\ Own(c) = Extent(e)
        /\ Extent(e) = e.sector .. (e.sector + size - 1)
    BY <1>5 DEF WriteInPlace, SameLength, Own, Extent
  <2>2. Extent(e) \subseteq bitfat /\ bitfat \subseteq Sectors
    BY <2>1 DEF IInv, OwnMarked, TypeOK
  <2>3. e.sector \in Extent(e)
    BY <1>2, <1>3, <2>1 DEF MdfatEntry
  <2>4. e.sector \in Sectors /\ e.sector \in 0 .. DataEnd
    BY <1>3, <2>2, <2>3, GeometryAssumption DEF Sectors, MdfatEntry
  <2>5. op' = [Idle EXCEPT !.pc = "mdfat", !.cl = c, !.val = v, !.size = size,
                           !.near = near, !.sector = e.sector,
                           !.target = Extent(e), !.frag = FALSE]
    BY <1>5 DEF WriteInPlace, Call
  <2>6. /\ op'.pc = "mdfat" /\ op'.cl = c /\ op'.val = v /\ op'.size = size
        /\ op'.sector = e.sector /\ op'.target = Extent(e) /\ ~op'.frag
        /\ op'.todo = {}
    BY <2>5 DEF Idle
  <2>7. op' \in Calls
    BY <1>2, <2>2, <2>4, <2>5, StartedCall
  <2>8. TypeOK'
    BY <1>3, <2>7, RecountKeepsTheType DEF IInv, TypeOK, disk
  <2>9. Extent(e) \intersect Foreign(c) = {}
    BY <2>1, ForeignIsOthers DEF IInv, OwnDisjoint
  <2>10. Run(op)' = Extent(e)
    BY <2>1, <2>6 DEF Run
  <2>11. CallKeepsToItsSectors'
    <3>1. Foreign(op.cl)' = Foreign(c) /\ bitfat' = bitfat /\ mdfat' = mdfat
      BY <1>3, <2>6 DEF disk, Foreign, Extent
    <3>2. Plain'
      BY <2>6, <3>1 DEF IInv, CallKeepsToItsSectors, Plain
    <3> QED
      BY <1>2, <2>2, <2>4, <2>6, <2>9, <2>10, <3>1, <3>2
      DEF CallKeepsToItsSectors
  <2> QED BY <1>3, <2>8, <2>11, SameEntries DEF IInv, OwnMarked, disk
<1>6. CASE WriteElsewhere(c, v, size, near)
  <2> DEFINE pc == IF e.used THEN "erase" ELSE "alloc"
  <2>1. op' = [Idle EXCEPT !.pc = pc, !.cl = c, !.val = v, !.size = size,
                           !.near = near, !.sector = 0, !.target = {},
                           !.frag = FALSE]
    BY <1>6 DEF WriteElsewhere, Call
  <2>2. /\ op'.pc = pc /\ op'.cl = c /\ op'.val = v /\ op'.size = size /\ ~op'.frag
    BY <2>1 DEF Idle
  <2>3. op' \in Calls
    <3>1. 0 \in 0 .. DataEnd /\ pc \in {"erase", "alloc", "mdfat"}
      BY GeometryAssumption
    <3> HIDE DEF pc
    <3> QED BY <1>2, <2>1, <3>1, StartedCall
  <2>4. TypeOK'
    BY <1>3, <2>3, RecountKeepsTheType DEF IInv, TypeOK, disk
  <2>5. CallKeepsToItsSectors'
    BY <1>2, <1>3, <2>2 DEF IInv, CallKeepsToItsSectors, Plain, disk
  <2> QED BY <1>3, <2>4, <2>5, SameEntries DEF IInv, OwnMarked, disk
<1> QED BY <1>1, <1>4, <1>5, <1>6
LEMMA EraseEntryKeeps ==
  ASSUME IInv, EraseEntry
  PROVE  IInv'
<1>0. PICK c \in Clusters : c = op.cl
  BY DEF EraseEntry, IInv, CallKeepsToItsSectors, Running
<1> DEFINE stored == Own(c)
<1>1. /\ op.pc = "erase" /\ op \in Calls /\ Plain
      /\ mdfat' = [mdfat EXCEPT ![c] = Unused]
      /\ UNCHANGED <<fat, bitfat, data, sb>>
  BY <1>0 DEF EraseEntry, Erase, IInv, TypeOK, CallKeepsToItsSectors
<1>2. /\ Freed(mdfat[c]) = {stored}
      /\ stored \subseteq bitfat /\ bitfat \subseteq Sectors
  BY <1>1, PlainView DEF IInv, OwnMarked, TypeOK, Freed, Plain
<1>3. /\ mdfat' \in [Clusters -> MdfatEntry]
      /\ mdfat'[c] = Unused
      /\ \A d \in Clusters \ {c} : mdfat'[d] = mdfat[d]
  <2>1. Unused \in MdfatEntry
    BY GeometryAssumption DEF MdfatEntry, Unused
  <2> QED BY <1>1, <2>1 DEF IInv, TypeOK
<1>4. /\ Own(c)' = {} /\ Foreign(c)' = Foreign(c)
      /\ \A d \in Clusters \ {c} : Own(d)' = Own(d)
  BY <1>3 DEF Own, Foreign, Extent, Unused
<1>5. OwnMarked' /\ OwnDisjoint'
  BY <1>1, <1>4 DEF IInv, OwnMarked, OwnDisjoint
<1>6. \A d \in Clusters : ~mdfat'[d].frag
  BY <1>1, <1>3 DEF Plain, Unused
<1>7. CASE stored = {}
  <2>1. Finish("ok")
    BY <1>0, <1>2, <1>7 DEF EraseEntry, Erase
  <2>2. op' \in Calls /\ CallKeepsToItsSectors'
    BY <1>6, <2>1, FinishedCall, EndedCall
  <2> QED BY <1>1, <1>3, <1>5, <2>2 DEF IInv, TypeOK
<1>8. CASE stored # {}
  <2>1. op' = [op EXCEPT !.pc = "clear", !.todo = stored, !.undo = stored]
    BY <1>0, <1>2, <1>8 DEF EraseEntry, Erase
  <2>2. op' \in Calls
    BY <1>1, <1>2, <2>1 DEF Calls
  <2>3. /\ op'.pc = "clear" /\ op'.cl = c /\ op'.frag = op.frag
        /\ op'.todo = stored /\ op'.val = op.val /\ op'.size = op.size
    BY <1>0, <1>1, <2>1 DEF Calls
  <2>4. stored \intersect Foreign(c)' = {}
    BY <1>4, ForeignIsOthers DEF IInv, OwnDisjoint
  <2>5. CallKeepsToItsSectors'
    BY <1>1, <1>3, <1>6, <2>3, <2>4 DEF IInv, CallKeepsToItsSectors, Plain, Unused
  <2> QED BY <1>1, <1>3, <1>5, <2>2, <2>5 DEF IInv, TypeOK
<1> QED BY <1>7, <1>8

LEMMA ClearBitKeeps ==
  ASSUME IInv, ClearBit
  PROVE  IInv'
<1>0. PICK c \in Clusters : c = op.cl
  BY DEF ClearBit, IInv, CallKeepsToItsSectors, Running
<1>1. PICK s \in op.todo :
        LET left == op.todo \ {s}
            counted == CountAfterClear(sb, bitfat, s)
        IN  /\ bitfat' = bitfat \ {s}
            /\ sb' = IF left = {} THEN [counted EXCEPT !.full = 0] ELSE counted
            /\ IF left # {} THEN op' = [op EXCEPT !.todo = left]
               ELSE IF op.val = None THEN Finish("ok")
               ELSE op' = [op EXCEPT !.pc = "alloc", !.todo = {}]
  BY DEF ClearBit
<1> DEFINE left == op.todo \ {s}
<1>2. /\ op.pc = "clear" /\ op \in Calls /\ Plain
      /\ UNCHANGED <<fat, mdfat, data>>
      /\ sb \in Superblock /\ bitfat \subseteq Sectors
      /\ ~mdfat[c].used /\ op.todo \intersect Foreign(c) = {}
  BY <1>0 DEF ClearBit, IInv, TypeOK, CallKeepsToItsSectors
<1>3. sb' \in Superblock
  BY <1>1, <1>2, CountsKeepTheType
<1>4. OwnMarked'
  <2> SUFFICES ASSUME NEW d \in Clusters PROVE Own(d) \subseteq bitfat \ {s}
    BY <1>1, <1>2, SameEntries DEF OwnMarked
  <2>1. CASE d = c
    BY <1>2, <2>1 DEF Own
  <2>2. CASE d # c
    <3>1. op.todo \intersect Own(d) = {}
      BY <1>2, <2>2, ForeignIsOthers
    <3> QED BY <3>1 DEF IInv, OwnMarked
  <2> QED BY <2>1, <2>2
<1>5. ASSUME left # {} PROVE op' \in Calls /\ CallKeepsToItsSectors'
  <2>1. op' = [op EXCEPT !.todo = left]
    BY <1>1, <1>5
  <2>2. op' \in Calls
    BY <1>2, <2>1 DEF Calls
  <2>3. /\ op'.pc = "clear" /\ op'.cl = c /\ op'.frag = op.frag
        /\ op'.todo = left /\ op'.val = op.val /\ op'.size = op.size
    BY <1>0, <1>2, <2>1 DEF Calls
  <2>4. left \intersect Foreign(c)' = {}
    BY <1>2, SameEntries
  <2> QED BY <1>2, <2>2, <2>3, <2>4 DEF IInv, CallKeepsToItsSectors, Plain
<1>6. ASSUME left = {} PROVE op' \in Calls /\ CallKeepsToItsSectors'
  <2>1. CASE op.val = None
    BY <1>1, <1>2, <1>6, <2>1, FinishedCall, EndedCall DEF Plain
  <2>2. CASE op.val # None
    <3>1. op' = [op EXCEPT !.pc = "alloc", !.todo = {}]
      BY <1>1, <1>6, <2>2
    <3>2. op' \in Calls
      BY <1>2, <3>1 DEF Calls
    <3>3. /\ op'.pc = "alloc" /\ op'.cl = c /\ op'.frag = op.frag
          /\ op'.val = op.val /\ op'.size = op.size
      BY <1>0, <1>2, <3>1 DEF Calls
    <3> QED BY <1>2, <2>2, <3>2, <3>3 DEF IInv, CallKeepsToItsSectors, Plain
  <2> QED BY <2>1, <2>2
<1>7. TypeOK'
  BY <1>1, <1>2, <1>3, <1>5, <1>6 DEF IInv, TypeOK
<1> QED BY <1>2, <1>4, <1>5, <1>6, <1>7, SameEntries DEF IInv
(* A call that is looking for room for its data.                           *)
LEMMA SearchingCall ==
  ASSUME IInv, op.pc = "alloc"
  PROVE  /\ op \in Calls /\ op.cl \in Clusters /\ Plain
         /\ op.val # None /\ op.size \in 1 .. SectPerClust
         /\ ~mdfat[op.cl].used
         /\ Search.sector \in Int
         /\ Search.sb \in Superblock /\ Search.sb.free = sb.free
         /\ Search.sector > 0 => Hole(bitfat, Search.sector, op.size)
<1>1. /\ op \in Calls /\ op.cl \in Clusters /\ Plain
      /\ op.val # None /\ op.size \in 1 .. SectPerClust
      /\ ~mdfat[op.cl].used /\ sb \in Superblock
  BY DEF IInv, TypeOK, CallKeepsToItsSectors, Running
<1>2. op.near \in Nat
  BY <1>1 DEF Calls
<1>3. SearchResultSound(bitfat, sb, op.near, op.size)
  BY <1>1, <1>2, SearchIsSound
<1> QED BY <1>1, <1>3 DEF SearchResultSound, Search

LEMMA AllocateRunKeeps ==
  ASSUME IInv, AllocateRun
  PROVE  IInv'
<1> DEFINE run == Search.sector .. (Search.sector + op.size - 1)
<1>1. /\ op.pc = "alloc" /\ Search.sector > 0
      /\ op' = [op EXCEPT !.pc = "mark", !.sector = Search.sector,
                          !.target = run, !.todo = run]
      /\ sb' = Search.sb
      /\ UNCHANGED disk
  BY DEF AllocateRun
<1>2. /\ op \in Calls /\ op.cl \in Clusters /\ Plain
      /\ op.val # None /\ op.size \in 1 .. SectPerClust
      /\ ~mdfat[op.cl].used
      /\ Search.sector \in Int
      /\ Search.sb \in Superblock
      /\ Hole(bitfat, Search.sector, op.size)
  BY <1>1, SearchingCall
<1> HIDE DEF Search
<1>3. run \subseteq Sectors \ bitfat /\ Search.sector \in run
  BY <1>2 DEF Hole, IsFree
<1>4. Search.sector \in Sectors /\ Search.sector \in 0 .. DataEnd
  BY <1>2, <1>3, GeometryAssumption DEF Sectors
<1> HIDE DEF run
<1>5. op' \in Calls
  <2>1. run \in SUBSET Sectors
    BY <1>3
  <2>2. \A x \in Calls : [x EXCEPT !.pc = "mark", !.sector = Search.sector]
                            \in Calls
    BY <1>4 DEF Calls
  <2>3. \A x \in Calls : [x EXCEPT !.target = run, !.todo = run] \in Calls
    BY <2>1 DEF Calls
  <2>4. [op EXCEPT !.pc = "mark", !.sector = Search.sector] \in Calls
    BY <1>2, <2>2
  <2>5. op' = [[op EXCEPT !.pc = "mark", !.sector = Search.sector]
                 EXCEPT !.target = run, !.todo = run]
    BY <1>1, <1>2 DEF Calls
  <2> QED BY <2>3, <2>4, <2>5
<1>6. TypeOK'
  BY <1>1, <1>2, <1>5 DEF IInv, TypeOK, disk
<1>7. /\ op'.pc = "mark" /\ op'.cl = op.cl /\ op'.frag = op.frag
      /\ op'.val = op.val /\ op'.size = op.size
      /\ op'.sector = Search.sector /\ op'.target = run /\ op'.todo = run
  BY <1>1, <1>2 DEF Calls
<1>8. run \intersect Foreign(op.cl) = {}
  BY <1>3, ForeignIsOthers DEF IInv, OwnMarked
<1>9. Run(op)' = run
  BY <1>7 DEF Run, run
<1>10. Foreign(op.cl)' = Foreign(op.cl)
  BY <1>1, <1>7, SameEntries DEF disk, Foreign, Extent
<1>11. CallKeepsToItsSectors'
  BY <1>1, <1>2, <1>4, <1>7, <1>8, <1>9, <1>10
  DEF IInv, CallKeepsToItsSectors, Plain, Running, disk
<1> QED BY <1>1, <1>6, <1>11, SameEntries DEF IInv, OwnMarked, disk

LEMMA NoSpaceKeeps ==
  ASSUME Version # "DRVSP3", IInv, NoSpace
  PROVE  IInv'
<1>1. op.pc = "alloc" /\ sb' = Search.sb /\ UNCHANGED disk
  BY DEF NoSpace, MayFragment
<1>2. /\ op \in Calls /\ op.cl \in Clusters /\ Plain /\ op.val # None
      /\ op.size \in 1 .. SectPerClust
      /\ ~mdfat[op.cl].used /\ sb' \in Superblock
  BY <1>1, SearchingCall
<1>3. op' \in Calls /\ CallKeepsToItsSectors'
  <2>1. CASE op.undo = {}
    BY <1>1, <1>2, <2>1, FinishedCall, EndedCall DEF NoSpace, Plain, disk
  <2>2. CASE op.undo # {}
    <3>1. op' = [op EXCEPT !.pc = "undo", !.todo = op.undo]
      BY <2>2 DEF NoSpace
    <3>2. op' \in Calls
      BY <1>2, <3>1 DEF Calls
    <3>3. /\ op'.pc = "undo" /\ op'.cl = op.cl /\ op'.frag = op.frag
          /\ op'.val = op.val /\ op'.size = op.size
      BY <1>2, <3>1 DEF Calls
    <3> QED BY <1>1, <1>2, <3>2, <3>3 DEF CallKeepsToItsSectors, Plain, disk
  <2> QED BY <2>1, <2>2
<1> QED BY <1>1, <1>2, <1>3, SameEntries DEF IInv, TypeOK, OwnMarked, disk
LEMMA SetBitKeeps ==
  ASSUME IInv, SetBit
  PROVE  IInv'
<1>1. PICK s \in op.todo :
        LET left == op.todo \ {s}
        IN  /\ bitfat' = bitfat \union {s}
            /\ sb' = CountAfterSet(sb, bitfat, s)
            /\ IF left # {} THEN op' = [op EXCEPT !.todo = left]
               ELSE IF op.pc = "undo" THEN Finish("nospace")
               ELSE op' = [op EXCEPT !.pc = "mdfat", !.todo = {}]
  BY DEF SetBit
<1> DEFINE left == op.todo \ {s}
<1>2. /\ op.pc \in {"mark", "undo"} /\ op \in Calls /\ Plain
      /\ op.cl \in Clusters /\ op.todo \subseteq Sectors
      /\ UNCHANGED <<fat, mdfat, data>>
      /\ sb \in Superblock /\ bitfat \subseteq Sectors
      /\ ~mdfat[op.cl].used
  BY DEF SetBit, IInv, TypeOK, CallKeepsToItsSectors, Running, Calls
<1>3. sb' \in Superblock /\ bitfat' \subseteq Sectors
  BY <1>1, <1>2, CountsKeepTheType
<1>4. OwnMarked' /\ OwnDisjoint'
  BY <1>1, <1>2, SameEntries DEF IInv, OwnMarked
<1>5. op.pc = "mark" =>
        /\ op.val # None /\ op.sector \in Sectors /\ op.target = Run(op)
        /\ op.target \intersect Foreign(op.cl) = {}
        /\ op.target \subseteq bitfat' \union left
  BY <1>1 DEF IInv, CallKeepsToItsSectors
<1>6. ASSUME NEW pc \in {"mark", "mdfat", "undo"},
             op.pc = "mark" <=> pc # "undo", pc = "mdfat" => left = {},
             op' \in Calls, op'.pc = pc, op'.todo = left,
             op'.cl = op.cl, op'.frag = op.frag, op'.val = op.val,
             op'.size = op.size, op'.sector = op.sector, op'.target = op.target
      PROVE  CallKeepsToItsSectors'
  <2>1. Run(op)' = Run(op) /\ Foreign(op.cl)' = Foreign(op.cl)
    BY <1>2, <1>6, SameEntries DEF Run, Foreign, Extent
  <2>2. op.val # None => op.size \in 1 .. SectPerClust
    BY DEF IInv, CallKeepsToItsSectors
  <2>3. Plain'
    BY <1>2, <1>6 DEF Plain
  <2> QED BY <1>2, <1>5, <1>6, <2>1, <2>2, <2>3 DEF CallKeepsToItsSectors
<1>7. CASE left # {}
  <2>1. op' = [op EXCEPT !.todo = left]
    BY <1>1, <1>7
  <2>2. op' \in Calls
    BY <1>2, <2>1 DEF Calls
  <2>3. /\ op'.pc = op.pc /\ op'.todo = left
        /\ op'.cl = op.cl /\ op'.frag = op.frag /\ op'.val = op.val
        /\ op'.size = op.size /\ op'.sector = op.sector /\ op'.target = op.target
    BY <1>2, <2>1 DEF Calls
  <2>4. CallKeepsToItsSectors'
    BY <1>2, <1>6, <2>2, <2>3
  <2> QED BY <1>2, <1>3, <1>4, <2>2, <2>4 DEF IInv, TypeOK
<1>8. CASE left = {} /\ op.pc = "undo"
  <2>1. op' \in Calls /\ CallKeepsToItsSectors'
    BY <1>1, <1>2, <1>8, FinishedCall, EndedCall DEF Plain
  <2> QED BY <1>2, <1>3, <1>4, <2>1 DEF IInv, TypeOK
<1>9. CASE left = {} /\ op.pc = "mark"
  <2>1. op' = [op EXCEPT !.pc = "mdfat", !.todo = {}]
    BY <1>1, <1>9
  <2>2. op' \in Calls
    BY <1>2, <2>1 DEF Calls
  <2>3. /\ op'.pc = "mdfat" /\ op'.todo = left
        /\ op'.cl = op.cl /\ op'.frag = op.frag /\ op'.val = op.val
        /\ op'.size = op.size /\ op'.sector = op.sector /\ op'.target = op.target
    BY <1>2, <1>9, <2>1 DEF Calls
  <2>4. CallKeepsToItsSectors'
    BY <1>6, <1>9, <2>2, <2>3
  <2> QED BY <1>2, <1>3, <1>4, <2>2, <2>4 DEF IInv, TypeOK
<1> QED BY <1>2, <1>7, <1>8, <1>9

LEMMA WriteEntryKeeps ==
  ASSUME IInv, WriteEntry
  PROVE  IInv'
<1>0. PICK c \in Clusters : c = op.cl
  BY DEF WriteEntry, IInv, CallKeepsToItsSectors, Running
<1>1. /\ op.pc = "mdfat" /\ op \in Calls /\ Plain
      /\ mdfat' = [mdfat EXCEPT ![c] = NewEntry]
      /\ op' = [op EXCEPT !.pc = "data", !.todo = op.target, !.res = "ok"]
      /\ UNCHANGED <<fat, bitfat, data, sb>>
  BY <1>0 DEF WriteEntry, IInv, TypeOK, CallKeepsToItsSectors
<1>2. /\ op.val # None /\ op.size \in 1 .. SectPerClust
      /\ op.sector \in Sectors /\ op.target = Run(op)
      /\ op.target \intersect Foreign(c) = {} /\ op.target \subseteq bitfat
      /\ ~op.frag
  BY <1>0, <1>1 DEF IInv, CallKeepsToItsSectors, Plain
<1>3. /\ NewEntry \in MdfatEntry /\ NewEntry.used /\ ~NewEntry.frag
      /\ NewEntry.sector = op.sector /\ NewEntry.size = op.size
  <2>1. op.sector \in 0 .. DataEnd /\ op.size \in 0 .. SectPerClust
    BY <1>2, GeometryAssumption DEF Sectors
  <2>2. (op.size = Length[op.val]) \in BOOLEAN /\ op.frag = FALSE
    BY <1>1, <1>2 DEF Calls
  <2>3. NewEntry = [used |-> TRUE, sector |-> op.sector, size |-> op.size,
                    plain |-> op.size = Length[op.val], frag |-> FALSE]
    BY <2>2 DEF NewEntry
  <2> QED BY <2>1, <2>2, <2>3 DEF MdfatEntry
<1>4. /\ mdfat' \in [Clusters -> MdfatEntry] /\ mdfat'[c] = NewEntry
      /\ \A d \in Clusters \ {c} : mdfat'[d] = mdfat[d]
  BY <1>1, <1>3 DEF IInv, TypeOK
<1> HIDE DEF NewEntry
<1>5. Own(c)' = op.target /\ Extent(mdfat'[c]) = op.target
  BY <1>2, <1>3, <1>4 DEF Own, Extent, Run
<1>6. \A d \in Clusters \ {c} : Own(d)' = Own(d)
  BY <1>4 DEF Own, Extent
<1>7. OwnMarked'
  BY <1>1, <1>2, <1>5, <1>6 DEF IInv, OwnMarked
<1>8. OwnDisjoint'
  <2>1. \A d \in Clusters \ {c} : op.target \intersect Own(d) = {}
    BY <1>2, ForeignIsOthers
  <2> QED BY <1>5, <1>6, <2>1 DEF IInv, OwnDisjoint
<1>9. /\ op' \in Calls /\ op'.pc = "data" /\ op'.cl = c /\ op'.frag = op.frag
      /\ op'.val = op.val /\ op'.size = op.size /\ op'.todo = op.target
  <2>1. \A x \in Calls, T \in SUBSET Sectors :
          [x EXCEPT !.pc = "data", !.todo = T, !.res = "ok"] \in Calls
    BY DEF Calls
  <2>2. op.target \in SUBSET Sectors
    BY <1>1 DEF Calls
  <2>3. op' \in Calls
    BY <1>1, <2>1, <2>2
  <2> QED BY <1>0, <1>1, <2>3 DEF Calls
<1>10. CallKeepsToItsSectors'
  BY <1>1, <1>2, <1>3, <1>4, <1>5, <1>9 DEF CallKeepsToItsSectors, Plain, Extent
<1> QED BY <1>1, <1>4, <1>7, <1>8, <1>9, <1>10 DEF IInv, TypeOK
LEMMA DataStepKeeps ==
  ASSUME IInv, WriteSector \/ SectorFails
  PROVE  IInv'
<1>1. /\ op.pc = "data" /\ op \in Calls /\ Plain /\ op.cl \in Clusters
      /\ UNCHANGED <<fat, mdfat, bitfat, sb>> /\ DOMAIN data' = Sectors
      /\ op.val # None /\ op.size \in 1 .. SectPerClust
      /\ op.todo \subseteq Extent(mdfat[op.cl]) /\ mdfat[op.cl].used
  BY DEF WriteSector, SectorFails, disk,
         IInv, TypeOK, CallKeepsToItsSectors, Running
<1>2. \/ \E code \in {"none", "ok", "nospace", "ioerror"} : Finish(code)
      \/ \E s \in op.todo : op' = [op EXCEPT !.todo = op.todo \ {s}]
      \/ \E s \in op.todo :
           op' = [op EXCEPT !.todo = op.todo \ {s}, !.res = "ioerror"]
  <2>1. op.res \in {"none", "ok", "nospace", "ioerror"}
    BY <1>1 DEF Calls
  <2> QED BY <2>1 DEF WriteSector, SectorFails
<1>3. op' \in Calls /\ CallKeepsToItsSectors'
  <2>1. CASE \E code \in {"none", "ok", "nospace", "ioerror"} : Finish(code)
    BY <1>1, <2>1, FinishedCall, EndedCall DEF Plain
  <2>2. ASSUME NEW s \in op.todo,
               \/ op' = [op EXCEPT !.todo = op.todo \ {s}]
               \/ op' = [op EXCEPT !.todo = op.todo \ {s}, !.res = "ioerror"]
        PROVE  op' \in Calls /\ CallKeepsToItsSectors'
    <3>1. op' \in Calls
      <4>1. \A x \in Calls, T \in SUBSET Sectors :
              [x EXCEPT !.todo = T] \in Calls
        BY DEF Calls
      <4>2. \A x \in Calls, T \in SUBSET Sectors :
              [x EXCEPT !.todo = T, !.res = "ioerror"] \in Calls
        BY DEF Calls
      <4>3. op.todo \ {s} \in SUBSET Sectors
        BY <1>1 DEF Calls
      <4>4. op \in Calls
        BY <1>1
      <4>5. CASE op' = [op EXCEPT !.todo = op.todo \ {s}]
        BY <4>1, <4>3, <4>4, <4>5
      <4>6. CASE op' = [op EXCEPT !.todo = op.todo \ {s}, !.res = "ioerror"]
        BY <4>2, <4>3, <4>4, <4>6
      <4> QED BY <2>2, <4>5, <4>6
    <3>2. /\ op'.pc = "data" /\ op'.cl = op.cl /\ op'.frag = op.frag
          /\ op'.val = op.val /\ op'.size = op.size
          /\ op'.todo \subseteq op.todo
      BY <1>1, <2>2 DEF Calls
    <3> QED BY <1>1, <3>1, <3>2 DEF CallKeepsToItsSectors, Plain, Extent
  <2> QED BY <1>2, <2>1, <2>2
<1> QED BY <1>1, <1>3, SameEntries DEF IInv, TypeOK, OwnMarked

LEMMA CrashKeeps ==
  ASSUME IInv, Crash
  PROVE  IInv'
<1>1. /\ op' \in Calls /\ op'.pc = "down" /\ op'.val = None /\ ~op'.frag
  <2>1. \A x \in Calls : [x EXCEPT !.pc = "down"] \in Calls
    BY DEF Calls
  <2>2. op' = [Idle EXCEPT !.pc = "down"]
    BY DEF Crash, Halt
  <2>3. op' \in Calls
    BY <2>1, <2>2, IdleIsCall
  <2> QED BY <2>2, <2>3 DEF Idle
<1>2. sb' \in Superblock
  BY DEF Crash, Halt, Superblock, Unmounted
<1>3. CallKeepsToItsSectors'
  BY <1>1, EndedCall DEF IInv, CallKeepsToItsSectors, Plain, Crash, Halt, disk
<1> QED BY <1>1, <1>2, <1>3, SameEntries DEF IInv, TypeOK, OwnMarked, Crash, Halt, disk

LEMMA MountKeeps ==
  ASSUME IInv, Mount
  PROVE  IInv'
<1>1. op' \in Calls /\ op'.pc = "idle" /\ op'.val = None /\ ~op'.frag
  BY IdleIsCall DEF Mount, Idle
<1>2. sb' \in Superblock
  BY IntervalsAreFinite DEF IInv, TypeOK, Mount, Superblock, Unmounted, FreeCount
<1>3. CallKeepsToItsSectors'
  BY <1>1, EndedCall DEF IInv, CallKeepsToItsSectors, Plain, Mount, disk
<1> QED BY <1>1, <1>2, <1>3, SameEntries DEF IInv, TypeOK, OwnMarked, Mount, disk

LEMMA StutterKeeps ==
  ASSUME IInv, UNCHANGED vars
  PROVE  IInv'
<1>1. TypeOK' /\ CallKeepsToItsSectors'
  BY SameEntries
  DEF IInv, vars, TypeOK, CallKeepsToItsSectors, Plain, Running, Run
<1> QED BY <1>1, SameEntries DEF IInv, OwnMarked, vars

LEMMA NextKeeps ==
  ASSUME Version # "DRVSP3", IInv, [Next]_vars
  PROVE  IInv'
<1>1. ASSUME NEW c \in Clusters, AllocateCluster(c) PROVE IInv'
  BY <1>1, AllocateClusterKeeps
<1>2. ASSUME NEW c \in Clusters, DeleteCluster(c) PROVE IInv'
  BY <1>2, DeleteClusterKeeps
<1>3. ASSUME NEW c \in Clusters, NEW v \in Payloads, WriteCluster(c, v) PROVE IInv'
  BY <1>3, WriteClusterKeeps
<1>4. CASE EraseEntry
  BY <1>4, EraseEntryKeeps
<1>5. CASE ClearBit
  BY <1>5, ClearBitKeeps
<1>6. CASE AllocateRun
  BY <1>6, AllocateRunKeeps
<1>7. ~AllocateFragments /\ \A c \in Clusters, v \in Payloads : ~FaultOnFreedList(c, v)
  BY DEF AllocateFragments, MayFragment, FaultOnFreedList, Refillable
<1>8. CASE NoSpace
  BY <1>8, NoSpaceKeeps
<1>9. CASE SetBit
  BY <1>9, SetBitKeeps
<1>10. CASE WriteEntry
  BY <1>10, WriteEntryKeeps
<1>11. CASE WriteSector \/ SectorFails
  BY <1>11, DataStepKeeps
<1>12. CASE Crash
  BY <1>12, CrashKeeps
<1>13. CASE Mount
  BY <1>13, MountKeeps
<1>14. CASE UNCHANGED vars
  BY <1>14, StutterKeeps
<1> QED
  BY <1>1, <1>2, <1>3, <1>4, <1>5, <1>6, <1>7, <1>8, <1>9, <1>10, <1>11, <1>12,
     <1>13, <1>14 DEF Next, Request, Fault, Step

---------------------------------------------------------------------------
(* On DoubleSpace and DriveSpace volumes all variables keep their types    *)
(* and a running call keeps to the sectors it may touch.                   *)
THEOREM CallsAreSafe ==
  ASSUME Version # "DRVSP3"
  PROVE  Spec => []IInv
<1>1. IInv /\ [Next]_vars => IInv'
  BY NextKeeps
<1> QED BY <1>1, InitKeeps, PTL DEF Spec

THEOREM TypeCorrect ==
  ASSUME Version # "DRVSP3"
  PROVE  Spec => []TypeOK
<1>1. IInv => TypeOK
  BY DEF IInv
<1> QED BY <1>1, CallsAreSafe, PTL

(* What the running call relies on holds whenever it relies on it.         *)
THEOREM CallsKeepToTheirSectors ==
  ASSUME Version # "DRVSP3"
  PROVE  Spec => []CallKeepsToItsSectors
<1>1. IInv => CallKeepsToItsSectors
  BY DEF IInv
<1> QED BY <1>1, CallsAreSafe, PTL

(* Every sector a stored cluster occupies is marked in the BITFAT, half    *)
(* way through every call, after every failed write and after every crash. *)
THEOREM StoredSectorsAreMarked ==
  ASSUME Version # "DRVSP3"
  PROVE  Spec => []UsedMarked
<1>1. IInv => UsedMarked
  BY PlainView DEF IInv
<1> QED BY <1>1, CallsAreSafe, PTL

(* No sector is ever given to two clusters.                                *)
THEOREM NoCrosslinkEver ==
  ASSUME Version # "DRVSP3"
  PROVE  Spec => []NoCrosslink
<1>1. IInv => NoCrosslink
  BY PlainView DEF IInv
<1> QED BY <1>1, CallsAreSafe, PTL
---------------------------------------------------------------------------
(* Setting and clearing a bit keeps s_free_sectors in step with the BITFAT. *)
LEMMA ClearCounts ==
  ASSUME NEW B \in SUBSET Sectors, NEW s \in Sectors, NEW m \in Superblock,
         m.free = Cardinality(Sectors \ B)
  PROVE  CountAfterClear(m, B, s).free = Cardinality(Sectors \ (B \ {s}))
<1>1. IsFiniteSet(Sectors \ B)
  BY IntervalsAreFinite, FS_Difference
<1>2. Sectors \ (B \ {s}) = (Sectors \ B) \union {s}
  OBVIOUS
<1>3. Cardinality((Sectors \ B) \union {s}) =
        IF s \in B THEN m.free + 1 ELSE m.free
  BY <1>1, FS_AddElement
<1> QED BY <1>2, <1>3 DEF CountAfterClear, Superblock

LEMMA SetCounts ==
  ASSUME NEW B \in SUBSET Sectors, NEW s \in Sectors, NEW m \in Superblock,
         m.free = Cardinality(Sectors \ B)
  PROVE  CountAfterSet(m, B, s).free = Cardinality(Sectors \ (B \union {s}))
<1>1. IsFiniteSet(Sectors \ B)
  BY IntervalsAreFinite, FS_Difference
<1>2. Sectors \ (B \union {s}) = (Sectors \ B) \ {s}
  OBVIOUS
<1>3. Cardinality((Sectors \ B) \ {s}) =
        IF s \in B THEN m.free ELSE m.free - 1
  BY <1>1, FS_RemoveElement
<1> QED BY <1>2, <1>3 DEF CountAfterSet, Superblock

LEMMA CountKept ==
  ASSUME Version # "DRVSP3", IInv, FreeCountExact, [Next]_vars
  PROVE  FreeCountExact'
<1>1. /\ bitfat \subseteq Sectors /\ sb \in Superblock /\ op \in Calls
      /\ op.todo \subseteq Sectors
  BY DEF IInv, TypeOK, Calls
<1>2. ASSUME UNCHANGED bitfat, op.pc # "down",
             CheckFreeSectors \/ sb'.free = sb.free
      PROVE  FreeCountExact'
  <2>1. CheckFreeSectors => sb'.free = sb.free
    BY <1>1, <1>2 DEF CheckFreeSectors, FreeCountExact, Superblock
  <2> QED BY <1>2, <2>1 DEF FreeCountExact, FreeCount
<1>3. ASSUME NEW c \in Clusters, AllocateCluster(c) \/ DeleteCluster(c)
      PROVE  FreeCountExact'
  BY <1>2, <1>3 DEF AllocateCluster, DeleteCluster
<1>4. ASSUME NEW c \in Clusters, NEW v \in Payloads, WriteCluster(c, v)
      PROVE  FreeCountExact'
  BY <1>2, <1>4
  DEF WriteCluster, WriteInPlace, WriteOverFragments, WriteElsewhere, Call, disk
<1>5. CASE EraseEntry \/ WriteEntry \/ WriteSector \/ SectorFails
  BY <1>2, <1>5 DEF EraseEntry, Erase, WriteEntry, WriteSector, SectorFails, disk
<1>6. CASE ClearBit
  <2>1. PICK s \in op.todo :
          /\ bitfat' = bitfat \ {s}
          /\ \/ sb' = CountAfterClear(sb, bitfat, s)
             \/ sb' = [CountAfterClear(sb, bitfat, s) EXCEPT !.full = 0]
    BY <1>6 DEF ClearBit
  <2>2. CountAfterClear(sb, bitfat, s).free = Cardinality(Sectors \ bitfat')
    BY <1>1, <1>6, <2>1, ClearCounts DEF ClearBit, FreeCountExact, FreeCount
  <2>3. sb'.free = CountAfterClear(sb, bitfat, s).free
    BY <1>1, <2>1, CountsKeepTheType DEF Superblock
  <2> QED BY <2>2, <2>3 DEF FreeCountExact, FreeCount
<1>7. CASE AllocateRun \/ NoSpace
  <2>1. Search.sb.free = sb.free
    BY <1>7, SearchingCall DEF AllocateRun, NoSpace
  <2> QED BY <1>2, <1>7, <2>1 DEF AllocateRun, NoSpace, MayFragment, disk
<1>8. CASE SetBit
  <2>1. PICK s \in op.todo : bitfat' = bitfat \union {s}
                            /\ sb' = CountAfterSet(sb, bitfat, s)
    BY <1>8 DEF SetBit
  <2>2. CountAfterSet(sb, bitfat, s).free = Cardinality(Sectors \ bitfat')
    BY <1>1, <1>8, <2>1, SetCounts DEF SetBit, FreeCountExact, FreeCount
  <2> QED BY <2>1, <2>2 DEF FreeCountExact, FreeCount
<1>9. CASE Crash \/ \E c \in Clusters, v \in Payloads : FaultOnFreedList(c, v)
  BY <1>9 DEF Crash, FaultOnFreedList, Halt, FreeCountExact, Idle
<1>10. CASE Mount
  BY <1>10 DEF Mount, FreeCountExact, FreeCount, Unmounted, disk
<1>11. CASE UNCHANGED vars
  BY <1>11 DEF vars, FreeCountExact, FreeCount
<1> QED
  BY <1>3, <1>4, <1>5, <1>6, <1>7, <1>8, <1>9, <1>10, <1>11
  DEF Next, Request, Fault, Step, AllocateFragments, MayFragment

(* The counter that lets a write through or refuses it is the number of    *)
(* clear bits, whatever sequence of calls, failures and crashes came before. *)
THEOREM FreeCountAlwaysExact ==
  ASSUME Version # "DRVSP3"
  PROVE  Spec => []FreeCountExact
<1>1. Init => FreeCountExact
  BY DEF Init, FreeCountExact, FreeCount, Unmounted
<1>2. IInv /\ FreeCountExact /\ [Next]_vars => FreeCountExact'
  BY CountKept
<1> QED BY <1>1, <1>2, CallsAreSafe, PTL DEF Spec

-----------------------------------------------------------------------------
(***************************************************************************)
(* A DoubleSpace or DriveSpace volume is the store of clusters its callers *)
(* see (ClusterStore), and it accounts for every sector it has marked:     *)
(* what each step of a call may rely on besides the layout, how clusters   *)
(* read because of it, and the step-by-step refinement.                    *)
(***************************************************************************)

(* How far the running call has come: what it still has to put on the disk *)
(* and what of it is there already.                                        *)
Sizes(v) == CompressedSizes[v] \union {Length[v]}

Written(e) ==
  /\ e.used /\ e.sector = op.sector /\ e.size = op.size
  /\ e.plain = (op.size = Length[op.val]) /\ Extent(e) = op.target
  /\ op.res = "ok" => \A s \in op.target \ op.todo :
                        data[s] = Piece(op.val, op.size, s - op.sector)

Progress ==
  /\ \A c \in Clusters : mdfat[c].used => mdfat[c].size >= 1
  /\ op.val # None => op.val \in Payloads /\ op.size \in Sizes(op.val)
  /\ op.pc = "erase" /\ op.val # None => mdfat[op.cl].used
  /\ op.pc = "mdfat" => Own(op.cl) \subseteq op.target
  /\ op.pc = "data" => Written(mdfat[op.cl]) /\ op.res \in {"ok", "ioerror"}

(* The sectors the call has cleared are clear, those it marks are claimed  *)
(* by it, and it ends with neither.                                        *)
Accounted ==
  /\ op.pc \in {"idle", "down", "erase"} => op.todo = {} /\ op.undo = {}
  /\ op.pc \in {"idle", "down", "erase", "clear", "alloc", "undo"} => op.target = {}
  /\ op.pc \in {"clear", "undo"} => op.todo \subseteq op.undo
  /\ op.pc = "clear" => (op.undo \ op.todo) \intersect bitfat = {}
  /\ op.pc = "alloc" => op.todo = {} /\ op.undo \intersect bitfat = {}
  /\ op.pc \in {"mark", "mdfat", "data"} =>
       op.todo \subseteq op.target /\ op.undo \intersect bitfat \subseteq op.target

SInv == IInv /\ Progress /\ Accounted

-----------------------------------------------------------------------------
(* How a cluster reads that is not fragmented: as the payload whose pieces *)
(* lie in its extent in their order.                                       *)
PlainFits(e, d) ==
  {v \in Payloads : \E k \in Sizes(v) :
     /\ e.plain <=> k = Length[v]
     /\ Cardinality(Extent(e)) = k
     /\ \A s \in Extent(e) : d[s] = Piece(v, k, s - e.sector)}

PlainReading(e, d) ==
  IF ~e.used THEN Zeros
  ELSE IF PlainFits(e, d) = {} THEN Damaged
  ELSE CHOOSE v \in PlainFits(e, d) : TRUE

LEMMA ReadsPlain ==
  ASSUME NEW c, mdfat[c].frag = FALSE
  PROVE  ReadCluster(c) = PlainReading(mdfat[c], data)
<1> DEFINE e == mdfat[c]
           d == data
           F == d[e.sector][2]
           fragmented == IsList(d[e.sector]) /\ Fragments(F) \in 1 .. SectPerClust
           all == IF e.frag THEN Extent(e) \union (F \ FirstFragment(F)) ELSE Extent(e)
           stored == IF e.frag THEN all \ {e.sector} ELSE all
           fits == {v \in Payloads : \E k \in CompressedSizes[v] \union {Length[v]} :
                      /\ e.plain <=> k = Length[v]
                      /\ Cardinality(stored) = k
                      /\ \A s \in stored : d[s] = Piece(v, k, Place(s, e.sector, e.frag, all))}
<1>1. ReadCluster(c) = IF ~e.used THEN Zeros
          ELSE IF e.frag /\ ~fragmented THEN Damaged
          ELSE IF fits = {} THEN Damaged
          ELSE CHOOSE v \in fits : TRUE
  BY DEF ReadCluster
<1>2. all = Extent(e) /\ stored = Extent(e) /\ e.frag = FALSE
  OBVIOUS
<1> HIDE DEF fragmented, all, stored, e, d
<1>3. fits = PlainFits(e, d)
  BY <1>2 DEF PlainFits, Sizes, Place
<1> HIDE DEF fits
<1> QED BY <1>1, <1>2, <1>3 DEF PlainReading, e, d

LEMMA ReadsPlainNext ==
  ASSUME NEW c, mdfat'[c].frag = FALSE
  PROVE  ReadCluster(c)' = PlainReading(mdfat'[c], data')
<1> DEFINE e == mdfat'[c]
           d == data'
           F == d[e.sector][2]
           fragmented == IsList(d[e.sector]) /\ Fragments(F) \in 1 .. SectPerClust
           all == IF e.frag THEN Extent(e) \union (F \ FirstFragment(F)) ELSE Extent(e)
           stored == IF e.frag THEN all \ {e.sector} ELSE all
           fits == {v \in Payloads : \E k \in CompressedSizes[v] \union {Length[v]} :
                      /\ e.plain <=> k = Length[v]
                      /\ Cardinality(stored) = k
                      /\ \A s \in stored : d[s] = Piece(v, k, Place(s, e.sector, e.frag, all))}
<1>1. ReadCluster(c)' = IF ~e.used THEN Zeros
          ELSE IF e.frag /\ ~fragmented THEN Damaged
          ELSE IF fits = {} THEN Damaged
          ELSE CHOOSE v \in fits : TRUE
  BY DEF ReadCluster
<1>2. all = Extent(e) /\ stored = Extent(e) /\ e.frag = FALSE
  OBVIOUS
<1> HIDE DEF fragmented, all, stored, e, d
<1>3. fits = PlainFits(e, d)
  BY <1>2 DEF PlainFits, Sizes, Place
<1> HIDE DEF fits
<1> QED BY <1>1, <1>2, <1>3 DEF PlainReading, e, d

LEMMA ReadingIsLegal ==
  ASSUME NEW e, NEW d
  PROVE  PlainReading(e, d) \in Payloads \union {Zeros, Damaged}
<1>1. PlainFits(e, d) \subseteq Payloads
  BY DEF PlainFits
<1> QED BY <1>1 DEF PlainReading

(* A cluster reads the same as long as its sectors hold the same.          *)
LEMMA SameReading ==
  ASSUME NEW e, NEW d1, NEW d2, e.used => \A s \in Extent(e) : d1[s] = d2[s]
  PROVE  PlainReading(e, d1) = PlainReading(e, d2)
<1>1. CASE e.used
  <2>1. PlainFits(e, d1) = PlainFits(e, d2)
    BY <1>1 DEF PlainFits
  <2> QED BY <2>1 DEF PlainReading
<1>2. CASE ~e.used
  BY <1>2 DEF PlainReading
<1> QED BY <1>1, <1>2

(* A cluster whose pieces are all there reads as what was written.         *)
LEMMA WrittenReads ==
  ASSUME NEW e \in MdfatEntry, NEW d, NEW v \in Payloads, NEW k \in Sizes(v),
         e.used, e.size = k, e.plain = (k = Length[v]),
         \A s \in Extent(e) : d[s] = Piece(v, k, s - e.sector)
  PROVE  PlainReading(e, d) = v
<1>1. e.sector \in Nat /\ k \in Nat /\ k >= 1
  BY PayloadAssumption, GeometryAssumption DEF MdfatEntry, Sizes
<1>2. Cardinality(Extent(e)) = k
  <2>1. Cardinality(e.sector .. (e.sector + k - 1)) = k
    BY <1>1, FS_Interval
  <2> QED BY <2>1 DEF Extent
<1>3. v \in PlainFits(e, d)
  BY <1>2 DEF PlainFits
<1>4. e.sector \in Extent(e)
  BY <1>1 DEF Extent
<1>5. \A w \in PlainFits(e, d) : w = v
  <2> SUFFICES ASSUME NEW w \in PlainFits(e, d) PROVE w = v
    OBVIOUS
  <2>1. PICK j : d[e.sector] = Piece(w, j, e.sector - e.sector)
    BY <1>4 DEF PlainFits
  <2>2. d[e.sector] = Piece(v, k, e.sector - e.sector)
    BY <1>4
  <2> QED BY <2>1, <2>2 DEF Piece
<1> QED BY <1>3, <1>5 DEF PlainReading

-----------------------------------------------------------------------------
(* The store as it is seen in a state, and its steps.                      *)
Content == [c \in Clusters |-> ReadCluster(c)]
Busy == IF Running THEN op.cl ELSE None
Want == IF Running /\ op.val # None THEN op.val ELSE Zeros
Answer == IF op.pc = "down" THEN "crashed" ELSE IF Running THEN "none" ELSE op.res

Readings == Payloads \union {Zeros, Damaged}

(* Only cluster c may read differently.                                    *)
Touches(c) ==
  Content' = [Content EXCEPT ![c] = ReadCluster(c)'] /\ ReadCluster(c)' \in Readings

LEMMA StoreStutters ==
  ASSUME Content' = Content, Busy' = Busy, Want' = Want, Answer' = Answer
  PROVE  UNCHANGED Store!vars
BY DEF Content, Busy, Want, Answer, Store!vars

LEMMA StoreBegins ==
  ASSUME NEW c \in Clusters, NEW w \in Payloads \union {Zeros},
         Content' = Content, Busy = None, Answer # "crashed",
         Busy' = c, Want' = w, Answer' = "none"
  PROVE  Store!Next
<1>1. Store!Begin(c, w)
  BY DEF Content, Busy, Want, Answer, Store!Begin
<1> QED BY <1>1 DEF Store!Next

LEMMA StoreWorks ==
  ASSUME Busy # None, Touches(Busy), Busy' = Busy, Want' = Want, Answer' = Answer
  PROVE  Store!Next
<1>1. Content' \in {[Content EXCEPT ![Busy] = x] : x \in Readings}
  BY DEF Touches
<1>2. Store!Working
  BY <1>1 DEF Content, Busy, Want, Answer, Readings, Store!Working, Store!Readings
<1> QED BY <1>2 DEF Store!Next

(* The end of an operation: what its cluster then reads goes with the      *)
(* answer.                                                                 *)
LEMMA StoreEnds ==
  ASSUME Busy # None, Touches(Busy), Busy' = None, Want' = Zeros,
         NEW x, x = Content'[Busy], Busy \in Clusters,
         \/ Answer' = "ok" /\ x = Want
         \/ Answer' = "nospace" /\ x = Zeros
         \/ Answer' \in {"ioerror", "crashed"}
  PROVE  Store!Next
<1>1. x \in Readings /\ Content' = [Content EXCEPT ![Busy] = x]
  BY DEF Touches, Content
<1>2. ASSUME NEW outcomes, NEW code, x \in outcomes, Answer' = code
      PROVE  Store!End(outcomes, code)
  <2>1. Content' \in {[Content EXCEPT ![Busy] = y] : y \in outcomes}
    BY <1>1, <1>2
  <2> QED BY <1>2, <2>1 DEF Content, Busy, Want, Answer, Store!End
<1>3. CASE Answer' = "ok" /\ x = Want
  <2>1. Store!Succeed
    BY <1>2, <1>3 DEF Store!Succeed, Want
  <2> QED BY <2>1 DEF Store!Next
<1>4. CASE Answer' = "nospace" /\ x = Zeros
  <2>1. Store!NoSpace
    BY <1>2, <1>4 DEF Store!NoSpace
  <2> QED BY <2>1 DEF Store!Next
<1>5. CASE Answer' \in {"ioerror", "crashed"}
  <2>1. Store!IoError \/ Store!CrashAtWork
    BY <1>1, <1>2, <1>5 DEF Store!IoError, Store!CrashAtWork, Readings, Store!Readings
  <2> QED BY <2>1 DEF Store!Next
<1> QED BY <1>3, <1>4, <1>5

LEMMA StoreStops ==
  ASSUME Busy = None, Busy' = None, Content' = Content, Want' = Want,
         Answer' = "crashed"
  PROVE  Store!CrashIdle
BY DEF Content, Busy, Want, Answer, Store!CrashIdle

LEMMA StoreRestarts ==
  ASSUME Answer = "crashed", Answer' = "none", Content' = Content,
         Busy' = Busy, Want' = Want
  PROVE  Store!Next
<1>1. Store!Restart
  BY DEF Content, Busy, Want, Answer, Store!Restart
<1> QED BY <1>1 DEF Store!Next

-----------------------------------------------------------------------------
(* Which clusters read differently after a step.                           *)
LEMMA NothingTouched ==
  ASSUME UNCHANGED <<mdfat, data>>
  PROVE  Content' = Content /\ \A c : ReadCluster(c)' = ReadCluster(c)
<1>1. \A c : ReadCluster(c)' = ReadCluster(c)
  BY DEF ReadCluster, Extent
<1> QED BY <1>1 DEF Content

LEMMA OneTouched ==
  ASSUME NEW cl \in Clusters, \A c \in Clusters : ~mdfat[c].frag /\ ~mdfat'[c].frag,
         mdfat \in [Clusters -> MdfatEntry], mdfat' \in [Clusters -> MdfatEntry],
         \A c \in Clusters \ {cl} :
           mdfat'[c] = mdfat[c] /\ \A s \in Own(c) : data'[s] = data[s]
  PROVE  Touches(cl)
<1>1. ASSUME NEW c \in Clusters
      PROVE  /\ ReadCluster(c) = PlainReading(mdfat[c], data)
             /\ ReadCluster(c)' = PlainReading(mdfat'[c], data')
  <2>1. mdfat[c].frag = FALSE /\ mdfat'[c].frag = FALSE
    BY DEF MdfatEntry
  <2> QED BY <2>1, ReadsPlain, ReadsPlainNext
<1>2. \A c \in Clusters \ {cl} : ReadCluster(c)' = ReadCluster(c)
  <2> TAKE c \in Clusters \ {cl}
  <2> DEFINE e == mdfat[c]
  <2>1. mdfat'[c] = e
    OBVIOUS
  <2>2. e.used => \A s \in Extent(e) : data[s] = data'[s]
    BY DEF Own
  <2> HIDE DEF e
  <2>3. PlainReading(e, data) = PlainReading(e, data')
    BY <2>2, SameReading
  <2> QED BY <1>1, <2>1, <2>3 DEF e
<1>3. ReadCluster(cl)' \in Readings
  BY <1>1, ReadingIsLegal DEF Readings
<1>4. Content' = [Content EXCEPT ![cl] = ReadCluster(cl)']
  <2>1. Content' = [c \in Clusters |-> ReadCluster(c)']
    BY DEF Content
  <2>2. \A c \in Clusters : Content[c] = ReadCluster(c)
    BY DEF Content
  <2>3. Content = [c \in Clusters |-> ReadCluster(c)]
    BY DEF Content
  <2> DEFINE r == ReadCluster(cl)'
             R(c) == ReadCluster(c)
             Q(c) == ReadCluster(c)'
  <2>4. r = Q(cl) /\ \A c \in Clusters \ {cl} : Q(c) = R(c)
    BY <1>2
  <2> HIDE DEF R, Q, r
  <2>5. Content' = [c \in Clusters |-> Q(c)] /\ Content = [c \in Clusters |-> R(c)]
    BY <2>1, <2>3 DEF Q, R
  <2>6. Content' = [Content EXCEPT ![cl] = r]
    BY <2>4, <2>5
  <2> QED BY <2>6 DEF r
<1> QED BY <1>3, <1>4 DEF Touches

-----------------------------------------------------------------------------
(* One lemma for every action: it keeps what calls rely on, and is a step  *)
(* of the store.                                                           *)
StoreStep == Store!Next \/ UNCHANGED Store!vars

EntriesFilled == \A c \in Clusters : mdfat[c].used => mdfat[c].size >= 1

LEMMA FinishedView ==
  ASSUME NEW code \in {"ok", "nospace", "ioerror"}, Finish(code)
  PROVE  /\ op'.pc = "idle" /\ op'.val = None /\ op'.res = code
         /\ op'.todo = {} /\ op'.undo = {} /\ op'.target = {}
         /\ Busy' = None /\ Want' = Zeros /\ Answer' = code
<1>1. /\ op'.pc = "idle" /\ op'.val = None /\ op'.res = code
      /\ op'.todo = {} /\ op'.undo = {} /\ op'.target = {}
  BY DEF Finish, Idle
<1> QED BY <1>1 DEF Busy, Want, Answer, Running

LEMMA EndedKeeps ==
  ASSUME op'.pc \in {"idle", "down"}, op'.val = None,
         op'.todo = {}, op'.undo = {}, op'.target = {}, EntriesFilled'
  PROVE  Progress' /\ Accounted'
BY DEF Progress, Accounted, EntriesFilled

LEMMA RunningView ==
  ASSUME op.pc \notin {"idle", "down"}, IInv
  PROVE  /\ Busy = op.cl /\ op.cl \in Clusters /\ Busy # None
         /\ Want = (IF op.val # None THEN op.val ELSE Zeros) /\ Answer = "none"
<1>1. Running
  BY DEF Running
<1>2. op.cl \in Clusters
  BY <1>1 DEF IInv, CallKeepsToItsSectors
<1>3. op.cl # None
  BY <1>2, PayloadAssumption
<1> QED BY <1>1, <1>2, <1>3 DEF Busy, Want, Answer

LEMMA RunningViewNext ==
  ASSUME op'.pc \notin {"idle", "down"}
  PROVE  /\ Busy' = op'.cl /\ Answer' = "none"
         /\ Want' = (IF op'.val # None THEN op'.val ELSE Zeros)
BY DEF Running, Busy, Want, Answer

LEMMA IdleView ==
  ASSUME op.pc = "idle"
  PROVE  Busy = None /\ Want = Zeros /\ Answer = op.res
BY DEF Running, Busy, Want, Answer

LEMMA NoStepStores ==
  ASSUME SInv, UNCHANGED <<mdfat, bitfat, data, op>>
  PROVE  Progress' /\ Accounted' /\ UNCHANGED Store!vars
<1>1. Progress' /\ Accounted'
  BY DEF SInv, Progress, Accounted, Written, Own, Extent
<1>2. Busy' = Busy /\ Want' = Want /\ Answer' = Answer
  BY DEF Busy, Want, Answer, Running
<1> QED BY <1>1, <1>2, NothingTouched, StoreStutters

LEMMA DeleteClusterStores ==
  ASSUME SInv, NEW c \in Clusters, DeleteCluster(c)
  PROVE  Progress' /\ Accounted' /\ StoreStep
<1>1. op.pc = "idle" /\ UNCHANGED <<mdfat, bitfat, data>>
  BY DEF DeleteCluster
<1>2. /\ op'.pc = "erase" /\ op'.cl = c /\ op'.val = None
      /\ op'.todo = {} /\ op'.undo = {} /\ op'.target = {}
  BY DEF DeleteCluster, Idle
<1>3. Progress' /\ Accounted'
  BY <1>1, <1>2 DEF SInv, Progress, Accounted
<1>4. Busy' = c /\ Want' = Zeros /\ Answer' = "none"
  BY <1>2, RunningViewNext
<1>5. Busy = None /\ Answer # "crashed"
  BY <1>1, IdleView DEF SInv, IInv, TypeOK, Calls
<1> QED BY <1>1, <1>3, <1>4, <1>5, NothingTouched, StoreBegins DEF StoreStep

LEMMA WriteClusterStores ==
  ASSUME Version # "DRVSP3", SInv, NEW c \in Clusters, NEW v \in Payloads, WriteCluster(c, v)
  PROVE  Progress' /\ Accounted' /\ StoreStep
<1> DEFINE e == mdfat[c]
<1>1. PICK size \in Sizes(v), near \in NearHints :
        WriteInPlace(c, v, size, near) \/ WriteElsewhere(c, v, size, near)
  BY DEF WriteCluster, WriteOverFragments, Refillable, Sizes
<1>2. v # None
  BY PayloadAssumption
<1>3. op.pc = "idle" /\ UNCHANGED <<mdfat, bitfat, data>>
  BY <1>1 DEF WriteInPlace, WriteElsewhere, Call, disk
<1>4. /\ op'.pc \notin {"idle", "down"} /\ op'.cl = c /\ op'.val = v
      /\ Progress' /\ Accounted'
  <2>1. CASE WriteInPlace(c, v, size, near)
    <3>1. /\ op'.pc = "mdfat" /\ op'.cl = c /\ op'.val = v /\ op'.size = size
          /\ op'.target = Extent(e) /\ op'.todo = {} /\ op'.undo = {}
      BY <2>1 DEF WriteInPlace, Call, Idle
    <3>2. Own(c)' = Extent(e)
      BY <1>3, <2>1 DEF WriteInPlace, SameLength, Own
    <3> QED BY <1>2, <1>3, <3>1, <3>2 DEF SInv, Progress, Accounted, Own
  <2>2. CASE WriteElsewhere(c, v, size, near)
    <3> DEFINE pc == IF e.used THEN "erase" ELSE "alloc"
    <3>1. /\ op'.pc = pc /\ op'.cl = c /\ op'.val = v /\ op'.size = size
          /\ op'.target = {} /\ op'.todo = {} /\ op'.undo = {}
      BY <2>2 DEF WriteElsewhere, Call, Idle
    <3>2. op'.pc \in {"erase", "alloc"} /\ (op'.pc = "erase" => e.used)
      BY <3>1
    <3> HIDE DEF pc
    <3> QED BY <1>2, <1>3, <3>1, <3>2 DEF SInv, Progress, Accounted
  <2> QED BY <1>1, <2>1, <2>2
<1>5. Busy' = c /\ Want' = v /\ Answer' = "none"
  BY <1>2, <1>4, RunningViewNext
<1>6. Busy = None /\ Answer # "crashed"
  BY <1>3, IdleView DEF SInv, IInv, TypeOK, Calls
<1> QED BY <1>3, <1>4, <1>5, <1>6, NothingTouched, StoreBegins DEF StoreStep

LEMMA EraseEntryStores ==
  ASSUME SInv, EraseEntry
  PROVE  Progress' /\ Accounted' /\ StoreStep
<1>0. PICK c \in Clusters : c = op.cl
  BY DEF EraseEntry, SInv, IInv, CallKeepsToItsSectors, Running
<1>1. /\ op.pc = "erase" /\ op \in Calls /\ Plain
      /\ mdfat' = [mdfat EXCEPT ![c] = Unused] /\ mdfat \in [Clusters -> MdfatEntry]
      /\ UNCHANGED <<bitfat, data>>
  BY <1>0 DEF EraseEntry, Erase, SInv, IInv, TypeOK, CallKeepsToItsSectors
<1>2. Freed(mdfat[c]) = {Own(c)}
  BY <1>1, PlainView DEF SInv, IInv, Freed, Plain
<1>3. /\ mdfat' \in [Clusters -> MdfatEntry] /\ mdfat'[c] = Unused
      /\ \A d \in Clusters \ {c} : mdfat'[d] = mdfat[d]
  <2>1. Unused \in MdfatEntry
    BY GeometryAssumption DEF MdfatEntry, Unused
  <2> QED BY <1>1, <2>1
<1>4. EntriesFilled' /\ \A d \in Clusters : ~mdfat[d].frag /\ ~mdfat'[d].frag
  BY <1>1, <1>3 DEF SInv, Progress, EntriesFilled, Plain, Unused
<1>5. Touches(c) /\ ReadCluster(c)' = Zeros /\ Content'[c] = Zeros
  <2>1. Touches(c)
    BY <1>1, <1>3, <1>4, OneTouched
  <2>2. ReadCluster(c)' = PlainReading(mdfat'[c], data')
    <3>1. mdfat'[c].frag = FALSE
      BY <1>3 DEF Unused
    <3> QED BY <3>1, ReadsPlainNext
  <2>3. ReadCluster(c)' = Zeros
    BY <1>3, <2>2 DEF PlainReading, Unused
  <2> QED BY <2>1, <2>3 DEF Content
<1>6. Busy = c /\ c # None /\ Answer = "none"
      /\ Want = (IF op.val # None THEN op.val ELSE Zeros)
  BY <1>0, <1>1, RunningView DEF SInv
<1>7. op.todo = {} /\ op.undo = {} /\ op.target = {}
  BY <1>1 DEF SInv, Accounted
<1>8. CASE Own(c) = {}
  <2>1. Finish("ok")
    BY <1>0, <1>2, <1>8 DEF EraseEntry, Erase
  <2>2. op.val = None
    <3> SUFFICES ASSUME op.val # None PROVE FALSE
      OBVIOUS
    <3>1. mdfat[c].used /\ mdfat[c].size >= 1 /\ mdfat[c] \in MdfatEntry
      BY <1>0, <1>1 DEF SInv, Progress
    <3>2. mdfat[c].sector \in Own(c)
      BY <3>1 DEF Own, Extent, MdfatEntry
    <3> QED BY <1>8, <3>2
  <2> QED BY <1>4, <1>5, <1>6, <2>1, <2>2, FinishedView, EndedKeeps, StoreEnds
          DEF StoreStep
<1>9. CASE Own(c) # {}
  <2>1. op' = [op EXCEPT !.pc = "clear", !.todo = Own(c), !.undo = Own(c)]
    BY <1>0, <1>2, <1>9 DEF EraseEntry, Erase
  <2>2. /\ op'.pc = "clear" /\ op'.cl = c /\ op'.val = op.val /\ op'.size = op.size
        /\ op'.todo = Own(c) /\ op'.undo = Own(c) /\ op'.target = {}
    BY <1>0, <1>1, <1>7, <2>1 DEF Calls
  <2>3. Progress' /\ Accounted'
    BY <1>4, <2>2 DEF SInv, Progress, Accounted, EntriesFilled
  <2>4. Busy' = Busy /\ Want' = Want /\ Answer' = Answer
    BY <1>6, <2>2, RunningViewNext
  <2> QED BY <1>5, <1>6, <2>3, <2>4, StoreWorks DEF StoreStep
<1> QED BY <1>8, <1>9

(* A step of a running call that changes no entry and no data, and one     *)
(* that ends a call whose cluster is empty.                                *)
LEMMA QuietStores ==
  ASSUME IInv, op.pc \notin {"idle", "down"}, op'.pc \notin {"idle", "down"},
         op'.cl = op.cl, op'.val = op.val, UNCHANGED <<mdfat, data>>
  PROVE  StoreStep
<1>1. Busy' = Busy /\ Want' = Want /\ Answer' = Answer
  BY RunningView, RunningViewNext
<1> QED BY <1>1, NothingTouched, StoreStutters DEF StoreStep

LEMMA EmptyStores ==
  ASSUME IInv, op.pc \notin {"idle", "down"}, ~mdfat[op.cl].used,
         UNCHANGED <<mdfat, data>>,
         NEW code \in {"ok", "nospace"}, Finish(code), code = "ok" => op.val = None
  PROVE  StoreStep
<1>1. PICK c \in Clusters : c = op.cl
  BY RunningView
<1>2. Busy = c /\ Busy # None /\ (op.val = None => Want = Zeros)
  BY <1>1, RunningView
<1>3. Busy' = None /\ Want' = Zeros /\ Answer' = code
  BY FinishedView
<1>4. mdfat \in [Clusters -> MdfatEntry] /\ \A d \in Clusters : ~mdfat[d].frag
  BY DEF IInv, TypeOK, CallKeepsToItsSectors, Plain
<1>5. Touches(c)
  BY <1>4, OneTouched
<1>6. Content'[c] = Zeros
  <2>1. mdfat'[c].frag = FALSE /\ ~mdfat'[c].used
    BY <1>1, <1>4 DEF MdfatEntry
  <2>2. ReadCluster(c)' = PlainReading(mdfat'[c], data')
    BY <2>1, ReadsPlainNext
  <2> QED BY <2>1, <2>2 DEF PlainReading, Content
<1> QED BY <1>2, <1>3, <1>5, <1>6, StoreEnds DEF StoreStep

LEMMA ClearBitStores ==
  ASSUME SInv, ClearBit
  PROVE  Progress' /\ Accounted' /\ StoreStep
<1>1. PICK s \in op.todo :
        LET left == op.todo \ {s}
        IN  /\ bitfat' = bitfat \ {s}
            /\ IF left # {} THEN op' = [op EXCEPT !.todo = left]
               ELSE IF op.val = None THEN Finish("ok")
               ELSE op' = [op EXCEPT !.pc = "alloc", !.todo = {}]
  BY DEF ClearBit
<1> DEFINE left == op.todo \ {s}
<1>2. /\ op.pc = "clear" /\ op \in Calls /\ UNCHANGED <<mdfat, data>>
      /\ ~mdfat[op.cl].used /\ IInv /\ EntriesFilled'
  BY DEF ClearBit, SInv, IInv, TypeOK, CallKeepsToItsSectors, Progress, EntriesFilled
<1>3. /\ op.target = {} /\ op.todo \subseteq op.undo
      /\ (op.undo \ left) \intersect bitfat' = {}
  BY <1>1, <1>2 DEF SInv, Accounted
<1>4. CASE left # {}
  <2>1. op' = [op EXCEPT !.todo = left]
    BY <1>1, <1>4
  <2>2. /\ op'.pc = "clear" /\ op'.cl = op.cl /\ op'.val = op.val /\ op'.size = op.size
        /\ op'.todo = left /\ op'.undo = op.undo /\ op'.target = {}
    BY <1>2, <1>3, <2>1 DEF Calls
  <2>3. Progress' /\ Accounted'
    BY <1>2, <1>3, <2>2 DEF SInv, Progress, Accounted, EntriesFilled
  <2> QED BY <1>2, <2>2, <2>3, QuietStores
<1>5. CASE left = {} /\ op.val = None
  <2>1. Finish("ok")
    BY <1>1, <1>5
  <2>2. StoreStep
    BY <1>2, <1>5, <2>1, EmptyStores
  <2> QED BY <1>2, <2>1, <2>2, FinishedView, EndedKeeps
<1>6. CASE left = {} /\ op.val # None
  <2>1. op' = [op EXCEPT !.pc = "alloc", !.todo = {}]
    BY <1>1, <1>6
  <2>2. /\ op'.pc = "alloc" /\ op'.cl = op.cl /\ op'.val = op.val /\ op'.size = op.size
        /\ op'.todo = {} /\ op'.undo = op.undo /\ op'.target = {}
    BY <1>2, <1>3, <2>1 DEF Calls
  <2>3. Progress' /\ Accounted'
    BY <1>2, <1>3, <1>6, <2>2 DEF SInv, Progress, Accounted, EntriesFilled
  <2> QED BY <1>2, <2>2, <2>3, QuietStores
<1> QED BY <1>4, <1>5, <1>6

LEMMA AllocateRunStores ==
  ASSUME SInv, AllocateRun
  PROVE  Progress' /\ Accounted' /\ StoreStep
<1> DEFINE run == Search.sector .. (Search.sector + op.size - 1)
<1>1. /\ op.pc = "alloc" /\ op \in Calls /\ IInv
      /\ op' = [op EXCEPT !.pc = "mark", !.sector = Search.sector,
                          !.target = run, !.todo = run]
      /\ UNCHANGED <<mdfat, bitfat, data>>
  BY DEF AllocateRun, disk, SInv, IInv, TypeOK
<1> HIDE DEF run
<1>2. /\ op'.pc = "mark" /\ op'.cl = op.cl /\ op'.val = op.val /\ op'.size = op.size
      /\ op'.todo = run /\ op'.undo = op.undo /\ op'.target = run
  BY <1>1 DEF Calls
<1>3. Progress' /\ Accounted'
  BY <1>1, <1>2 DEF SInv, Progress, Accounted
<1> QED BY <1>1, <1>2, <1>3, QuietStores

LEMMA NoSpaceStores ==
  ASSUME SInv, NoSpace
  PROVE  Progress' /\ Accounted' /\ StoreStep
<1>1. /\ op.pc = "alloc" /\ op \in Calls /\ UNCHANGED <<mdfat, bitfat, data>>
      /\ ~mdfat[op.cl].used /\ IInv /\ EntriesFilled'
  BY DEF NoSpace, disk, SInv, IInv, TypeOK, CallKeepsToItsSectors, Progress, EntriesFilled
<1>2. CASE op.undo = {}
  <2>1. Finish("nospace")
    BY <1>2 DEF NoSpace
  <2>2. StoreStep
    BY <1>1, <2>1, EmptyStores
  <2> QED BY <1>1, <2>1, <2>2, FinishedView, EndedKeeps
<1>3. CASE op.undo # {}
  <2>1. op' = [op EXCEPT !.pc = "undo", !.todo = op.undo]
    BY <1>3 DEF NoSpace
  <2>2. /\ op'.pc = "undo" /\ op'.cl = op.cl /\ op'.val = op.val /\ op'.size = op.size
        /\ op'.todo = op.undo /\ op'.undo = op.undo /\ op'.target = op.target
    BY <1>1, <2>1 DEF Calls
  <2>3. Progress' /\ Accounted'
    BY <1>1, <2>2 DEF SInv, Progress, Accounted, EntriesFilled
  <2> QED BY <1>1, <2>2, <2>3, QuietStores
<1> QED BY <1>2, <1>3

LEMMA SetBitStores ==
  ASSUME SInv, SetBit
  PROVE  Progress' /\ Accounted' /\ StoreStep
<1>1. PICK s \in op.todo :
        LET left == op.todo \ {s}
        IN  /\ bitfat' = bitfat \union {s}
            /\ IF left # {} THEN op' = [op EXCEPT !.todo = left]
               ELSE IF op.pc = "undo" THEN Finish("nospace")
               ELSE op' = [op EXCEPT !.pc = "mdfat", !.todo = {}]
  BY DEF SetBit
<1> DEFINE left == op.todo \ {s}
<1>2. /\ op.pc \in {"mark", "undo"} /\ op \in Calls /\ UNCHANGED <<mdfat, data>>
      /\ ~mdfat[op.cl].used /\ IInv /\ EntriesFilled'
  BY DEF SetBit, SInv, IInv, TypeOK, CallKeepsToItsSectors, Progress, EntriesFilled
<1>3. CASE left # {}
  <2>1. op' = [op EXCEPT !.todo = left]
    BY <1>1, <1>3
  <2>2. /\ op'.pc = op.pc /\ op'.cl = op.cl /\ op'.val = op.val /\ op'.size = op.size
        /\ op'.todo = left /\ op'.undo = op.undo /\ op'.target = op.target
    BY <1>2, <2>1 DEF Calls
  <2>3. Progress' /\ Accounted'
    BY <1>1, <1>2, <2>2 DEF SInv, Progress, Accounted, EntriesFilled
  <2> QED BY <1>2, <2>2, <2>3, QuietStores
<1>4. CASE left = {} /\ op.pc = "undo"
  <2>1. Finish("nospace")
    BY <1>1, <1>4
  <2>2. StoreStep
    BY <1>2, <2>1, EmptyStores
  <2> QED BY <1>2, <2>1, <2>2, FinishedView, EndedKeeps
<1>5. CASE left = {} /\ op.pc = "mark"
  <2>1. op' = [op EXCEPT !.pc = "mdfat", !.todo = {}]
    BY <1>1, <1>5
  <2>2. /\ op'.pc = "mdfat" /\ op'.cl = op.cl /\ op'.val = op.val /\ op'.size = op.size
        /\ op'.todo = {} /\ op'.undo = op.undo /\ op'.target = op.target
    BY <1>2, <2>1 DEF Calls
  <2>3. Own(op.cl)' = {}
    BY <1>2, <2>2 DEF Own
  <2>4. Progress' /\ Accounted'
    BY <1>1, <1>2, <1>5, <2>2, <2>3 DEF SInv, Progress, Accounted, EntriesFilled
  <2> QED BY <1>2, <2>2, <2>4, QuietStores
<1> QED BY <1>2, <1>3, <1>4, <1>5

LEMMA WriteEntryStores ==
  ASSUME SInv, WriteEntry
  PROVE  Progress' /\ Accounted' /\ StoreStep
<1>0. PICK c \in Clusters : c = op.cl
  BY DEF WriteEntry, SInv, IInv, CallKeepsToItsSectors, Running
<1>1. /\ op.pc = "mdfat" /\ op \in Calls /\ Plain /\ IInv
      /\ mdfat' = [mdfat EXCEPT ![c] = NewEntry] /\ mdfat \in [Clusters -> MdfatEntry]
      /\ op' = [op EXCEPT !.pc = "data", !.todo = op.target, !.res = "ok"]
      /\ UNCHANGED <<bitfat, data>>
  BY <1>0 DEF WriteEntry, SInv, IInv, TypeOK, CallKeepsToItsSectors
<1>2. /\ op.val # None /\ op.size \in 1 .. SectPerClust
      /\ op.sector \in Sectors /\ op.target = Run(op) /\ op.frag = FALSE
  BY <1>0, <1>1 DEF IInv, CallKeepsToItsSectors, Plain, Calls
<1>3. /\ NewEntry \in MdfatEntry /\ NewEntry.used /\ NewEntry.frag = FALSE
      /\ NewEntry.sector = op.sector /\ NewEntry.size = op.size
      /\ NewEntry.plain = (op.size = Length[op.val])
  <2>1. op.sector \in 0 .. DataEnd /\ op.size \in 0 .. SectPerClust
    BY <1>2, GeometryAssumption DEF Sectors
  <2>2. (op.size = Length[op.val]) \in BOOLEAN
    OBVIOUS
  <2>3. NewEntry = [used |-> TRUE, sector |-> op.sector, size |-> op.size,
                    plain |-> op.size = Length[op.val], frag |-> FALSE]
    BY <1>2 DEF NewEntry
  <2> QED BY <2>1, <2>2, <2>3 DEF MdfatEntry
<1>4. /\ mdfat' \in [Clusters -> MdfatEntry] /\ mdfat'[c] = NewEntry
      /\ \A d \in Clusters \ {c} : mdfat'[d] = mdfat[d]
  BY <1>1, <1>3
<1> HIDE DEF NewEntry
<1>5. EntriesFilled' /\ \A d \in Clusters : ~mdfat[d].frag /\ ~mdfat'[d].frag
  BY <1>1, <1>2, <1>3, <1>4 DEF SInv, Progress, EntriesFilled, Plain
<1>6. Touches(c)
  BY <1>1, <1>4, <1>5, OneTouched
<1>7. /\ op'.pc = "data" /\ op'.cl = c /\ op'.val = op.val /\ op'.size = op.size
      /\ op'.sector = op.sector /\ op'.todo = op.target /\ op'.target = op.target
      /\ op'.undo = op.undo /\ op'.res = "ok"
  BY <1>0, <1>1 DEF Calls
<1>8. Written(mdfat[op.cl])'
  <2>1. Extent(mdfat'[c]) = op.target
    BY <1>2, <1>3, <1>4 DEF Extent, Run
  <2>2. op.target \ op'.todo = {}
    BY <1>7
  <2> QED BY <1>3, <1>4, <1>7, <2>1, <2>2 DEF Written, Extent
<1>9. Progress' /\ Accounted'
  BY <1>1, <1>5, <1>7, <1>8 DEF SInv, Progress, Accounted, EntriesFilled
<1>10. /\ Busy = c /\ Busy # None
       /\ Busy' = Busy /\ Want' = Want /\ Answer' = Answer
  BY <1>0, <1>1, <1>7, RunningView, RunningViewNext
<1> QED BY <1>6, <1>9, <1>10, StoreWorks DEF StoreStep

LEMMA DataStepStores ==
  ASSUME SInv, WriteSector \/ SectorFails
  PROVE  Progress' /\ Accounted' /\ StoreStep
<1>0. PICK c \in Clusters : c = op.cl
  BY DEF WriteSector, SectorFails, SInv, IInv, CallKeepsToItsSectors, Running
<1> DEFINE e == mdfat[c]
           piece(s) == Piece(op.val, op.size, s - op.sector)
<1>1. /\ op.pc = "data" /\ op \in Calls /\ Plain /\ IInv /\ op.frag = FALSE
      /\ UNCHANGED <<mdfat, bitfat>> /\ mdfat \in [Clusters -> MdfatEntry]
      /\ op.val \in Payloads /\ op.val # None /\ op.size \in Sizes(op.val)
      /\ Written(e) /\ op.res \in {"ok", "ioerror"} /\ op.todo \subseteq op.target
      /\ op.undo \intersect bitfat \subseteq op.target /\ EntriesFilled'
  BY <1>0, PayloadAssumption DEF WriteSector, SectorFails, disk, SInv, IInv, TypeOK,
     CallKeepsToItsSectors, Plain, Calls, Progress, Accounted, EntriesFilled
<1>2. PICK s \in op.todo :
        LET left == op.todo \ {s}
        IN  \/ /\ data' = [data EXCEPT ![s] = piece(s)]
               /\ IF left = {} THEN Finish(op.res) ELSE op' = [op EXCEPT !.todo = left]
            \/ /\ data' = data
               /\ IF left = {} THEN Finish("ioerror")
                  ELSE op' = [op EXCEPT !.todo = left, !.res = "ioerror"]
  <2>1. CASE WriteSector
    <3>1. \A s : Image(s) = piece(s)
      BY <1>1 DEF Image, Place
    <3> HIDE DEF piece
    <3> QED BY <2>1, <3>1 DEF WriteSector
  <2>2. CASE SectorFails
    BY <1>1, <2>2 DEF SectorFails, disk
  <2> QED BY <2>1, <2>2
<1> DEFINE left == op.todo \ {s}
<1>3. Own(c) = op.target /\ Extent(e) = op.target /\ DOMAIN data = Sectors
      /\ \A d \in Clusters : Own(d) \subseteq Sectors
  BY <1>1 DEF Written, Own, SInv, IInv, OwnMarked, TypeOK
<1>4. Touches(c)
  <2>1. \A d \in Clusters : ~mdfat[d].frag /\ ~mdfat'[d].frag
    BY <1>1 DEF Plain
  <2>2. ASSUME NEW d \in Clusters \ {c}, NEW t \in Own(d)
        PROVE  data'[t] = data[t]
    <3>1. t # s /\ t \in Sectors
      BY <1>1, <1>3, <2>2 DEF IInv, OwnDisjoint
    <3> HIDE DEF piece
    <3> QED BY <1>2, <1>3, <3>1
  <2> HIDE DEF piece
  <2> QED BY <1>1, <2>1, <2>2, OneTouched
<1>5. Busy = c /\ Busy # None /\ Want = op.val /\ Answer = "none"
  BY <1>0, <1>1, RunningView
<1>6. ASSUME op.res = "ok", data' = [data EXCEPT ![s] = piece(s)]
      PROVE  \A t \in op.target \ left : data'[t] = piece(t)
  <2> TAKE t \in op.target \ left
  <2>1. t \in Sectors
    BY <1>3
  <2>2. t # s => data[t] = piece(t)
    BY <1>1, <1>6 DEF Written
  <2> HIDE DEF piece
  <2> QED BY <1>3, <1>6, <2>1, <2>2
<1>7. ASSUME NEW code \in {"ok", "ioerror"}, Finish(code), left = {},
             code = "ok" => op.res = "ok" /\ data' = [data EXCEPT ![s] = piece(s)]
      PROVE  Progress' /\ Accounted' /\ StoreStep
  <2>1. Progress' /\ Accounted' /\ Busy' = None /\ Want' = Zeros /\ Answer' = code
    BY <1>1, <1>7, FinishedView, EndedKeeps
  <2>2. code = "ok" => Content'[c] = Want
    <3> SUFFICES ASSUME code = "ok" PROVE ReadCluster(c)' = op.val
      BY <1>5 DEF Content
    <3>1. \A t \in Extent(e) : data'[t] = piece(t)
      BY <1>3, <1>6, <1>7
    <3>2. e \in MdfatEntry /\ e.used /\ e.size = op.size /\ e.sector = op.sector
          /\ e.plain = (op.size = Length[op.val]) /\ e.frag = FALSE
      BY <1>1 DEF Written, Plain, MdfatEntry
    <3>3. PlainReading(e, data') = op.val
      BY <1>1, <3>1, <3>2, WrittenReads
    <3>4. ReadCluster(c)' = PlainReading(mdfat'[c], data')
      BY <1>1, <3>2, ReadsPlainNext
    <3> QED BY <1>1, <3>3, <3>4
  <2> QED BY <1>4, <1>5, <2>1, <2>2, StoreEnds DEF StoreStep
<1>8. ASSUME NEW res \in {"ok", "ioerror"}, left # {},
             \/ op' = [op EXCEPT !.todo = left] /\ res = op.res
             \/ op' = [op EXCEPT !.todo = left, !.res = "ioerror"] /\ res = "ioerror",
             res = "ok" => op.res = "ok" /\ data' = [data EXCEPT ![s] = piece(s)]
      PROVE  Progress' /\ Accounted' /\ StoreStep
  <2>1. /\ op'.pc = "data" /\ op'.cl = c /\ op'.val = op.val /\ op'.size = op.size
        /\ op'.sector = op.sector /\ op'.todo = left /\ op'.target = op.target
        /\ op'.undo = op.undo /\ op'.res = res
    <3> HIDE DEF left
    <3> QED BY <1>0, <1>1, <1>8 DEF Calls
  <2>2. Written(mdfat[op.cl])'
    <3>1. res = "ok" => \A t \in op.target \ left : data'[t] = piece(t)
      BY <1>6, <1>8
    <3>2. mdfat'[op'.cl] = e
      BY <1>1, <2>1
    <3>3. Written(e)
      BY <1>1
    <3> HIDE DEF e, left
    <3> QED BY <2>1, <3>1, <3>2, <3>3 DEF Written, Extent
  <2>3. Progress' /\ Accounted'
    <3>1. left \subseteq op.target
      BY <1>1
    <3> HIDE DEF left, e, piece
    <3> QED BY <1>1, <1>8, <2>1, <2>2, <3>1 DEF Progress, Accounted, EntriesFilled
  <2>4. Busy' = Busy /\ Want' = Want /\ Answer' = Answer
    BY <1>1, <1>5, <2>1, RunningViewNext
  <2> QED BY <1>4, <1>5, <2>3, <2>4, StoreWorks DEF StoreStep
<1> HIDE DEF left, piece
<1>9. CASE left = {}
  <2>1. \/ Finish(op.res) /\ data' = [data EXCEPT ![s] = piece(s)]
        \/ Finish("ioerror")
    BY <1>2, <1>9 DEF left
  <2> QED BY <1>1, <1>7, <1>9, <2>1
<1>10. CASE left # {}
  <2>1. \/ /\ op' = [op EXCEPT !.todo = left]
           /\ data' = [data EXCEPT ![s] = piece(s)]
        \/ op' = [op EXCEPT !.todo = left, !.res = "ioerror"]
    BY <1>2, <1>10 DEF left
  <2> QED BY <1>1, <1>8, <1>10, <2>1
<1> QED BY <1>9, <1>10

(* Crashes stop whatever runs; the volume comes back as it was.            *)
LEMMA CrashStores ==
  ASSUME SInv, Crash
  PROVE  Progress' /\ Accounted' /\ StoreStep /\ (op.pc = "idle" => Store!CrashIdle)
<1>1. /\ UNCHANGED <<mdfat, bitfat, data>> /\ op.pc # "down" /\ EntriesFilled'
      /\ op'.pc = "down" /\ op'.val = None
      /\ op'.todo = {} /\ op'.undo = {} /\ op'.target = {}
  BY DEF Crash, Halt, Idle, disk, SInv, Progress, EntriesFilled
<1>2. Progress' /\ Accounted'
  BY <1>1, EndedKeeps
<1>3. Busy' = None /\ Want' = Zeros /\ Answer' = "crashed"
  BY <1>1 DEF Busy, Want, Answer, Running
<1>4. CASE op.pc = "idle"
  <2>1. Store!CrashIdle
    BY <1>1, <1>3, <1>4, IdleView, NothingTouched, StoreStops
  <2> QED BY <1>2, <2>1 DEF StoreStep, Store!Next
<1>5. CASE op.pc # "idle"
  <2>1. Busy = op.cl /\ Busy # None /\ Busy \in Clusters
    BY <1>1, <1>5, RunningView DEF SInv
  <2>2. Touches(Busy)
    <3>1. mdfat \in [Clusters -> MdfatEntry] /\ \A d \in Clusters : ~mdfat[d].frag
      BY DEF SInv, IInv, TypeOK, CallKeepsToItsSectors, Plain
    <3> QED BY <1>1, <2>1, <3>1, OneTouched
  <2> QED BY <1>2, <1>3, <1>5, <2>1, <2>2, StoreEnds DEF StoreStep
<1> QED BY <1>4, <1>5

LEMMA MountStores ==
  ASSUME SInv, Mount
  PROVE  Progress' /\ Accounted' /\ StoreStep
<1>1. /\ UNCHANGED <<mdfat, bitfat, data>> /\ op.pc = "down" /\ EntriesFilled'
      /\ op'.pc = "idle" /\ op'.val = None /\ op'.res = "none"
      /\ op'.todo = {} /\ op'.undo = {} /\ op'.target = {}
  BY DEF Mount, Idle, disk, SInv, Progress, EntriesFilled
<1>2. Progress' /\ Accounted'
  BY <1>1, EndedKeeps
<1>3. /\ Busy = None /\ Want = Zeros /\ Answer = "crashed"
      /\ Busy' = None /\ Want' = Zeros /\ Answer' = "none"
  BY <1>1 DEF Busy, Want, Answer, Running
<1> QED BY <1>1, <1>2, <1>3, NothingTouched, StoreRestarts DEF StoreStep

-----------------------------------------------------------------------------
LEMMA InitStores == Init => SInv /\ Store!Init
<1> SUFFICES ASSUME Init PROVE SInv /\ Store!Init
  OBVIOUS
<1>1. /\ \A c \in Clusters : mdfat[c] = Unused
      /\ op.pc = "idle" /\ op.val = None /\ op.res = "none"
      /\ op.todo = {} /\ op.undo = {} /\ op.target = {}
  BY DEF Init, Idle
<1>2. SInv
  BY <1>1, InitKeeps DEF SInv, Progress, Accounted, Unused
<1>3. Busy = None /\ Want = Zeros /\ Answer = "none"
  BY <1>1 DEF Busy, Want, Answer, Running
<1>4. Content = [c \in Clusters |-> Zeros]
  <2>1. \A c \in Clusters : ReadCluster(c) = Zeros
    <3> TAKE c \in Clusters
    <3>1. mdfat[c].frag = FALSE /\ ~mdfat[c].used
      BY <1>1 DEF Unused
    <3> QED BY <3>1, ReadsPlain DEF PlainReading
  <2> QED BY <2>1 DEF Content
<1> QED BY <1>2, <1>3, <1>4 DEF Store!Init, Content, Busy, Want, Answer

LEMMA NextStores ==
  ASSUME Version # "DRVSP3", SInv, [Next]_vars
  PROVE  SInv' /\ StoreStep
<1>1. IInv'
  BY NextKeeps DEF SInv
<1>2. ASSUME NEW c \in Clusters, AllocateCluster(c)
      PROVE  Progress' /\ Accounted' /\ StoreStep
  BY <1>2, NoStepStores DEF AllocateCluster, StoreStep
<1>3. ASSUME NEW c \in Clusters, DeleteCluster(c)
      PROVE  Progress' /\ Accounted' /\ StoreStep
  BY <1>3, DeleteClusterStores
<1>4. ASSUME NEW c \in Clusters, NEW v \in Payloads, WriteCluster(c, v)
      PROVE  Progress' /\ Accounted' /\ StoreStep
  BY <1>4, WriteClusterStores
<1>5. ~AllocateFragments /\ \A c \in Clusters, v \in Payloads : ~FaultOnFreedList(c, v)
  BY DEF AllocateFragments, MayFragment, FaultOnFreedList, Refillable
<1>6. ASSUME Step PROVE Progress' /\ Accounted' /\ StoreStep
  <2>1. CASE EraseEntry \/ ClearBit \/ AllocateRun
    BY <2>1, EraseEntryStores, ClearBitStores, AllocateRunStores
  <2>2. CASE NoSpace \/ SetBit \/ WriteEntry
    BY <2>2, NoSpaceStores, SetBitStores, WriteEntryStores
  <2>3. CASE WriteSector \/ SectorFails
    BY <2>3, DataStepStores
  <2> QED BY <1>5, <1>6, <2>1, <2>2, <2>3 DEF Step
<1>7. ASSUME UNCHANGED vars PROVE Progress' /\ Accounted' /\ StoreStep
  <2>1. UNCHANGED <<mdfat, bitfat, data, op>>
    BY <1>7 DEF vars
  <2> QED BY <2>1, NoStepStores DEF StoreStep
<1> QED BY <1>1, <1>2, <1>3, <1>4, <1>5, <1>6, <1>7, CrashStores, MountStores
        DEF Next, Request, Fault, SInv

(* The invariant behind the theorems below: besides the layout, a call     *)
(* knows what of it is on the disk and which sectors it owes.              *)
THEOREM CallsProgress ==
  ASSUME Version # "DRVSP3"
  PROVE  Spec => []SInv
<1>1. SInv /\ [Next]_vars => SInv'
  BY NextStores
<1> QED BY <1>1, InitStores, PTL DEF Spec

(* The volume implements the store of clusters its callers see: one        *)
(* operation at a time, only the cluster it is about may read differently, *)
(* what is reported as stored reads back, what was deleted or refused      *)
(* reads as zeros, whatever fails and whenever the machine stops.          *)
THEOREM VolumeImplementsStore ==
  ASSUME Version # "DRVSP3"
  PROVE  Spec => StoreSpec
<1>1. Init => Store!Init
  BY InitStores
<1>2. SInv /\ [Next]_vars => [Store!Next]_(Store!vars)
  BY NextStores DEF StoreStep
<1> QED BY <1>1, <1>2, CallsProgress, PTL DEF Spec, StoreSpec, Store!Spec

-----------------------------------------------------------------------------
(* Space.  What is claimed by a cluster or by the running call; the rest   *)
(* of what is marked is lost.                                              *)
Claimed(x) ==
  (\E c \in Clusters : x \in Own(c)) \/ x \in op.todo \union op.undo \union op.target

Unclaimed == {x \in bitfat : ~Claimed(x)}

LEMMA LostIsUnclaimed ==
  CallKeepsToItsSectors => Lost = Unclaimed
<1> SUFFICES ASSUME CallKeepsToItsSectors PROVE Lost = Unclaimed
  OBVIOUS
<1>1. \A c \in Clusters : Occupied(c) = Own(c)
  BY PlainView
<1>2. \A x : x \in UNION {Occupied(c) : c \in Clusters}
               <=> \E c \in Clusters : x \in Own(c)
  BY <1>1
<1> DEFINE all == UNION {Occupied(c) : c \in Clusters}
<1>3. Lost = bitfat \ (all \union op.todo \union op.undo \union op.target)
  BY DEF Lost
<1> HIDE DEF all
<1>4. \A x : x \in all <=> \E c \in Clusters : x \in Own(c)
  BY <1>2 DEF all
<1> QED BY <1>3, <1>4 DEF Unclaimed, Claimed

LEMMA LostIsUnclaimedNext ==
  (CallKeepsToItsSectors => Lost = Unclaimed)'
BY LostIsUnclaimed, PTL

(* Nothing is lost as long as claims are handed on and only claimed sectors *)
(* are marked.                                                             *)
LEMMA ClaimsHandedOn ==
  ASSUME \A x \in bitfat' : /\ x \in bitfat \/ Claimed(x)'
                            /\ Claimed(x) => Claimed(x)'
  PROVE  Unclaimed' \subseteq Unclaimed
BY DEF Unclaimed

LEMMA NoClaims ==
  ASSUME Accounted, op.pc \in {"idle", "down", "erase"}
  PROVE  \A x : Claimed(x) => \E c \in Clusters : x \in Own(c)
BY DEF Accounted, Claimed

LEMMA IdleStepsLoseNothing ==
  ASSUME SInv, UNCHANGED <<mdfat, bitfat>>,
         op.pc \in {"idle", "down"} \/ UNCHANGED op
  PROVE  Unclaimed' \subseteq Unclaimed
<1>1. \A c : Own(c)' = Own(c)
  BY SameEntries
<1>2. \A x : Claimed(x) => Claimed(x)'
  BY <1>1, NoClaims DEF SInv, Claimed
<1> QED BY <1>2, ClaimsHandedOn

LEMMA ClearingLosesNothing ==
  ASSUME SInv, EraseEntry \/ ClearBit
  PROVE  Unclaimed' \subseteq Unclaimed
<1>0. PICK c \in Clusters : c = op.cl
  BY DEF EraseEntry, ClearBit, SInv, IInv, CallKeepsToItsSectors, Running
<1>1. op \in Calls /\ Plain /\ mdfat \in [Clusters -> MdfatEntry]
  BY DEF SInv, IInv, TypeOK, CallKeepsToItsSectors
<1>2. CASE EraseEntry
  <2>1. /\ op.pc = "erase" /\ mdfat' = [mdfat EXCEPT ![c] = Unused] /\ bitfat' = bitfat
        /\ Own(c) # {} => op' = [op EXCEPT !.pc = "clear", !.todo = Own(c), !.undo = Own(c)]
    <3>1. Freed(mdfat[c]) = {Own(c)}
      BY <1>1, PlainView DEF SInv, IInv, Freed, Plain
    <3> QED BY <1>0, <1>2, <3>1 DEF EraseEntry, Erase
  <2>2. \A d \in Clusters \ {c} : Own(d)' = Own(d)
    BY <1>1, <2>1 DEF Own, Extent
  <2>3. Own(c) # {} => op'.todo = Own(c)
    BY <1>1, <2>1 DEF Calls
  <2>4. ASSUME NEW x, Claimed(x) PROVE Claimed(x)'
    <3>1. PICK d \in Clusters : x \in Own(d)
      BY <2>1, <2>4, NoClaims DEF SInv
    <3>2. CASE d = c
      BY <2>3, <3>1, <3>2 DEF Claimed
    <3>3. CASE d # c
      BY <2>2, <3>1, <3>3 DEF Claimed
    <3> QED BY <3>2, <3>3
  <2> QED BY <2>1, <2>4, ClaimsHandedOn
<1>3. CASE ClearBit
  <2>1. PICK s \in op.todo :
          LET left == op.todo \ {s}
          IN  /\ bitfat' = bitfat \ {s}
              /\ left # {} => op' = [op EXCEPT !.todo = left]
    BY <1>3 DEF ClearBit
  <2> DEFINE left == op.todo \ {s}
  <2>2. /\ op.pc = "clear" /\ UNCHANGED mdfat
        /\ op.target = {} /\ op.todo \subseteq op.undo
        /\ (op.undo \ op.todo) \intersect bitfat = {}
    BY <1>3 DEF ClearBit, SInv, Accounted
  <2>3. left # {} => op'.todo = left
    BY <1>1, <2>1 DEF Calls
  <2>4. ASSUME NEW x \in bitfat', Claimed(x) PROVE Claimed(x)'
    <3>1. CASE \E d \in Clusters : x \in Own(d)
      BY <2>2, <3>1, SameEntries DEF Claimed
    <3>2. CASE x \in op.undo
      <4>1. x \in left
        BY <2>1, <2>2, <2>4, <3>2
      <4> QED BY <2>3, <4>1 DEF Claimed
    <3> QED BY <2>2, <2>4, <3>1, <3>2 DEF Claimed
  <2> QED BY <2>1, <2>4, ClaimsHandedOn
<1> QED BY <1>2, <1>3

LEMMA MarkingLosesNothing ==
  ASSUME SInv, AllocateRun \/ NoSpace \/ SetBit
  PROVE  (op.undo # {} /\ op'.res = "nospace") \/ Unclaimed' \subseteq Unclaimed
<1>1. op \in Calls /\ UNCHANGED mdfat /\ \A d : Own(d)' = Own(d)
  BY SameEntries DEF AllocateRun, NoSpace, SetBit, disk, SInv, IInv, TypeOK
<1>2. CASE AllocateRun \/ NoSpace
  <2>1. bitfat' = bitfat /\ op.todo = {} /\ op.target = {}
    BY <1>2 DEF AllocateRun, NoSpace, disk, SInv, Accounted
  <2>2. op.undo # {} => op'.undo = op.undo
    BY <1>1, <1>2 DEF AllocateRun, NoSpace, Calls
  <2>3. \A x : Claimed(x) => Claimed(x)'
    BY <1>1, <2>1, <2>2 DEF Claimed
  <2> QED BY <2>1, <2>3, ClaimsHandedOn
<1>3. CASE SetBit
  <2>1. PICK s \in op.todo :
          LET left == op.todo \ {s}
          IN  /\ bitfat' = bitfat \union {s}
              /\ IF left # {} THEN op' = [op EXCEPT !.todo = left]
                 ELSE IF op.pc = "undo" THEN Finish("nospace")
                 ELSE op' = [op EXCEPT !.pc = "mdfat", !.todo = {}]
    BY <1>3 DEF SetBit
  <2> DEFINE left == op.todo \ {s}
  <2>2. /\ op.pc = "mark" => op.todo \subseteq op.target
        /\ op.pc = "undo" => op.todo \subseteq op.undo
        /\ op.pc \in {"mark", "undo"}
    BY <1>3 DEF SetBit, SInv, Accounted
  <2>3. CASE left = {} /\ op.pc = "undo"
    <3>1. op'.res = "nospace"
      BY <2>1, <2>3, FinishedView
    <3> QED BY <2>2, <2>3, <3>1
  <2>4. CASE ~(left = {} /\ op.pc = "undo")
    <3>1. op'.undo = op.undo /\ op'.target = op.target
      BY <1>1, <2>1, <2>4 DEF Calls
    <3>2. op.todo \subseteq op.undo \union op.target
      BY <2>2
    <3>3. \A x : Claimed(x) => Claimed(x)'
      BY <1>1, <3>1, <3>2 DEF Claimed
    <3>4. Claimed(s)'
      BY <3>1, <3>2 DEF Claimed
    <3> QED BY <2>1, <3>3, <3>4, ClaimsHandedOn
  <2> QED BY <2>3, <2>4
<1> QED BY <1>2, <1>3

LEMMA WritingLosesNothing ==
  ASSUME SInv, WriteEntry \/ WriteSector \/ SectorFails
  PROVE  Unclaimed' \subseteq Unclaimed
<1>0. PICK c \in Clusters : c = op.cl
  BY DEF WriteEntry, WriteSector, SectorFails, SInv, IInv, CallKeepsToItsSectors, Running
<1>1. /\ op \in Calls /\ UNCHANGED bitfat /\ mdfat \in [Clusters -> MdfatEntry]
      /\ op.todo \subseteq op.target /\ op.undo \intersect bitfat \subseteq op.target
  BY DEF WriteEntry, WriteSector, SectorFails, disk, SInv, IInv, TypeOK, Accounted
<1>2. CASE WriteEntry
  <2>1. op'.undo = op.undo /\ op'.target = op.target
    BY <1>1, <1>2 DEF WriteEntry, Calls
  <2>2. Own(c) \subseteq op.target /\ \A d \in Clusters \ {c} : Own(d)' = Own(d)
    BY <1>0, <1>1, <1>2 DEF WriteEntry, SInv, Progress, Own, Extent
  <2>3. ASSUME NEW x, Claimed(x) PROVE Claimed(x)'
    <3>1. CASE \E d \in Clusters \ {c} : x \in Own(d)
      BY <2>2, <3>1 DEF Claimed
    <3>2. CASE x \in Own(c) \union op.todo \union op.undo \union op.target
      BY <1>1, <2>1, <2>2, <3>2 DEF Claimed
    <3> QED BY <2>3, <3>1, <3>2 DEF Claimed
  <2> QED BY <1>1, <2>3, ClaimsHandedOn
<1>3. CASE WriteSector \/ SectorFails
  <2>1. op.target = Own(c) /\ UNCHANGED mdfat
    BY <1>0, <1>3 DEF WriteSector, SectorFails, disk, SInv, Progress, Written, Own
  <2>2. \A d : Own(d)' = Own(d)
    BY <2>1, SameEntries
  <2>3. ASSUME NEW x \in bitfat', Claimed(x) PROVE Claimed(x)'
    <3>1. \E d \in Clusters : x \in Own(d)
      BY <1>1, <2>1, <2>3 DEF Claimed
    <3> QED BY <2>2, <3>1 DEF Claimed
  <2> QED BY <1>1, <2>3, ClaimsHandedOn
<1> QED BY <1>2, <1>3

(* Space is lost only by crashes and by writes that took a stored cluster  *)
(* apart and found no space; every other step hands on all it has marked.  *)
THEOREM SpaceIsAccounted ==
  ASSUME Version # "DRVSP3"
  PROVE  Spec => NoSilentLoss
<1> DEFINE Kept == op'.pc = "down" \/ (op.undo # {} /\ op'.res = "nospace")
                     \/ Lost' \subseteq Lost
<1>1. SInv /\ SInv' /\ [Next]_vars => [Kept]_vars
  <2> SUFFICES ASSUME SInv, SInv', Next PROVE Kept
    OBVIOUS
  <2>1. Lost = Unclaimed /\ Lost' = Unclaimed'
    BY LostIsUnclaimed, LostIsUnclaimedNext DEF SInv, IInv
  <2>2. ASSUME NEW c \in Clusters, AllocateCluster(c) \/ DeleteCluster(c)
        PROVE  Kept
    BY <2>1, <2>2, IdleStepsLoseNothing DEF AllocateCluster, DeleteCluster
  <2>3. ASSUME NEW c \in Clusters, NEW v \in Payloads, WriteCluster(c, v)
        PROVE  Kept
    <3>1. op.pc = "idle" /\ UNCHANGED <<mdfat, bitfat>>
      BY <2>3 DEF WriteCluster, WriteInPlace, WriteOverFragments, WriteElsewhere, Call, disk
    <3> QED BY <2>1, <3>1, IdleStepsLoseNothing
  <2>4. ~AllocateFragments /\ \A c \in Clusters, v \in Payloads : ~FaultOnFreedList(c, v)
    BY DEF AllocateFragments, MayFragment, FaultOnFreedList, Refillable
  <2>5. CASE Step
    BY <2>1, <2>4, <2>5, ClearingLosesNothing, MarkingLosesNothing, WritingLosesNothing
    DEF Step
  <2>6. CASE Crash
    BY <2>6 DEF Crash, Halt, Idle
  <2>7. CASE Mount
    BY <2>1, <2>7, IdleStepsLoseNothing DEF Mount, disk
  <2> QED BY <2>2, <2>3, <2>4, <2>5, <2>6, <2>7 DEF Next, Request, Fault
<1> QED BY <1>1, CallsProgress, PTL DEF Spec, NoSilentLoss

(* What the tables describe is sound: every sector of a stored cluster is  *)
(* marked and its own, half-way through every call and after every crash.  *)
THEOREM LayoutAlwaysSound ==
  ASSUME Version # "DRVSP3"
  PROVE  Spec => []LayoutSound
BY StoredSectorsAreMarked, NoCrosslinkEver, PTL DEF LayoutSound

-----------------------------------------------------------------------------
(* The check and its repair (SimpleCheck), with crashes and failing writes *)
(* between calls and in the middle of a repair.                            *)

(* What a check knows once it has gone through a table; nothing else runs  *)
(* before it returns.                                                      *)
CheckKnows ==
  /\ check.pc # "none" => verdict = "none"
  /\ check.pc \in {"mdfat", "bitfat"} => \A c \in Clusters : ~Dead(c)
  /\ check.pc = "bitfat" => check.field = UNION {Own(c) : c \in Clusters}

CInv == IInv /\ CheckTypeOK /\ CheckKnows

CheckRecords == [pc : {"none", "fat", "mdfat", "bitfat"}, repair : BOOLEAN,
                 field : SUBSET Sectors, free : Nat]

LEMMA ChecksAreRecords == CheckTypeOK => check \in CheckRecords
BY DEF CheckTypeOK, CheckRecords

LEMMA NoCheckIsRecord ==
  NoCheck \in CheckRecords /\ NoCheck.pc = "none"
BY DEF NoCheck, CheckRecords

(* On a volume in IInv the check enters each cluster's own sectors and     *)
(* finds nothing that it could not repair.                                 *)
LEMMA NothingIrreparable ==
  ASSUME IInv
  PROVE  /\ \A c \in Clusters : Entered(c) = Own(c) /\ SectorsOf(mdfat[c]) = Own(c)
         /\ Field = UNION {Own(c) : c \in Clusters}
         /\ ~Irreparable
         /\ \A c \in Clusters : ~mdfat[c].frag
<1>1. \A c \in Clusters : ~mdfat[c].frag
  BY DEF IInv, CallKeepsToItsSectors, Plain
<1>2. \A c \in Clusters : Entered(c) = Own(c)
  <2> SUFFICES ASSUME NEW c \in Clusters PROVE Entered(c) = Own(c)
    OBVIOUS
  <2>1. ~mdfat[c].frag
    BY <1>1
  <2> QED BY <2>1 DEF Entered, Own
<1>3. \A c \in Clusters : SectorsOf(mdfat[c]) = Own(c)
  BY PlainView DEF IInv
<1>4. ~Irreparable
  BY <1>1, <1>2 DEF Irreparable, IInv, OwnDisjoint
<1>5. Field = UNION {Own(c) : c \in Clusters}
  BY <1>2 DEF Field
<1> QED BY <1>1, <1>2, <1>3, <1>4, <1>5

LEMMA CheckInitKeeps == CheckInit => CInv
<1> SUFFICES ASSUME CheckInit PROVE CInv
  OBVIOUS
<1>1. IInv
  BY InitKeeps DEF CheckInit
<1>2. CheckTypeOK
  BY <1>1, NoCheckIsRecord DEF CheckInit, IInv, CheckTypeOK, CheckRecords
<1>3. CheckKnows
  BY NoCheckIsRecord DEF CheckInit, CheckKnows
<1> QED BY <1>1, <1>2, <1>3 DEF CInv

(* Calls, crashes and mounts: DblVolume_proofs, and no check is running    *)
(* after them.                                                             *)
LEMMA CallsKeep ==
  ASSUME Version # "DRVSP3", CInv, CallRuns \/ Stop \/ Open
  PROVE  CInv'
<1>1. IInv'
  <2>1. Next
    BY DEF CallRuns, Stop, Open, Next
  <2> QED BY <2>1, NextKeeps DEF CInv
<1>2. check' \in CheckRecords /\ check'.pc = "none"
      /\ verdict' \in {"none", "ok", "failed"}
  <2>1. CASE CallRuns
    BY <2>1, ChecksAreRecords DEF CallRuns, CInv, CheckTypeOK
  <2>2. CASE Stop
    BY <2>2, NoCheckIsRecord DEF Stop, Return
  <2>3. CASE Open
    BY <2>3, ChecksAreRecords DEF Open, Mount, CInv, CheckTypeOK
  <2> QED BY <2>1, <2>2, <2>3
<1>3. CheckTypeOK'
  BY <1>1, <1>2 DEF IInv, CheckTypeOK, CheckRecords
<1>4. CheckKnows'
  BY <1>2 DEF CheckKnows
<1> QED BY <1>1, <1>3, <1>4 DEF CInv

(* Steps of the check that write no table.                                 *)
LEMMA LookingKeeps ==
  ASSUME CInv,
         \/ \E repair \in BOOLEAN : StartCheck(repair)
         \/ FatDone \/ MdfatDone \/ MdfatFails
  PROVE  CInv'
<1> USE ChecksAreRecords, NoCheckIsRecord
<1>1. /\ UNCHANGED vars /\ op.pc = "idle"
      /\ check \in CheckRecords /\ verdict \in {"none", "ok", "failed"}
  BY DEF CInv, CheckTypeOK, StartCheck, FatDone, MdfatDone, MdfatFails
<1>2. IInv'
  BY <1>1, StutterKeeps DEF CInv
<1>3. /\ \A c \in Clusters : Own(c)' = Own(c) /\ (Dead(c)' <=> Dead(c))
      /\ op'.pc = "idle"
  BY <1>1, SameEntries DEF vars, Dead
<1>4. /\ check' \in CheckRecords /\ verdict' \in {"none", "ok", "failed"}
      /\ CheckKnows'
  <2>1. ASSUME NEW repair \in BOOLEAN, StartCheck(repair)
        PROVE  /\ check' \in CheckRecords /\ verdict' \in {"none", "ok", "failed"}
               /\ CheckKnows'
    <3>1. check' = [NoCheck EXCEPT !.pc = "fat", !.repair = repair]
          /\ verdict' = "none"
      BY <2>1 DEF StartCheck
    <3>2. check' \in CheckRecords /\ check'.pc = "fat"
      BY <3>1 DEF CheckRecords, NoCheck
    <3> QED BY <3>1, <3>2 DEF CheckKnows
  <2>2. ASSUME NEW v \in {"none", "ok", "failed"}, Return(v)
        PROVE  /\ check' \in CheckRecords /\ verdict' \in {"none", "ok", "failed"}
               /\ CheckKnows'
    BY <2>2 DEF Return, CheckKnows
  <2>3. CASE FatDone /\ \A c \in Clusters : ~Dead(c)
    <3>1. check' = [check EXCEPT !.pc = "mdfat"] /\ verdict' = verdict
          /\ check.pc = "fat"
      BY <2>3 DEF FatDone
    <3>2. check' \in CheckRecords /\ check'.pc = "mdfat"
      BY <1>1, <3>1 DEF CheckRecords
    <3> QED BY <1>1, <1>3, <2>3, <3>1, <3>2 DEF CheckKnows, CInv
  <2>4. CASE MdfatDone
    <3>1. /\ check' = [check EXCEPT !.pc = "bitfat", !.field = Field, !.free = FreeCount]
          /\ verdict' = verdict /\ check.pc = "mdfat"
      BY <2>4 DEF MdfatDone
    <3>2. Field = UNION {Own(c) : c \in Clusters}
      BY NothingIrreparable DEF CInv
    <3>3. Field \in SUBSET Sectors /\ FreeCount \in Nat
      <4>1. FreeCount \in Nat
        BY IntervalsAreFinite DEF CInv, IInv, TypeOK, FreeCount
      <4>2. \A c \in Clusters : Own(c) \subseteq Sectors
        BY DEF CInv, IInv, TypeOK, OwnMarked
      <4> QED BY <3>2, <4>1, <4>2
    <3>4. check' \in CheckRecords /\ check'.pc = "bitfat" /\ check'.field = Field
      BY <1>1, <3>1, <3>3 DEF CheckRecords
    <3>5. UNION {Own(c) : c \in Clusters}' = UNION {Own(c) : c \in Clusters}
      BY <1>3
    <3> QED BY <1>1, <1>3, <3>1, <3>2, <3>4, <3>5 DEF CheckKnows, CInv
  <2> QED
    BY <2>1, <2>2, <2>3, <2>4 DEF FatDone, MdfatFails
<1> QED BY <1>2, <1>3, <1>4 DEF CInv, IInv, CheckTypeOK, CheckRecords

---------------------------------------------------------------------------
(* The repair of an entry.                                                 *)
LEMMA RemoveDeadKeeps ==
  ASSUME CInv, RemoveDead
  PROVE  CInv'
<1>1. PICK c \in Clusters : mdfat' = [mdfat EXCEPT ![c] = Unused]
  BY DEF RemoveDead
<1>2. /\ check.pc = "fat" /\ op.pc = "idle"
      /\ UNCHANGED <<fat, bitfat, data, sb, op, check, verdict>>
      /\ mdfat \in [Clusters -> MdfatEntry]
  BY DEF CInv, CheckTypeOK, RemoveDead, IInv, TypeOK
<1>3. /\ mdfat' \in [Clusters -> MdfatEntry]
      /\ mdfat'[c] = Unused
      /\ \A d \in Clusters \ {c} : mdfat'[d] = mdfat[d]
  <2>1. Unused \in MdfatEntry
    BY GeometryAssumption DEF MdfatEntry, Unused
  <2> QED BY <1>1, <1>2, <2>1
<1>4. TypeOK'
  BY <1>2, <1>3 DEF CInv, IInv, TypeOK
<1>5. /\ Own(c)' = {}
      /\ \A d \in Clusters \ {c} : Own(d)' = Own(d)
  BY <1>3 DEF Own, Extent, Unused
<1>6. OwnMarked' /\ OwnDisjoint'
  BY <1>2, <1>5 DEF CInv, IInv, OwnMarked, OwnDisjoint
<1>7. CallKeepsToItsSectors'
  <2>1. Plain'
    BY <1>2, <1>3 DEF CInv, IInv, CallKeepsToItsSectors, Plain, Unused
  <2> QED BY <1>2, <2>1 DEF CInv, IInv, CallKeepsToItsSectors, Running
<1>8. CheckTypeOK' /\ CheckKnows'
  BY <1>2, <1>4 DEF CInv, CheckTypeOK, CheckKnows
<1> QED BY <1>4, <1>6, <1>7, <1>8 DEF CInv, IInv

(* The repair of a bit: a sector in use is set, and one that is cleared    *)
(* belongs to nobody, because the check has entered all that are in use.   *)
LEMMA RepairBitKeeps ==
  ASSUME CInv, RepairBit
  PROVE  CInv'
<1> DEFINE s == Lowest(Mismatches)
<1>1. /\ check.pc = "bitfat" /\ op.pc = "idle"
      /\ UNCHANGED <<fat, mdfat, data, op, check, verdict>>
      /\ sb \in Superblock /\ bitfat \subseteq Sectors
      /\ check.field = UNION {Own(c) : c \in Clusters}
  BY DEF CInv, CheckTypeOK, CheckKnows, RepairBit, IInv, TypeOK
<1>2. s \in Mismatches
  <2>1. Mismatches \in SUBSET (DataStart .. DataEnd) /\ Mismatches # {}
    BY DEF Mismatches, Sectors, RepairBit
  <2>2. DataStart \in Int /\ DataEnd \in Int
    BY GeometryAssumption
  <2>3. Lowest(Mismatches) \in Mismatches
    BY <2>1, <2>2, LowestIsMember, Zenon
  <2> QED BY <2>3
<1>3. s \in Sectors /\ (s \in bitfat <=> s \notin check.field)
  BY <1>2 DEF Mismatches
<1>4. \/ /\ s \in bitfat /\ bitfat' = bitfat \ {s}
         /\ sb' = CountAfterClear(sb, bitfat, s)
      \/ /\ s \notin bitfat /\ bitfat' = bitfat \union {s}
         /\ sb' = CountAfterSet(sb, bitfat, s)
  BY DEF RepairBit
<1> HIDE DEF s
<1>5. sb' \in Superblock /\ bitfat' \subseteq Sectors
  <2>1. /\ CountAfterClear(sb, bitfat, s) \in Superblock
        /\ CountAfterSet(sb, bitfat, s) \in Superblock
    BY <1>1, CountsKeepTheType
  <2> QED BY <1>1, <1>3, <1>4, <2>1
<1>6. TypeOK'
  BY <1>1, <1>5 DEF CInv, IInv, TypeOK
<1>7. OwnMarked'
  <2> SUFFICES ASSUME NEW c \in Clusters PROVE Own(c) \subseteq bitfat'
    BY <1>1, SameEntries DEF OwnMarked
  <2>1. Own(c) \subseteq bitfat /\ Own(c) \subseteq check.field
    BY <1>1 DEF CInv, IInv, OwnMarked
  <2> QED BY <1>3, <1>4, <2>1
<1>8. OwnDisjoint'
  BY <1>1, SameEntries DEF CInv, IInv
<1>9. CallKeepsToItsSectors'
  BY <1>1 DEF CInv, IInv, CallKeepsToItsSectors, Plain, Running
<1>10. CheckTypeOK' /\ CheckKnows'
  <2>1. \A c \in Clusters : Own(c)' = Own(c) /\ (Dead(c)' <=> Dead(c))
    BY <1>1, SameEntries DEF Dead
  <2>2. UNION {Own(c) : c \in Clusters}' = UNION {Own(c) : c \in Clusters}
    BY <2>1
  <2> QED BY <1>1, <1>6, <2>1, <2>2 DEF CInv, CheckTypeOK, CheckKnows
<1> QED BY <1>6, <1>7, <1>8, <1>9, <1>10 DEF CInv, IInv

LEMMA BitfatDoneKeeps ==
  ASSUME CInv, BitfatDone
  PROVE  CInv'
<1>1. /\ UNCHANGED <<fat, mdfat, bitfat, data, op>>
      /\ \E v \in {"none", "ok", "failed"} : Return(v)
      /\ sb' = sb \/ sb' = [sb EXCEPT !.free = check.free]
  BY DEF BitfatDone, disk
<1>2. sb' \in Superblock
  <2>1. sb \in Superblock /\ check.free \in Int
    BY ChecksAreRecords DEF CInv, IInv, TypeOK, CheckRecords
  <2> QED BY <1>1, <2>1 DEF Superblock
<1>3. TypeOK'
  BY <1>1, <1>2 DEF CInv, IInv, TypeOK
<1>4. CallKeepsToItsSectors'
  BY <1>1, SameEntries
  DEF CInv, IInv, CallKeepsToItsSectors, Plain, Running, Run
<1>5. check' \in CheckRecords /\ verdict' \in {"none", "ok", "failed"}
      /\ check'.pc = "none"
  BY <1>1, NoCheckIsRecord DEF Return
<1>6. CheckTypeOK' /\ CheckKnows'
  BY <1>3, <1>5 DEF CheckTypeOK, CheckKnows, CheckRecords
<1> QED BY <1>1, <1>3, <1>4, <1>6, SameEntries DEF CInv, IInv, OwnMarked

LEMMA CheckNextKeeps ==
  ASSUME Version # "DRVSP3", CInv, [CheckNext]_checkVars
  PROVE  CInv'
<1>1. CASE CallRuns \/ Stop \/ Open
  BY <1>1, CallsKeep
<1>2. CASE \/ \E repair \in BOOLEAN : StartCheck(repair)
           \/ FatDone \/ MdfatDone \/ MdfatFails
  BY <1>2, LookingKeeps
<1>3. CASE RemoveDead
  BY <1>3, RemoveDeadKeeps
<1>4. CASE RepairBit
  BY <1>4, RepairBitKeeps
<1>5. CASE BitfatDone
  BY <1>5, BitfatDoneKeeps
<1>6. CASE UNCHANGED checkVars
  <2>1. UNCHANGED <<vars, check, verdict>>
    BY <1>6 DEF checkVars, vars
  <2>2. IInv' /\ \A c \in Clusters : Own(c)' = Own(c) /\ (Dead(c)' <=> Dead(c))
    BY <2>1, StutterKeeps, SameEntries DEF CInv, vars, Dead
  <2>3. UNION {Own(c) : c \in Clusters}' = UNION {Own(c) : c \in Clusters}
    BY <2>2
  <2> QED
    BY <2>1, <2>2, <2>3 DEF CInv, IInv, CheckTypeOK, CheckKnows, vars
<1> QED
  BY <1>1, <1>2, <1>3, <1>4, <1>5, <1>6 DEF CheckNext, CheckStep

---------------------------------------------------------------------------
(* Whatever calls, crashes, checks and interrupted repairs follow each     *)
(* other, the volume and what a check has gathered about it are sound.     *)
THEOREM ChecksAreSafe ==
  ASSUME Version # "DRVSP3"
  PROVE  CheckSpec => []CInv
<1>1. CInv /\ [CheckNext]_checkVars => CInv'
  BY CheckNextKeeps
<1> QED BY <1>1, CheckInitKeeps, PTL DEF CheckSpec

(* The repair changes nothing a stored cluster is stored in, at any of its *)
(* steps: used sectors stay marked ...                                     *)
THEOREM RepairKeepsSectorsMarked ==
  ASSUME Version # "DRVSP3"
  PROVE  CheckSpec => []UsedMarked
<1>1. CInv => UsedMarked
  BY PlainView DEF CInv, IInv
<1> QED BY <1>1, ChecksAreSafe, PTL

(* ... and belong to one cluster.                                          *)
THEOREM RepairMakesNoCrosslink ==
  ASSUME Version # "DRVSP3"
  PROVE  CheckSpec => []NoCrosslink
<1>1. CInv => NoCrosslink
  BY PlainView DEF CInv, IInv
<1> QED BY <1>1, ChecksAreSafe, PTL

(* A check that may repair is never refused by what calls, crashes and     *)
(* earlier repairs have left behind.                                       *)
THEOREM RepairAlwaysSucceeds ==
  ASSUME Version # "DRVSP3"
  PROVE  CheckSpec => RepairSucceeds
<1>1. CInv /\ [CheckNext]_checkVars =>
        [check.pc # "none" /\ check.repair => verdict' # "failed"]_checkVars
  <2> SUFFICES ASSUME CInv, CheckNext, check.pc # "none", check.repair
               PROVE  verdict' # "failed"
    OBVIOUS
  <2>1. verdict = "none" /\ op.pc = "idle"
    BY DEF CInv, CheckKnows, CheckTypeOK
  <2>2. ~MdfatFails
    BY NothingIrreparable DEF CInv, MdfatFails
  <2>3. CASE CallRuns \/ Stop \/ Open
    BY <2>1, <2>3 DEF CallRuns, Stop, Open, Return
  <2>4. CASE \E repair \in BOOLEAN : StartCheck(repair)
    BY <2>4 DEF StartCheck
  <2>5. CASE RemoveDead \/ MdfatDone \/ RepairBit
    BY <2>1, <2>5 DEF RemoveDead, MdfatDone, RepairBit
  <2>6. CASE FatDone \/ BitfatDone
    BY <2>1, <2>6 DEF FatDone, BitfatDone, Return
  <2> QED BY <2>2, <2>3, <2>4, <2>5, <2>6 DEF CheckNext, CheckStep
<1> QED BY <1>1, ChecksAreSafe, PTL DEF RepairSucceeds, CheckSpec

(* A check that returns 0 leaves FAT, MDFAT and BITFAT that agree: marked  *)
(* is what the clusters of the FAT are stored in, and nothing else.        *)
THEOREM SuccessIsConsistency ==
  ASSUME Version # "DRVSP3"
  PROVE  CheckSpec => SuccessMeansConsistent
<1> DEFINE Returns == check.pc # "none" /\ check'.pc = "none" /\ verdict' = "ok"
           Agree ==
             /\ bitfat' = UNION {SectorsOf(mdfat[c])' : c \in fat}
             /\ \A c \in Clusters : mdfat'[c].used =>
                  c \in fat /\ (mdfat'[c].frag => IsList(data'[mdfat'[c].sector]))
             /\ \A c, d \in Clusters :
                  c # d => SectorsOf(mdfat[c])' \intersect SectorsOf(mdfat[d])' = {}
<1>1. CInv /\ [CheckNext]_checkVars => [Returns => Agree]_checkVars
  <2> SUFFICES ASSUME CInv, CheckNext, Returns PROVE Agree
    OBVIOUS
  <2>1. BitfatDone
    <3>1. ~CallRuns /\ ~Open
      BY DEF CallRuns, Open, Mount, CInv, CheckTypeOK
    <3>2. ~Stop /\ ~MdfatFails /\ \A repair \in BOOLEAN : ~StartCheck(repair)
      BY DEF Stop, MdfatFails, StartCheck, Return
    <3>3. ~RemoveDead /\ ~RepairBit
      BY DEF RemoveDead, RepairBit
    <3>4. ~FatDone /\ ~MdfatDone
      <4>1. check \in CheckRecords
        BY ChecksAreRecords DEF CInv
      <4> QED BY <4>1 DEF FatDone, MdfatDone, CheckRecords, Return
    <3> QED BY <3>1, <3>2, <3>3, <3>4 DEF CheckNext, CheckStep
  <2>2. /\ Mismatches = {} /\ UNCHANGED <<fat, mdfat, bitfat, data>>
        /\ check.field = UNION {Own(c) : c \in Clusters}
        /\ \A c \in Clusters : ~Dead(c)
        /\ fat \subseteq Clusters /\ bitfat \subseteq Sectors
    BY <2>1 DEF BitfatDone, Return, disk, CInv, CheckKnows, IInv, TypeOK
  <2>3. /\ \A c \in Clusters : SectorsOf(mdfat[c]) = Own(c) /\ ~mdfat[c].frag
        /\ \A c \in Clusters : SectorsOf(mdfat[c])' = Own(c)
    <3>1. \A c \in Clusters : SectorsOf(mdfat[c]) = Own(c) /\ ~mdfat[c].frag
      BY NothingIrreparable DEF CInv
    <3>2. \A c \in Clusters : SectorsOf(mdfat[c])' = SectorsOf(mdfat[c])
      BY <2>2 DEF SectorsOf, Extent, ListFits
    <3> QED BY <3>1, <3>2
  <2>4. bitfat = check.field
    <3>1. check.field \subseteq Sectors
      BY <2>2 DEF CInv, IInv, OwnMarked
    <3> QED BY <2>2, <3>1 DEF Mismatches
  <2>5. check.field = UNION {Own(c) : c \in fat}
    <3>1. \A c \in Clusters : c \notin fat => Own(c) = {}
      BY <2>2 DEF Dead, Own
    <3> QED BY <2>2, <3>1
  <2>6. UNION {SectorsOf(mdfat[c])' : c \in fat} = UNION {Own(c) : c \in fat}
    BY <2>2, <2>3
  <2>7. \A c \in Clusters : mdfat'[c].used => c \in fat /\ ~mdfat'[c].frag
    BY <2>2, <2>3 DEF Dead
  <2>8. \A c, d \in Clusters :
          c # d => SectorsOf(mdfat[c])' \intersect SectorsOf(mdfat[d])' = {}
    BY <2>3 DEF CInv, IInv, OwnDisjoint
  <2> QED BY <2>2, <2>4, <2>5, <2>6, <2>7, <2>8
<1> QED BY <1>1, ChecksAreSafe, PTL DEF SuccessMeansConsistent, CheckSpec

---------------------------------------------------------------------------
(* The volume as the store its callers see, while it is checked.           *)
BesideRepairs ==
  IF check.pc = "none" THEN Store!Next
  ELSE Store!CrashIdle \/
       (check.repair /\ \A c \in fat : ReadCluster(c)' = ReadCluster(c))

LEMMA CallsStayBeside ==
  ASSUME Version # "DRVSP3", CInv, SInv, CallRuns \/ Stop \/ Open
  PROVE  Progress' /\ Accounted' /\ (BesideRepairs \/ UNCHANGED Store!vars)
<1>1. Next
  BY DEF CallRuns, Stop, Open, Next
<1>2. Progress' /\ Accounted' /\ StoreStep
  BY <1>1, NextStores DEF SInv
<1>3. CASE check.pc = "none"
  BY <1>2, <1>3 DEF BesideRepairs, StoreStep
<1>4. CASE check.pc # "none"
  <2>1. op.pc = "idle"
    BY <1>4 DEF CInv, CheckTypeOK
  <2>2. Crash
    BY <1>4, <2>1 DEF CallRuns, Stop, Open, Mount
  <2> QED BY <1>2, <1>4, <2>1, <2>2, CrashStores DEF BesideRepairs
<1> QED BY <1>3, <1>4

(* The repair of an entry is the only step of a check that changes what a  *)
(* cluster reads, and not of one the FAT knows.                            *)
LEMMA RemoveDeadBeside ==
  ASSUME CInv, SInv, RemoveDead
  PROVE  Progress' /\ Accounted' /\ BesideRepairs
<1>1. PICK c \in Clusters : Dead(c) /\ mdfat' = [mdfat EXCEPT ![c] = Unused]
  BY DEF RemoveDead
<1>2. /\ check.pc = "fat" /\ check.repair /\ op.pc = "idle"
      /\ UNCHANGED <<fat, bitfat, data, op>> /\ fat \subseteq Clusters
      /\ mdfat \in [Clusters -> MdfatEntry]
  BY DEF CInv, CheckTypeOK, RemoveDead, IInv, TypeOK
<1>3. Progress' /\ Accounted'
  BY <1>1, <1>2 DEF SInv, Progress, Accounted, Unused
<1>4. ASSUME NEW d \in fat PROVE ReadCluster(d)' = ReadCluster(d)
  <2>1. mdfat'[d] = mdfat[d] /\ mdfat[d].frag = FALSE
    <3>1. d # c /\ d \in Clusters
      BY <1>1, <1>2, <1>4 DEF Dead
    <3> QED BY <1>1, <1>2, <3>1 DEF CInv, IInv, CallKeepsToItsSectors, Plain, MdfatEntry
  <2>2. /\ ReadCluster(d) = PlainReading(mdfat[d], data)
        /\ ReadCluster(d)' = PlainReading(mdfat'[d], data')
    BY <2>1, ReadsPlain, ReadsPlainNext
  <2> QED BY <1>2, <2>1, <2>2
<1> QED BY <1>2, <1>3, <1>4 DEF BesideRepairs

(* All other steps of a check change nothing that callers see.             *)
LEMMA LookingBeside ==
  ASSUME CInv, SInv, UNCHANGED <<mdfat, data, op>>,
         op.pc = "idle" \/ UNCHANGED bitfat
  PROVE  Progress' /\ Accounted' /\ UNCHANGED Store!vars
<1>1. CASE UNCHANGED bitfat
  BY <1>1, NoStepStores
<1>2. CASE op.pc = "idle"
  <2>1. Progress' /\ Accounted'
    BY <1>2 DEF SInv, Progress, Accounted
  <2>2. Busy' = Busy /\ Want' = Want /\ Answer' = Answer
    BY DEF Busy, Want, Answer, Running
  <2> QED BY <2>1, <2>2, NothingTouched, StoreStutters
<1> QED BY <1>1, <1>2

LEMMA CheckNextBeside ==
  ASSUME Version # "DRVSP3", CInv, SInv, [CheckNext]_checkVars
  PROVE  SInv' /\ (BesideRepairs \/ UNCHANGED Store!vars)
<1>1. IInv'
  BY CheckNextKeeps DEF CInv
<1>2. ASSUME CallRuns \/ Stop \/ Open
      PROVE  Progress' /\ Accounted' /\ (BesideRepairs \/ UNCHANGED Store!vars)
  BY <1>2, CallsStayBeside
<1>3. ASSUME RemoveDead PROVE Progress' /\ Accounted' /\ BesideRepairs
  BY <1>3, RemoveDeadBeside
<1>4. ASSUME \/ \E repair \in BOOLEAN : StartCheck(repair)
             \/ FatDone \/ MdfatDone \/ MdfatFails \/ RepairBit \/ BitfatDone
             \/ UNCHANGED checkVars
      PROVE  Progress' /\ Accounted' /\ UNCHANGED Store!vars
  <2>1. UNCHANGED <<mdfat, data, op>>
    BY <1>4 DEF StartCheck, FatDone, MdfatDone, MdfatFails, RepairBit, BitfatDone,
                checkVars, vars, disk
  <2>2. op.pc = "idle" \/ UNCHANGED bitfat
    BY <1>4 DEF StartCheck, FatDone, MdfatDone, MdfatFails, RepairBit, BitfatDone,
                checkVars, vars, disk, CInv, CheckTypeOK
  <2> QED BY <2>1, <2>2, LookingBeside
<1> QED BY <1>1, <1>2, <1>3, <1>4 DEF CheckNext, CheckStep, SInv

(* The volume implements the store of clusters also while it is checked and *)
(* repaired, and when the machine stops half-way through a repair: a check *)
(* changes nothing a caller sees, a repair only clusters the FAT does not  *)
(* know.                                                                   *)
THEOREM CheckedVolumeIsStore ==
  ASSUME Version # "DRVSP3"
  PROVE  CheckSpec => StoreBesideRepairs
<1>1. CheckInit => SInv /\ Store!Init
  BY InitStores DEF CheckInit
<1>2. CInv /\ SInv /\ [CheckNext]_checkVars => SInv' /\ [BesideRepairs]_(Store!vars)
  BY CheckNextBeside
<1> QED BY <1>1, <1>2, ChecksAreSafe, PTL DEF CheckSpec, StoreBesideRepairs, BesideRepairs
=============================================================================
