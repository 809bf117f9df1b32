----------------------------- MODULE DblVolume -----------------------------
(***************************************************************************)
(* A DoubleSpace / DriveSpace / DriveSpace 3 volume at work: writing and   *)
(* deleting clusters (dbl_write_cluster, dbl_replace_existing_cluster,     *)
(* u_free_cluster_sectors, write_fragmented) one disk write at a time, as  *)
(* libdmsdos carries them out: raw_mark_buffer_dirty writes at once, so a  *)
(* crash between two steps leaves exactly the writes before it.            *)
(*                                                                         *)
(* On disk: FAT, MDFAT, BITFAT and the sectors of the data area.  In       *)
(* memory: the Dblsb counters and the locals of the one running call.      *)
(* Every file has one cluster, so the FAT is the set of allocated ones.    *)
(***************************************************************************)
EXTENDS BitfatSearch

CONSTANTS
  Clusters,         \* MDFAT slots 2 .. s_max_cluster2
  Payloads,         \* cluster contents
  Length,           \* sectors of a payload, uncompressed
  CompressedSizes,  \* numbers of sectors compression may get a payload down to
  NearHints,        \* near_sector arguments callers give, 0 for "none"
  NoFragWrite,      \* dmsdos_speedup & SP_NO_FRAG_WRITE
  IoErrors,         \* whether raw_getblk and raw_bread may fail in the data area
  Crashes,          \* whether the machine may stop
  Zeros, Damaged,   \* readings of an empty and of an unreadable cluster
  None

ASSUME FormatAssumption == Version \in {"DBLSP", "DRVSP", "DRVSP3"}

ASSUME PayloadAssumption ==
  /\ Length \in [Payloads -> 1 .. SectPerClust]
  /\ CompressedSizes \in [Payloads -> SUBSET Nat]
  /\ \A v \in Payloads : CompressedSizes[v] \subseteq 1 .. (Length[v] - 1)
  /\ NearHints \subseteq Nat
  /\ {NoFragWrite, IoErrors, Crashes} \subseteq BOOLEAN
  /\ Zeros \notin Payloads /\ Damaged \notin Payloads /\ Zeros # Damaged
  /\ None \notin Clusters \union Payloads

VARIABLES
  fat,     \* clusters allocated in the FAT
  mdfat,   \* MDFAT entry of every cluster
  bitfat,  \* sectors whose BITFAT bit is set
  data,    \* what every sector of the data area holds
  sb,      \* s_free_sectors, s_full, s_lastnear, s_lastbig
  op       \* the running call, or the result of the last one

disk == <<fat, mdfat, bitfat, data>>
vars == <<fat, mdfat, bitfat, data, sb, op>>

(* flags & 2, sector_minus_1 + 1, size_lo_minus_1 + 1, flags & 1, unknown & 2. *)
(* u_free_cluster_sectors leaves "unknown" uninitialised when it zeroes an   *)
(* entry; it is FALSE here, since all readers test flags & 2 before it.      *)
MdfatEntry == [used : BOOLEAN, sector : 0 .. DataEnd, size : 0 .. SectPerClust,
               plain : BOOLEAN, frag : BOOLEAN]
Unused == [used |-> FALSE, sector |-> 0, size |-> 0, plain |-> FALSE, frag |-> FALSE]

(* A sector holds the i-th of the k sectors a payload was stored in, a     *)
(* fragmentation list, or something else.                                  *)
Piece(v, k, i) == <<"piece", v, k, i>>
FragList(F) == <<"list", F>>
Scrap == <<"scrap">>
IsList(x) == x[1] = "list"

Idle == [pc |-> "idle", cl |-> None, val |-> None, size |-> 0, near |-> 0,
         sector |-> 0, target |-> {}, frag |-> FALSE, todo |-> {}, undo |-> {},
         res |-> "none"]

Running == op.pc \notin {"idle", "down"}
Finish(code) == op' = [Idle EXCEPT !.res = code]

---------------------------------------------------------------------------
(* The extent an MDFAT entry names, and all sectors its cluster is stored  *)
(* in: those of the fragmentation list in its first sector, if that list   *)
(* has a legal count and begins with the extent.                           *)
Extent(e) == e.sector .. (e.sector + e.size - 1)

ListFits(e, counts) ==
  /\ IsList(data[e.sector])
  /\ LET F == data[e.sector][2]
     IN  Fragments(F) \in counts /\ FirstFragment(F) = Extent(e)

SectorsOf(e) ==
  IF ~e.used THEN {}
  ELSE IF e.frag /\ ListFits(e, 1 .. SectPerClust) THEN data[e.sector][2]
  ELSE Extent(e)

(* Position in the payload of a sector of a stored cluster; the list of an *)
(* uncompressed fragmented cluster fills the first sector.                 *)
Place(s, sector, frag, sectors) ==
  IF frag THEN Cardinality({t \in sectors : t < s}) - 1 ELSE s - sector

(* dbl_read_cluster and read_fragments, which takes the first fragment     *)
(* from the entry and the others from the list.  A compressed payload      *)
(* never starts with a list of its own, so a fragmented compressed cluster *)
(* whose list was overwritten does not "look fragmented" and is an error.  *)
ReadCluster(c) ==
  LET e == mdfat[c]
      F == data[e.sector][2]
      fragmented == IsList(data[e.sector]) /\ Fragments(F) \in 1 .. SectPerClust
      all == IF e.frag THEN Extent(e) \union (F \ FirstFragment(F)) ELSE Extent(e)
      stored == IF e.frag THEN all \ {e.sector} ELSE all
      Holds(v, k) == /\ e.plain <=> k = Length[v]
                     /\ Cardinality(stored) = k
                     /\ \A s \in stored :
                          data[s] = Piece(v, k, Place(s, e.sector, e.frag, all))
      fits == {v \in Payloads : \E k \in CompressedSizes[v] \union {Length[v]} :
                                  Holds(v, k)}
  IN  IF ~e.used THEN Zeros
      ELSE IF e.frag /\ ~fragmented THEN Damaged
      ELSE IF fits = {} THEN Damaged
      ELSE CHOOSE v \in fits : TRUE

FreeCount == Cardinality(Sectors \ bitfat)

---------------------------------------------------------------------------
(* The caller allocates a cluster in the FAT before it first writes it.    *)
AllocateCluster(c) ==
  /\ op.pc = "idle" /\ c \notin fat
  /\ fat' = fat \union {c}
  /\ UNCHANGED <<mdfat, bitfat, data, sb, op>>

(* check_free_sectors, at the head of dmsdos_write_cluster, recounts every *)
(* 1000 calls.                                                             *)
CheckFreeSectors == sb' \in {sb, [sb EXCEPT !.free = FreeCount]}

(* The caller frees the cluster in the FAT, then dmsdos_write_cluster is   *)
(* called without data.                                                    *)
DeleteCluster(c) ==
  /\ op.pc = "idle" /\ c \in fat
  /\ fat' = fat \ {c}
  /\ CheckFreeSectors
  /\ op' = [Idle EXCEPT !.pc = "erase", !.cl = c]
  /\ UNCHANGED <<mdfat, bitfat, data>>

(* dmsdos_write_cluster with data: compression has settled on the number   *)
(* of sectors, all of them (Length) for an uncompressed write.  The next   *)
(* three disjuncts are the ways dbl_replace_existing_cluster can start.    *)
Call(c, v, size, near, pc, sector, target, frag) ==
  /\ op.pc = "idle" /\ c \in fat
  /\ CheckFreeSectors
  /\ op' = [Idle EXCEPT !.pc = pc, !.cl = c, !.val = v, !.size = size,
                        !.near = near, !.sector = sector, !.target = target,
                        !.frag = frag]
  /\ UNCHANGED disk

SameLength(e, size) ==
  e.used /\ e.size = size /\ (Version = "DRVSP3" => ~e.frag)

Refillable(e, size) ==
  /\ Version = "DRVSP3" /\ e.used /\ e.frag
  /\ ListFits(e, 2 .. (SectPerClust + 1))
  /\ Cardinality(data[e.sector][2]) - 1 = size

WriteInPlace(c, v, size, near) ==
  LET e == mdfat[c]
  IN  /\ SameLength(e, size)
      /\ Call(c, v, size, near, "mdfat", e.sector, Extent(e), FALSE)

WriteOverFragments(c, v, size, near) ==
  LET e == mdfat[c]
  IN  /\ Refillable(e, size)
      /\ Call(c, v, size, near, "mdfat", e.sector, data[e.sector][2], TRUE)

WriteElsewhere(c, v, size, near) ==
  LET e == mdfat[c]
  IN  /\ ~SameLength(e, size) /\ (Refillable(e, size) => IoErrors)
      /\ Call(c, v, size, near, IF e.used THEN "erase" ELSE "alloc", 0, {}, FALSE)

WriteCluster(c, v) ==
  \E size \in CompressedSizes[v] \union {Length[v]}, near \in NearHints :
    \/ WriteInPlace(c, v, size, near)
    \/ WriteOverFragments(c, v, size, near)
    \/ WriteElsewhere(c, v, size, near)

---------------------------------------------------------------------------
(* u_free_cluster_sectors frees only the extent of a fragmented cluster if *)
(* its list cannot be read.                                                *)
Freed(e) ==
  {SectorsOf(e)} \union (IF IoErrors /\ e.frag THEN {Extent(e)} ELSE {})

Erase(old, entry) ==
  /\ mdfat' = [mdfat EXCEPT ![op.cl] = entry]
  /\ IF old = {} THEN Finish("ok")
     ELSE op' = [op EXCEPT !.pc = "clear", !.todo = old, !.undo = old]
  /\ UNCHANGED <<fat, bitfat, data, sb>>

(* Mutants: the entry stays while its bits are cleared; only the first     *)
(* fragment is freed.                                                      *)
EraseNothing ==
  op.pc = "erase" /\ Erase(SectorsOf(mdfat[op.cl]), mdfat[op.cl])
EraseFirstFragment ==
  /\ op.pc = "erase"
  /\ Erase(IF mdfat[op.cl].used THEN Extent(mdfat[op.cl]) ELSE {}, Unused)

(* The MDFAT entry is zeroed first ...                                     *)
EraseEntry ==
  op.pc = "erase" /\ \E old \in Freed(mdfat[op.cl]) : Erase(old, Unused)

(* ... then the bits are cleared one by one.                               *)
ClearBit ==
  /\ op.pc = "clear"
  /\ \E s \in op.todo :
       LET left == op.todo \ {s}
           counted == CountAfterClear(sb, bitfat, s)
       IN  /\ \A t \in left : s < t
           /\ bitfat' = bitfat \ {s}
           /\ sb' = IF left = {} THEN [counted EXCEPT !.full = 0] ELSE counted
           /\ IF left # {} THEN op' = [op EXCEPT !.todo = left]
              ELSE IF op.val = None THEN Finish("ok")
              ELSE op' = [op EXCEPT !.pc = "alloc", !.todo = {}]
  /\ UNCHANGED <<fat, mdfat, data>>

---------------------------------------------------------------------------
(* Where find_free_bitfat puts the new data.  The sectors are checked once *)
(* more; a used one panics the machine, which shows here as a deadlock.    *)
Search == FindFreeBitfat(bitfat, sb, op.near, op.size)
Pieces == TryFragmented(bitfat, Search.sb, op.near, op.size + 1)
MayFragment == Version = "DRVSP3" /\ ~NoFragWrite

AllocateRun ==
  /\ op.pc = "alloc" /\ Search.sector > 0
  /\ Hole(bitfat, Search.sector, op.size)
  /\ LET run == Search.sector .. (Search.sector + op.size - 1)
     IN  op' = [op EXCEPT !.pc = "mark", !.sector = Search.sector,
                          !.target = run, !.todo = run]
  /\ sb' = Search.sb
  /\ UNCHANGED disk

AllocateFragments ==
  /\ op.pc = "alloc" /\ Search.sector <= 0
  /\ MayFragment /\ Pieces.error = 0
  /\ op' = [op EXCEPT !.pc = "mark", !.sector = Lowest(Pieces.list), !.frag = TRUE,
                      !.target = Pieces.list, !.todo = Pieces.list]
  /\ sb' = Pieces.sb
  /\ UNCHANGED disk

(* No space: the bits the call has cleared are set again, and only those.  *)
NoSpace ==
  /\ op.pc = "alloc" /\ Search.sector <= 0
  /\ MayFragment => Pieces.error # 0
  /\ sb' = IF MayFragment THEN Pieces.sb ELSE Search.sb
  /\ IF op.undo = {} THEN Finish("nospace")
     ELSE op' = [op EXCEPT !.pc = "undo", !.todo = op.undo]
  /\ UNCHANGED disk

(* Setting bits, to allocate ("mark") or to take the freeing back ("undo"). *)
SetBit ==
  /\ op.pc \in {"mark", "undo"}
  /\ \E s \in op.todo :
       LET left == op.todo \ {s}
       IN  /\ \A t \in left : s < t
           /\ bitfat' = bitfat \union {s}
           /\ sb' = CountAfterSet(sb, bitfat, s)
           /\ IF left # {} THEN op' = [op EXCEPT !.todo = left]
              ELSE IF op.pc = "undo" THEN Finish("nospace")
              ELSE op' = [op EXCEPT !.pc = "mdfat", !.todo = {}]
  /\ UNCHANGED <<fat, mdfat, data>>

(* Mutants: the size is stored without subtracting one; a compressed       *)
(* cluster is taken for an uncompressed one.                               *)
NewEntryOversize ==
  [used |-> TRUE, sector |-> op.sector, size |-> op.size + 1,
   plain |-> op.size = Length[op.val], frag |-> op.frag]
NewEntryPlain ==
  [used |-> TRUE, sector |-> op.sector, size |-> op.size, plain |-> TRUE,
   frag |-> op.frag]

NewEntry ==
  [used |-> TRUE, sector |-> op.sector,
   size |-> IF op.frag THEN Cardinality(FirstFragment(op.target)) ELSE op.size,
   plain |-> op.size = Length[op.val], frag |-> op.frag]

WriteEntry ==
  /\ op.pc = "mdfat"
  /\ mdfat' = [mdfat EXCEPT ![op.cl] = NewEntry]
  /\ op' = [op EXCEPT !.pc = "data", !.todo = op.target, !.res = "ok"]
  /\ UNCHANGED <<fat, bitfat, data, sb>>

---------------------------------------------------------------------------
(* What a data sector is given.  In the first sector of a fragmented       *)
(* cluster write_fragmented copies compressed data over the list it has    *)
(* just put there.                                                         *)
(* Mutant: the list never gets to the disk.                                *)
ImageWithoutList(s) ==
  IF ~op.frag \/ s # op.sector
    THEN Piece(op.val, op.size, Place(s, op.sector, op.frag, op.target))
  ELSE Scrap

Image(s) ==
  IF ~op.frag \/ s # op.sector
    THEN Piece(op.val, op.size, Place(s, op.sector, op.frag, op.target))
  ELSE IF op.size = Length[op.val] THEN FragList(op.target)
  ELSE Scrap

WriteSector ==
  /\ op.pc = "data"
  /\ \E s \in op.todo :
       LET left == op.todo \ {s}
       IN  /\ \A t \in left : s < t
           /\ data' = [data EXCEPT ![s] = Image(s)]
           /\ IF left = {} THEN Finish(op.res)
              ELSE op' = [op EXCEPT !.todo = left]
  /\ UNCHANGED <<fat, mdfat, bitfat, sb>>

(* raw_getblk fails: dbl_write_cluster skips the sector and goes on,       *)
(* write_fragmented gives up.                                              *)
SectorFails ==
  /\ IoErrors /\ op.pc = "data"
  /\ \E s \in op.todo :
       LET left == op.todo \ {s}
       IN  /\ \A t \in left : s < t
           /\ IF left = {} \/ op.frag THEN Finish("ioerror")
              ELSE op' = [op EXCEPT !.todo = left, !.res = "ioerror"]
  /\ UNCHANGED <<disk, sb>>

---------------------------------------------------------------------------
(* The machine stops, or the volume is unmounted; memory is lost.          *)
Unmounted == [free |-> -1, full |-> 0, lastnear |-> 0, lastbig |-> 0]

Halt ==
  /\ op' = [Idle EXCEPT !.pc = "down"]
  /\ sb' = Unmounted
  /\ UNCHANGED disk

Crash == Crashes /\ op.pc # "down" /\ Halt

(* The list to be reused is copied out of a buffer that raw_brelse has     *)
(* freed.  The bytes may still be there (WriteOverFragments); where the    *)
(* allocator has written over the buffer head, the process dies.           *)
FaultOnFreedList(c, v) ==
  /\ op.pc = "idle" /\ c \in fat
  /\ \E size \in CompressedSizes[v] \union {Length[v]} : Refillable(mdfat[c], size)
  /\ Halt

(* mount_dblspace as libdmsdos calls it: no check, the sectors counted.    *)
Mount ==
  /\ op.pc = "down"
  /\ op' = Idle
  /\ sb' = [Unmounted EXCEPT !.free = FreeCount]
  /\ UNCHANGED disk

Init ==
  /\ fat = {} /\ bitfat = {}
  /\ mdfat = [c \in Clusters |-> Unused]
  /\ data = [s \in Sectors |-> Scrap]
  /\ sb = [Unmounted EXCEPT !.free = Cardinality(Sectors)]
  /\ op = Idle

Step == \/ EraseEntry \/ ClearBit
        \/ AllocateRun \/ AllocateFragments \/ NoSpace \/ SetBit
        \/ WriteEntry \/ WriteSector \/ SectorFails

Request == \/ \E c \in Clusters : AllocateCluster(c) \/ DeleteCluster(c)
           \/ \E c \in Clusters, v \in Payloads : WriteCluster(c, v)

Fault == \E c \in Clusters, v \in Payloads : FaultOnFreedList(c, v)

Next == Request \/ Fault \/ Step \/ Crash \/ Mount

Spec == Init /\ [][Next]_vars

---------------------------------------------------------------------------
Calls ==
  [pc : {"idle", "erase", "clear", "alloc", "mark", "mdfat", "data", "undo", "down"},
   cl : Clusters \union {None}, val : Payloads \union {None},
   size : 0 .. SectPerClust, near : Nat, sector : 0 .. DataEnd,
   target : SUBSET Sectors, frag : BOOLEAN, todo : SUBSET Sectors,
   undo : SUBSET Sectors, res : {"none", "ok", "nospace", "ioerror"}]

TypeOK ==
  /\ fat \subseteq Clusters
  /\ mdfat \in [Clusters -> MdfatEntry]
  /\ bitfat \subseteq Sectors
  /\ DOMAIN data = Sectors
  /\ sb \in Superblock
  /\ op \in Calls

(* What a cluster is stored in.  The call that is writing a fragmented     *)
(* cluster knows its sectors before their list is on the disk; a crash     *)
(* then leaves whatever list the first sector held before.                 *)
Occupied(c) ==
  IF op.pc = "data" /\ op.frag /\ c = op.cl THEN op.target ELSE SectorsOf(mdfat[c])

(* Every sector a stored cluster occupies is marked in the BITFAT, also    *)
(* half-way through every call and after every crash: the search can never *)
(* give such a sector away.                                                *)
UsedMarked == \A c \in Clusters : Occupied(c) \subseteq bitfat

(* No sector belongs to two clusters ("MDFAT crosslink"), whatever writes, *)
(* deletions, failures and crashes came before.                            *)
NoCrosslink ==
  \A c, d \in Clusters :
    c # d => Occupied(c) \intersect Occupied(d) = {}

(* The layout the volume's tables describe is sound, fragmented clusters   *)
(* included: what a stored cluster occupies is marked and its own.         *)
LayoutSound == UsedMarked /\ NoCrosslink

(* s_free_sectors, adjusted bit by bit, is the number of clear bits for as *)
(* long as the volume is mounted; writes are refused by this counter.      *)
FreeCountExact == op.pc # "down" => sb.free = FreeCount

(* Sectors that are marked although no cluster and no running call has     *)
(* them: space nobody gives back before a repair.                          *)
Lost == bitfat \ ((UNION {Occupied(c) : c \in Clusters})
                    \union op.todo \union op.undo \union op.target)

(* Space is lost only by a crash and by a write that took a stored cluster *)
(* apart and then found no space; every other call, step by step and at    *)
(* its end, accounts for all sectors it has marked.                        *)
NoSilentLoss ==
  [][op'.pc = "down" \/ (op.undo # {} /\ op'.res = "nospace")
       \/ Lost' \subseteq Lost]_vars

(* What the running call relies on at each of its steps, in a volume       *)
(* without fragmented clusters: it frees and takes only sectors that no    *)
(* other cluster is stored in, sets all bits before the entry refers to    *)
(* them, and writes data only where its own entry points.                  *)
Plain == ~op.frag /\ \A c \in Clusters : ~mdfat[c].frag

Foreign(c) ==
  UNION {IF mdfat[d].used THEN Extent(mdfat[d]) ELSE {} : d \in Clusters \ {c}}

Run(x) == x.sector .. (x.sector + x.size - 1)

CallKeepsToItsSectors ==
  /\ Plain
  /\ Running => op.cl \in Clusters
  /\ op.pc \in {"alloc", "mark", "mdfat", "data"} => op.val # None
  /\ op.val # None => op.size \in 1 .. SectPerClust
  /\ op.pc \in {"clear", "alloc", "mark", "undo"} => ~mdfat[op.cl].used
  /\ op.pc = "clear" => op.todo \intersect Foreign(op.cl) = {}
  /\ op.pc \in {"mark", "mdfat"} =>
       /\ op.sector \in Sectors /\ op.target = Run(op)
       /\ op.target \intersect Foreign(op.cl) = {}
       /\ op.target \subseteq bitfat \union op.todo
       /\ op.pc = "mdfat" => op.todo = {}
  /\ op.pc = "data" => op.todo \subseteq Extent(mdfat[op.cl]) /\ mdfat[op.cl].used

(* The volume is the store of clusters its callers see: only the cluster a *)
(* call is about changes, also half-way and by crashes; a write reported   *)
(* as successful reads back; a deleted or refused cluster reads as zeros.  *)
Store == INSTANCE ClusterStore WITH
  content <- [c \in Clusters |-> ReadCluster(c)],
  busy <- IF Running THEN op.cl ELSE None,
  want <- IF Running /\ op.val # None THEN op.val ELSE Zeros,
  answer <- IF op.pc = "down" THEN "crashed" ELSE IF Running THEN "none" ELSE op.res

StoreSpec == Store!Spec

---------------------------------------------------------------------------
(* doc/cvfinfo.doc: "The first sector of the cluster contains a            *)
(* fragmentation list."  A compressed write (write_fragmented) does        *)
(* something else.                                                         *)
FragmentedBeginsWithList ==
  op.pc = "idle" =>
    \A c \in Clusters : mdfat[c].frag => IsList(data[mdfat[c].sector])
=============================================================================
