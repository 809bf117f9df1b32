----------------------------- MODULE StacVolume -----------------------------
(***************************************************************************)
(* A Stacker 3 or 4 volume at work: writing and deleting clusters          *)
(* (stac_write_cluster, stac_replace_existing_cluster, stac_special_free), *)
(* mounting and unmounting, and stac_simple_check, one disk write at a     *)
(* time, as libdmsdos carries them out.  The driver itself neither         *)
(* fragments nor suballocates clusters; the volumes it is given do.        *)
(***************************************************************************)
EXTENDS StacWalk, Functions

CONSTANTS
  Volumes,    \* [mdfat, data] of the volumes DOS leaves to the driver
  NearHints,  \* near_sector arguments callers give, 0 for "none"
  IoErrors,   \* whether raw_getblk and raw_bread may fail in the data area
  Crashes,    \* whether the machine may stop
  None

ASSUME CallAssumption ==
  /\ NearHints \subseteq Nat /\ {IoErrors, Crashes} \subseteq BOOLEAN
  /\ None \notin Clusters \union Payloads

(* What a sector may be to a cluster it shares with others: the one it     *)
(* begins in as a suballocated cluster, or the one it ends in.             *)
BeginsIn(e, s) == Kind(e) = "suballocated" /\ s = e.sector
EndsIn(D, e, s) == ~BeginsIn(e, s) /\ s = SectorList(D, e)[Len(SectorList(D, e))]
MayShare(D, e, f, s) ==
  \/ BeginsIn(e, s) /\ EndsIn(D, f, s)
  \/ BeginsIn(f, s) /\ EndsIn(D, e, s)
  \/ BeginsIn(e, s) /\ BeginsIn(f, s) /\ ~(e.size = 1 <=> f.size = 1)

(* What an interrupted replacement leaves (see NoSpace).                   *)
LostEntry == [sector |-> 1, size |-> 1, flags |-> {}]

UnitOK(x) ==
  /\ x[1] = "list" => x[2] \in Seq(Sectors) \ {<<>>}
  /\ x[1] = "trailer" => x[2] \in Trailers

(* Volumes as Stacker lays them out: the lists of fragments are where the  *)
(* entries say they are and name no sector twice; the last sector of a     *)
(* cluster may be the first one of suballocated clusters (Stacker 4).      *)
Arranged(D) ==
  /\ D.mdfat \in [Clusters -> MdfatEntry]
  /\ D.data = [s \in Media |-> [u \in 0 .. SectorSize - 1 |-> D.data[s][u]]]
  /\ \A s \in Media, u \in 0 .. SectorSize - 1 : UnitOK(D.data[s][u])
  /\ \A c \in Clusters : D.mdfat[c] # LostEntry =>
       ~Unwalkable(D, D.mdfat[c]) /\ SectorsOf(D, D.mdfat[c]) \subseteq Sectors
  /\ \A c \in Clusters : IsUsed(D.mdfat[c]) =>
       IsInjective(SectorList(D, D.mdfat[c]))
  /\ \A c, d \in Clusters : c # d =>
       \A s \in Sectors \intersect SectorsOf(D, D.mdfat[c])
                        \intersect SectorsOf(D, D.mdfat[d]) :
         Version = "STAC4" /\ MayShare(D, D.mdfat[c], D.mdfat[d], s)

ASSUME VolumeAssumption == \A v \in Volumes : Arranged(v)

VARIABLES
  mdfat,  \* MDFAT entry of every cluster
  bitfat, \* BITFAT counter of every sector of the data area
  data,   \* what the units of every sector hold
  state,  \* BITFAT state: "clean", "dirty" or "bad" (1, 2, 3 in the code)
  sb,     \* s_free_sectors, s_full, s_lastnear, s_lastbig
  op      \* the running call, or the result of the last one

Disk == [mdfat |-> mdfat, bitfat |-> bitfat, data |-> data]
disk == <<mdfat, bitfat, data, state>>
vars == <<mdfat, bitfat, data, state, sb, op>>

(* old: the entry before the call; todo: sectors whose counters are next;  *)
(* parts: the parts of the cluster still to be written.                    *)
Idle == [pc |-> "idle", cl |-> None, val |-> None, len |-> 0, plain |-> FALSE,
         near |-> 0, old |-> FreeEntry, sector |-> 0, todo |-> <<>>,
         parts |-> <<>>, res |-> "none"]

Running == op.pc \notin {"idle", "down"}
Finish(code) == op' = [Idle EXCEPT !.res = code]

Marked == {s \in Sectors : bitfat[s] # 0}
FreeCount == Cardinality(Sectors \ Marked)
InSectors(n) == (n + SectorSize - 1) \div SectorSize

(* Writing a counter keeps s_free_sectors in step.                         *)
SetCounter(s, n) ==
  /\ bitfat' = [bitfat EXCEPT ![s] = n]
  /\ sb' = [sb EXCEPT !.free = IF bitfat[s] = 0 /\ n # 0 THEN @ - 1
                               ELSE IF bitfat[s] # 0 /\ n = 0 THEN @ + 1 ELSE @]

(* stac_bitfat_state: a bad state is left only by force (0x10).            *)
SetState(new, forced) == state' = IF state = "bad" /\ ~forced THEN state ELSE new

---------------------------------------------------------------------------
(* check_free_sectors, at the head of dmsdos_write_cluster, recounts every *)
(* 1000 calls.                                                             *)
CheckFreeSectors == sb' \in {sb, [sb EXCEPT !.free = FreeCount]}

DeleteCluster(c) ==
  /\ op.pc = "idle"
  /\ op' = [Idle EXCEPT !.pc = "erase", !.cl = c, !.old = mdfat[c]]
  /\ CheckFreeSectors
  /\ UNCHANGED disk

(* The data of a write fit the place the cluster has if it was stored the  *)
(* same way in as many sectors.                                            *)
FitsInPlace(c, len, plain) ==
  LET w == Walk(Disk, c, 3)
  IN  /\ IsUsed(mdfat[c]) /\ "deleted" \notin mdfat[c].flags
      /\ w.units >= len /\ w.units < len + SectorSize
      /\ w.compressed <=> ~plain

(* stac_write_cluster with data, up to its first disk write.  Data are     *)
(* stored uncompressed on demand or when compression gains nothing.        *)
WriteCluster(c, v) ==
  /\ op.pc = "idle"
  /\ \E len \in CompressedLengths[v] \union {Length[v]}, near \in NearHints :
       LET plain == len = Length[v]
           call == [Idle EXCEPT !.cl = c, !.val = v, !.len = len, !.plain = plain,
                                !.near = near, !.old = mdfat[c]]
           w == Walk(Disk, c, 3)
       IN  IF w.error THEN Finish("ioerror")
           ELSE IF FitsInPlace(c, len, plain)
             THEN op' = [call EXCEPT !.pc = "data", !.parts = w.parts, !.res = "ok"]
           ELSE op' = [call EXCEPT !.pc = IF IsUsed(mdfat[c]) THEN "erase" ELSE "alloc"]
  /\ CheckFreeSectors
  /\ UNCHANGED disk

(* A list or a trailer cannot be read.                                     *)
WalkFails(c) ==
  /\ IoErrors /\ op.pc = "idle"
  /\ IsUsed(mdfat[c])
  /\ \/ Kind(mdfat[c]) \in {"fragmented", "suballocated"}
     \/ Version = "STAC4" /\ SharedTail(Disk, c, mdfat[c].sector + mdfat[c].size - 1)
  /\ Finish("ioerror")
  /\ CheckFreeSectors
  /\ UNCHANGED disk

---------------------------------------------------------------------------
(* stac_special_free: the entry is cleared, the cluster's part of a shared *)
(* first sector is marked as not present, the counters are decremented.    *)
(* Nothing is done if the list of a fragmented cluster cannot be used.     *)
AfterFree == IF op.val = None THEN Finish("ok")
             ELSE op' = [op EXCEPT !.pc = "alloc", !.todo = <<>>]

(* Mutant: the entry stays while its counters are decremented.             *)
EraseNothing ==
  /\ op.pc = "erase" /\ IsUsed(op.old) /\ ~Unwalkable(Disk, op.old)
  /\ op' = [op EXCEPT !.pc = IF Kind(op.old) = "suballocated" THEN "flag" ELSE "drop",
                      !.todo = SectorList(Disk, op.old)]
  /\ UNCHANGED <<disk, sb>>

EraseEntry ==
  /\ op.pc = "erase" /\ IsUsed(op.old) /\ ~Unwalkable(Disk, op.old)
  /\ mdfat' = [mdfat EXCEPT ![op.cl] = FreeEntry]
  /\ op' = [op EXCEPT !.pc = IF Kind(op.old) = "suballocated" THEN "flag" ELSE "drop",
                      !.todo = SectorList(Disk, op.old)]
  /\ UNCHANGED <<bitfat, data, state, sb>>

NothingToErase ==
  /\ op.pc = "erase"
  /\ \/ ~IsUsed(op.old) \/ Unwalkable(Disk, op.old)
     \/ IoErrors /\ Kind(op.old) = "fragmented"
  /\ AfterFree
  /\ UNCHANGED <<disk, sb>>

FlagAbsent ==
  LET s == op.old.sector
      t == TrailerOf(Disk, s)
      gone == IF op.old.size = 1 THEN [t EXCEPT !.shortGone = TRUE]
              ELSE [t EXCEPT !.longGone = TRUE]
  IN  /\ op.pc = "flag"
      /\ \/ HasTrailer(Disk, s) /\ data' = [data EXCEPT ![s][SectorSize - 1] = Trailer(gone)]
         \/ (IoErrors \/ ~HasTrailer(Disk, s)) /\ UNCHANGED data
      /\ op' = [op EXCEPT !.pc = "drop"]
      /\ UNCHANGED <<mdfat, bitfat, state, sb>>

(* Mutant: a shared sector is given up by the first cluster that goes.     *)
DropToZero ==
  /\ op.pc = "drop"
  /\ LET s == op.todo[1]
     IN  IF Counter(Disk, s) > 0 THEN SetCounter(s, 0) ELSE UNCHANGED <<bitfat, sb>>
  /\ IF Len(op.todo) = 1 THEN AfterFree ELSE op' = [op EXCEPT !.todo = Tail(@)]
  /\ UNCHANGED <<mdfat, data, state>>

(* Mutant: the counter of a shared sector is not decremented.              *)
DropUnshared ==
  /\ op.pc = "drop"
  /\ LET s == op.todo[1]
     IN  IF Counter(Disk, s) = 1 THEN SetCounter(s, 0) ELSE UNCHANGED <<bitfat, sb>>
  /\ IF Len(op.todo) = 1 THEN AfterFree ELSE op' = [op EXCEPT !.todo = Tail(@)]
  /\ UNCHANGED <<mdfat, data, state>>
DropSector ==
  /\ op.pc = "drop"
  /\ LET s == op.todo[1]
     IN  IF Counter(Disk, s) > 0
         THEN /\ bitfat' = [bitfat EXCEPT ![s] = @ - 1]
              /\ sb' = [sb EXCEPT !.full = 0,
                          !.free = IF bitfat[s] = 1 THEN @ + 1 ELSE @]
         ELSE UNCHANGED <<bitfat, sb>>
  /\ IF Len(op.todo) = 1 THEN AfterFree ELSE op' = [op EXCEPT !.todo = Tail(@)]
  /\ UNCHANGED <<mdfat, data, state>>

---------------------------------------------------------------------------
(* stac_replace_existing_cluster, from find_free_bitfat on.  There is no   *)
(* undo: when no space is found for a cluster that had an entry, the entry *)
(* is written with a "sector minus 1" of 0, where a free one has -1.       *)
Search == FindFreeBitfat(Marked, sb, op.near, InSectors(op.len))
NoSpace ==
  /\ op.pc = "alloc" /\ Search.sector <= 0
  /\ sb' = Search.sb
  /\ mdfat' = IF IsUsed(op.old) THEN [mdfat EXCEPT ![op.cl] = LostEntry] ELSE mdfat
  /\ Finish("nospace")
  /\ UNCHANGED <<bitfat, data, state>>

AllocateRun ==
  /\ op.pc = "alloc" /\ Search.sector > 0
  /\ Hole(Marked, Search.sector, InSectors(op.len))
  /\ sb' = Search.sb
  /\ op' = [op EXCEPT !.pc = "mark", !.sector = Search.sector,
              !.todo = [i \in 1 .. InSectors(op.len) |-> Search.sector + i - 1]]
  /\ UNCHANGED disk

MarkSector ==
  /\ op.pc = "mark"
  /\ SetCounter(op.todo[1], 1)
  /\ op' = [op EXCEPT !.pc = IF Len(op.todo) = 1 THEN "entry" ELSE "mark",
                      !.todo = Tail(op.todo)]
  /\ UNCHANGED <<mdfat, data, state>>

NewEntry ==
  [sector |-> op.sector, size |-> InSectors(op.len),
   flags |-> IF op.plain /\ InSectors(op.len) # SectPerClust THEN {"raw"} ELSE {}]

(* stac_write_cluster walks the new sectors once more.                     *)
WriteEntry ==
  /\ op.pc = "entry"
  /\ mdfat' = [mdfat EXCEPT ![op.cl] = NewEntry]
  /\ LET w == Walk([Disk EXCEPT !.mdfat[op.cl] = NewEntry], op.cl, 3)
     IN  IF w.error \/ w.units < op.len THEN Finish("ioerror")
         ELSE op' = [op EXCEPT !.pc = "data", !.parts = w.parts, !.res = "ok"]
  /\ UNCHANGED <<bitfat, data, state, sb>>

---------------------------------------------------------------------------
(* The data of the next sector; what the cluster has left is filled with   *)
(* zeros.  The other units of the sector stay as they are.                 *)
(* Mutants: the sector is filled to its end; each one gets the first data. *)
WithPartUnshifted(s, p) ==
  [u \in 0 .. SectorSize - 1 |->
     IF ~InPart(p, u) THEN data[s][u] ELSE Piece(op.val, op.len, u + 1)]
WithPartWhole(s, p) ==
  [u \in 0 .. SectorSize - 1 |->
     IF u < p.from THEN data[s][u]
     ELSE IF Place(p, u) <= op.len THEN Piece(op.val, op.len, Place(p, u))
     ELSE Scrap]
WithPart(s, p) ==
  [u \in 0 .. SectorSize - 1 |->
     IF ~InPart(p, u) THEN data[s][u]
     ELSE IF Place(p, u) <= op.len THEN Piece(op.val, op.len, Place(p, u))
     ELSE Scrap]

NextPart(res) ==
  IF Len(op.parts) = 1 THEN Finish(res)
  ELSE op' = [op EXCEPT !.parts = Tail(@), !.res = res]

(* For an uncompressed write clusterk is NULL: the assertion before the    *)
(* first copy of data ends the program.                                    *)
Asserted == op.plain /\ op.parts[1].at < op.len

WriteSector ==
  /\ op.pc = "data" /\ ~Asserted
  /\ data' = [data EXCEPT ![op.parts[1].s] = WithPart(op.parts[1].s, op.parts[1])]
  /\ NextPart(op.res)
  /\ UNCHANGED <<mdfat, bitfat, state, sb>>

SectorFails ==
  /\ IoErrors /\ op.pc = "data"
  /\ NextPart("ioerror")
  /\ UNCHANGED <<disk, sb>>

(* Memory is lost when the process ends.                                   *)
Unmounted == [free |-> -1, full |-> 0, lastnear |-> 0, lastbig |-> 0]
Halt(why) == /\ op' = [Idle EXCEPT !.pc = "down", !.res = why]
             /\ sb' = Unmounted

AssertFails ==
  /\ op.pc = "data" /\ Asserted
  /\ Halt("aborted")
  /\ UNCHANGED disk

---------------------------------------------------------------------------
(* mount_stacker as libdmsdos calls it ("nocheck"), and unmount_dblspace.  *)
Mount ==
  /\ op.pc = "down"
  /\ op' = Idle
  /\ sb' = [Unmounted EXCEPT !.free = FreeCount]
  /\ SetState("dirty", FALSE)
  /\ UNCHANGED <<mdfat, bitfat, data>>

Unmount ==
  /\ op.pc = "idle"
  /\ SetState("clean", FALSE)
  /\ Halt("none")
  /\ UNCHANGED <<mdfat, bitfat, data>>

Crash == /\ Crashes /\ op.pc # "down"
         /\ Halt("none")
         /\ UNCHANGED disk

---------------------------------------------------------------------------
(* stac_simple_check.  A sector may be used by two clusters only where one *)
(* of them is suballocated or ends.                                        *)
Users(D, s) == {c \in Clusters : s \in SectorsOf(D, D.mdfat[c])}
Last(e) == SectorList(Disk, e)[Len(SectorList(Disk, e))]

CountUsers(D, s) == Cardinality(Users(D, s))

Irreparable ==
  \/ \E c \in Clusters : \/ Unwalkable(Disk, mdfat[c])
                         \/ ~ SectorsOf(Disk, mdfat[c]) \subseteq Sectors
  \/ \E c \in Clusters : \E d \in 2 .. (c - 1) :
       \E s \in SectorsOf(Disk, mdfat[c]) \intersect SectorsOf(Disk, mdfat[d]) :
         \/ Version = "STAC3"
         \/ Kind(mdfat[c]) # "suballocated" /\ s # Last(mdfat[c])

Mismatches == {s \in Sectors : bitfat[s] # CountUsers(Disk, s)}
UnusedSectors == Cardinality({s \in Sectors : CountUsers(Disk, s) = 0})

CheckRefuses ==
  /\ op.pc = "idle"
  /\ Irreparable \/ (IoErrors /\ \E c \in Clusters : Kind(mdfat[c]) = "fragmented")
  /\ Finish("invalid")
  /\ state' \in {state, "dirty"} /\ (state = "clean" => state' = state)
  /\ UNCHANGED <<mdfat, bitfat, data, sb>>

(* Mutant: mismatches are passed over.                                     *)
CheckPassesAnyway ==
  /\ op.pc = "idle" /\ ~Irreparable
  /\ Finish("consistent")
  /\ UNCHANGED <<disk, sb>>
CheckPasses ==
  /\ op.pc = "idle" /\ ~Irreparable /\ Mismatches = {}
  /\ Finish("consistent")
  /\ state' \in {state, "dirty"} /\ (state = "clean" => state' = state)
  /\ sb' = [sb EXCEPT !.free = UnusedSectors]
  /\ UNCHANGED <<mdfat, bitfat, data>>

(* A check that may repair a volume with mismatches marks it dirty by      *)
(* force and then corrects one counter after the other.                    *)
StartRepair ==
  /\ op.pc = "idle" /\ ~Irreparable /\ Mismatches # {}
  /\ SetState("dirty", TRUE)
  /\ op' = [Idle EXCEPT !.pc = "repair"]
  /\ UNCHANGED <<mdfat, bitfat, data, sb>>

RepairSector ==
  /\ op.pc = "repair"
  /\ LET wrong == Mismatches
         s == Lowest(wrong)
     IN  IF wrong = {s}
         THEN /\ bitfat' = [bitfat EXCEPT ![s] = CountUsers(Disk, s)]
              /\ sb' = [sb EXCEPT !.free = UnusedSectors]
              /\ Finish("consistent")
         ELSE SetCounter(s, CountUsers(Disk, s)) /\ UNCHANGED op
  /\ UNCHANGED <<mdfat, data, state>>

---------------------------------------------------------------------------
Init ==
  /\ \E v \in Volumes : /\ mdfat = v.mdfat /\ data = v.data
                        /\ bitfat = [s \in Sectors |-> CountUsers(v, s)]
  /\ state = "clean" /\ sb = Unmounted
  /\ op = [Idle EXCEPT !.pc = "down"]

Step == \/ EraseEntry \/ NothingToErase \/ FlagAbsent \/ DropSector
        \/ NoSpace \/ AllocateRun \/ MarkSector \/ WriteEntry
        \/ WriteSector \/ SectorFails \/ AssertFails

Request == \/ \E c \in Clusters : DeleteCluster(c) \/ WalkFails(c)
           \/ \E c \in Clusters, v \in Payloads : WriteCluster(c, v)

Check == CheckRefuses \/ CheckPasses \/ StartRepair \/ RepairSector

Next == Request \/ Step \/ Check \/ Mount \/ Unmount \/ Crash

Spec == Init /\ [][Next]_vars

---------------------------------------------------------------------------
Outcomes == {"none", "ok", "nospace", "ioerror", "aborted", "invalid", "consistent"}

TypeOK ==
  /\ mdfat \in [Clusters -> MdfatEntry]
  /\ bitfat \in [Sectors -> 0 .. 3]
  /\ DOMAIN data = Media
  /\ state \in {"clean", "dirty", "bad"}
  /\ sb \in Superblock
  /\ op.res \in Outcomes /\ op.old \in MdfatEntry /\ op.len \in 0 .. ClusterUnits

(* A counter is never below the number of clusters that use the sector,    *)
(* also half-way through every call, deletion and repair and after every   *)
(* crash: a sector whose counter gets to zero is given away.               *)
UsersCounted == \A s \in Sectors : CountUsers(Disk, s) <= bitfat[s]

(* Two clusters never have a unit of the disk in common, although they may *)
(* have sectors in common and where one ends in such a sector depends on   *)
(* counters that change when another cluster goes.                         *)
AreasDisjoint ==
  \A c, d \in Clusters : c < d =>
    LET ofC == Range(Walk(Disk, c, 2).parts)
        ofD == Range(Walk(Disk, d, 2).parts)
    IN  \A p \in ofC, q \in ofD :
          p.s = q.s => p.s = 1 \/ p.to <= q.from \/ q.to <= p.from

(* s_free_sectors is the number of counters that are zero for as long as   *)
(* the volume is mounted, through sharing and repair.                      *)
FreeCountExact == op.pc # "down" => sb.free = FreeCount

(* Whatever a call, a crash or a repair does to the cluster it is about    *)
(* and to the sectors it shares, all other clusters of the data area read  *)
(* as before.                                                              *)
OthersUntouched ==
  [][\A c \in Clusters \ {op.cl} : mdfat[c] # LostEntry =>
       ReadCluster(Disk', c) = ReadCluster(Disk, c)]_<<mdfat, bitfat, data>>

(* A write reported as successful can be read back, in place, next to      *)
(* other clusters in the sector, in fragments or elsewhere.                *)
WrittenReadsBack ==
  [][\A c \in Clusters :
       c = op.cl /\ op.pc = "data" /\ op'.pc = "idle" /\ op'.res = "ok" =>
         ReadCluster(Disk', c) = op.val]_vars

(* The walks agree with themselves: the units they come by are as many as  *)
(* "bytes_in_clust" promises ("internal cw error" otherwise).              *)
WalksAddUp ==
  \A c \in Clusters, flg \in {2, 3} :
    LET w == Walk(Disk, c, flg)
        Before(i) == IF i = 1 THEN 0
                     ELSE w.parts[i - 1].at + w.parts[i - 1].to - w.parts[i - 1].from
    IN  /\ \A i \in DOMAIN w.parts : w.parts[i].at = Before(i)
        /\ w.units = Before(Len(w.parts) + 1)

(* The volume's tables and the superblock are sound at every step: typed,  *)
(* with counters that cover all users, clusters that keep out of each      *)
(* other's units, walks that add up and an exact free count.               *)
LayoutSound ==
  TypeOK /\ UsersCounted /\ AreasDisjoint /\ WalksAddUp /\ FreeCountExact

(* Only a write that found no space leaves a volume that the check refuses *)
(* to repair; crashes and interrupted repairs do not.                      *)
OnlyLostIsIrreparable == Irreparable => \E c \in Clusters : mdfat[c] = LostEntry

(* A check that succeeds leaves counters that are exact.                   *)
SuccessMeansExact ==
  [][op'.res = "consistent" /\ op.res # "consistent" =>
       \A s \in Sectors : bitfat'[s] = CountUsers(Disk', s)]_vars

(* Counts the running call has yet to take back for a cluster whose entry  *)
(* is gone, or has taken for one whose entry is still to come.             *)
Owed(s) ==
  IF op.pc \in {"flag", "drop"} THEN Cardinality({i \in DOMAIN op.todo : op.todo[i] = s})
  ELSE IF op.pc \in {"mark", "entry"}
    THEN IF s \in (op.sector .. op.sector + InSectors(op.len) - 1) \ Range(op.todo)
           THEN 1 ELSE 0
  ELSE 0

Unaccounted == {s \in Sectors : bitfat[s] # CountUsers(Disk, s) + Owed(s)}

(* A volume that unmount_dblspace will "mark ... as up to date" is so: a   *)
(* call gives back every count it takes, step by step, also when data      *)
(* cannot be written, when no space is found and when it ends at the       *)
(* assertion.  Counters come to disagree with the entries only where a     *)
(* crash cuts a call short and where a write gives up fragments whose list *)
(* it could not read.                                                      *)
CallsAccount ==
  [][\/ op'.pc = "down" /\ \E s \in Sectors : Owed(s) > 0
     \/ op.pc \in {"alloc", "entry"} /\ IsUsed(mdfat[op.cl])
     \/ Unaccounted' \subseteq Unaccounted]_<<mdfat, bitfat, data, op.todo>>
=============================================================================
