------------------------------ MODULE StacWalk ------------------------------
(***************************************************************************)
(* How the clusters of a Stacker volume lie on the disk, and the walk over *)
(* their sectors that every operation starts with: stac_cwalk_init and     *)
(* stac_cwalk_sector of src/src/dstacker_alloc.c.                          *)
(*                                                                         *)
(* Bytes are counted in units of which SectorSize make a sector.  A sector *)
(* that several clusters share ("suballocation") has a trailer in its last *)
(* unit; the list of a fragmented cluster takes the first unit of its      *)
(* first sector.                                                           *)
(***************************************************************************)
EXTENDS BitfatSearch, Sequences

CONSTANTS
  LastCluster,      \* s_max_cluster; clusters are numbered from 2
  SectorSize,       \* units of a sector
  Payloads,         \* cluster contents
  Length,           \* units of a payload, uncompressed
  CompressedLengths,\* numbers of units compression may get a payload down to
  Zeros, Damaged    \* readings of an empty and of an unreadable cluster

Clusters == 2 .. LastCluster
ClusterUnits == SectPerClust * SectorSize

ASSUME StacAssumption ==
  /\ Version \in {"STAC3", "STAC4"} /\ DataStart > 1
  /\ LastCluster \in Nat /\ SectorSize \in Nat /\ SectorSize > 2
  /\ Length \in [Payloads -> 1 .. ClusterUnits]
  /\ CompressedLengths \in [Payloads -> SUBSET Nat]
  /\ \A v \in Payloads : \A k \in CompressedLengths[v] :
       /\ 0 < k /\ k < Length[v] /\ k <= ClusterUnits - SectorSize
       /\ Version = "STAC3" => Length[v] > SectorSize
  /\ Zeros \notin Payloads /\ Damaged \notin Payloads /\ Zeros # Damaged

(* A disk D is a record of                                                 *)
(*   D.mdfat   the MDFAT entry of every cluster                            *)
(*   D.bitfat  the BITFAT counter of every sector of the data area         *)
(*   D.data    what the units of every sector hold                         *)
(* Sector 1 stands for what lies before the data area.                     *)
Media == Sectors \union {1}

(* sector_minus_1 + 1 (0 in a free entry), size_lo_minus_1 + 1, and of the *)
(* flags 0x20 "raw", 0x40 "deleted" (kept for undelete), 0x80 "split".     *)
(* The flag "used" that dbl_mdfat_value adds says that sector is not 0.    *)
MdfatEntry == [sector : Media \union {0}, size : 1 .. SectPerClust,
               flags : SUBSET {"raw", "deleted", "split"}]
FreeEntry == [sector |-> 0, size |-> 1, flags |-> {}]
IsUsed(e) == e.sector # 0

(* A unit is the i-th of the n units a payload was stored in, the list of  *)
(* a fragmented cluster, the trailer of a shared sector, or anything else. *)
Piece(v, n, i) == <<"piece", v, n, i>>
FragList(rest, plain) == <<"list", rest, plain>>
Trailer(t) == <<"trailer", t>>
Scrap == <<"scrap">>

(* A trailer says where the units of the cluster of one sector ("short")   *)
(* begin and those of the cluster of more sectors ("long"), where the      *)
(* short ones end too; whether they are uncompressed; whether they are     *)
(* not present any more.                                                   *)
Trailers == [short : 0 .. SectorSize, long : 0 .. SectorSize,
             shortPlain : BOOLEAN, longPlain : BOOLEAN,
             shortGone : BOOLEAN, longGone : BOOLEAN]

HasList(D, s) == D.data[s][0][1] = "list"
HasTrailer(D, s) == D.data[s][SectorSize - 1][1] = "trailer"
TrailerOf(D, s) == D.data[s][SectorSize - 1][2]

(* Reading a counter outside the data area gives -1.                       *)
Counter(D, s) == IF s \in Sectors THEN D.bitfat[s] ELSE -1

---------------------------------------------------------------------------
(* The cases of stac_cwalk_init.                                           *)
Kind(e) ==
  LET full == e.size = SectPerClust
      split == "split" \in e.flags
      raw == "raw" \in e.flags
  IN  CASE split /\ raw          -> "suballocated"
        [] split /\ ~raw /\ ~full -> "fragmented"
        [] split /\ ~raw /\ full  -> "plain"
        [] raw /\ ~split /\ full  -> "contradiction"
        [] raw /\ ~split /\ ~full -> "plain"
        [] ~raw /\ ~split         -> IF full THEN "plain" ELSE "compressed"

(* Where in its first sector a cluster of one sector is suballocated.      *)
IsShort(e) == Kind(e) = "suballocated" /\ e.size = 1
IsLong(e) == Kind(e) = "suballocated" /\ e.size > 1

(* The sectors of a cluster in the order of stac_cwalk_sector.             *)
SectorList(D, e) ==
  [i \in 1 .. e.size |-> e.sector + i - 1]
    \o (IF Kind(e) = "fragmented" THEN D.data[e.sector][0][2] ELSE <<>>)

(* The walk without a look at suballocation, flg = 0: its only errors.     *)
Unwalkable(D, e) ==
  /\ IsUsed(e)
  /\ \/ Kind(e) = "contradiction"
     \/ Kind(e) = "fragmented" /\ ~HasList(D, e.sector)

SectorsOf(D, e) ==
  IF ~IsUsed(e) \/ Unwalkable(D, e) THEN {}
  ELSE LET list == SectorList(D, e) IN {list[i] : i \in DOMAIN list}

(* What is wrong with the suballocation of the first sector.               *)
BadSuballocation(D, e) ==
  \/ ~HasTrailer(D, e.sector)
  \/ LET t == TrailerOf(D, e.sector)
     IN  IF e.size = 1
         THEN t.shortGone \/ t.long <= t.short \/ t.long >= SectorSize
         ELSE t.longGone \/ t.long >= SectorSize

(* The last sector of a Stacker 4 cluster ends where another cluster       *)
(* begins if its counter exceeds 1 (a counter of -1 does, as an unsigned   *)
(* number) or if the next cluster begins in it.                            *)
SharedTail(D, c, last) ==
  \/ Counter(D, last) \notin {0, 1}
  \/ c < LastCluster /\ D.mdfat[c + 1].sector = last

(* How many units a cluster in n sectors has: from "begin" to "end" in the *)
(* first, up to "tail" in the last.                                        *)
UnitCount(n, begin, end, tail) ==
  IF n = 1 THEN tail - begin ELSE (end - begin) + (n - 2) * SectorSize + tail

(* stac_cwalk_init with flg = 2 (to read) or 3 (to write): for each sector *)
(* the units [from, to) that belong to the cluster and the "count" of      *)
(* those before them; and the number of all, "bytes_in_clust".             *)
Walk(D, c, flg) ==
  LET e == D.mdfat[c]
      kind == Kind(e)
      list == SectorList(D, e)
      n == Len(list)
      last == list[n]
      followed == c < LastCluster /\ D.mdfat[c + 1].sector = last
      looksAtTail == Version = "STAC4" /\ ~IsShort(e)
      shared == looksAtTail /\ SharedTail(D, c, last)
      begin == IF kind = "fragmented" THEN 1
               ELSE IF IsShort(e) THEN TrailerOf(D, e.sector).short
               ELSE IF IsLong(e) THEN TrailerOf(D, e.sector).long ELSE 0
      end == IF IsShort(e) THEN TrailerOf(D, e.sector).long
             ELSE IF IsLong(e) THEN SectorSize - 1 ELSE SectorSize
      cut == IF shared THEN TrailerOf(D, last).short ELSE SectorSize
      tail == IF n = 1 /\ end < cut THEN end ELSE cut
      sum == UnitCount(n, begin, end, tail)
      excess == IF sum > ClusterUnits THEN sum - ClusterUnits ELSE 0
      bad == \/ Unwalkable(D, e)
             \/ kind = "suballocated" /\ BadSuballocation(D, e)
             \/ /\ looksAtTail
                /\ \/ followed /\ Kind(D.mdfat[c + 1]) # "suballocated"
                   \/ flg = 3 /\ Counter(D, last) = 0
                   \/ flg = 3 /\ followed /\ Counter(D, last) = 1
                   \/ shared /\ ~HasTrailer(D, last)
      worse == \/ shared /\ TrailerOf(D, last).long < TrailerOf(D, last).short
               \/ n = 1 /\ tail <= begin
               \/ cut < excess
      Units(i) == [s |-> list[i],
                   from |-> IF i = 1 THEN begin ELSE 0,
                   to |-> IF i = n THEN tail - excess
                          ELSE IF i = 1 THEN end ELSE SectorSize,
                   at |-> IF i = 1 THEN 0 ELSE (end - begin) + (i - 2) * SectorSize]
      compressed == CASE kind = "compressed" -> TRUE
                      [] kind = "plain" -> FALSE
                      [] kind = "fragmented" -> ~D.data[e.sector][0][3]
                      [] IsShort(e) -> ~TrailerOf(D, e.sector).shortPlain
                      [] IsLong(e) -> ~TrailerOf(D, e.sector).longPlain
      Nothing(failed) == [error |-> failed, units |-> 0, compressed |-> FALSE,
                          parts |-> <<>>]
  IN  IF ~IsUsed(e) THEN Nothing(FALSE)
      ELSE IF bad THEN Nothing(TRUE)
      ELSE IF worse THEN Nothing(TRUE)
      ELSE [error |-> FALSE, units |-> sum - excess, compressed |-> compressed,
            parts |-> [i \in 1 .. n |-> Units(i)]]

(* Unit u of a part, if it is in the cluster, is the Place(p, u)-th one.   *)
InPart(p, u) == p.from <= u /\ u < p.to
Place(p, u) == p.at + u - p.from + 1

(* stac_read_cluster.  Decompression stops at the end mark of the data, so *)
(* what a cluster may hold beyond does not matter; neither does it in an   *)
(* uncompressed cluster, where the length of the file says what counts.    *)
ReadCluster(D, c) ==
  LET w == Walk(D, c, 2)
      Holds(v, k) ==
        /\ k <= w.units
        /\ \A i \in DOMAIN w.parts, u \in 0 .. SectorSize - 1 :
             LET p == w.parts[i]
             IN  InPart(p, u) /\ Place(p, u) <= k =>
                   D.data[p.s][u] = Piece(v, k, Place(p, u))
      fits == {v \in Payloads :
                 IF w.compressed THEN \E k \in CompressedLengths[v] : Holds(v, k)
                 ELSE Holds(v, Length[v])}
  IN  IF ~IsUsed(D.mdfat[c]) THEN Zeros
      ELSE IF w.error \/ fits = {} THEN Damaged
      ELSE CHOOSE v \in fits : TRUE
=============================================================================
