------------------------- MODULE StacVolume_proofs -------------------------
(***************************************************************************)
(* Proofs about Stacker volumes, for every size of the volume, every       *)
(* number of clusters and every layout that Arranged allows: sectors with  *)
(* several users, clusters in fragments, entries kept for undelete.        *)
(***************************************************************************)
EXTENDS StacVolume, BitfatSearch_proofs, FiniteSetTheorems, SequenceTheorems

Pcs == {"idle", "down", "erase", "flag", "drop", "alloc", "mark", "entry",
        "data", "repair"}
Parts == [s : Int, from : Nat, to : Int, at : Int]
Calls == [pc : Pcs, cl : Clusters \union {None}, val : Payloads \union {None},
          len : 0 .. ClusterUnits, plain : BOOLEAN, near : Nat, old : MdfatEntry,
          sector : Int, todo : Seq(Int), parts : Seq(Parts), res : Outcomes]

(* The sectors a write has found for its cluster.                          *)
Run == op.sector .. op.sector + InSectors(op.len) - 1

(* What a call that is under way can rely on.                              *)
CallKnows ==
  /\ op.pc \in {"erase", "flag", "drop", "alloc", "mark", "entry", "data"}
       => op.cl \in Clusters
  /\ op.pc \in {"alloc", "mark", "entry", "data"} => op.val # None
  /\ op.val # None => op.len > 0
  /\ op.pc = "erase" => op.old = mdfat[op.cl]
  /\ op.pc = "flag" => IsUsed(op.old)
  /\ op.pc \in {"flag", "drop", "mark"} => op.todo # <<>> /\ IsInjective(op.todo)
  /\ op.pc = "repair" => Mismatches # {}

RunUnused ==
  /\ op.pc \in {"mark", "entry"} =>
       Run \subseteq Sectors /\ \A s \in Run : Users(Disk, s) = {}
  /\ op.pc = "mark" =>
       Range(op.todo) \subseteq Run /\ \A s \in Range(op.todo) : bitfat[s] = 0
  /\ op.pc = "entry" => op.todo = <<>>

(* The data of a write leave the lists of fragments alone.                 *)
ListsKept ==
  op.pc = "data" =>
    /\ op.parts # <<>>
    /\ \A j \in DOMAIN op.parts, d \in Clusters :
         IsUsed(mdfat[d]) /\ Kind(mdfat[d]) = "fragmented"
           /\ op.parts[j].s = mdfat[d].sector => op.parts[j].from > 0

(* The sectors with a count the call has yet to take back, or has taken    *)
(* for an entry that is still to come: a counter must not be below what is *)
(* needed for the users of the sector and for this.                        *)
Owing == IF op.pc \in {"flag", "drop"} THEN Range(op.todo)
         ELSE IF op.pc \in {"mark", "entry"} THEN Run \ Range(op.todo)
         ELSE {}
Need(s) == CountUsers(Disk, s) + IF s \in Owing THEN 1 ELSE 0
Covered == \A s \in Sectors : Need(s) <= bitfat[s]

Typed ==
  /\ bitfat \in [Sectors -> 0 .. 3]
  /\ state \in {"clean", "dirty", "bad"}
  /\ sb \in Superblock
  /\ op \in Calls

IInv ==
  /\ Typed /\ Arranged(Disk) /\ CallKnows /\ RunUnused /\ ListsKept
  /\ Covered /\ FreeCountExact

---------------------------------------------------------------------------
LEMMA Geometry ==
  /\ DataStart \in Nat /\ DataEnd \in Nat /\ DataStart > 1
  /\ SectPerClust \in Nat /\ SectPerClust > 0
  /\ SectorSize \in Nat /\ SectorSize > 2 /\ ClusterUnits \in Nat
  /\ Sectors \subseteq Nat /\ 0 \notin Sectors /\ 1 \notin Sectors
  /\ Media \subseteq Nat /\ 0 \notin Media /\ Sectors \subseteq Media
  /\ IsFiniteSet(Sectors) /\ IsFiniteSet(Clusters)
  /\ FreeEntry \in MdfatEntry /\ LostEntry \in MdfatEntry
<1>1. /\ DataStart \in Nat /\ DataEnd \in Nat /\ DataStart > 1
      /\ SectPerClust \in Nat /\ SectPerClust > 0
      /\ SectorSize \in Nat /\ SectorSize > 2 /\ LastCluster \in Nat
  BY GeometryAssumption, StacAssumption
<1>2. ClusterUnits \in Nat
  BY <1>1 DEF ClusterUnits
<1>3. IsFiniteSet(Sectors) /\ IsFiniteSet(Clusters)
  BY <1>1, FS_Interval DEF Sectors, Clusters
<1>4. /\ Sectors \subseteq Nat /\ 0 \notin Sectors /\ 1 \notin Sectors
      /\ Media \subseteq Nat /\ 0 \notin Media /\ Sectors \subseteq Media
  BY <1>1 DEF Sectors, Media
<1>5. FreeEntry \in MdfatEntry /\ LostEntry \in MdfatEntry
  BY <1>1 DEF FreeEntry, LostEntry, MdfatEntry, Media
<1> QED BY <1>1, <1>2, <1>3, <1>4, <1>5

(* A cluster's sectors depend on the disk only through its list of         *)
(* fragments.                                                              *)
LEMMA SameList ==
  ASSUME NEW D, NEW E, NEW e,
         IsUsed(e) /\ Kind(e) = "fragmented" =>
           D.data[e.sector][0] = E.data[e.sector][0]
  PROVE  /\ IsUsed(e) => SectorList(D, e) = SectorList(E, e)
         /\ Unwalkable(D, e) <=> Unwalkable(E, e)
         /\ SectorsOf(D, e) = SectorsOf(E, e)
<1>1. IsUsed(e) => SectorList(D, e) = SectorList(E, e)
  BY DEF SectorList
<1>2. Unwalkable(D, e) <=> Unwalkable(E, e)
  BY DEF Unwalkable, HasList
<1> QED BY <1>1, <1>2 DEF SectorsOf

(* The entries the driver itself writes.                                   *)
LEMMA EntryKinds ==
  /\ ~IsUsed(FreeEntry) /\ IsUsed(LostEntry)
  /\ Kind(LostEntry) \in {"plain", "compressed"}
  /\ Kind(NewEntry) \in {"plain", "compressed"}
<1>1. ~IsUsed(FreeEntry) /\ IsUsed(LostEntry)
  BY DEF FreeEntry, LostEntry, IsUsed
<1>2. ASSUME NEW e,
             \/ e.flags = {}
             \/ e.flags = {"raw"} /\ e.size # SectPerClust
      PROVE  Kind(e) \in {"plain", "compressed"}
  BY <1>2 DEF Kind
<1>3. LostEntry.flags = {}
  BY DEF LostEntry
<1>4. \/ NewEntry.flags = {}
      \/ NewEntry.flags = {"raw"} /\ NewEntry.size # SectPerClust
  BY DEF NewEntry
<1>5. Kind(LostEntry) \in {"plain", "compressed"}
  BY <1>2, <1>3
<1>6. Kind(NewEntry) \in {"plain", "compressed"}
  BY <1>2, <1>4
<1> QED BY <1>1, <1>5, <1>6

(* Consecutive sectors as a sequence.                                      *)
LEMMA ConsecutiveSectors ==
  ASSUME NEW a \in Int, NEW n \in Nat
  PROVE  LET q == [i \in 1 .. n |-> a + i - 1]
         IN  /\ q \in Seq(Int) /\ Len(q) = n /\ DOMAIN q = 1 .. n
             /\ IsInjective(q) /\ Range(q) = a .. a + n - 1
<1> DEFINE q == [i \in 1 .. n |-> a + i - 1]
<1>1. q \in [1 .. n -> Int] /\ DOMAIN q = 1 .. n
  OBVIOUS
<1>2. q \in Seq(Int)
  BY <1>1, SeqDef
<1>3. Len(q) = n
  BY <1>1, <1>2, LenProperties
<1>4. IsInjective(q)
  BY DEF IsInjective
<1>5. Range(q) = a .. a + n - 1
  <2>1. ASSUME NEW x \in a .. a + n - 1
        PROVE  x - a + 1 \in 1 .. n /\ q[x - a + 1] = x
    BY <2>1
  <2>2. \A x \in a .. a + n - 1 : x \in Range(q)
    BY <2>1, <1>1 DEF Range
  <2>3. \A i \in 1 .. n : q[i] \in a .. a + n - 1
    OBVIOUS
  <2> HIDE DEF q
  <2> QED BY <1>1, <2>2, <2>3 DEF Range
<1> QED BY <1>1, <1>2, <1>3, <1>4, <1>5

(* The sectors of an entry that is not fragmented.                         *)
LEMMA ListOfRun ==
  ASSUME NEW D, NEW e \in MdfatEntry, IsUsed(e), Kind(e) \in {"plain", "compressed"}
  PROVE  /\ ~Unwalkable(D, e)
         /\ SectorList(D, e) = [i \in 1 .. e.size |-> e.sector + i - 1]
         /\ IsInjective(SectorList(D, e))
         /\ SectorsOf(D, e) = e.sector .. e.sector + e.size - 1
<1> DEFINE q == [i \in 1 .. e.size |-> e.sector + i - 1]
<1>1. e.sector \in Int /\ e.size \in Nat
  <2>1. e.sector \in Media \union {0} /\ e.size \in 1 .. SectPerClust
    BY DEF MdfatEntry
  <2>2. Media \subseteq Nat /\ SectPerClust \in Nat
    BY Geometry
  <2>3. \A x \in Media \union {0} : x \in Int
    BY <2>2
  <2>4. e.size \in Nat
    BY <2>1, <2>2
  <2> QED BY <2>1, <2>3, <2>4
<1>2. q \in Seq(Int) /\ IsInjective(q) /\ Range(q) = e.sector .. e.sector + e.size - 1
  BY <1>1, ConsecutiveSectors
<1>3. q \o <<>> = q
  <2> HIDE DEF q
  <2> QED BY <1>2, ConcatEmptySeq
<1>4. SectorList(D, e) = q
  BY <1>3 DEF SectorList
<1>5. ~Unwalkable(D, e)
  BY DEF Unwalkable
<1>6. SectorsOf(D, e) = Range(q)
  <2> HIDE DEF q
  <2> QED BY <1>4, <1>5 DEF SectorsOf, Range
<1> QED BY <1>2, <1>4, <1>5, <1>6

(* The sectors of an entry in an arranged volume.                          *)
ListOK(D, e) ==
  LET L == SectorList(D, e)
  IN  /\ L \in Seq(Int) /\ Len(L) \in Nat /\ DOMAIN L = 1 .. Len(L)
      /\ e.size \in Nat /\ 1 <= e.size /\ e.size <= Len(L)
      /\ Kind(e) # "fragmented" => Len(L) = e.size
      /\ L[1] = e.sector
      /\ Kind(e) = "fragmented" => Len(L) > 1
      /\ SectorsOf(D, e) = Range(L) /\ IsInjective(L)

LEMMA ListShape ==
  ASSUME NEW D, Arranged(D), NEW c \in Clusters,
         IsUsed(D.mdfat[c]), ~Unwalkable(D, D.mdfat[c])
  PROVE  ListOK(D, D.mdfat[c])
<1> DEFINE e == D.mdfat[c]
           q == [i \in 1 .. e.size |-> e.sector + i - 1]
           r == IF Kind(e) = "fragmented" THEN D.data[e.sector][0][2] ELSE <<>>
           L == SectorList(D, e)
<1>1. e \in MdfatEntry
  BY DEF Arranged
<1>2. e.sector \in Media /\ e.sector \in Int /\ e.size \in Nat /\ 1 <= e.size
  <2>1. e.sector \in Media \union {0} /\ e.size \in 1 .. SectPerClust
    BY <1>1 DEF MdfatEntry
  <2>2. Media \subseteq Nat /\ SectPerClust \in Nat
    BY Geometry
  <2>3. \A x \in Media : x \in Int
    BY <2>2
  <2>4. e.size \in Nat /\ 1 <= e.size
    BY <2>1, <2>2
  <2> QED BY <2>1, <2>3, <2>4 DEF IsUsed
<1>3. q \in Seq(Int) /\ Len(q) = e.size /\ DOMAIN q = 1 .. e.size
  BY <1>2, ConsecutiveSectors
<1>4. r \in Seq(Int) /\ (Kind(e) = "fragmented" => r # <<>>) /\ (Kind(e) # "fragmented" => r = <<>>)
  <2>1. CASE Kind(e) = "fragmented"
    <3>1. HasList(D, e.sector)
      BY <2>1 DEF Unwalkable
    <3>2. 0 \in 0 .. SectorSize - 1
      BY Geometry
    <3>3. UnitOK(D.data[e.sector][0])
      BY <1>2, <3>2 DEF Arranged
    <3>4. r \in Seq(Sectors) /\ r # <<>>
      BY <2>1, <3>1, <3>3 DEF HasList, UnitOK
    <3>5. Sectors \subseteq Int
      BY Geometry
    <3> QED BY <2>1, <3>4, <3>5, SeqMonotonic
  <2>2. CASE Kind(e) # "fragmented"
    BY <2>2, EmptySeq
  <2> QED BY <2>1, <2>2
<1>5. L = q \o r
  BY DEF SectorList
<1>6. /\ L \in Seq(Int) /\ Len(L) = Len(q) + Len(r)
      /\ \A i \in 1 .. Len(q) + Len(r) : L[i] = IF i <= Len(q) THEN q[i] ELSE r[i - Len(q)]
  <2> HIDE DEF q, r, L
  <2> QED BY <1>3, <1>4, <1>5, ConcatProperties
<1>7. Len(r) \in Nat /\ (r = <<>> => Len(r) = 0) /\ (r # <<>> => Len(r) > 0)
  <2> HIDE DEF r
  <2> QED BY <1>4, EmptySeq, LenProperties
<1>8. Len(L) \in Nat /\ DOMAIN L = 1 .. Len(L)
  <2> HIDE DEF L
  <2> QED BY <1>6, LenProperties
<1>9. L[1] = e.sector
  <2>1. 1 <= Len(q) /\ 1 \in 1 .. Len(q) + Len(r)
    <3> HIDE DEF q, r
    <3> QED BY <1>2, <1>3, <1>7
  <2>2. L[1] = q[1]
    <3> HIDE DEF q, r, L
    <3> QED BY <1>6, <2>1
  <2>3. q[1] = e.sector
    BY <1>2
  <2> QED BY <2>2, <2>3
<1>10. SectorsOf(D, e) = Range(L) /\ IsInjective(L)
  BY DEF SectorsOf, Range, Arranged
<1>11. /\ e.size <= Len(L)
       /\ Kind(e) # "fragmented" => Len(L) = e.size
       /\ Kind(e) = "fragmented" => Len(L) > 1
  <2> HIDE DEF e, q, r, L
  <2> QED BY <1>2, <1>3, <1>4, <1>6, <1>7
<1>12. L \in Seq(Int)
  BY <1>6
<1>13. ListOK(D, e)
  <2> HIDE DEF e
  <2> QED BY <1>2, <1>8, <1>9, <1>10, <1>11, <1>12 DEF ListOK
<1> QED BY <1>13

---------------------------------------------------------------------------
(* What a walk comes by: the sectors of the list, from "begin" to "end" in *)
(* the first, up to "tail" in the last.                                    *)
PartsOf(L, begin, end, tail) ==
  [i \in 1 .. Len(L) |->
     [s |-> L[i], from |-> IF i = 1 THEN begin ELSE 0,
      to |-> IF i = Len(L) THEN tail ELSE IF i = 1 THEN end ELSE SectorSize,
      at |-> IF i = 1 THEN 0 ELSE (end - begin) + (i - 2) * SectorSize]]

FirstUnit(D, e) ==
  IF Kind(e) = "fragmented" THEN 1
  ELSE IF IsShort(e) THEN TrailerOf(D, e.sector).short
  ELSE IF IsLong(e) THEN TrailerOf(D, e.sector).long ELSE 0

WalksTo(D, c, begin, end, tail) ==
  LET e == D.mdfat[c]
      L == SectorList(D, e)
      last == L[Len(L)]
  IN  /\ begin \in Nat /\ end \in Nat /\ tail \in Int
      /\ begin = FirstUnit(D, e)
      /\ IsShort(e) => tail <= TrailerOf(D, e.sector).long
      /\ Version = "STAC4" /\ ~IsShort(e) /\ SharedTail(D, c, last) =>
           /\ TrailerOf(D, last).short \in Int /\ TrailerOf(D, last).long \in Int
           /\ tail <= TrailerOf(D, last).short
           /\ TrailerOf(D, last).short <= TrailerOf(D, last).long

WalkFinds(D, c, w, begin, end, tail) ==
  LET L == SectorList(D, D.mdfat[c])
  IN  /\ WalksTo(D, c, begin, end, tail)
      /\ w.parts = PartsOf(L, begin, end, tail)
      /\ w.units = IF Len(L) = 1 THEN tail - begin
                   ELSE (end - begin) + (Len(L) - 2) * SectorSize + tail

WalkOK(D, c, w) ==
  \/ w.parts = <<>> /\ w.units = 0 /\ (IsUsed(D.mdfat[c]) => w.error)
  \/ /\ ~w.error /\ IsUsed(D.mdfat[c]) /\ ~Unwalkable(D, D.mdfat[c])
     /\ \E begin, end, tail : WalkFinds(D, c, w, begin, end, tail)

LEMMA TrailersTyped ==
  ASSUME NEW D, Arranged(D), NEW s \in Media, HasTrailer(D, s)
  PROVE  /\ TrailerOf(D, s) \in Trailers
         /\ TrailerOf(D, s).short \in 0 .. SectorSize
         /\ TrailerOf(D, s).long \in 0 .. SectorSize
<1>1. SectorSize - 1 \in 0 .. SectorSize - 1
  BY Geometry
<1>2. UnitOK(D.data[s][SectorSize - 1])
  BY <1>1 DEF Arranged
<1>3. TrailerOf(D, s) \in Trailers
  BY <1>2 DEF UnitOK, HasTrailer, TrailerOf
<1> QED BY <1>3 DEF Trailers

LEMMA ListInMedia ==
  ASSUME NEW D, Arranged(D), NEW c \in Clusters,
         IsUsed(D.mdfat[c]), ~Unwalkable(D, D.mdfat[c])
  PROVE  \A i \in DOMAIN SectorList(D, D.mdfat[c]) :
           SectorList(D, D.mdfat[c])[i] \in Media
<1> DEFINE e == D.mdfat[c]
           L == SectorList(D, e)
<1>1. CASE e = LostEntry
  <2>1. e \in MdfatEntry /\ Kind(e) \in {"plain", "compressed"}
    BY <1>1, Geometry, EntryKinds
  <2>2. L = [i \in 1 .. e.size |-> e.sector + i - 1]
    BY <2>1, ListOfRun
  <2>3. e.size = 1 /\ e.sector = 1
    BY <1>1 DEF LostEntry
  <2>4. \A i \in DOMAIN L : L[i] = 1
    <3> HIDE DEF e
    <3> QED BY <2>2, <2>3
  <2> QED BY <2>4 DEF Media
<1>2. CASE e # LostEntry
  <2>1. SectorsOf(D, e) \subseteq Sectors /\ ListOK(D, e)
    BY <1>2, ListShape DEF Arranged
  <2>2. \A i \in DOMAIN L : L[i] \in Sectors
    BY <2>1 DEF ListOK, Range
  <2> QED BY <2>2 DEF Media
<1> QED BY <1>1, <1>2

LEMMA WalkIsOK ==
  ASSUME NEW D, Arranged(D), NEW c \in Clusters, NEW flg
  PROVE  WalkOK(D, c, Walk(D, c, flg))
<1> DEFINE e == D.mdfat[c]
           kind == Kind(e)
           list == SectorList(D, e)
           n == Len(list)
           last == list[n]
           followed == c < LastCluster /\ D.mdfat[c + 1].sector = last
           looksAtTail == Version = "STAC4" /\ ~IsShort(e)
           shared == looksAtTail /\ SharedTail(D, c, last)
           begin == IF kind = "fragmented" THEN 1
                    ELSE IF IsShort(e) THEN TrailerOf(D, e.sector).short
                    ELSE IF IsLong(e) THEN TrailerOf(D, e.sector).long ELSE 0
           end == IF IsShort(e) THEN TrailerOf(D, e.sector).long
                  ELSE IF IsLong(e) THEN SectorSize - 1 ELSE SectorSize
           cut == IF shared THEN TrailerOf(D, last).short ELSE SectorSize
           tail == IF n = 1 /\ end < cut THEN end ELSE cut
           sum == UnitCount(n, begin, end, tail)
           excess == IF sum > ClusterUnits THEN sum - ClusterUnits ELSE 0
           bad == \/ Unwalkable(D, e)
                  \/ kind = "suballocated" /\ BadSuballocation(D, e)
                  \/ /\ looksAtTail
                     /\ \/ followed /\ Kind(D.mdfat[c + 1]) # "suballocated"
                        \/ flg = 3 /\ Counter(D, last) = 0
                        \/ flg = 3 /\ followed /\ Counter(D, last) = 1
                        \/ shared /\ ~HasTrailer(D, last)
           worse == \/ shared /\ TrailerOf(D, last).long < TrailerOf(D, last).short
                    \/ n = 1 /\ tail <= begin
                    \/ cut < excess
           Units(i) == [s |-> list[i],
                        from |-> IF i = 1 THEN begin ELSE 0,
                        to |-> IF i = n THEN tail - excess
                               ELSE IF i = 1 THEN end ELSE SectorSize,
                        at |-> IF i = 1 THEN 0
                               ELSE (end - begin) + (i - 2) * SectorSize]
           compressed == CASE kind = "compressed" -> TRUE
                           [] kind = "plain" -> FALSE
                           [] kind = "fragmented" -> ~D.data[e.sector][0][3]
                           [] IsShort(e) -> ~TrailerOf(D, e.sector).shortPlain
                           [] IsLong(e) -> ~TrailerOf(D, e.sector).longPlain
           Nothing(failed) == [error |-> failed, units |-> 0, compressed |-> FALSE,
                               parts |-> <<>>]
           found == [error |-> FALSE, units |-> sum - excess,
                     compressed |-> compressed,
                     parts |-> [i \in 1 .. n |-> Units(i)]]
           w == Walk(D, c, flg)
<1>1. w = IF ~IsUsed(e) THEN Nothing(FALSE)
          ELSE IF bad THEN Nothing(TRUE)
          ELSE IF worse THEN Nothing(TRUE) ELSE found
  BY Zenon DEF Walk
<1>2. CASE ~IsUsed(e) \/ bad \/ worse
  <2>1. \/ w = Nothing(FALSE) /\ ~IsUsed(e)
        \/ w = Nothing(TRUE)
    <3> HIDE DEF bad, worse, found, e
    <3> QED BY <1>1, <1>2
  <2>2. w.parts = <<>> /\ w.units = 0 /\ (IsUsed(e) => w.error)
    <3> HIDE DEF bad, worse, found, e, w
    <3> QED BY <2>1
  <2> QED BY <2>2 DEF WalkOK
<1>3. CASE IsUsed(e) /\ ~bad /\ ~worse
  <2>1. w = found
    <3> HIDE DEF bad, worse, found, e
    <3> QED BY <1>1, <1>3
  <2>2. IsUsed(e) /\ ~Unwalkable(D, e)
    BY <1>3
  <2>3. ListOK(D, e) /\ \A i \in DOMAIN list : list[i] \in Media
    BY <2>2, ListShape, ListInMedia
  <2>4. n \in Nat /\ n >= 1 /\ (n = 1 \/ n > 1) /\ e.sector \in Media /\ last \in Media
    <3>1. n \in Nat /\ n >= 1 /\ DOMAIN list = 1 .. n /\ list[1] = e.sector
      <4> HIDE DEF e
      <4> QED BY <2>3 DEF ListOK
    <3>2. 1 \in DOMAIN list /\ n \in DOMAIN list
      <4> HIDE DEF list
      <4> QED BY <3>1
    <3> HIDE DEF list
    <3> QED BY <2>3, <3>1, <3>2
  <2>5. IsShort(e) \/ IsLong(e) => HasTrailer(D, e.sector)
    <3> HIDE DEF e, worse, found, n, last
    <3> QED BY <1>3 DEF IsShort, IsLong, BadSuballocation
  <2>6. shared => /\ HasTrailer(D, last)
                  /\ TrailerOf(D, last).short \in 0 .. SectorSize
                  /\ TrailerOf(D, last).long \in 0 .. SectorSize
                  /\ ~(TrailerOf(D, last).long < TrailerOf(D, last).short)
    <3> HIDE DEF e, list, n, last, begin, end, tail, excess, found
    <3>1. shared => HasTrailer(D, last)
      BY <1>3
    <3>2. shared => ~(TrailerOf(D, last).long < TrailerOf(D, last).short)
      BY <1>3
    <3> QED BY <2>4, <3>1, <3>2, TrailersTyped
  <2>7. IsShort(e) \/ IsLong(e) =>
          /\ TrailerOf(D, e.sector).short \in 0 .. SectorSize
          /\ TrailerOf(D, e.sector).long \in 0 .. SectorSize
    <3> HIDE DEF e
    <3> QED BY <2>4, <2>5, TrailersTyped
  <2>8. SectorSize \in Nat /\ SectorSize - 1 \in Nat
        /\ \A x \in 0 .. SectorSize : x \in Nat
    BY Geometry
  <2>9. begin \in Nat /\ end \in Nat /\ cut \in Nat /\ begin = FirstUnit(D, e)
    <3> HIDE DEF e, list, n, last
    <3> QED BY <2>6, <2>7, <2>8 DEF FirstUnit
  <2>10. tail \in Nat /\ tail <= cut /\ (n = 1 => tail <= end)
    <3> HIDE DEF e, list, n, last, begin, end, cut
    <3> QED BY <2>9
  <2>11. (n - 2) * SectorSize \in Int
    <3> HIDE DEF n
    <3> QED BY <2>4, <2>8
  <2>12. sum \in Int /\ sum = IF n = 1 THEN tail - begin
                              ELSE (end - begin) + (n - 2) * SectorSize + tail
    <3> DEFINE middle == (n - 2) * SectorSize
    <3>1. sum = IF n = 1 THEN tail - begin ELSE (end - begin) + middle + tail
      <4> HIDE DEF e, list, n, last, begin, end, cut, tail
      <4> QED BY DEF UnitCount
    <3> HIDE DEF e, list, n, last, begin, end, cut, tail, sum, middle
    <3>2. sum \in Int
      <4>1. middle \in Int
        BY <2>11 DEF middle
      <4> QED BY <2>9, <2>10, <4>1, <3>1
    <3> QED BY <3>1, <3>2 DEF middle
  <2>13. excess \in Nat
    <3>1. ClusterUnits \in Nat
      BY Geometry
    <3> HIDE DEF e, list, n, last, begin, end, cut, tail, sum
    <3> QED BY <2>12, <3>1
  <2>14. tail - excess \in Int /\ tail - excess <= cut
         /\ (n = 1 => tail - excess <= end)
    <3> HIDE DEF e, list, n, last, begin, end, cut, tail, sum, excess
    <3> QED BY <2>9, <2>10, <2>13
  <2>15. IsShort(e) => n = 1 /\ end = TrailerOf(D, e.sector).long
    <3> HIDE DEF e
    <3>1. IsShort(e) => Len(list) = e.size /\ e.size = 1
      BY <2>3 DEF ListOK, IsShort
    <3> QED BY <3>1
  <2>16. WalksTo(D, c, begin, end, tail - excess)
    <3> DEFINE k == tail - excess
    <3>1. k \in Int /\ k <= cut /\ (n = 1 => k <= end)
      BY <2>14
    <3> HIDE DEF k
    <3>2. IsShort(e) => k <= TrailerOf(D, e.sector).long
      <4> HIDE DEF e, list, n, last, cut, begin, end
      <4> QED BY <3>1, <2>15
    <3>3. Version = "STAC4" /\ ~IsShort(e) /\ SharedTail(D, c, last) =>
           /\ TrailerOf(D, last).short \in Int /\ TrailerOf(D, last).long \in Int
           /\ k <= TrailerOf(D, last).short
           /\ TrailerOf(D, last).short <= TrailerOf(D, last).long
      <4> HIDE DEF e, list, n, last, begin, end
      <4> QED BY <3>1, <2>6, <2>8
    <3>4. WalksTo(D, c, begin, end, k)
      <4> HIDE DEF begin, end
      <4> QED BY <3>1, <3>2, <3>3, <2>9 DEF WalksTo
    <3> QED BY <3>4 DEF k
  <2>17. w.parts = PartsOf(list, begin, end, tail - excess)
    <3> HIDE DEF e, list, begin, end, tail, excess, sum, last, w, compressed
    <3> QED BY <2>1 DEF PartsOf
  <2>18. w.units = IF n = 1 THEN (tail - excess) - begin
                   ELSE (end - begin) + (n - 2) * SectorSize + (tail - excess)
    <3>1. w.units = sum - excess
      <4> HIDE DEF e, list, begin, end, tail, excess, sum, last, w, n, compressed
      <4> QED BY <2>1
    <3> DEFINE middle == (n - 2) * SectorSize
    <3>2. middle \in Int
      BY <2>11
    <3>3. sum = IF n = 1 THEN tail - begin ELSE (end - begin) + middle + tail
      BY <2>12
    <3>4. w.units = IF n = 1 THEN (tail - excess) - begin
                    ELSE (end - begin) + middle + (tail - excess)
      <4> HIDE DEF e, list, begin, end, tail, excess, sum, last, w, n, middle
      <4> QED BY <3>1, <3>2, <3>3, <2>9, <2>10, <2>13
    <3> QED BY <3>4
  <2>19. ~w.error
    <3> HIDE DEF e, list, begin, end, tail, excess, sum, last, w, n, compressed
    <3> QED BY <2>1
  <2>20. WalkFinds(D, c, w, begin, end, tail - excess)
    <3> HIDE DEF begin, end, tail, excess, w
    <3> QED BY <2>16, <2>17, <2>18 DEF WalkFinds
  <2>21. \E b, f, t : WalkFinds(D, c, w, b, f, t)
    <3> HIDE DEF begin, end, tail, excess, w
    <3> QED BY <2>20
  <2>22. WalkOK(D, c, w)
    <3> HIDE DEF w
    <3> QED BY <2>2, <2>19, <2>21 DEF WalkOK
  <2> QED BY <2>22
<1> QED
  <2> HIDE DEF e, bad, worse, w
  <2> QED BY <1>2, <1>3

LEMMA PartsShape ==
  ASSUME NEW L \in Seq(Int), NEW begin \in Nat, NEW end \in Nat, NEW tail \in Int
  PROVE  LET p == PartsOf(L, begin, end, tail)
         IN  p \in Seq(Parts) /\ Len(p) = Len(L) /\ DOMAIN p = 1 .. Len(L)
<1> DEFINE p == PartsOf(L, begin, end, tail)
<1>1. Len(L) \in Nat /\ \A i \in 1 .. Len(L) : L[i] \in Int
  BY LenProperties
<1>2. SectorSize \in Int /\ \A i \in Int : (i - 2) * SectorSize \in Int
  BY Geometry
<1>3. ASSUME NEW i \in 1 .. Len(L)
      PROVE  p[i] \in Parts
  <2> DEFINE middle == (i - 2) * SectorSize
  <2>1. middle \in Int
    BY <1>1, <1>2, <1>3
  <2>2. p[i] = [s |-> L[i], from |-> IF i = 1 THEN begin ELSE 0,
                to |-> IF i = Len(L) THEN tail ELSE IF i = 1 THEN end ELSE SectorSize,
                at |-> IF i = 1 THEN 0 ELSE (end - begin) + middle]
    BY DEF PartsOf
  <2> HIDE DEF middle, p
  <2> QED BY <1>1, <1>2, <1>3, <2>1, <2>2 DEF Parts
<1>4. p \in [1 .. Len(L) -> Parts] /\ DOMAIN p = 1 .. Len(L)
  BY <1>3 DEF PartsOf
<1>5. p \in Seq(Parts)
  <2> HIDE DEF p
  <2> QED BY <1>1, <1>4, SeqDef
<1>6. Len(p) = Len(L)
  <2> HIDE DEF p
  <2> QED BY <1>1, <1>4, <1>5, LenProperties
<1> QED BY <1>4, <1>5, <1>6

(* The units before a part.                                                *)
UnitsBefore(p, i) == IF i = 1 THEN 0 ELSE p[i - 1].at + p[i - 1].to - p[i - 1].from

LEMMA PartsAddUp ==
  ASSUME NEW L \in Seq(Int), Len(L) >= 1,
         NEW begin \in Nat, NEW end \in Nat, NEW tail \in Int
  PROVE  LET p == PartsOf(L, begin, end, tail)
         IN  /\ \A i \in DOMAIN p : p[i].at = UnitsBefore(p, i)
             /\ UnitsBefore(p, Len(p) + 1)
                  = IF Len(L) = 1 THEN tail - begin
                    ELSE (end - begin) + (Len(L) - 2) * SectorSize + tail
<1> DEFINE p == PartsOf(L, begin, end, tail)
           n == Len(L)
           at(i) == IF i = 1 THEN 0 ELSE (end - begin) + (i - 2) * SectorSize
           to(i) == IF i = n THEN tail ELSE IF i = 1 THEN end ELSE SectorSize
           from(i) == IF i = 1 THEN begin ELSE 0
<1>1. n \in Nat /\ n >= 1
  BY LenProperties
<1>2. DOMAIN p = 1 .. n /\ Len(p) = n
  BY PartsShape
<1>3. \A i \in 1 .. n : p[i].at = at(i) /\ p[i].to = to(i) /\ p[i].from = from(i)
  BY DEF PartsOf
<1>4. SectorSize \in Int
  BY Geometry
<1>5. \A i \in Int : (i - 2) * SectorSize \in Int
                     /\ (i - 2) * SectorSize = ((i - 1) - 2) * SectorSize + SectorSize
  BY <1>4
<1>6. (2 - 2) * SectorSize = 0
  BY <1>4
<1>7. ASSUME NEW i \in 2 .. n
      PROVE  at(i) = at(i - 1) + to(i - 1) - from(i - 1)
  <2>1. CASE i = 2
    <3>1. at(i) = end - begin
      BY <2>1, <1>6
    <3>2. at(i - 1) = 0 /\ to(i - 1) = end /\ from(i - 1) = begin
      <4>1. i - 1 = 1 /\ n # 1
        <5> HIDE DEF n
        <5> QED BY <2>1, <1>1, <1>7
      <4> HIDE DEF n
      <4> QED BY <4>1
    <3> HIDE DEF at, to, from
    <3> QED BY <3>1, <3>2
  <2>2. CASE i # 2
    <3> DEFINE a == (i - 2) * SectorSize
               b == ((i - 1) - 2) * SectorSize
    <3>1. a \in Int /\ b \in Int /\ a = b + SectorSize
      <4>1. i \in Int /\ i - 1 \in Int
        <5> HIDE DEF n
        <5> QED BY <1>1, <1>7
      <4> QED BY <1>5, <4>1
    <3>2. at(i) = (end - begin) + a /\ at(i - 1) = (end - begin) + b
      BY <2>2, <1>1, <1>7
    <3>3. to(i - 1) = SectorSize /\ from(i - 1) = 0
      BY <2>2, <1>1, <1>7
    <3> HIDE DEF at, to, from, a, b
    <3> QED BY <3>1, <3>2, <3>3, <1>4
  <2> QED BY <2>1, <2>2
<1>8. \A i \in 1 .. n : at(i) = IF i = 1 THEN 0 ELSE at(i - 1) + to(i - 1) - from(i - 1)
  <2>1. \A i \in 1 .. n : i # 1 => i \in 2 .. n
    BY <1>1
  <2>2. at(1) = 0
    OBVIOUS
  <2> HIDE DEF at, to, from, n
  <2> QED BY <2>1, <2>2, <1>7
<1>9. \A i \in DOMAIN p : p[i].at = UnitsBefore(p, i)
  <2>1. \A i \in 1 .. n : i # 1 => i - 1 \in 1 .. n
    BY <1>1
  <2> HIDE DEF at, to, from, n, p
  <2> QED BY <2>1, <1>2, <1>3, <1>8 DEF UnitsBefore
<1>10. UnitsBefore(p, Len(p) + 1) = at(n) + to(n) - from(n)
  <2>1. n + 1 # 1 /\ n + 1 - 1 = n /\ n \in 1 .. n
    BY <1>1
  <2> HIDE DEF at, to, from, n, p
  <2> QED BY <2>1, <1>2, <1>3 DEF UnitsBefore
<1>11. at(n) + to(n) - from(n)
         = IF n = 1 THEN tail - begin ELSE (end - begin) + (n - 2) * SectorSize + tail
  <2> DEFINE m == (n - 2) * SectorSize
  <2>1. m \in Int
    BY <1>1, <1>5
  <2>2. /\ at(n) = IF n = 1 THEN 0 ELSE (end - begin) + m
        /\ to(n) = tail /\ from(n) = IF n = 1 THEN begin ELSE 0
    OBVIOUS
  <2>3. at(n) + to(n) - from(n)
          = IF n = 1 THEN tail - begin ELSE (end - begin) + m + tail
    <3> HIDE DEF at, to, from, m, n
    <3> QED BY <2>1, <2>2
  <2> QED BY <2>3
<1> QED BY <1>9, <1>10, <1>11

LEMMA ArrangedAddsUp == Arranged(Disk) => WalksAddUp
<1> SUFFICES ASSUME Arranged(Disk), NEW c \in Clusters, NEW flg \in {2, 3}
             PROVE  LET w == Walk(Disk, c, flg)
                    IN  /\ \A i \in DOMAIN w.parts : w.parts[i].at = UnitsBefore(w.parts, i)
                        /\ w.units = UnitsBefore(w.parts, Len(w.parts) + 1)
  BY DEF WalksAddUp, UnitsBefore
<1> DEFINE w == Walk(Disk, c, flg)
           e == Disk.mdfat[c]
           L == SectorList(Disk, e)
           AddsUp(p, units) == /\ \A i \in DOMAIN p : p[i].at = UnitsBefore(p, i)
                               /\ units = UnitsBefore(p, Len(p) + 1)
<1>1. WalkOK(Disk, c, w)
  BY WalkIsOK
<1>2. ASSUME w.parts = <<>>, w.units = 0
      PROVE  AddsUp(w.parts, w.units)
  <2>1. AddsUp(<<>>, 0)
    BY DEF UnitsBefore
  <2> HIDE DEF w, AddsUp
  <2> QED BY <1>2, <2>1
<1>3. ASSUME IsUsed(e), ~Unwalkable(Disk, e),
             \E b, f, t : WalkFinds(Disk, c, w, b, f, t)
      PROVE  AddsUp(w.parts, w.units)
  <2>1. PICK b, f, t : WalkFinds(Disk, c, w, b, f, t)
    BY <1>3
  <2>2. L \in Seq(Int) /\ Len(L) >= 1
    <3>1. ListOK(Disk, e)
      BY <1>3, ListShape
    <3> HIDE DEF e
    <3> QED BY <3>1 DEF ListOK
  <2>3. b \in Nat /\ f \in Nat /\ t \in Int
    <3> HIDE DEF w
    <3> QED BY <2>1 DEF WalkFinds, WalksTo
  <2>4. /\ w.parts = PartsOf(L, b, f, t)
        /\ w.units = IF Len(L) = 1 THEN t - b ELSE (f - b) + (Len(L) - 2) * SectorSize + t
    <3> HIDE DEF w
    <3> QED BY <2>1 DEF WalkFinds
  <2>5. AddsUp(PartsOf(L, b, f, t), IF Len(L) = 1 THEN t - b
                    ELSE (f - b) + (Len(L) - 2) * SectorSize + t)
    <3> HIDE DEF w, L
    <3> QED BY <2>2, <2>3, PartsAddUp
  <2> HIDE DEF w, L, AddsUp
  <2> QED BY <2>4, <2>5
<1>4. AddsUp(w.parts, w.units)
  <2> HIDE DEF w, AddsUp
  <2> QED BY <1>1, <1>2, <1>3 DEF WalkOK
<1> QED BY <1>4

---------------------------------------------------------------------------
(* Where the part of a cluster in a sector it may share begins and ends.   *)
PlaceOK(D, c, p) ==
  LET e == D.mdfat[c]
      t == TrailerOf(D, p.s)
  IN  /\ IsUsed(e) /\ ~Unwalkable(D, e) /\ p.s \in Media /\ p.s \in SectorsOf(D, e)
      /\ p.from \in Int /\ p.to \in Int
      /\ BeginsIn(e, p.s) => /\ p.from = IF e.size = 1 THEN t.short ELSE t.long
                             /\ e.size = 1 => p.to <= t.long
      /\ EndsIn(D, e, p.s) /\ Version = "STAC4" /\ SharedTail(D, c, p.s) =>
           /\ t.short \in Int /\ t.long \in Int
           /\ p.to <= t.short /\ t.short <= t.long

LEMMA PartsInPlace ==
  ASSUME NEW D, Arranged(D), NEW c \in Clusters, NEW flg,
         NEW p \in Range(Walk(D, c, flg).parts)
  PROVE  PlaceOK(D, c, p)
<1> DEFINE w == Walk(D, c, flg)
           e == D.mdfat[c]
           L == SectorList(D, e)
           n == Len(L)
           t == TrailerOf(D, p.s)
<1>1. PICK i \in DOMAIN w.parts : p = w.parts[i]
  BY DEF Range
<1>2. w.parts # <<>>
  <2> HIDE DEF w
  <2> QED BY <1>1
<1>3. /\ IsUsed(e) /\ ~Unwalkable(D, e)
      /\ \E b, f, k : WalkFinds(D, c, w, b, f, k)
  <2>1. WalkOK(D, c, w)
    BY WalkIsOK
  <2> HIDE DEF w
  <2> QED BY <1>2, <2>1 DEF WalkOK
<1>4. PICK b, f, k : WalkFinds(D, c, w, b, f, k)
  BY <1>3
<1>5. WalksTo(D, c, b, f, k) /\ w.parts = PartsOf(L, b, f, k)
  <2> HIDE DEF w
  <2> QED BY <1>4 DEF WalkFinds
<1>6. ListOK(D, e) /\ \A j \in DOMAIN L : L[j] \in Media
  BY <1>3, ListShape, ListInMedia
<1>7. /\ L \in Seq(Int) /\ n \in Nat /\ DOMAIN L = 1 .. n /\ n >= 1
      /\ L[1] = e.sector /\ SectorsOf(D, e) = Range(L) /\ IsInjective(L)
      /\ Kind(e) # "fragmented" => n = e.size
  <2> HIDE DEF e
  <2> QED BY <1>6 DEF ListOK
<1>8. b \in Nat /\ f \in Nat /\ k \in Int /\ b = FirstUnit(D, e)
  BY <1>5 DEF WalksTo
<1>9. /\ i \in 1 .. n /\ p \in Parts
      /\ p.s = L[i] /\ p.from = IF i = 1 THEN b ELSE 0
      /\ i = n => p.to = k
  <2>1. /\ w.parts \in Seq(Parts) /\ Len(w.parts) = n /\ DOMAIN w.parts = 1 .. n
    <3> HIDE DEF w, L
    <3> QED BY <1>5, <1>7, <1>8, PartsShape
  <2>2. p \in Parts
    <3> HIDE DEF w, L
    <3> QED BY <1>1, <2>1, ElementOfSeq
  <2>3. i \in 1 .. n
    BY <1>1, <2>1
  <2>4. p = PartsOf(L, b, f, k)[i]
    BY <1>1, <1>5
  <2>5. p.s = L[i] /\ p.from = (IF i = 1 THEN b ELSE 0) /\ (i = n => p.to = k)
    <3> HIDE DEF L
    <3> QED BY <2>3, <2>4 DEF PartsOf
  <2> QED BY <2>2, <2>3, <2>5
<1>10. p.s \in Media /\ p.s \in SectorsOf(D, e) /\ p.from \in Int /\ p.to \in Int
  <2>1. p.s \in Media /\ p.s \in Range(L)
    <3> HIDE DEF L
    <3> QED BY <1>6, <1>7, <1>9 DEF Range
  <2>2. p.from \in Int /\ p.to \in Int
    BY <1>9 DEF Parts
  <2> QED BY <2>1, <2>2, <1>7
<1>11. ASSUME BeginsIn(e, p.s)
       PROVE  /\ p.from = IF e.size = 1 THEN t.short ELSE t.long
              /\ e.size = 1 => p.to <= t.long
  <2>1. Kind(e) = "suballocated" /\ p.s = e.sector
    BY <1>11 DEF BeginsIn
  <2>2. i = 1
    <3>1. i \in DOMAIN L /\ 1 \in DOMAIN L /\ L[i] = L[1]
      <4> HIDE DEF L
      <4> QED BY <1>7, <1>9, <2>1
    <3> HIDE DEF L
    <3> QED BY <3>1, <1>7 DEF IsInjective
  <2>3. p.from = b /\ b = FirstUnit(D, e)
    BY <1>8, <1>9, <2>2
  <2>4. n = e.size /\ e.size \in Nat /\ e.size >= 1
    <3>1. n = e.size
      <4> HIDE DEF L
      <4> QED BY <2>1, <1>7
    <3> QED BY <1>7, <3>1
  <2>5. CASE e.size = 1
    <3>1. IsShort(e) /\ ~(Kind(e) = "fragmented")
      BY <2>1, <2>5 DEF IsShort
    <3>2. FirstUnit(D, e) = TrailerOf(D, e.sector).short
      BY <3>1 DEF FirstUnit
    <3>3. k <= TrailerOf(D, e.sector).long
      BY <1>5, <3>1 DEF WalksTo
    <3>4. p.to = k
      <4> HIDE DEF L
      <4> QED BY <1>9, <2>2, <2>4, <2>5
    <3> HIDE DEF e
    <3> QED BY <2>1, <2>3, <2>5, <3>2, <3>3, <3>4
  <2>6. CASE e.size # 1
    <3>1. IsLong(e) /\ ~IsShort(e) /\ ~(Kind(e) = "fragmented")
      <4> HIDE DEF e
      <4> QED BY <2>1, <2>4, <2>6 DEF IsShort, IsLong
    <3>2. FirstUnit(D, e) = TrailerOf(D, e.sector).long
      BY <3>1 DEF FirstUnit
    <3> HIDE DEF e
    <3> QED BY <2>1, <2>3, <2>6, <3>2
  <2> QED BY <2>5, <2>6
<1>12. ASSUME EndsIn(D, e, p.s), Version = "STAC4", SharedTail(D, c, p.s)
       PROVE  /\ t.short \in Int /\ t.long \in Int
              /\ p.to <= t.short /\ t.short <= t.long
  <2>1. p.s = L[n] /\ ~BeginsIn(e, p.s)
    BY <1>12 DEF EndsIn
  <2>2. i = n
    <3>1. i \in DOMAIN L /\ n \in DOMAIN L /\ L[i] = L[n]
      <4> HIDE DEF L
      <4> QED BY <1>7, <1>9, <2>1
    <3> HIDE DEF L
    <3> QED BY <3>1, <1>7 DEF IsInjective
  <2>3. p.to = k
    BY <1>9, <2>2
  <2>4. ~IsShort(e)
    <3>1. SUFFICES ASSUME IsShort(e) PROVE FALSE
      OBVIOUS
    <3>2. Kind(e) = "suballocated" /\ e.size = 1
      BY <3>1 DEF IsShort
    <3>3. n = 1
      <4> HIDE DEF L
      <4> QED BY <3>2, <1>7
    <3>4. p.s = e.sector
      <4> HIDE DEF L
      <4> QED BY <2>1, <3>3, <1>7
    <3> QED BY <2>1, <3>2, <3>4 DEF BeginsIn
  <2>5. /\ TrailerOf(D, L[n]).short \in Int /\ TrailerOf(D, L[n]).long \in Int
        /\ k <= TrailerOf(D, L[n]).short
        /\ TrailerOf(D, L[n]).short <= TrailerOf(D, L[n]).long
    <3>1. SharedTail(D, c, L[n])
      BY <2>1, <1>12
    <3> QED BY <1>5, <1>12, <2>4, <3>1 DEF WalksTo
  <2> HIDE DEF L
  <2> QED BY <2>1, <2>3, <2>5
<1> QED BY <1>3, <1>10, <1>11, <1>12 DEF PlaceOK

LEMMA UsersFinite ==
  ASSUME NEW D, NEW s
  PROVE  /\ IsFiniteSet(Users(D, s)) /\ CountUsers(D, s) \in Nat
         /\ Users(D, s) = {} <=> CountUsers(D, s) = 0
<1>1. Users(D, s) \subseteq Clusters /\ IsFiniteSet(Clusters)
  BY Geometry DEF Users
<1>2. IsFiniteSet(Users(D, s))
  BY <1>1, FS_Subset
<1> QED BY <1>2, FS_CardinalityType, FS_EmptySet DEF CountUsers

(* A counter says that a sector is shared, so a cluster that ends in it    *)
(* ends where the next one begins.                                         *)
LEMMA SharedTailsSeen ==
  ASSUME bitfat \in [Sectors -> 0 .. 3], UsersCounted,
         NEW c \in Clusters, NEW d \in Clusters, c # d,
         NEW s \in Sectors \intersect SectorsOf(Disk, Disk.mdfat[c])
                           \intersect SectorsOf(Disk, Disk.mdfat[d])
  PROVE  SharedTail(Disk, c, s)
<1>1. {c, d} \subseteq Users(Disk, s)
  BY DEF Users
<1>2. Cardinality({c, d}) = 2
  <2>1. IsFiniteSet({c}) /\ Cardinality({c}) = 1 /\ d \notin {c} /\ {c, d} = {c} \union {d}
    BY FS_Singleton
  <2> QED BY <2>1, FS_AddElement
<1>3. Cardinality({c, d}) <= CountUsers(Disk, s)
  BY <1>1, UsersFinite, FS_Subset DEF CountUsers
<1>4. CountUsers(Disk, s) \in Nat /\ CountUsers(Disk, s) <= bitfat[s] /\ bitfat[s] \in 0 .. 3
  BY UsersFinite DEF UsersCounted
<1>5. bitfat[s] >= 2
  BY <1>2, <1>3, <1>4
<1>6. Counter(Disk, s) = bitfat[s]
  BY DEF Counter, Disk
<1> QED BY <1>4, <1>5, <1>6 DEF SharedTail

LEMMA ArrangedDisjoint ==
  ASSUME Arranged(Disk), bitfat \in [Sectors -> 0 .. 3], UsersCounted
  PROVE  AreasDisjoint
<1> SUFFICES ASSUME NEW c \in Clusters, NEW d \in Clusters, c < d,
                    NEW p \in Range(Walk(Disk, c, 2).parts),
                    NEW q \in Range(Walk(Disk, d, 2).parts),
                    p.s = q.s, p.s # 1
             PROVE  p.to <= q.from \/ q.to <= p.from
  BY DEF AreasDisjoint
<1> DEFINE e == Disk.mdfat[c]
           g == Disk.mdfat[d]
           s == p.s
           t == TrailerOf(Disk, s)
<1>1. c # d
  BY DEF Clusters
<1>2. PlaceOK(Disk, c, p) /\ PlaceOK(Disk, d, q)
  BY PartsInPlace
<1>3. s \in Sectors \intersect SectorsOf(Disk, e) \intersect SectorsOf(Disk, g)
  BY <1>2 DEF PlaceOK, Media
<1>4. Version = "STAC4" /\ MayShare(Disk, e, g, s)
  BY <1>1, <1>3 DEF Arranged
<1>5. SharedTail(Disk, c, s) /\ SharedTail(Disk, d, s)
  BY <1>1, <1>3, SharedTailsSeen
<1>6. /\ p.from \in Int /\ p.to \in Int /\ q.from \in Int /\ q.to \in Int
      /\ BeginsIn(e, s) => /\ p.from = IF e.size = 1 THEN t.short ELSE t.long
                           /\ e.size = 1 => p.to <= t.long
      /\ BeginsIn(g, s) => /\ q.from = IF g.size = 1 THEN t.short ELSE t.long
                           /\ g.size = 1 => q.to <= t.long
      /\ EndsIn(Disk, e, s) => /\ t.short \in Int /\ t.long \in Int
                               /\ p.to <= t.short /\ t.short <= t.long
      /\ EndsIn(Disk, g, s) => /\ t.short \in Int /\ t.long \in Int
                               /\ q.to <= t.short /\ t.short <= t.long
  BY <1>2, <1>4, <1>5 DEF PlaceOK
<1> HIDE DEF e, g, s, t
<1>7. CASE BeginsIn(e, s) /\ EndsIn(Disk, g, s)
  BY <1>6, <1>7
<1>8. CASE BeginsIn(g, s) /\ EndsIn(Disk, e, s)
  BY <1>6, <1>8
<1>9. CASE BeginsIn(e, s) /\ BeginsIn(g, s) /\ ~(e.size = 1 <=> g.size = 1)
  BY <1>6, <1>9
<1> QED BY <1>4, <1>7, <1>8, <1>9 DEF MayShare

---------------------------------------------------------------------------
(* What a cluster may do to a volume without disarranging it.  Writing     *)
(* data: as long as the lists of fragments are kept.                       *)
LEMMA SameShares ==
  ASSUME NEW D, NEW E, NEW e, NEW g, NEW s,
         SectorList(D, e) = SectorList(E, e), SectorList(D, g) = SectorList(E, g)
  PROVE  MayShare(D, e, g, s) <=> MayShare(E, e, g, s)
BY DEF MayShare, EndsIn

LEMMA DataKeepArrangement ==
  ASSUME NEW D, NEW E, Arranged(D), E.mdfat = D.mdfat,
         E.data = [s \in Media |-> [u \in 0 .. SectorSize - 1 |-> E.data[s][u]]],
         \A s \in Media, u \in 0 .. SectorSize - 1 : UnitOK(E.data[s][u]),
         \A c \in Clusters :
           IsUsed(D.mdfat[c]) /\ Kind(D.mdfat[c]) = "fragmented" =>
             E.data[D.mdfat[c].sector][0] = D.data[D.mdfat[c].sector][0]
  PROVE  Arranged(E) /\ \A s : Users(E, s) = Users(D, s)
<1>1. \A c \in Clusters :
        /\ IsUsed(D.mdfat[c]) => SectorList(E, D.mdfat[c]) = SectorList(D, D.mdfat[c])
        /\ Unwalkable(E, D.mdfat[c]) <=> Unwalkable(D, D.mdfat[c])
        /\ SectorsOf(E, D.mdfat[c]) = SectorsOf(D, D.mdfat[c])
  BY SameList
<1>2. \A s : Users(E, s) = Users(D, s)
  BY <1>1 DEF Users
<1>3. \A c \in Clusters : E.mdfat[c] # LostEntry =>
        ~Unwalkable(E, E.mdfat[c]) /\ SectorsOf(E, E.mdfat[c]) \subseteq Sectors
  BY <1>1 DEF Arranged
<1>4. \A c \in Clusters : IsUsed(E.mdfat[c]) => IsInjective(SectorList(E, E.mdfat[c]))
  BY <1>1 DEF Arranged
<1>5. ASSUME NEW c \in Clusters, NEW d \in Clusters, c # d,
             NEW s \in Sectors \intersect SectorsOf(E, E.mdfat[c])
                               \intersect SectorsOf(E, E.mdfat[d])
      PROVE  Version = "STAC4" /\ MayShare(E, E.mdfat[c], E.mdfat[d], s)
  <2>1. s \in Sectors \intersect SectorsOf(D, D.mdfat[c])
                      \intersect SectorsOf(D, D.mdfat[d])
    BY <1>1
  <2>2. Version = "STAC4" /\ MayShare(D, D.mdfat[c], D.mdfat[d], s)
    BY <1>5, <2>1 DEF Arranged
  <2>3. IsUsed(D.mdfat[c]) /\ IsUsed(D.mdfat[d])
    BY <2>1 DEF SectorsOf
  <2>4. MayShare(E, D.mdfat[c], D.mdfat[d], s)
    BY <1>1, <2>2, <2>3, SameShares
  <2> QED BY <2>2, <2>4
<1>6. E.mdfat \in [Clusters -> MdfatEntry]
  BY DEF Arranged
<1> QED BY <1>2, <1>3, <1>4, <1>5, <1>6 DEF Arranged

(* Replacing an entry: by one that has no sectors of the data area, or by  *)
(* one in sectors nobody uses.                                             *)
EntryFits(D, x) ==
  \/ x = FreeEntry
  \/ x = LostEntry
  \/ /\ x \in MdfatEntry /\ IsUsed(x) /\ Kind(x) \in {"plain", "compressed"}
     /\ x.sector .. x.sector + x.size - 1 \subseteq Sectors
     /\ \A s \in x.sector .. x.sector + x.size - 1 : Users(D, s) = {}

LEMMA EntryKeepsArrangement ==
  ASSUME NEW D, NEW E, Arranged(D), NEW c \in Clusters, NEW x, EntryFits(D, x),
         E.mdfat = [D.mdfat EXCEPT ![c] = x], E.data = D.data
  PROVE  /\ Arranged(E)
         /\ \A s : Users(E, s) = IF s \in SectorsOf(E, x) THEN Users(D, s) \union {c}
                                 ELSE Users(D, s) \ {c}
<1>1. \A e : /\ IsUsed(e) => SectorList(E, e) = SectorList(D, e)
             /\ Unwalkable(E, e) <=> Unwalkable(D, e)
             /\ SectorsOf(E, e) = SectorsOf(D, e)
  BY SameList
<1>2. D.mdfat \in [Clusters -> MdfatEntry] /\ x \in MdfatEntry
  BY Geometry DEF Arranged, EntryFits
<1>3. /\ E.mdfat \in [Clusters -> MdfatEntry] /\ E.mdfat[c] = x
      /\ \A d \in Clusters : d # c => E.mdfat[d] = D.mdfat[d]
  BY <1>2
<1>4. \A s : Users(E, s) = IF s \in SectorsOf(E, x) THEN Users(D, s) \union {c}
                           ELSE Users(D, s) \ {c}
  BY <1>1, <1>3 DEF Users
<1>5. /\ ~Unwalkable(E, x)
      /\ IsUsed(x) => IsInjective(SectorList(E, x))
      /\ x = LostEntry \/ SectorsOf(E, x) \subseteq Sectors
      /\ \A s \in Sectors \intersect SectorsOf(E, x) : Users(D, s) = {}
  <2>1. CASE x = FreeEntry
    BY <2>1, EntryKinds DEF Unwalkable, SectorsOf
  <2>2. CASE x = LostEntry
    <3>1. /\ ~Unwalkable(E, x) /\ IsInjective(SectorList(E, x))
          /\ SectorsOf(E, x) = x.sector .. x.sector + x.size - 1
      BY <2>2, <1>2, EntryKinds, ListOfRun
    <3>2. x.sector .. x.sector + x.size - 1 = {1}
      BY <2>2 DEF LostEntry
    <3> QED BY <2>2, <3>1, <3>2, Geometry
  <2>3. CASE /\ IsUsed(x) /\ Kind(x) \in {"plain", "compressed"}
             /\ x.sector .. x.sector + x.size - 1 \subseteq Sectors
             /\ \A s \in x.sector .. x.sector + x.size - 1 : Users(D, s) = {}
    <3>1. /\ ~Unwalkable(E, x) /\ IsInjective(SectorList(E, x))
          /\ SectorsOf(E, x) = x.sector .. x.sector + x.size - 1
      BY <2>3, <1>2, ListOfRun
    <3> QED BY <2>3, <3>1
  <2> QED BY <2>1, <2>2, <2>3 DEF EntryFits
<1>6. \A d \in Clusters : E.mdfat[d] # LostEntry =>
        ~Unwalkable(E, E.mdfat[d]) /\ SectorsOf(E, E.mdfat[d]) \subseteq Sectors
  BY <1>1, <1>3, <1>5 DEF Arranged
<1>7. \A d \in Clusters : IsUsed(E.mdfat[d]) => IsInjective(SectorList(E, E.mdfat[d]))
  BY <1>1, <1>3, <1>5 DEF Arranged
<1>8. \A d \in Clusters : d # c =>
        Sectors \intersect SectorsOf(E, x) \intersect SectorsOf(E, E.mdfat[d]) = {}
  <2>1. SUFFICES ASSUME NEW d \in Clusters, d # c,
                        NEW s \in Sectors \intersect SectorsOf(E, x)
                                          \intersect SectorsOf(E, E.mdfat[d])
                 PROVE  FALSE
    BY Zenon
  <2>2. d \in Users(D, s)
    BY <1>1, <1>3, <2>1 DEF Users
  <2> QED BY <1>5, <2>2
<1>9. ASSUME NEW a \in Clusters, NEW d \in Clusters, a # d,
             NEW s \in Sectors \intersect SectorsOf(E, E.mdfat[a])
                               \intersect SectorsOf(E, E.mdfat[d])
      PROVE  Version = "STAC4" /\ MayShare(E, E.mdfat[a], E.mdfat[d], s)
  <2>1. a # c /\ d # c
    BY <1>3, <1>8, <1>9, Zenon
  <2>2. E.mdfat[a] = D.mdfat[a] /\ E.mdfat[d] = D.mdfat[d]
    BY <1>3, <2>1
  <2>3. s \in Sectors \intersect SectorsOf(D, D.mdfat[a])
                      \intersect SectorsOf(D, D.mdfat[d])
    BY <1>1, <2>2
  <2>4. Version = "STAC4" /\ MayShare(D, D.mdfat[a], D.mdfat[d], s)
    BY <1>9, <2>3 DEF Arranged
  <2>5. IsUsed(D.mdfat[a]) /\ IsUsed(D.mdfat[d])
    BY <2>3 DEF SectorsOf
  <2>6. MayShare(E, D.mdfat[a], D.mdfat[d], s)
    BY <1>1, <2>4, <2>5, SameShares
  <2> QED BY <2>2, <2>4, <2>6
<1>10. /\ E.data = [s \in Media |-> [u \in 0 .. SectorSize - 1 |-> E.data[s][u]]]
       /\ \A s \in Media, u \in 0 .. SectorSize - 1 : UnitOK(E.data[s][u])
  BY DEF Arranged
<1>11. Arranged(E)
  BY <1>3, <1>6, <1>7, <1>9, <1>10 DEF Arranged
<1> QED BY <1>4, <1>11

---------------------------------------------------------------------------
LEMMA NeedIsOwed ==
  ASSUME op \in Calls, CallKnows, NEW s
  PROVE  /\ Owed(s) = IF s \in Owing THEN 1 ELSE 0
         /\ CountUsers(Disk, s) + Owed(s) = Need(s)
<1> DEFINE at == {i \in DOMAIN op.todo : op.todo[i] = s}
<1>1. Owed(s) = IF op.pc \in {"flag", "drop"} THEN Cardinality(at)
                ELSE IF op.pc \in {"mark", "entry"}
                  THEN IF s \in Run \ Range(op.todo) THEN 1 ELSE 0
                ELSE 0
  BY DEF Owed, Run
<1>2. ASSUME op.pc \in {"flag", "drop"}
      PROVE  Cardinality(at) = IF s \in Range(op.todo) THEN 1 ELSE 0
  <2>1. CASE s \in Range(op.todo)
    <3>1. PICK i \in DOMAIN op.todo : op.todo[i] = s
      BY <2>1 DEF Range
    <3>2. IsInjective(op.todo)
      BY <1>2 DEF CallKnows
    <3>3. at = {i}
      BY <3>1, <3>2 DEF IsInjective
    <3> QED BY <2>1, <3>3, FS_Singleton
  <2>2. CASE s \notin Range(op.todo)
    <3>1. at = {}
      BY <2>2 DEF Range
    <3> QED BY <2>2, <3>1, FS_EmptySet
  <2> QED BY <2>1, <2>2
<1>3. Owed(s) = IF s \in Owing THEN 1 ELSE 0
  <2> HIDE DEF at
  <2> QED BY <1>1, <1>2 DEF Owing
<1> QED BY <1>3 DEF Need

(* The same for the state after a step.                                    *)
LEMMA NeedIsOwedPrime ==
  op \in Calls /\ CallKnows => \A s : CountUsers(Disk, s) + Owed(s) = Need(s)
BY NeedIsOwed

LEMMA NeedIsNat == \A s : Need(s) \in Nat
BY UsersFinite DEF Need

(* How the free sectors change with one counter.                           *)
LEMMA FreeCountTyped == FreeCount \in Nat
<1>1. IsFiniteSet(Sectors \ Marked)
  BY Geometry, FS_Difference
<1> QED BY <1>1, FS_CardinalityType DEF FreeCount

LEMMA CounterChange ==
  ASSUME bitfat \in [Sectors -> 0 .. 3], NEW s \in Sectors, NEW n \in 0 .. 3,
         bitfat' = [bitfat EXCEPT ![s] = n]
  PROVE  /\ bitfat' \in [Sectors -> 0 .. 3]
         /\ FreeCount' = IF bitfat[s] = 0 /\ n # 0 THEN FreeCount - 1
                         ELSE IF bitfat[s] # 0 /\ n = 0 THEN FreeCount + 1
                         ELSE FreeCount
<1>1. bitfat' \in [Sectors -> 0 .. 3]
  OBVIOUS
<1>2. bitfat'[s] = n /\ \A x \in Sectors : x # s => bitfat'[x] = bitfat[x]
  OBVIOUS
<1>3. /\ Marked = {x \in Sectors : bitfat[x] # 0}
      /\ Marked' = {x \in Sectors : bitfat'[x] # 0}
  BY DEF Marked
<1>4. Sectors \ Marked' = IF n = 0 THEN (Sectors \ Marked) \union {s}
                          ELSE (Sectors \ Marked) \ {s}
  BY <1>2, <1>3, Zenon
<1>5. s \in Sectors \ Marked <=> bitfat[s] = 0
  BY <1>3
<1>6. IsFiniteSet(Sectors \ Marked)
  BY Geometry, FS_Difference
<1>7. /\ Cardinality((Sectors \ Marked) \union {s})
           = IF bitfat[s] = 0 THEN FreeCount ELSE FreeCount + 1
      /\ Cardinality((Sectors \ Marked) \ {s})
           = IF bitfat[s] = 0 THEN FreeCount - 1 ELSE FreeCount
  BY <1>5, <1>6, FS_AddElement, FS_RemoveElement DEF FreeCount
<1>8. FreeCount' = Cardinality(Sectors \ Marked')
  BY DEF FreeCount
<1> QED BY <1>1, <1>4, <1>7, <1>8

LEMMA SuperblockChange ==
  ASSUME NEW m \in Superblock, NEW n \in Int
  PROVE  /\ [m EXCEPT !.free = n] \in Superblock /\ [m EXCEPT !.free = n].free = n
         /\ [m EXCEPT !.full = 0, !.free = n] \in Superblock
         /\ [m EXCEPT !.full = 0, !.free = n].free = n
<1>1. \A k \in Superblock :
        [k EXCEPT !.free = n] \in Superblock /\ [k EXCEPT !.free = n].free = n
  BY DEF Superblock
<1>2. [m EXCEPT !.full = 0] \in Superblock
  BY DEF Superblock
<1>3. [m EXCEPT !.full = 0, !.free = n] = [[m EXCEPT !.full = 0] EXCEPT !.free = n]
  BY DEF Superblock
<1> QED BY <1>1, <1>2, <1>3

(* Writing a counter as dbl_replace_existing_cluster and the repair do.    *)
LEMMA SetCounterKeeps ==
  ASSUME bitfat \in [Sectors -> 0 .. 3], sb \in Superblock, sb.free = FreeCount,
         NEW s \in Sectors, NEW n \in 0 .. 3, SetCounter(s, n)
  PROVE  /\ bitfat' = [bitfat EXCEPT ![s] = n] /\ bitfat' \in [Sectors -> 0 .. 3]
         /\ sb' \in Superblock /\ sb'.free = FreeCount'
<1> DEFINE k == IF bitfat[s] = 0 /\ n # 0 THEN FreeCount - 1
                ELSE IF bitfat[s] # 0 /\ n = 0 THEN FreeCount + 1 ELSE FreeCount
<1>1. bitfat' = [bitfat EXCEPT ![s] = n]
  BY DEF SetCounter
<1>2. bitfat' \in [Sectors -> 0 .. 3] /\ FreeCount' = k
  BY <1>1, CounterChange
<1>3. sb' = [sb EXCEPT !.free = k]
  BY DEF SetCounter
<1>4. k \in Int
  BY FreeCountTyped
<1> HIDE DEF k
<1>5. sb' \in Superblock /\ sb'.free = k
  BY <1>3, <1>4, SuperblockChange
<1> QED BY <1>1, <1>2, <1>5

---------------------------------------------------------------------------
(* A step settles when it leaves no counter wrong that was right.          *)
Settles == \A s \in Sectors : bitfat[s] = Need(s) => bitfat'[s] = Need(s)'

LEMMA IdleTyped == Idle \in Calls
<1>1. /\ None \in Clusters \union {None} /\ None \in Payloads \union {None}
      /\ 0 \in 0 .. ClusterUnits /\ FreeEntry \in MdfatEntry
  BY Geometry
<1>2. <<>> \in Seq(Int) /\ <<>> \in Seq(Parts)
  BY EmptySeq
<1> QED BY <1>1, <1>2 DEF Idle, Calls, Pcs, Outcomes

(* The fields of a running call.                                           *)
LEMMA CallChange ==
  ASSUME NEW o \in Calls, NEW pc \in Pcs, NEW q \in Seq(Int)
  PROVE  /\ [o EXCEPT !.pc = pc] \in Calls
         /\ [o EXCEPT !.todo = q] \in Calls
         /\ [o EXCEPT !.pc = pc, !.todo = q] \in Calls
<1>1. \A k \in Calls : [k EXCEPT !.pc = pc] \in Calls
  BY DEF Calls
<1>2. \A k \in Calls : [k EXCEPT !.todo = q] \in Calls
  BY DEF Calls
<1>3. [o EXCEPT !.pc = pc, !.todo = q] = [[o EXCEPT !.pc = pc] EXCEPT !.todo = q]
  BY DEF Calls
<1> QED BY <1>1, <1>2, <1>3

LEMMA SectorChange ==
  ASSUME NEW o \in Calls, NEW pc \in Pcs, NEW q \in Seq(Int), NEW n \in Int
  PROVE  [o EXCEPT !.pc = pc, !.sector = n, !.todo = q] \in Calls
<1>1. \A k \in Calls : [k EXCEPT !.sector = n] \in Calls
  BY DEF Calls
<1>2. [o EXCEPT !.pc = pc, !.sector = n, !.todo = q]
        = [[o EXCEPT !.pc = pc, !.todo = q] EXCEPT !.sector = n]
  BY DEF Calls
<1> QED BY <1>1, <1>2, CallChange

LEMMA PartsChange ==
  ASSUME NEW o \in Calls, NEW pc \in Pcs, NEW p \in Seq(Parts), NEW r \in Outcomes
  PROVE  /\ [o EXCEPT !.parts = p, !.res = r] \in Calls
         /\ [o EXCEPT !.pc = pc, !.parts = p, !.res = r] \in Calls
<1>1. \A k \in Calls : [k EXCEPT !.pc = pc] \in Calls
  BY DEF Calls
<1>2. \A k \in Calls : [k EXCEPT !.parts = p] \in Calls
  BY DEF Calls
<1>3. \A k \in Calls : [k EXCEPT !.res = r] \in Calls
  BY DEF Calls
<1>4. [o EXCEPT !.parts = p, !.res = r] = [[o EXCEPT !.parts = p] EXCEPT !.res = r]
  BY DEF Calls
<1>5. [o EXCEPT !.pc = pc, !.parts = p, !.res = r]
        = [[[o EXCEPT !.pc = pc] EXCEPT !.parts = p] EXCEPT !.res = r]
  BY DEF Calls
<1>6. [o EXCEPT !.parts = p, !.res = r] \in Calls
  BY <1>2, <1>3, <1>4
<1>7. [o EXCEPT !.pc = pc, !.parts = p, !.res = r] \in Calls
  BY <1>1, <1>2, <1>3, <1>5
<1> QED BY <1>6, <1>7

(* A call that has ended relies on nothing.                                *)
Ended(o) == o \in Calls /\ o.pc \in {"idle", "down"} /\ o.val = None

LEMMA EndedCall ==
  ASSUME Ended(op')
  PROVE  CallKnows' /\ RunUnused' /\ ListsKept' /\ Owing' = {}
BY DEF Ended, CallKnows, RunUnused, ListsKept, Owing

LEMMA FinishedCall ==
  ASSUME NEW code \in Outcomes, Finish(code)
  PROVE  Ended(op') /\ op'.pc = "idle" /\ op'.res = code
<1>1. op' = [Idle EXCEPT !.res = code]
  BY DEF Finish
<1>2. \A o \in Calls : [o EXCEPT !.res = code] \in Calls
  BY DEF Calls
<1> QED BY <1>1, <1>2, IdleTyped DEF Idle, Ended

LEMMA HaltedCall ==
  ASSUME NEW why \in Outcomes, Halt(why)
  PROVE  /\ Ended(op') /\ op'.pc = "down" /\ op'.res = why
         /\ sb' \in Superblock /\ FreeCountExact'
<1>1. op' = [Idle EXCEPT !.pc = "down", !.res = why] /\ sb' = Unmounted
  BY DEF Halt
<1>2. \A o \in Calls : [o EXCEPT !.pc = "down", !.res = why] \in Calls
  BY DEF Calls, Pcs
<1>3. Ended(op') /\ op'.pc = "down" /\ op'.res = why
  BY <1>1, <1>2, IdleTyped DEF Idle, Ended
<1>4. sb' \in Superblock
  BY <1>1 DEF Unmounted, Superblock
<1> QED BY <1>3, <1>4 DEF FreeCountExact

(* As long as neither entries nor data change, neither does anything that  *)
(* depends on them.                                                        *)
LEMMA SameLayout ==
  ASSUME Arranged(Disk), UNCHANGED <<mdfat, data>>
  PROVE  /\ Arranged(Disk)'
         /\ \A s : Users(Disk, s)' = Users(Disk, s)
         /\ \A s : CountUsers(Disk, s)' = CountUsers(Disk, s)
<1>1. /\ Disk.mdfat = mdfat /\ Disk.data = data
      /\ Disk'.mdfat = mdfat /\ Disk'.data = data
  BY DEF Disk
<1>2. Arranged(Disk') /\ \A s : Users(Disk', s) = Users(Disk, s)
  <2>1. /\ Disk'.mdfat = Disk.mdfat
        /\ Disk'.data = [s \in Media |-> [u \in 0 .. SectorSize - 1 |-> Disk'.data[s][u]]]
        /\ \A s \in Media, u \in 0 .. SectorSize - 1 : UnitOK(Disk'.data[s][u])
    BY <1>1 DEF Arranged
  <2>2. \A c \in Clusters :
          IsUsed(Disk.mdfat[c]) /\ Kind(Disk.mdfat[c]) = "fragmented" =>
             Disk'.data[Disk.mdfat[c].sector][0] = Disk.data[Disk.mdfat[c].sector][0]
    BY <1>1
  <2> HIDE DEF Arranged
  <2> QED BY <2>1, <2>2, DataKeepArrangement
<1>3. \A s : CountUsers(Disk', s) = CountUsers(Disk, s)
  BY <1>2 DEF CountUsers
<1> QED BY <1>2, <1>3

LEMMA SameFree ==
  ASSUME UNCHANGED bitfat
  PROVE  FreeCount' = FreeCount
BY DEF FreeCount, Marked

(* Steps that leave the disk alone and have nothing to give back.          *)
LEMMA QuietStep ==
  ASSUME IInv, UNCHANGED <<mdfat, bitfat, data>>, state' \in {"clean", "dirty", "bad"},
         op' \in Calls, sb' \in Superblock, CallKnows', RunUnused', ListsKept',
         FreeCountExact', Owing' = {}
  PROVE  IInv' /\ (Sectors \intersect Owing = {} => Settles)
<1>1. Arranged(Disk)' /\ \A s : CountUsers(Disk, s)' = CountUsers(Disk, s)
  BY SameLayout DEF IInv
<1>2. \A s : CountUsers(Disk, s) \in Nat
  BY UsersFinite
<1>3. \A s \in Sectors : bitfat[s] \in 0 .. 3
  BY DEF IInv, Typed
<1>4. ASSUME NEW s \in Sectors
      PROVE  Need(s)' = CountUsers(Disk, s) /\ Need(s)' <= bitfat'[s]
  <2>1. Need(s)' = CountUsers(Disk, s) + 0
    BY <1>1 DEF Need
  <2>2. Need(s) = CountUsers(Disk, s) \/ Need(s) = CountUsers(Disk, s) + 1
    BY <1>2 DEF Need
  <2>3. Need(s) <= bitfat[s]
    BY DEF IInv, Covered
  <2> QED BY <1>2, <1>3, <2>1, <2>2, <2>3
<1>5. Covered'
  BY <1>4 DEF Covered
<1>6. Sectors \intersect Owing = {} => Settles
  BY <1>2, <1>4 DEF Settles, Need
<1>7. Typed'
  BY DEF IInv, Typed
<1> QED BY <1>1, <1>5, <1>6, <1>7 DEF IInv

LEMMA QuietEnd ==
  ASSUME IInv, UNCHANGED <<mdfat, bitfat, data>>, state' \in {"clean", "dirty", "bad"},
         Ended(op'), sb' \in Superblock, FreeCountExact'
  PROVE  IInv' /\ (Sectors \intersect Owing = {} => Settles)
BY QuietStep, EndedCall DEF Ended

LEMMA RecountKeeps ==
  ASSUME IInv, CheckFreeSectors, UNCHANGED bitfat, op.pc # "down"
  PROVE  sb' \in Superblock /\ FreeCountExact'
<1>1. sb \in Superblock /\ sb.free = FreeCount /\ FreeCount \in Int /\ FreeCount' = FreeCount
  BY FreeCountTyped, SameFree DEF IInv, Typed, FreeCountExact
<1>2. sb' = sb \/ sb' = [sb EXCEPT !.free = FreeCount]
  BY DEF CheckFreeSectors
<1>3. [sb EXCEPT !.free = FreeCount] \in Superblock
      /\ [sb EXCEPT !.free = FreeCount].free = FreeCount
  BY <1>1, SuperblockChange
<1>4. sb' \in Superblock /\ sb'.free = FreeCount
  BY <1>1, <1>2, <1>3, Zenon
<1> QED BY <1>1, <1>4 DEF FreeCountExact

LEMMA StatesTyped ==
  ASSUME IInv
  PROVE  /\ state \in {"clean", "dirty", "bad"} /\ sb \in Superblock /\ op \in Calls
         /\ bitfat \in [Sectors -> 0 .. 3]
         /\ mdfat \in [Clusters -> MdfatEntry] /\ op.old \in MdfatEntry
         /\ Disk.mdfat = mdfat /\ Disk.data = data
         /\ op.pc # "down" => sb.free = FreeCount
BY DEF IInv, Typed, Arranged, Disk, Calls, FreeCountExact

---------------------------------------------------------------------------
(* The parts a walk comes by keep off the lists of fragments: the own one  *)
(* lies before the first part, and nobody shares the sector of another.    *)
PartsKeepOff(D, p) ==
  \A j \in DOMAIN p, d \in Clusters :
     IsUsed(D.mdfat[d]) /\ Kind(D.mdfat[d]) = "fragmented"
       /\ p[j].s = D.mdfat[d].sector => p[j].from > 0

LEMMA WalkParts ==
  ASSUME NEW D, Arranged(D), NEW c \in Clusters, NEW flg,
         IsUsed(D.mdfat[c]), ~Walk(D, c, flg).error
  PROVE  LET p == Walk(D, c, flg).parts
         IN  p \in Seq(Parts) /\ p # <<>> /\ PartsKeepOff(D, p)
<1> DEFINE w == Walk(D, c, flg)
           e == D.mdfat[c]
           L == SectorList(D, e)
<1>1. ~Unwalkable(D, e) /\ \E b, f, k : WalkFinds(D, c, w, b, f, k)
  <2>1. WalkOK(D, c, w) /\ ~w.error
    BY WalkIsOK
  <2> HIDE DEF w
  <2> QED BY <2>1 DEF WalkOK
<1>2. PICK b, f, k : WalkFinds(D, c, w, b, f, k)
  BY <1>1
<1>3. WalksTo(D, c, b, f, k) /\ w.parts = PartsOf(L, b, f, k)
  <2> HIDE DEF w
  <2> QED BY <1>2 DEF WalkFinds
<1>4. /\ L \in Seq(Int) /\ Len(L) \in Nat /\ DOMAIN L = 1 .. Len(L) /\ Len(L) >= 1
      /\ L[1] = e.sector /\ SectorsOf(D, e) = Range(L) /\ IsInjective(L)
  <2>1. ListOK(D, e)
    BY <1>1, ListShape
  <2> HIDE DEF e
  <2> QED BY <2>1 DEF ListOK
<1>5. b \in Nat /\ f \in Nat /\ k \in Int /\ b = FirstUnit(D, e)
  BY <1>3 DEF WalksTo
<1>6. w.parts \in Seq(Parts) /\ Len(w.parts) = Len(L) /\ DOMAIN w.parts = DOMAIN L
  <2> HIDE DEF w, L
  <2> QED BY <1>3, <1>4, <1>5, PartsShape
<1>7. w.parts # <<>>
  <2> HIDE DEF w, L
  <2> QED BY <1>4, <1>6
<1>8. ASSUME NEW j \in DOMAIN w.parts, NEW d \in Clusters,
             IsUsed(D.mdfat[d]), Kind(D.mdfat[d]) = "fragmented",
             w.parts[j].s = D.mdfat[d].sector
      PROVE  w.parts[j].from > 0
  <2> DEFINE g == D.mdfat[d]
             G == SectorList(D, g)
  <2>1. /\ j \in DOMAIN L /\ w.parts[j].s = L[j]
        /\ w.parts[j].from = IF j = 1 THEN b ELSE 0
    <3>1. j \in 1 .. Len(L) /\ w.parts[j] = PartsOf(L, b, f, k)[j]
      <4> HIDE DEF w, L
      <4> QED BY <1>3, <1>4, <1>6, <1>8
    <3> HIDE DEF w, L
    <3> QED BY <3>1, <1>4 DEF PartsOf
  <2>2. CASE d = c
    <3>1. L[j] = L[1] /\ 1 \in DOMAIN L
      <4>1. w.parts[j].s = e.sector
        BY <1>8, <2>2
      <4> HIDE DEF L, w, e
      <4> QED BY <1>4, <2>1, <4>1
    <3>2. j = 1
      <4> HIDE DEF L
      <4> QED BY <2>1, <3>1, <1>4 DEF IsInjective
    <3>3. b = 1
      BY <1>5, <1>8, <2>2 DEF FirstUnit
    <3> HIDE DEF w
    <3> QED BY <2>1, <3>2, <3>3
  <2>3. CASE d # c
    <3>1. g # LostEntry
      BY <1>8, EntryKinds
    <3>2. SectorsOf(D, g) \subseteq Sectors /\ ~Unwalkable(D, g)
      BY <3>1 DEF Arranged
    <3>3. /\ DOMAIN G = 1 .. Len(G) /\ Len(G) \in Nat /\ Len(G) > 1
          /\ G[1] = g.sector /\ SectorsOf(D, g) = Range(G) /\ IsInjective(G)
      <4>1. ListOK(D, g) /\ Kind(g) = "fragmented"
        BY <1>8, <3>2, ListShape
      <4> HIDE DEF g
      <4> QED BY <4>1 DEF ListOK
    <3>4. 1 \in DOMAIN G /\ Len(G) \in DOMAIN G /\ 1 # Len(G)
      <4> HIDE DEF G
      <4> QED BY <3>3
    <3>5. G[Len(G)] # g.sector
      <4> HIDE DEF G, g
      <4> QED BY <3>3, <3>4 DEF IsInjective
    <3>6. g.sector \in SectorsOf(D, g)
      <4> HIDE DEF G, g
      <4> QED BY <3>3, <3>4 DEF Range
    <3>7. g.sector \in SectorsOf(D, e)
      <4>1. L[j] \in Range(L)
        BY <2>1 DEF Range
      <4>2. L[j] = g.sector
        BY <2>1, <1>8
      <4> QED BY <4>1, <4>2, <1>4
    <3>8. MayShare(D, e, g, g.sector)
      BY <2>3, <3>2, <3>6, <3>7 DEF Arranged
    <3>9. ~BeginsIn(g, g.sector) /\ ~EndsIn(D, g, g.sector)
      BY <1>8, <3>5 DEF BeginsIn, EndsIn
    <3> HIDE DEF g, e
    <3> QED BY <3>8, <3>9 DEF MayShare
  <2> QED BY <2>2, <2>3
<1>9. PartsKeepOff(D, w.parts)
  <2> HIDE DEF w
  <2> QED BY <1>8 DEF PartsKeepOff
<1> QED BY <1>6, <1>7, <1>9

---------------------------------------------------------------------------
(* One lemma for every action.                                             *)
LEMMA DeleteKeeps ==
  ASSUME IInv, NEW c \in Clusters, DeleteCluster(c)
  PROVE  IInv' /\ Settles
<1>1. op' = [Idle EXCEPT !.pc = "erase", !.cl = c, !.old = mdfat[c]]
      /\ op.pc = "idle" /\ UNCHANGED disk /\ CheckFreeSectors
  BY DEF DeleteCluster
<1>2. mdfat[c] \in MdfatEntry
  BY StatesTyped
<1>3. \A m \in MdfatEntry, o \in Calls :
        [o EXCEPT !.pc = "erase", !.cl = c, !.old = m] \in Calls
  BY DEF Calls, Pcs
<1>4. op' \in Calls /\ op'.pc = "erase" /\ op'.val = None /\ op'.cl = c /\ op'.old = mdfat[c]
  BY <1>1, <1>2, <1>3, IdleTyped DEF Idle
<1>5. Owing = {} /\ Owing' = {}
  BY <1>1, <1>4 DEF Owing
<1>6. CallKnows' /\ RunUnused' /\ ListsKept'
  BY <1>1, <1>4 DEF CallKnows, RunUnused, ListsKept, disk
<1>7. sb' \in Superblock /\ FreeCountExact'
  BY <1>1, RecountKeeps DEF disk
<1> QED BY <1>1, <1>4, <1>5, <1>6, <1>7, QuietStep, StatesTyped DEF disk

LEMMA WalkFailsKeeps ==
  ASSUME IInv, NEW c \in Clusters, WalkFails(c)
  PROVE  IInv' /\ Settles
<1>1. Finish("ioerror") /\ op.pc = "idle" /\ UNCHANGED disk /\ CheckFreeSectors
  BY DEF WalkFails
<1>2. Ended(op')
  BY <1>1, FinishedCall DEF Outcomes
<1>3. Owing = {}
  BY <1>1 DEF Owing
<1>4. sb' \in Superblock /\ FreeCountExact'
  BY <1>1, RecountKeeps DEF disk
<1> QED BY <1>1, <1>2, <1>3, <1>4, QuietEnd, StatesTyped DEF disk

LEMMA PayloadLengths ==
  ASSUME NEW v \in Payloads, NEW len \in CompressedLengths[v] \union {Length[v]}
  PROVE  len \in 0 .. ClusterUnits /\ len > 0 /\ v # None
<1>1. Length[v] \in 1 .. ClusterUnits /\ CompressedLengths[v] \subseteq Nat
  BY StacAssumption
<1>2. \A k \in CompressedLengths[v] : 0 < k /\ k < Length[v]
  BY StacAssumption
<1>3. v # None /\ ClusterUnits \in Nat
  BY CallAssumption, Geometry
<1> QED BY <1>1, <1>2, <1>3

LEMMA WriteKeeps ==
  ASSUME IInv, NEW c \in Clusters, NEW v \in Payloads, WriteCluster(c, v)
  PROVE  IInv' /\ Settles
<1> DEFINE w == Walk(Disk, c, 3)
<1>1. PICK len \in CompressedLengths[v] \union {Length[v]}, near \in NearHints :
        LET plain == len = Length[v]
            call == [Idle EXCEPT !.cl = c, !.val = v, !.len = len, !.plain = plain,
                                 !.near = near, !.old = mdfat[c]]
        IN  IF w.error THEN Finish("ioerror")
            ELSE IF FitsInPlace(c, len, plain)
              THEN op' = [call EXCEPT !.pc = "data", !.parts = w.parts, !.res = "ok"]
            ELSE op' = [call EXCEPT !.pc = IF IsUsed(mdfat[c]) THEN "erase" ELSE "alloc"]
  BY DEF WriteCluster
<1>2. op.pc = "idle" /\ UNCHANGED disk /\ CheckFreeSectors /\ Owing = {}
  BY DEF WriteCluster, Owing
<1>3. sb' \in Superblock /\ FreeCountExact'
  BY <1>2, RecountKeeps DEF disk
<1> DEFINE plain == len = Length[v]
           call == [Idle EXCEPT !.cl = c, !.val = v, !.len = len, !.plain = plain,
                                !.near = near, !.old = mdfat[c]]
<1>4. call \in Calls /\ call.val = v /\ call.cl = c /\ call.len > 0 /\ call.old = mdfat[c]
      /\ call.todo = <<>>
  <2>1. len \in 0 .. ClusterUnits /\ len > 0 /\ near \in Nat /\ mdfat[c] \in MdfatEntry
    BY PayloadLengths, CallAssumption, StatesTyped
  <2>2. \A p \in BOOLEAN : [Idle EXCEPT !.cl = c, !.val = v, !.len = len, !.plain = p,
                                !.near = near, !.old = mdfat[c]] \in Calls
    BY <2>1, IdleTyped DEF Calls
  <2>3. plain \in BOOLEAN
    OBVIOUS
  <2>4. call \in Calls
    <3> HIDE DEF plain
    <3> QED BY <2>2, <2>3
  <2>5. call.val = v /\ call.cl = c /\ call.len = len /\ call.old = mdfat[c] /\ call.todo = <<>>
    <3> HIDE DEF plain
    <3> QED BY DEF Idle
  <2> QED BY <2>1, <2>4, <2>5
<1>5. v # None
  BY PayloadLengths
<1> HIDE DEF call, plain
<1>6. CASE w.error
  <2>1. Finish("ioerror")
    BY <1>1, <1>6
  <2>2. Ended(op')
    BY <2>1, FinishedCall DEF Outcomes
  <2> QED BY <1>2, <1>3, <2>2, QuietEnd, StatesTyped DEF disk
<1>7. CASE ~w.error /\ FitsInPlace(c, len, plain)
  <2>1. op' = [call EXCEPT !.pc = "data", !.parts = w.parts, !.res = "ok"]
    BY <1>1, <1>7 DEF call, plain
  <2>2. w.parts \in Seq(Parts) /\ w.parts # <<>> /\ PartsKeepOff(Disk, w.parts)
    <3>1. IsUsed(mdfat[c])
      BY <1>7 DEF FitsInPlace
    <3>2. Arranged(Disk) /\ IsUsed(Disk.mdfat[c])
      BY <3>1, StatesTyped DEF IInv
    <3> QED BY <1>7, <3>2, WalkParts
  <2> HIDE DEF w
  <2>3. /\ op' \in Calls /\ op'.pc = "data" /\ op'.val = v /\ op'.cl = c
        /\ op'.len > 0 /\ op'.parts = w.parts
    <3>1. "data" \in Pcs /\ "ok" \in Outcomes
      BY DEF Pcs, Outcomes
    <3>2. call = [pc |-> call.pc, cl |-> call.cl, val |-> call.val, len |-> call.len,
                  plain |-> call.plain, near |-> call.near, old |-> call.old,
                  sector |-> call.sector, todo |-> call.todo, parts |-> call.parts,
                  res |-> call.res]
      BY <1>4 DEF Calls
    <3>3. op' \in Calls
      BY <1>4, <2>1, <2>2, <3>1, PartsChange
    <3> QED BY <1>4, <2>1, <3>2, <3>3
  <2>4. CallKnows' /\ RunUnused' /\ Owing' = {}
    BY <1>5, <2>3 DEF CallKnows, RunUnused, Owing
  <2>5. ListsKept'
    <3>1. mdfat' = mdfat /\ Disk.mdfat = mdfat
      BY <1>2, StatesTyped DEF disk
    <3> QED BY <2>2, <2>3, <3>1 DEF ListsKept, PartsKeepOff
  <2> QED BY <1>2, <1>3, <2>3, <2>4, <2>5, QuietStep, StatesTyped DEF disk
<1>8. CASE ~w.error /\ ~FitsInPlace(c, len, plain)
  <2>1. PICK pc \in {"erase", "alloc"} : op' = [call EXCEPT !.pc = pc]
    BY <1>1, <1>8 DEF call, plain
  <2>2. /\ op' \in Calls /\ op'.pc = pc /\ op'.val = v /\ op'.cl = c
        /\ op'.len > 0 /\ op'.old = mdfat[c]
    <3>1. \A o \in Calls : [o EXCEPT !.pc = pc] \in Calls
      BY DEF Calls, Pcs
    <3>2. call = [pc |-> call.pc, cl |-> call.cl, val |-> call.val, len |-> call.len,
                  plain |-> call.plain, near |-> call.near, old |-> call.old,
                  sector |-> call.sector, todo |-> call.todo, parts |-> call.parts,
                  res |-> call.res]
      BY <1>4 DEF Calls
    <3> QED BY <1>4, <2>1, <3>1, <3>2
  <2>3. CallKnows' /\ RunUnused' /\ ListsKept' /\ Owing' = {}
    BY <1>2, <1>5, <2>2 DEF CallKnows, RunUnused, ListsKept, Owing, disk
  <2> QED BY <1>2, <1>3, <2>2, <2>3, QuietStep, StatesTyped DEF disk
<1> QED BY <1>6, <1>7, <1>8

LEMMA AfterFreeKeeps ==
  ASSUME IInv, op.pc \in {"erase", "drop"}, AfterFree
  PROVE  op' \in Calls /\ CallKnows' /\ RunUnused' /\ ListsKept' /\ Owing' = {}
<1>1. op \in Calls /\ op.cl \in Clusters /\ (op.val # None => op.len > 0)
  BY DEF IInv, Typed, CallKnows
<1>2. CASE op.val = None
  <2>1. Ended(op')
    BY <1>2, FinishedCall DEF AfterFree, Outcomes
  <2> QED BY <2>1, EndedCall DEF Ended
<1>3. CASE op.val # None
  <2>1. op' = [op EXCEPT !.pc = "alloc", !.todo = <<>>]
    BY <1>3 DEF AfterFree
  <2>2. op' \in Calls
    BY <1>1, <2>1, CallChange, EmptySeq DEF Pcs
  <2>3. op'.pc = "alloc" /\ op'.val = op.val /\ op'.cl = op.cl /\ op'.len = op.len
    BY <1>1, <2>1 DEF Calls
  <2> QED BY <1>1, <1>3, <2>2, <2>3 DEF CallKnows, RunUnused, ListsKept, Owing
<1> QED BY <1>2, <1>3

LEMMA SameSuperblock ==
  ASSUME IInv, op.pc # "down", UNCHANGED <<bitfat, sb>>
  PROVE  sb' \in Superblock /\ FreeCountExact'
BY SameFree, StatesTyped DEF FreeCountExact

LEMMA NothingToEraseKeeps ==
  ASSUME IInv, NothingToErase
  PROVE  IInv' /\ Settles
<1>1. op.pc = "erase" /\ AfterFree /\ UNCHANGED <<disk, sb>>
  BY DEF NothingToErase
<1>2. op' \in Calls /\ CallKnows' /\ RunUnused' /\ ListsKept' /\ Owing' = {} /\ Owing = {}
  BY <1>1, AfterFreeKeeps DEF Owing
<1>3. sb' \in Superblock /\ FreeCountExact'
  BY <1>1, SameSuperblock DEF disk
<1> QED BY <1>1, <1>2, <1>3, QuietStep, StatesTyped DEF disk

(* How the entry of one cluster changes who uses a sector.                 *)
LEMMA EntryChange ==
  ASSUME IInv, NEW c \in Clusters, NEW x, EntryFits(Disk, x),
         mdfat' = [mdfat EXCEPT ![c] = x], data' = data
  PROVE  /\ Arranged(Disk)'
         /\ \A s : Users(Disk, s)' = IF s \in SectorsOf(Disk, x)
                                     THEN Users(Disk, s) \union {c}
                                     ELSE Users(Disk, s) \ {c}
<1>1. /\ Disk.mdfat = mdfat /\ Disk.data = data /\ Disk'.mdfat = mdfat' /\ Disk'.data = data
  BY DEF Disk
<1>2. Arranged(Disk)
  BY DEF IInv
<1>3. Disk'.mdfat = [Disk.mdfat EXCEPT ![c] = x] /\ Disk'.data = Disk.data
  BY <1>1
<1>4. /\ Arranged(Disk')
      /\ \A s : Users(Disk', s) = IF s \in SectorsOf(Disk', x) THEN Users(Disk, s) \union {c}
                                  ELSE Users(Disk, s) \ {c}
  BY <1>2, <1>3, EntryKeepsArrangement
<1>5. SectorsOf(Disk', x) = SectorsOf(Disk, x)
  BY <1>3, SameList
<1> QED BY <1>4, <1>5

LEMMA CountChange ==
  ASSUME NEW s, NEW c
  PROVE  /\ Cardinality(Users(Disk, s) \union {c})
              = IF c \in Users(Disk, s) THEN CountUsers(Disk, s) ELSE CountUsers(Disk, s) + 1
         /\ Cardinality(Users(Disk, s) \ {c})
              = IF c \in Users(Disk, s) THEN CountUsers(Disk, s) - 1 ELSE CountUsers(Disk, s)
BY UsersFinite, FS_AddElement, FS_RemoveElement DEF CountUsers

LEMMA EraseKeeps ==
  ASSUME IInv, EraseEntry
  PROVE  IInv' /\ Settles
<1> DEFINE L == SectorList(Disk, op.old)
<1>1. /\ op.pc = "erase" /\ IsUsed(op.old) /\ ~Unwalkable(Disk, op.old)
      /\ mdfat' = [mdfat EXCEPT ![op.cl] = FreeEntry]
      /\ UNCHANGED <<bitfat, data, state, sb>>
  BY DEF EraseEntry
<1>2. PICK pc \in {"flag", "drop"} : op' = [op EXCEPT !.pc = pc, !.todo = L]
  BY DEF EraseEntry
<1>3. op.cl \in Clusters /\ op.old = Disk.mdfat[op.cl] /\ (op.val # None => op.len > 0)
  BY <1>1, StatesTyped DEF IInv, CallKnows
<1>4. /\ L \in Seq(Int) /\ L # <<>> /\ IsInjective(L) /\ Range(L) = SectorsOf(Disk, op.old)
  <2>1. ListOK(Disk, op.old)
    BY <1>1, <1>3, ListShape DEF IInv
  <2>2. /\ L \in Seq(Int) /\ IsInjective(L) /\ Range(L) = SectorsOf(Disk, op.old)
        /\ Len(L) \in Nat /\ Len(L) >= 1
    BY <2>1 DEF ListOK
  <2>3. L # <<>>
    <3> HIDE DEF L
    <3> QED BY <2>2
  <2> QED BY <2>2, <2>3
<1>5. /\ op' \in Calls /\ op'.pc = pc /\ op'.val = op.val /\ op'.cl = op.cl
      /\ op'.len = op.len /\ op'.old = op.old /\ op'.todo = L
  <2> HIDE DEF L
  <2>1. op \in Calls
    BY StatesTyped
  <2>2. op' \in Calls
    BY <1>2, <1>4, <2>1, CallChange DEF Pcs
  <2> QED BY <1>2, <2>1, <2>2 DEF Calls
<1> HIDE DEF L
<1>6. CallKnows' /\ RunUnused' /\ ListsKept' /\ Owing' = Range(L) /\ Owing = {}
  BY <1>1, <1>3, <1>4, <1>5 DEF CallKnows, RunUnused, ListsKept, Owing
<1>7. /\ Arranged(Disk)'
      /\ \A s : Users(Disk, s)' = Users(Disk, s) \ {op.cl}
  <2>1. EntryFits(Disk, FreeEntry) /\ SectorsOf(Disk, FreeEntry) = {}
    BY EntryKinds DEF EntryFits, SectorsOf
  <2> QED BY <1>1, <1>3, <2>1, EntryChange
<1>8. ASSUME NEW s \in Sectors
      PROVE  Need(s)' = Need(s)
  <2>1. op.cl \in Users(Disk, s) <=> s \in Range(L)
    BY <1>3, <1>4 DEF Users
  <2>2. CountUsers(Disk, s)' = IF s \in Range(L) THEN CountUsers(Disk, s) - 1
                               ELSE CountUsers(Disk, s)
    BY <1>7, <2>1, CountChange DEF CountUsers
  <2>3. CountUsers(Disk, s) \in Nat
    BY UsersFinite
  <2>4. Need(s) = CountUsers(Disk, s) + 0
        /\ Need(s)' = CountUsers(Disk, s)' + IF s \in Range(L) THEN 1 ELSE 0
    BY <1>6 DEF Need
  <2> QED BY <2>2, <2>3, <2>4
<1>9. Covered' /\ Settles
  BY <1>1, <1>8 DEF IInv, Covered, Settles
<1>10. FreeCountExact' /\ Typed'
  BY <1>1, <1>5, SameSuperblock, StatesTyped DEF Typed
<1> QED BY <1>6, <1>7, <1>9, <1>10 DEF IInv

(* One sector of a call's list is done.                                    *)
LEMMA TailOfList ==
  ASSUME NEW q \in Seq(Int), q # <<>>, IsInjective(q)
  PROVE  /\ q[1] \in Range(q) /\ Tail(q) \in Seq(Int)
         /\ Tail(q) = <<>> <=> Len(q) = 1
         /\ IsInjective(Tail(q)) /\ Range(Tail(q)) = Range(q) \ {q[1]}
<1> DEFINE r == Tail(q)
<1>1. Len(q) \in Nat /\ Len(q) >= 1 /\ DOMAIN q = 1 .. Len(q)
  BY LenProperties, EmptySeq
<1>2. /\ r \in Seq(Int) /\ Len(r) = Len(q) - 1
      /\ \A i \in 1 .. Len(r) : r[i] = q[i + 1]
  BY HeadTailProperties
<1> HIDE DEF r
<1>3. DOMAIN r = 1 .. Len(r) /\ (r = <<>> <=> Len(r) = 0)
  BY <1>2, LenProperties, EmptySeq
<1>4. q[1] \in Range(q)
  BY <1>1 DEF Range
<1>5. r = <<>> <=> Len(q) = 1
  BY <1>1, <1>2, <1>3
<1>6. \A i \in DOMAIN r : i + 1 \in DOMAIN q /\ i + 1 # 1 /\ i \in Int
  BY <1>1, <1>2, <1>3
<1>7. IsInjective(r)
  <2>1. SUFFICES ASSUME NEW i \in DOMAIN r, NEW j \in DOMAIN r, r[i] = r[j] PROVE i = j
    BY DEF IsInjective
  <2>2. q[i + 1] = q[j + 1]
    BY <1>2, <1>3, <2>1
  <2>3. i + 1 = j + 1
    BY <1>6, <2>2 DEF IsInjective
  <2> QED BY <1>6, <2>3
<1>8. Range(r) \subseteq Range(q) \ {q[1]}
  <2>1. SUFFICES ASSUME NEW i \in DOMAIN r PROVE r[i] \in Range(q) /\ r[i] # q[1]
    BY DEF Range
  <2>2. r[i] = q[i + 1] /\ i + 1 \in DOMAIN q /\ 1 \in DOMAIN q /\ i + 1 # 1
    BY <1>1, <1>2, <1>3, <1>6
  <2> QED BY <2>2 DEF Range, IsInjective
<1>9. Range(q) \ {q[1]} \subseteq Range(r)
  <2>1. SUFFICES ASSUME NEW i \in DOMAIN q, q[i] # q[1] PROVE q[i] \in Range(r)
    BY DEF Range
  <2>2. i # 1 /\ i \in 1 .. Len(q)
    BY <1>1, <2>1
  <2>5. i - 1 \in 1 .. Len(q) - 1 /\ (i - 1) + 1 = i
    BY <1>1, <2>2
  <2>4. i - 1 \in DOMAIN r /\ (i - 1) + 1 = i
    BY <1>2, <1>3, <2>5
  <2>3. r[i - 1] = q[i]
    BY <1>2, <1>3, <2>4
  <2> QED BY <2>3, <2>4 DEF Range
<1> QED BY <1>2, <1>4, <1>5, <1>7, <1>8, <1>9 DEF r

LEMMA DropKeeps ==
  ASSUME IInv, DropSector
  PROVE  IInv' /\ Settles
<1> DEFINE s == op.todo[1]
<1>1. op.pc = "drop" /\ UNCHANGED <<mdfat, data, state>>
  BY DEF DropSector
<1>2. /\ op \in Calls /\ op.todo \in Seq(Int) /\ op.todo # <<>> /\ IsInjective(op.todo)
      /\ op.cl \in Clusters /\ (op.val # None => op.len > 0)
  BY <1>1 DEF IInv, Typed, Calls, CallKnows
<1>3. /\ s \in Range(op.todo) /\ Tail(op.todo) \in Seq(Int)
      /\ Tail(op.todo) = <<>> <=> Len(op.todo) = 1
      /\ IsInjective(Tail(op.todo)) /\ Range(Tail(op.todo)) = Range(op.todo) \ {s}
  BY <1>2, TailOfList
<1>4. op' \in Calls /\ CallKnows' /\ RunUnused' /\ ListsKept' /\ Owing' = Owing \ {s}
  <2>1. Owing = Range(op.todo)
    BY <1>1 DEF Owing
  <2>2. CASE Len(op.todo) = 1
    <3>1. AfterFree
      BY <2>2 DEF DropSector
    <3>2. Range(<<>>) = {}
      BY DEF Range
    <3>3. Range(op.todo) \ {s} = {}
      <4> HIDE DEF s
      <4> QED BY <1>3, <2>2, <3>2
    <3> HIDE DEF s
    <3> QED BY <1>1, <2>1, <3>1, <3>3, AfterFreeKeeps
  <2>3. CASE Len(op.todo) # 1
    <3>1. op' = [op EXCEPT !.todo = Tail(op.todo)]
      BY <2>3 DEF DropSector
    <3>2. op' \in Calls
      BY <1>2, <1>3, <3>1, CallChange DEF Pcs
    <3>3. /\ op'.pc = "drop" /\ op'.val = op.val /\ op'.cl = op.cl /\ op'.len = op.len
          /\ op'.todo = Tail(op.todo)
      BY <1>1, <1>2, <3>1 DEF Calls
    <3>4. op'.todo # <<>> /\ IsInjective(op'.todo) /\ Range(op'.todo) = Range(op.todo) \ {s}
      BY <1>3, <2>3, <3>3
    <3>5. CallKnows' /\ RunUnused' /\ ListsKept'
      BY <1>2, <3>3, <3>4 DEF CallKnows, RunUnused, ListsKept
    <3>6. Owing' = Range(op'.todo)
      BY <3>3 DEF Owing
    <3> QED BY <2>1, <3>2, <3>4, <3>5, <3>6
  <2> QED BY <2>2, <2>3
<1>5. s \in Owing
  BY <1>1, <1>3 DEF Owing
<1> HIDE DEF s
<1>6. Arranged(Disk)' /\ \A x : CountUsers(Disk, x)' = CountUsers(Disk, x)
  BY <1>1, SameLayout DEF IInv
<1>7. \A x \in Sectors : /\ CountUsers(Disk, x) \in Nat /\ Need(x) <= bitfat[x]
                         /\ bitfat[x] \in 0 .. 3 /\ Need(x) \in Nat
  BY UsersFinite, NeedIsNat DEF IInv, Typed, Covered
<1>8. \A x : Need(x)' = IF x = s THEN Need(x) - 1 ELSE Need(x)
  <2>1. SUFFICES ASSUME NEW x PROVE Need(x)' = IF x = s THEN Need(x) - 1 ELSE Need(x)
    OBVIOUS
  <2>2. Need(x)' = CountUsers(Disk, x) + IF x \in Owing \ {s} THEN 1 ELSE 0
    BY <1>4, <1>6 DEF Need
  <2>3. CountUsers(Disk, x) \in Nat
    BY UsersFinite
  <2> QED BY <1>5, <2>2, <2>3 DEF Need
<1>9. s \in Sectors => Counter(Disk, s) = bitfat[s] /\ bitfat[s] > 0
  <2>1. SUFFICES ASSUME s \in Sectors PROVE Counter(Disk, s) = bitfat[s] /\ bitfat[s] > 0
    OBVIOUS
  <2>2. Need(s) >= 1
    BY <1>5, <1>7, <2>1 DEF Need
  <2> QED BY <1>7, <2>1, <2>2 DEF Counter, Disk
<1>10. CASE s \in Sectors
  <2>1. /\ bitfat' = [bitfat EXCEPT ![s] = bitfat[s] - 1]
        /\ sb' = [sb EXCEPT !.full = 0, !.free = IF bitfat[s] = 1 THEN sb.free + 1 ELSE sb.free]
    BY <1>9, <1>10 DEF DropSector, s
  <2>2. bitfat[s] - 1 \in 0 .. 3 /\ bitfat[s] \in 0 .. 3 /\ bitfat[s] # 0
    BY <1>7, <1>9, <1>10
  <2>3. sb \in Superblock /\ sb.free = FreeCount /\ FreeCount \in Nat
        /\ bitfat \in [Sectors -> 0 .. 3]
    BY <1>1, StatesTyped, FreeCountTyped
  <2>4. /\ bitfat' \in [Sectors -> 0 .. 3]
        /\ FreeCount' = IF bitfat[s] - 1 = 0 THEN FreeCount + 1 ELSE FreeCount
    BY <1>10, <2>1, <2>2, <2>3, CounterChange
  <2> DEFINE k == IF bitfat[s] = 1 THEN FreeCount + 1 ELSE FreeCount
  <2>5. FreeCount' = k /\ k \in Int
    BY <2>2, <2>3, <2>4
  <2>6. sb' = [sb EXCEPT !.full = 0, !.free = k]
    BY <2>1, <2>3
  <2> HIDE DEF k
  <2>7. sb' \in Superblock /\ sb'.free = FreeCount'
    BY <2>3, <2>5, <2>6, SuperblockChange
  <2>8. \A x \in Sectors : bitfat'[x] = IF x = s THEN bitfat[x] - 1 ELSE bitfat[x]
    BY <2>1, <2>3
  <2>9. Covered' /\ Settles
    BY <1>7, <1>8, <2>8 DEF Covered, Settles
  <2>10. Typed' /\ FreeCountExact'
    BY <1>1, <1>4, <2>4, <2>7, StatesTyped DEF Typed, FreeCountExact
  <2> QED BY <1>4, <1>6, <2>9, <2>10 DEF IInv
<1>11. CASE s \notin Sectors
  <2>1. UNCHANGED <<bitfat, sb>>
    <3>1. ~(Counter(Disk, s) > 0)
      BY <1>11 DEF Counter
    <3> QED BY <3>1 DEF DropSector, s
  <2>2. Covered' /\ Settles
    BY <1>7, <1>8, <1>11, <2>1 DEF Covered, Settles
  <2>3. Typed' /\ FreeCountExact'
    BY <1>1, <1>4, <2>1, StatesTyped, SameSuperblock DEF Typed
  <2> QED BY <1>4, <1>6, <2>2, <2>3 DEF IInv
<1> QED BY <1>10, <1>11

(* Data written so that the lists of fragments stay.                       *)
LEMMA SameUsers ==
  ASSUME IInv, UNCHANGED mdfat,
         data' = [s \in Media |-> [u \in 0 .. SectorSize - 1 |-> data'[s][u]]],
         \A s \in Media, u \in 0 .. SectorSize - 1 : UnitOK(data'[s][u]),
         \A c \in Clusters :
           IsUsed(mdfat[c]) /\ Kind(mdfat[c]) = "fragmented" =>
             data'[mdfat[c].sector][0] = data[mdfat[c].sector][0]
  PROVE  Arranged(Disk)' /\ \A s : CountUsers(Disk, s)' = CountUsers(Disk, s)
         /\ Users(Disk, s)' = Users(Disk, s)
<1>1. /\ Disk.mdfat = mdfat /\ Disk.data = data
      /\ Disk'.mdfat = mdfat /\ Disk'.data = data' /\ Arranged(Disk)
  BY DEF Disk, IInv
<1> DEFINE D == Disk
           E == Disk'
<1>2. /\ E.mdfat = D.mdfat
      /\ E.data = [s \in Media |-> [u \in 0 .. SectorSize - 1 |-> E.data[s][u]]]
      /\ \A s \in Media, u \in 0 .. SectorSize - 1 : UnitOK(E.data[s][u])
      /\ \A c \in Clusters :
           IsUsed(D.mdfat[c]) /\ Kind(D.mdfat[c]) = "fragmented" =>
             E.data[D.mdfat[c].sector][0] = D.data[D.mdfat[c].sector][0]
  BY <1>1
<1>3. Arranged(E) /\ \A s : Users(E, s) = Users(D, s)
  <2> HIDE DEF D, E
  <2> QED BY <1>1, <1>2, DataKeepArrangement DEF D
<1>4. \A s : CountUsers(E, s) = CountUsers(D, s)
  BY <1>3 DEF CountUsers
<1> QED BY <1>3, <1>4

LEMMA FlagKeeps ==
  ASSUME IInv, FlagAbsent
  PROVE  IInv' /\ Settles
<1> DEFINE s == op.old.sector
           t == TrailerOf(Disk, s)
           gone == IF op.old.size = 1 THEN [t EXCEPT !.shortGone = TRUE]
                   ELSE [t EXCEPT !.longGone = TRUE]
           last == SectorSize - 1
<1>1. /\ op.pc = "flag" /\ op' = [op EXCEPT !.pc = "drop"]
      /\ UNCHANGED <<mdfat, bitfat, state, sb>>
      /\ \/ HasTrailer(Disk, s) /\ data' = [data EXCEPT ![s][last] = Trailer(gone)]
         \/ UNCHANGED data
  BY DEF FlagAbsent
<1>2. /\ op \in Calls /\ op.todo # <<>> /\ IsInjective(op.todo) /\ IsUsed(op.old)
      /\ op.cl \in Clusters /\ (op.val # None => op.len > 0) /\ op.old \in MdfatEntry
  BY <1>1, StatesTyped DEF IInv, CallKnows
<1>3. /\ op' \in Calls /\ op'.pc = "drop" /\ op'.val = op.val /\ op'.cl = op.cl
      /\ op'.len = op.len /\ op'.todo = op.todo
  <2>1. op' \in Calls
    BY <1>1, <1>2, CallChange, EmptySeq DEF Pcs
  <2> QED BY <1>1, <1>2, <2>1 DEF Calls
<1>4. CallKnows' /\ RunUnused' /\ ListsKept' /\ Owing' = Owing
  BY <1>1, <1>2, <1>3 DEF CallKnows, RunUnused, ListsKept, Owing
<1>5. s \in Media
  BY <1>2 DEF MdfatEntry, IsUsed
<1>6. last \in 0 .. SectorSize - 1 /\ last # 0
  BY Geometry
<1>7. /\ data = [x \in Media |-> [u \in 0 .. SectorSize - 1 |-> data[x][u]]]
      /\ \A x \in Media, u \in 0 .. SectorSize - 1 : UnitOK(data[x][u])
  BY DEF IInv, Arranged, Disk
<1>8. /\ data' = [x \in Media |-> [u \in 0 .. SectorSize - 1 |-> data'[x][u]]]
      /\ \A x \in Media, u \in 0 .. SectorSize - 1 : UnitOK(data'[x][u])
      /\ \A x \in Media : data'[x][0] = data[x][0]
  <2>1. CASE UNCHANGED data
    BY <1>7, <2>1
  <2>2. CASE HasTrailer(Disk, s) /\ data' = [data EXCEPT ![s][last] = Trailer(gone)]
    <3>1. gone \in Trailers
      <4>1. t \in Trailers
        BY <1>5, <2>2, TrailersTyped DEF IInv
      <4> HIDE DEF t
      <4> QED BY <4>1 DEF Trailers
    <3>2. UnitOK(Trailer(gone))
      <4> HIDE DEF gone
      <4> QED BY <3>1 DEF UnitOK, Trailer
    <3> HIDE DEF gone, s, last
    <3>3. data' = [x \in Media |-> [u \in 0 .. SectorSize - 1 |->
                     IF x = s /\ u = last THEN Trailer(gone) ELSE data[x][u]]]
      BY <1>5, <1>6, <1>7, <2>2
    <3>4. \A x \in Media, u \in 0 .. SectorSize - 1 :
            data'[x][u] = IF x = s /\ u = last THEN Trailer(gone) ELSE data[x][u]
      BY <3>3
    <3>5. 0 \in 0 .. SectorSize - 1
      BY Geometry
    <3>6. data' = [x \in Media |-> [u \in 0 .. SectorSize - 1 |-> data'[x][u]]]
      BY <3>3
    <3> QED BY <1>6, <1>7, <3>2, <3>4, <3>5, <3>6
  <2> QED BY <1>1, <2>1, <2>2
<1>9. Arranged(Disk)' /\ \A x : CountUsers(Disk, x)' = CountUsers(Disk, x)
  <2>1. \A c \in Clusters : IsUsed(mdfat[c]) => mdfat[c].sector \in Media
    BY StatesTyped DEF MdfatEntry, IsUsed
  <2> QED BY <1>1, <1>8, <2>1, SameUsers
<1>10. \A x : Need(x)' = Need(x)
  BY <1>4, <1>9 DEF Need
<1>11. Covered' /\ Settles
  BY <1>1, <1>10 DEF IInv, Covered, Settles
<1>12. Typed' /\ FreeCountExact'
  BY <1>1, <1>3, StatesTyped, SameSuperblock DEF Typed
<1> QED BY <1>4, <1>9, <1>11, <1>12 DEF IInv

LEMMA SectorsForData ==
  ASSUME NEW len \in 1 .. ClusterUnits
  PROVE  InSectors(len) \in 1 .. SectPerClust
<1> DEFINE k == (len + SectorSize - 1) \div SectorSize
<1>1. SectorSize \in Nat /\ SectorSize > 0 /\ SectPerClust \in Nat
  BY Geometry
<1>2. len \in Nat /\ len >= 1 /\ len <= SectPerClust * SectorSize
  BY <1>1 DEF ClusterUnits
<1>3. k \in Int
  BY <1>1, <1>2
<1>4. SectorSize * k <= len + SectorSize - 1 /\ len + SectorSize - 1 < SectorSize * k + SectorSize
  BY <1>1, <1>2
<1> HIDE DEF k
<1>5. k >= 1
  <2>1. SUFFICES ASSUME k <= 0 PROVE FALSE
    BY <1>3
  <2>2. SectorSize * k <= 0
    BY <1>1, <1>3, <2>1
  <2>3. SectorSize * k \in Int
    BY <1>1, <1>3
  <2> QED BY <1>1, <1>2, <1>4, <2>2, <2>3
<1>6. k <= SectPerClust
  <2>1. SUFFICES ASSUME k >= SectPerClust + 1 PROVE FALSE
    BY <1>1, <1>3
  <2>2. SectorSize * k >= SectorSize * (SectPerClust + 1)
    BY <1>1, <1>3, <2>1
  <2>3. SectorSize * (SectPerClust + 1) = SectPerClust * SectorSize + SectorSize
    BY <1>1
  <2>4. SectorSize * k \in Int /\ SectPerClust * SectorSize \in Int
    BY <1>1, <1>3
  <2> QED BY <1>1, <1>2, <1>4, <2>2, <2>3, <2>4
<1> QED BY <1>1, <1>3, <1>5, <1>6 DEF InSectors, k

LEMMA SearchFinds ==
  ASSUME IInv, op.pc = "alloc"
  PROVE  /\ InSectors(op.len) \in 1 .. SectPerClust
         /\ Search.sector \in Int /\ Search.sb \in Superblock /\ Search.sb.free = FreeCount
<1>1. op \in Calls /\ op.len > 0 /\ sb \in Superblock /\ sb.free = FreeCount
  BY StatesTyped DEF IInv, CallKnows
<1>2. op.len \in 1 .. ClusterUnits /\ op.near \in Nat
  BY <1>1, Geometry DEF Calls
<1>3. InSectors(op.len) \in 1 .. SectPerClust
  BY <1>2, SectorsForData
<1>4. SearchResultSound(Marked, sb, op.near, InSectors(op.len))
  BY <1>1, <1>2, <1>3, SearchIsSound
<1> QED BY <1>1, <1>3, <1>4 DEF SearchResultSound, Search

LEMMA NoSpaceKeeps ==
  ASSUME IInv, NoSpace
  PROVE  IInv' /\ (~IsUsed(mdfat[op.cl]) => Settles)
<1> DEFINE c == op.cl
<1>1. /\ op.pc = "alloc" /\ sb' = Search.sb /\ Finish("nospace")
      /\ UNCHANGED <<bitfat, data, state>>
      /\ mdfat' = IF IsUsed(op.old) THEN [mdfat EXCEPT ![c] = LostEntry] ELSE mdfat
  BY DEF NoSpace
<1>2. Ended(op') /\ op'.pc = "idle"
  BY <1>1, FinishedCall DEF Outcomes
<1>3. sb' \in Superblock /\ sb'.free = FreeCount /\ FreeCount' = FreeCount
  BY <1>1, SearchFinds, SameFree
<1>4. CallKnows' /\ RunUnused' /\ ListsKept' /\ Owing' = {} /\ Owing = {} /\ c \in Clusters
  BY <1>1, <1>2, EndedCall DEF Owing, IInv, CallKnows
<1>5. /\ Arranged(Disk)'
      /\ \A s \in Sectors : \/ CountUsers(Disk, s)' = CountUsers(Disk, s)
                            \/ /\ CountUsers(Disk, s)' = CountUsers(Disk, s) - 1
                               /\ IsUsed(mdfat[c])
  <2>1. CASE IsUsed(op.old)
    <3>1. mdfat' = [mdfat EXCEPT ![c] = LostEntry]
      BY <1>1, <2>1
    <3>2. EntryFits(Disk, LostEntry) /\ SectorsOf(Disk, LostEntry) = {1}
      <4>1. SectorsOf(Disk, LostEntry) = LostEntry.sector .. LostEntry.sector + LostEntry.size - 1
        BY EntryKinds, ListOfRun, Geometry
      <4>2. LostEntry.sector = 1 /\ LostEntry.size = 1
        BY DEF LostEntry
      <4> QED BY <4>1, <4>2 DEF EntryFits
    <3>3. /\ Arranged(Disk)'
          /\ \A s : Users(Disk, s)' = IF s \in {1} THEN Users(Disk, s) \union {c}
                                      ELSE Users(Disk, s) \ {c}
      BY <1>1, <1>4, <3>1, <3>2, EntryChange
    <3>4. ASSUME NEW s \in Sectors
          PROVE  \/ CountUsers(Disk, s)' = CountUsers(Disk, s)
                 \/ /\ CountUsers(Disk, s)' = CountUsers(Disk, s) - 1
                    /\ IsUsed(mdfat[c])
      <4>1. Users(Disk, s)' = Users(Disk, s) \ {c}
        BY <3>3, Geometry
      <4>2. CountUsers(Disk, s)' = IF c \in Users(Disk, s) THEN CountUsers(Disk, s) - 1
                                   ELSE CountUsers(Disk, s)
        BY <4>1, CountChange DEF CountUsers
      <4>3. c \in Users(Disk, s) => IsUsed(mdfat[c])
        BY StatesTyped DEF Users, SectorsOf
      <4> QED BY <4>2, <4>3
    <3> QED BY <3>3, <3>4
  <2>2. CASE ~IsUsed(op.old)
    <3>1. UNCHANGED <<mdfat, data>>
      BY <1>1, <2>2
    <3> QED BY <3>1, SameLayout DEF IInv
  <2> QED BY <2>1, <2>2
<1>6. \A s \in Sectors : /\ CountUsers(Disk, s) \in Nat /\ bitfat[s] \in 0 .. 3
                         /\ Need(s) <= bitfat[s] /\ Need(s) = CountUsers(Disk, s)
                         /\ Need(s)' = CountUsers(Disk, s)'
  <2>1. \A s \in Sectors : CountUsers(Disk, s) \in Nat /\ CountUsers(Disk, s)' \in Nat
    BY <1>5, UsersFinite
  <2> QED BY <1>4, <2>1, StatesTyped DEF Need, IInv, Covered
<1>7. Covered' /\ (~IsUsed(mdfat[c]) => Settles)
  BY <1>1, <1>5, <1>6 DEF Covered, Settles
<1>8. Typed' /\ FreeCountExact'
  BY <1>1, <1>2, <1>3, StatesTyped DEF Typed, FreeCountExact, Ended
<1> QED BY <1>4, <1>5, <1>7, <1>8 DEF IInv

LEMMA AllocateKeeps ==
  ASSUME IInv, AllocateRun
  PROVE  IInv' /\ Settles
<1> DEFINE n == InSectors(op.len)
           q == [i \in 1 .. n |-> Search.sector + i - 1]
<1>1. /\ op.pc = "alloc" /\ Hole(Marked, Search.sector, n) /\ sb' = Search.sb
      /\ op' = [op EXCEPT !.pc = "mark", !.sector = Search.sector, !.todo = q]
      /\ UNCHANGED disk
  BY DEF AllocateRun
<1>2. /\ n \in 1 .. SectPerClust /\ SectPerClust \in Nat
      /\ Search.sector \in Int /\ Search.sb \in Superblock /\ Search.sb.free = FreeCount
  BY <1>1, SearchFinds, Geometry
<1>3. /\ q \in Seq(Int) /\ Len(q) = n /\ IsInjective(q)
      /\ Range(q) = Search.sector .. Search.sector + n - 1
  <2>1. n \in Nat
    BY <1>2
  <2> HIDE DEF n
  <2> QED BY <1>2, <2>1, ConsecutiveSectors
<1>4. q # <<>>
  <2> HIDE DEF q, n
  <2> QED BY <1>2, <1>3
<1>5. /\ op \in Calls /\ op.cl \in Clusters /\ op.len > 0 /\ op.val # None
  BY <1>1 DEF IInv, Typed, CallKnows
<1> HIDE DEF q
<1>6. op' \in Calls
  BY <1>1, <1>2, <1>3, <1>5, SectorChange DEF Pcs
<1>7. /\ op'.pc = "mark" /\ op'.cl = op.cl /\ op'.val = op.val /\ op'.len = op.len
      /\ op'.sector = Search.sector /\ op'.todo = q
  BY <1>1, <1>5 DEF Calls
<1>8. Run' = Range(q)
  BY <1>3, <1>7 DEF Run
<1>9. Owing' = {} /\ Owing = {}
  BY <1>1, <1>7, <1>8 DEF Owing
<1>10. \A s \in Range(q) : s \in Sectors /\ bitfat[s] = 0
  BY <1>1, <1>3 DEF Hole, IsFree, Marked
<1>11. \A s \in Range(q) : Users(Disk, s) = {}
  <2>1. SUFFICES ASSUME NEW s \in Range(q) PROVE CountUsers(Disk, s) = 0
    BY UsersFinite
  <2>2. Need(s) <= 0 /\ CountUsers(Disk, s) \in Nat
    BY <1>10, UsersFinite DEF IInv, Covered
  <2>3. Need(s) = CountUsers(Disk, s) + 0
    BY <1>9 DEF Need
  <2> QED BY <2>2, <2>3
<1>12. \A s : Users(Disk, s)' = Users(Disk, s)
  BY <1>1, SameLayout DEF IInv, disk
<1>13. CallKnows' /\ RunUnused' /\ ListsKept'
  BY <1>1, <1>3, <1>4, <1>5, <1>7, <1>8, <1>10, <1>11, <1>12
     DEF CallKnows, RunUnused, ListsKept, disk
<1>14. sb' \in Superblock /\ FreeCountExact'
  BY <1>1, <1>2, SameFree DEF FreeCountExact, disk
<1> QED BY <1>1, <1>6, <1>9, <1>13, <1>14, QuietStep, StatesTyped DEF disk

LEMMA MarkKeeps ==
  ASSUME IInv, MarkSector
  PROVE  IInv' /\ Settles
<1> DEFINE s == op.todo[1]
<1>1. /\ op.pc = "mark" /\ SetCounter(s, 1) /\ UNCHANGED <<mdfat, data, state>>
      /\ op' = [op EXCEPT !.pc = IF Len(op.todo) = 1 THEN "entry" ELSE "mark",
                          !.todo = Tail(op.todo)]
  BY DEF MarkSector
<1>2. /\ op \in Calls /\ op.todo \in Seq(Int) /\ op.todo # <<>> /\ IsInjective(op.todo)
      /\ op.cl \in Clusters /\ op.len > 0 /\ op.val # None
  BY <1>1 DEF IInv, Typed, Calls, CallKnows
<1>3. /\ s \in Range(op.todo) /\ Tail(op.todo) \in Seq(Int)
      /\ Tail(op.todo) = <<>> <=> Len(op.todo) = 1
      /\ IsInjective(Tail(op.todo)) /\ Range(Tail(op.todo)) = Range(op.todo) \ {s}
  BY <1>2, TailOfList
<1>4. /\ Run \subseteq Sectors /\ \A x \in Run : Users(Disk, x) = {}
      /\ Range(op.todo) \subseteq Run /\ \A x \in Range(op.todo) : bitfat[x] = 0
  BY <1>1 DEF IInv, RunUnused
<1> HIDE DEF s
<1>5. PICK pc \in {"entry", "mark"} :
        /\ op' = [op EXCEPT !.pc = pc, !.todo = Tail(op.todo)]
        /\ pc = "entry" <=> Len(op.todo) = 1
  BY <1>1
<1>6. /\ op' \in Calls /\ op'.pc = pc /\ op'.cl = op.cl /\ op'.val = op.val
      /\ op'.len = op.len /\ op'.sector = op.sector /\ op'.todo = Tail(op.todo)
  <2>1. op' \in Calls
    BY <1>2, <1>3, <1>5, CallChange DEF Pcs
  <2> QED BY <1>2, <1>5, <2>1 DEF Calls
<1>7. Run' = Run
  BY <1>6 DEF Run
<1>8. s \in Sectors /\ s \in Run /\ bitfat[s] = 0
  BY <1>3, <1>4
<1>9. /\ Arranged(Disk)' /\ \A x : CountUsers(Disk, x)' = CountUsers(Disk, x)
      /\ \A x : Users(Disk, x)' = Users(Disk, x)
  BY <1>1, SameLayout DEF IInv
<1>10. /\ bitfat' = [bitfat EXCEPT ![s] = 1] /\ bitfat' \in [Sectors -> 0 .. 3]
       /\ sb' \in Superblock /\ sb'.free = FreeCount'
  BY <1>1, <1>8, SetCounterKeeps, StatesTyped DEF s
<1>11. \A x \in Sectors : bitfat'[x] = IF x = s THEN 1 ELSE bitfat[x]
  BY <1>10, StatesTyped
<1>12. CallKnows' /\ ListsKept'
  BY <1>2, <1>3, <1>5, <1>6 DEF CallKnows, ListsKept
<1>13. RunUnused'
  <2>1. \A x \in Range(Tail(op.todo)) : bitfat'[x] = 0
    BY <1>3, <1>4, <1>11
  <2>2. Range(Tail(op.todo)) \subseteq Run
    BY <1>3, <1>4
  <2>3. pc = "entry" => Tail(op.todo) = <<>>
    BY <1>3, <1>5
  <2> QED BY <1>4, <1>6, <1>7, <1>9, <2>1, <2>2, <2>3 DEF RunUnused
<1>14. Owing' = Owing \union {s} /\ s \notin Owing
  <2>1. Owing = Run \ Range(op.todo)
    BY <1>1 DEF Owing
  <2>2. Owing' = Run \ Range(Tail(op.todo))
    BY <1>6, <1>7 DEF Owing
  <2> QED BY <1>3, <1>8, <2>1, <2>2
<1>15. \A x \in Sectors : Need(x)' = IF x = s THEN Need(x) + 1 ELSE Need(x)
  <2>1. SUFFICES ASSUME NEW x \in Sectors
                 PROVE  Need(x)' = IF x = s THEN Need(x) + 1 ELSE Need(x)
    OBVIOUS
  <2>2. Need(x)' = CountUsers(Disk, x) + IF x \in Owing \union {s} THEN 1 ELSE 0
    BY <1>9, <1>14 DEF Need
  <2>3. CountUsers(Disk, x) \in Nat
    BY UsersFinite
  <2> QED BY <1>14, <2>2, <2>3 DEF Need
<1>16. \A x \in Sectors : Need(x) \in Nat /\ bitfat[x] \in 0 .. 3 /\ Need(x) <= bitfat[x]
  BY NeedIsNat, StatesTyped DEF IInv, Covered
<1>17. Covered' /\ Settles
  BY <1>8, <1>11, <1>15, <1>16 DEF Covered, Settles
<1>18. Typed' /\ FreeCountExact'
  BY <1>1, <1>6, <1>10, StatesTyped DEF Typed, FreeCountExact
<1> QED BY <1>9, <1>12, <1>13, <1>17, <1>18 DEF IInv

LEMMA NewEntryFits ==
  ASSUME IInv, op.pc = "entry"
  PROVE  /\ EntryFits(Disk, NewEntry) /\ SectorsOf(Disk, NewEntry) = Run
         /\ IsUsed(NewEntry)
<1> DEFINE n == InSectors(op.len)
<1>1. op \in Calls /\ op.len > 0 /\ op.val # None
  BY DEF IInv, Typed, CallKnows
<1>2. op.len \in 1 .. ClusterUnits /\ op.sector \in Int /\ op.plain \in BOOLEAN
  BY <1>1, Geometry DEF Calls
<1>3. n \in 1 .. SectPerClust /\ SectPerClust \in Nat
  BY <1>2, SectorsForData, Geometry
<1>4. Run \subseteq Sectors /\ \A s \in Run : Users(Disk, s) = {}
  BY DEF IInv, RunUnused
<1>5. op.sector \in Sectors
  <2>1. op.sector \in Run
    BY <1>2, <1>3 DEF Run
  <2> QED BY <1>4, <2>1
<1>6. /\ NewEntry.sector = op.sector /\ NewEntry.size = n
      /\ NewEntry.flags \in SUBSET {"raw", "deleted", "split"}
  BY DEF NewEntry
<1> HIDE DEF n
<1>7. NewEntry \in MdfatEntry
  <2>1. op.sector \in Media \union {0}
    BY <1>5, Geometry
  <2>2. (IF op.plain /\ n # SectPerClust THEN {"raw"} ELSE {}) \in SUBSET {"raw", "deleted", "split"}
    OBVIOUS
  <2> QED BY <1>3, <2>1, <2>2 DEF NewEntry, MdfatEntry, n
<1>8. IsUsed(NewEntry) /\ Kind(NewEntry) \in {"plain", "compressed"}
  BY <1>5, <1>6, EntryKinds, Geometry DEF IsUsed
<1>9. NewEntry.sector .. NewEntry.sector + NewEntry.size - 1 = Run
  BY <1>6 DEF Run, n
<1>10. SectorsOf(Disk, NewEntry) = Run
  BY <1>7, <1>8, <1>9, ListOfRun
<1> QED BY <1>4, <1>7, <1>8, <1>9, <1>10 DEF EntryFits

LEMMA EntryKeeps ==
  ASSUME IInv, WriteEntry
  PROVE  IInv' /\ (~IsUsed(mdfat[op.cl]) => Settles)
<1> DEFINE c == op.cl
           w == Walk([Disk EXCEPT !.mdfat[op.cl] = NewEntry], op.cl, 3)
<1>1. /\ op.pc = "entry" /\ mdfat' = [mdfat EXCEPT ![c] = NewEntry]
      /\ UNCHANGED <<bitfat, data, state, sb>>
      /\ IF w.error \/ w.units < op.len THEN Finish("ioerror")
         ELSE op' = [op EXCEPT !.pc = "data", !.parts = w.parts, !.res = "ok"]
  BY DEF WriteEntry
<1>2. /\ op \in Calls /\ op.len > 0 /\ op.val # None /\ c \in Clusters
      /\ mdfat \in [Clusters -> MdfatEntry] /\ op.todo = <<>>
  BY <1>1, StatesTyped DEF IInv, CallKnows, RunUnused
<1>3. EntryFits(Disk, NewEntry) /\ SectorsOf(Disk, NewEntry) = Run /\ IsUsed(NewEntry)
  BY <1>1, NewEntryFits
<1>4. /\ Arranged(Disk)'
      /\ \A s : Users(Disk, s)' = IF s \in Run THEN Users(Disk, s) \union {c}
                                  ELSE Users(Disk, s) \ {c}
  BY <1>1, <1>2, <1>3, EntryChange
<1>5. /\ Run \subseteq Sectors /\ \A s \in Run : Users(Disk, s) = {}
  BY <1>1 DEF IInv, RunUnused
<1>6. Owing = Run
  <2>1. Range(<<>>) = {}
    BY DEF Range
  <2> QED BY <1>1, <1>2, <2>1 DEF Owing
<1>7. op' \in Calls /\ CallKnows' /\ RunUnused' /\ ListsKept' /\ Owing' = {} /\ op'.pc # "down"
  <2>1. CASE Finish("ioerror")
    <3>1. Ended(op') /\ op'.pc = "idle"
      BY <2>1, FinishedCall DEF Outcomes
    <3> QED BY <3>1, EndedCall DEF Ended
  <2>2. CASE /\ ~w.error
             /\ op' = [op EXCEPT !.pc = "data", !.parts = w.parts, !.res = "ok"]
    <3>1. [Disk EXCEPT !.mdfat[op.cl] = NewEntry] = Disk'
      BY <1>1 DEF Disk
    <3>2. Disk'.mdfat = mdfat' /\ mdfat'[c] = NewEntry
      BY <1>1, <1>2 DEF Disk
    <3>3. w = Walk(Disk', c, 3)
      BY <3>1
    <3>4. w.parts \in Seq(Parts) /\ w.parts # <<>> /\ PartsKeepOff(Disk', w.parts)
      <4>1. Arranged(Disk') /\ IsUsed(Disk'.mdfat[c]) /\ ~Walk(Disk', c, 3).error
        BY <1>3, <1>4, <2>2, <3>2, <3>3
      <4>2. LET p == Walk(Disk', c, 3).parts
            IN  p \in Seq(Parts) /\ p # <<>> /\ PartsKeepOff(Disk', p)
        BY <1>2, <4>1, WalkParts
      <4> QED BY <3>3, <4>2
    <3> HIDE DEF w
    <3>5. op' \in Calls
      BY <1>2, <2>2, <3>4, PartsChange DEF Pcs, Outcomes
    <3>6. /\ op'.pc = "data" /\ op'.cl = op.cl /\ op'.val = op.val /\ op'.len = op.len
          /\ op'.parts = w.parts
      BY <1>2, <2>2, <3>5 DEF Calls
    <3>7. ListsKept'
      BY <3>2, <3>4, <3>6 DEF ListsKept, PartsKeepOff
    <3> QED BY <1>2, <3>5, <3>6, <3>7 DEF CallKnows, RunUnused, Owing
  <2> QED BY <1>1, <2>1, <2>2
<1>8. ASSUME NEW s \in Sectors
      PROVE  /\ Need(s)' <= bitfat[s]
             /\ ~IsUsed(mdfat[c]) => Need(s)' = Need(s)
  <2>1. /\ CountUsers(Disk, s) \in Nat /\ Need(s) <= bitfat[s] /\ bitfat[s] \in 0 .. 3
        /\ Need(s)' = CountUsers(Disk, s)' + 0
    BY <1>7, UsersFinite, StatesTyped DEF IInv, Covered, Need
  <2>2. CASE s \in Run
    <3>1. Users(Disk, s) = {} /\ CountUsers(Disk, s) = 0
      BY <1>5, <2>2, UsersFinite
    <3>2. CountUsers(Disk, s)' = 1
      <4>1. Users(Disk, s)' = Users(Disk, s) \union {c} /\ c \notin Users(Disk, s)
        BY <1>4, <2>2, <3>1
      <4>2. CountUsers(Disk, s)' = Cardinality(Users(Disk, s) \union {c})
        BY <4>1 DEF CountUsers
      <4>3. Cardinality(Users(Disk, s) \union {c}) = CountUsers(Disk, s) + 1
        BY <4>1, CountChange
      <4> QED BY <3>1, <4>2, <4>3
    <3>3. Need(s) = 1
      BY <1>6, <2>2, <3>1 DEF Need
    <3> QED BY <2>1, <3>2, <3>3
  <2>3. CASE s \notin Run
    <3>1. CountUsers(Disk, s)' = IF c \in Users(Disk, s) THEN CountUsers(Disk, s) - 1
                                 ELSE CountUsers(Disk, s)
      <4>1. Users(Disk, s)' = Users(Disk, s) \ {c}
        BY <1>4, <2>3
      <4> QED BY <4>1, CountChange DEF CountUsers
    <3>2. c \in Users(Disk, s) => IsUsed(mdfat[c])
      BY StatesTyped DEF Users, SectorsOf
    <3>3. Need(s) = CountUsers(Disk, s) + 0
      BY <1>6, <2>3 DEF Need
    <3> QED BY <2>1, <3>1, <3>2, <3>3
  <2> QED BY <2>2, <2>3
<1>9. Covered' /\ (~IsUsed(mdfat[c]) => Settles)
  BY <1>1, <1>8 DEF Covered, Settles
<1>10. Typed' /\ FreeCountExact'
  BY <1>1, <1>7, StatesTyped, SameSuperblock DEF Typed
<1> QED BY <1>4, <1>7, <1>9, <1>10 DEF IInv

---------------------------------------------------------------------------
(* The data of a write, sector by sector.                                  *)
LEMMA TailOfParts ==
  ASSUME NEW q \in Seq(Parts), q # <<>>
  PROVE  /\ 1 \in DOMAIN q /\ q[1] \in Parts /\ Tail(q) \in Seq(Parts)
         /\ Len(q) # 1 => Tail(q) # <<>>
         /\ \A j \in DOMAIN Tail(q) : j + 1 \in DOMAIN q /\ Tail(q)[j] = q[j + 1]
<1> DEFINE r == Tail(q)
<1>1. Len(q) \in Nat /\ Len(q) >= 1 /\ DOMAIN q = 1 .. Len(q)
  BY LenProperties, EmptySeq
<1>2. /\ r \in Seq(Parts) /\ Len(r) = Len(q) - 1
      /\ \A j \in 1 .. Len(r) : r[j] = q[j + 1]
  BY HeadTailProperties
<1> HIDE DEF r
<1>3. DOMAIN r = 1 .. Len(r)
  BY <1>2, LenProperties
<1>4. 1 \in DOMAIN q /\ q[1] \in Parts
  BY <1>1, ElementOfSeq
<1>5. Len(q) # 1 => r # <<>>
  BY <1>1, <1>2
<1>6. \A j \in DOMAIN r : j + 1 \in DOMAIN q /\ r[j] = q[j + 1]
  BY <1>1, <1>2, <1>3
<1> QED BY <1>2, <1>4, <1>5, <1>6 DEF r

LEMMA NextPartKeeps ==
  ASSUME IInv, op.pc = "data", UNCHANGED mdfat, NEW res \in Outcomes, NextPart(res)
  PROVE  /\ op' \in Calls /\ CallKnows' /\ RunUnused' /\ ListsKept'
         /\ Owing = {} /\ Owing' = {} /\ op'.pc \in {"idle", "data"}
<1>1. /\ op \in Calls /\ op.parts \in Seq(Parts) /\ op.parts # <<>>
      /\ op.cl \in Clusters /\ op.val # None /\ op.len > 0
      /\ \A j \in DOMAIN op.parts, d \in Clusters :
           IsUsed(mdfat[d]) /\ Kind(mdfat[d]) = "fragmented"
             /\ op.parts[j].s = mdfat[d].sector => op.parts[j].from > 0
  BY DEF IInv, Typed, Calls, CallKnows, ListsKept
<1>2. Owing = {}
  BY DEF Owing
<1>3. CASE Len(op.parts) = 1
  <2>1. Ended(op') /\ op'.pc = "idle"
    BY <1>3, FinishedCall DEF NextPart
  <2> QED BY <1>2, <2>1, EndedCall DEF Ended
<1>4. CASE Len(op.parts) # 1
  <2> DEFINE r == Tail(op.parts)
  <2>1. op' = [op EXCEPT !.parts = r, !.res = res]
    BY <1>4 DEF NextPart
  <2>2. /\ r \in Seq(Parts) /\ r # <<>>
        /\ \A j \in DOMAIN r : j + 1 \in DOMAIN op.parts /\ r[j] = op.parts[j + 1]
    BY <1>1, <1>4, TailOfParts
  <2> HIDE DEF r
  <2>3. op' \in Calls
    BY <1>1, <2>1, <2>2, PartsChange DEF Pcs
  <2>4. /\ op'.pc = "data" /\ op'.cl = op.cl /\ op'.val = op.val /\ op'.len = op.len
        /\ op'.parts = r
    BY <1>1, <2>1, <2>3 DEF Calls
  <2>5. \A j \in DOMAIN r, d \in Clusters :
          IsUsed(mdfat[d]) /\ Kind(mdfat[d]) = "fragmented"
            /\ r[j].s = mdfat[d].sector => r[j].from > 0
    <3>1. SUFFICES ASSUME NEW j \in DOMAIN r, NEW d \in Clusters,
                          IsUsed(mdfat[d]), Kind(mdfat[d]) = "fragmented",
                          r[j].s = mdfat[d].sector
                   PROVE  r[j].from > 0
      BY Zenon
    <3>2. j + 1 \in DOMAIN op.parts /\ r[j] = op.parts[j + 1]
      BY <2>2
    <3> QED BY <1>1, <3>1, <3>2
  <2>6. ListsKept'
    BY <2>2, <2>4, <2>5 DEF ListsKept
  <2> QED BY <1>1, <1>2, <2>3, <2>4, <2>6 DEF CallKnows, RunUnused, Owing
<1> QED BY <1>3, <1>4

LEMMA WriteSectorKeeps ==
  ASSUME IInv, WriteSector
  PROVE  IInv' /\ Settles
<1> DEFINE p == op.parts[1]
           new == WithPart(p.s, p)
<1>1. /\ op.pc = "data" /\ data' = [data EXCEPT ![p.s] = new] /\ NextPart(op.res)
      /\ UNCHANGED <<mdfat, bitfat, state, sb>>
  BY DEF WriteSector
<1>2. op \in Calls /\ op.res \in Outcomes /\ op.parts \in Seq(Parts) /\ op.parts # <<>>
  BY <1>1 DEF IInv, Typed, Calls, ListsKept
<1>3. /\ op' \in Calls /\ CallKnows' /\ RunUnused' /\ ListsKept'
      /\ Owing = {} /\ Owing' = {} /\ op'.pc \in {"idle", "data"}
  BY <1>1, <1>2, NextPartKeeps
<1>4. 1 \in DOMAIN op.parts /\ p \in Parts
  BY <1>2, TailOfParts
<1>5. /\ data = [x \in Media |-> [u \in 0 .. SectorSize - 1 |-> data[x][u]]]
      /\ \A x \in Media, u \in 0 .. SectorSize - 1 : UnitOK(data[x][u])
  BY DEF IInv, Arranged, Disk
<1>6. /\ new = [u \in 0 .. SectorSize - 1 |-> new[u]]
      /\ \A u \in 0 .. SectorSize - 1 :
           /\ ~InPart(p, u) => new[u] = data[p.s][u]
           /\ InPart(p, u) => \/ new[u] = Piece(op.val, op.len, Place(p, u))
                              \/ new[u] = Scrap
  BY DEF WithPart
<1>7. \A v, n, i : UnitOK(Piece(v, n, i))
  BY DEF UnitOK, Piece
<1>8. UnitOK(Scrap)
  BY DEF UnitOK, Scrap
<1>9. 0 \in 0 .. SectorSize - 1
  BY Geometry
<1> HIDE DEF new
<1>10. /\ data' = [x \in Media |-> [u \in 0 .. SectorSize - 1 |-> data'[x][u]]]
       /\ \A x \in Media : data'[x] = IF x = p.s THEN new ELSE data[x]
  <2> HIDE DEF p
  <2>1. \A x \in Media : data'[x] = IF x = p.s THEN new ELSE data[x]
    BY <1>1, <1>5
  <2>2. DOMAIN data' = Media /\ data' = [x \in Media |-> data'[x]]
    BY <1>1, <1>5
  <2>3. \A x \in Media : data'[x] = [u \in 0 .. SectorSize - 1 |-> data'[x][u]]
    BY <1>5, <1>6, <2>1
  <2> QED BY <2>1, <2>2, <2>3
<1>11. \A x \in Media, u \in 0 .. SectorSize - 1 : UnitOK(data'[x][u])
  <2> HIDE DEF p
  <2>1. SUFFICES ASSUME NEW x \in Media, NEW u \in 0 .. SectorSize - 1
                 PROVE  UnitOK(data'[x][u])
    BY Zenon
  <2>2. CASE x = p.s
    <3>1. data'[x][u] = new[u] /\ UnitOK(data[p.s][u])
      BY <1>5, <1>10, <2>2
    <3>2. \/ new[u] = data[p.s][u]
          \/ new[u] = Piece(op.val, op.len, Place(p, u))
          \/ new[u] = Scrap
      BY <1>6
    <3> QED BY <1>7, <1>8, <3>1, <3>2
  <2>3. CASE x # p.s
    BY <1>5, <1>10, <2>3
  <2> QED BY <2>2, <2>3
<1>12. \A c \in Clusters : IsUsed(mdfat[c]) => mdfat[c].sector \in Media
  BY StatesTyped DEF MdfatEntry, IsUsed
<1>13. ASSUME NEW c \in Clusters, IsUsed(mdfat[c]), Kind(mdfat[c]) = "fragmented"
       PROVE  data'[mdfat[c].sector][0] = data[mdfat[c].sector][0]
  <2>1. CASE mdfat[c].sector = p.s
    <3>1. p.from > 0
      BY <1>1, <1>4, <1>13, <2>1 DEF IInv, ListsKept
    <3>2. ~InPart(p, 0)
      BY <1>4, <3>1 DEF InPart, Parts
    <3>3. data'[mdfat[c].sector] = new
      BY <1>10, <1>12, <1>13, <2>1
    <3> QED BY <1>6, <1>9, <2>1, <3>2, <3>3
  <2>2. CASE mdfat[c].sector # p.s
    BY <1>10, <1>12, <1>13, <2>2
  <2> QED BY <2>1, <2>2
<1>14. Arranged(Disk)' /\ \A x : CountUsers(Disk, x)' = CountUsers(Disk, x)
  BY <1>1, <1>10, <1>11, <1>13, SameUsers
<1>15. \A x : Need(x)' = Need(x)
  BY <1>3, <1>14 DEF Need
<1>16. Covered' /\ Settles
  BY <1>1, <1>15 DEF IInv, Covered, Settles
<1>17. Typed' /\ FreeCountExact'
  BY <1>1, <1>3, StatesTyped, SameSuperblock DEF Typed
<1> QED BY <1>3, <1>14, <1>16, <1>17 DEF IInv

LEMMA SectorFailsKeeps ==
  ASSUME IInv, SectorFails
  PROVE  IInv' /\ Settles
<1>1. op.pc = "data" /\ NextPart("ioerror") /\ UNCHANGED <<disk, sb>>
  BY DEF SectorFails
<1>2. /\ op' \in Calls /\ CallKnows' /\ RunUnused' /\ ListsKept'
      /\ Owing = {} /\ Owing' = {}
  BY <1>1, NextPartKeeps DEF disk, Outcomes
<1>3. sb' \in Superblock /\ FreeCountExact'
  BY <1>1, SameSuperblock DEF disk
<1> QED BY <1>1, <1>2, <1>3, QuietStep, StatesTyped DEF disk

---------------------------------------------------------------------------
(* The end of the program, and mounting.                                   *)
LEMMA AssertFailsKeeps ==
  ASSUME IInv, AssertFails
  PROVE  IInv' /\ Settles
<1>1. op.pc = "data" /\ Halt("aborted") /\ UNCHANGED disk /\ Owing = {}
  BY DEF AssertFails, Owing
<1>2. Ended(op') /\ sb' \in Superblock /\ FreeCountExact'
  BY <1>1, HaltedCall DEF Outcomes
<1> QED BY <1>1, <1>2, QuietEnd, StatesTyped DEF disk

LEMMA CrashKeeps ==
  ASSUME IInv, Crash
  PROVE  IInv' /\ (Sectors \intersect Owing = {} => Settles) /\ op'.pc = "down"
<1>1. Halt("none") /\ UNCHANGED disk
  BY DEF Crash
<1>2. Ended(op') /\ op'.pc = "down" /\ sb' \in Superblock /\ FreeCountExact'
  BY <1>1, HaltedCall DEF Outcomes
<1> QED BY <1>1, <1>2, QuietEnd, StatesTyped DEF disk

LEMMA StateStaysTyped ==
  ASSUME state \in {"clean", "dirty", "bad"}, NEW new \in {"clean", "dirty", "bad"},
         NEW forced, SetState(new, forced)
  PROVE  state' \in {"clean", "dirty", "bad"}
BY DEF SetState

LEMMA UnmountKeeps ==
  ASSUME IInv, Unmount
  PROVE  IInv' /\ Settles
<1>1. op.pc = "idle" /\ SetState("clean", FALSE) /\ Halt("none")
      /\ UNCHANGED <<mdfat, bitfat, data>> /\ Owing = {}
  BY DEF Unmount, Owing
<1>2. Ended(op') /\ sb' \in Superblock /\ FreeCountExact'
  BY <1>1, HaltedCall DEF Outcomes
<1>3. state' \in {"clean", "dirty", "bad"}
  BY <1>1, StateStaysTyped, StatesTyped
<1> QED BY <1>1, <1>2, <1>3, QuietEnd

LEMMA MountKeeps ==
  ASSUME IInv, Mount
  PROVE  IInv' /\ Settles
<1>1. op.pc = "down" /\ op' = Idle /\ SetState("dirty", FALSE)
      /\ sb' = [Unmounted EXCEPT !.free = FreeCount]
      /\ UNCHANGED <<mdfat, bitfat, data>> /\ Owing = {}
  BY DEF Mount, Owing
<1>2. Ended(op')
  BY <1>1, IdleTyped DEF Idle, Ended
<1>3. sb' \in Superblock /\ sb'.free = FreeCount
  <2>1. Unmounted \in Superblock
    BY DEF Unmounted, Superblock
  <2>2. FreeCount \in Int
    BY FreeCountTyped
  <2> QED BY <1>1, <2>1, <2>2, SuperblockChange
<1>4. FreeCountExact'
  BY <1>1, <1>3, SameFree DEF FreeCountExact
<1>5. state' \in {"clean", "dirty", "bad"}
  BY <1>1, StateStaysTyped, StatesTyped
<1> QED BY <1>1, <1>2, <1>3, <1>4, <1>5, QuietEnd

---------------------------------------------------------------------------
(* The check, and its repair of one counter after the other.               *)
LEMMA ExactCounters ==
  ASSUME NEW b, \A s \in Sectors : b[s] = CountUsers(Disk, s)
  PROVE  UnusedSectors = Cardinality(Sectors \ {s \in Sectors : b[s] # 0})
<1>1. {s \in Sectors : CountUsers(Disk, s) = 0} = Sectors \ {s \in Sectors : b[s] # 0}
  OBVIOUS
<1> QED BY <1>1 DEF UnusedSectors

LEMMA CheckRefusesKeeps ==
  ASSUME IInv, CheckRefuses
  PROVE  IInv' /\ Settles
<1>1. /\ op.pc = "idle" /\ Finish("invalid") /\ state' \in {state, "dirty"}
      /\ UNCHANGED <<mdfat, bitfat, data, sb>> /\ Owing = {}
  BY DEF CheckRefuses, Owing
<1>2. Ended(op')
  BY <1>1, FinishedCall DEF Outcomes
<1>3. sb' \in Superblock /\ FreeCountExact'
  BY <1>1, SameSuperblock
<1> QED BY <1>1, <1>2, <1>3, QuietEnd, StatesTyped

LEMMA CheckPassesKeeps ==
  ASSUME IInv, CheckPasses
  PROVE  IInv' /\ Settles
<1>1. /\ op.pc = "idle" /\ Mismatches = {} /\ Finish("consistent")
      /\ state' \in {state, "dirty"} /\ sb' = [sb EXCEPT !.free = UnusedSectors]
      /\ UNCHANGED <<mdfat, bitfat, data>> /\ Owing = {}
  BY DEF CheckPasses, Owing
<1>2. Ended(op')
  BY <1>1, FinishedCall DEF Outcomes
<1>3. UnusedSectors = FreeCount
  <2>1. \A s \in Sectors : bitfat[s] = CountUsers(Disk, s)
    BY <1>1 DEF Mismatches
  <2> QED BY <2>1, ExactCounters DEF FreeCount, Marked
<1>4. sb' \in Superblock /\ sb'.free = FreeCount
  <2>1. sb \in Superblock /\ UnusedSectors \in Int
    BY <1>3, FreeCountTyped, StatesTyped
  <2>2. sb' \in Superblock /\ sb'.free = UnusedSectors
    BY <1>1, <2>1, SuperblockChange
  <2> QED BY <1>3, <2>2
<1>5. FreeCountExact'
  BY <1>1, <1>4, SameFree DEF FreeCountExact
<1> QED BY <1>1, <1>2, <1>4, <1>5, QuietEnd, StatesTyped

LEMMA StartRepairKeeps ==
  ASSUME IInv, StartRepair
  PROVE  IInv' /\ Settles
<1>1. /\ op.pc = "idle" /\ SetState("dirty", TRUE) /\ op' = [Idle EXCEPT !.pc = "repair"]
      /\ UNCHANGED <<mdfat, bitfat, data, sb>> /\ Owing = {}
  BY DEF StartRepair, Owing
<1>2. op' \in Calls /\ op'.pc = "repair" /\ op'.val = None
  <2>1. op' \in Calls
    BY <1>1, IdleTyped, CallChange, EmptySeq DEF Pcs
  <2> QED BY <1>1, <2>1 DEF Idle
<1>3. Mismatches' # {}
  <2>1. Mismatches' = Mismatches /\ Mismatches # {}
    BY <1>1, SameLayout DEF StartRepair, Mismatches, IInv
  <2> QED BY <2>1
<1>4. CallKnows' /\ RunUnused' /\ ListsKept' /\ Owing' = {}
  BY <1>2, <1>3 DEF CallKnows, RunUnused, ListsKept, Owing
<1>5. sb' \in Superblock /\ FreeCountExact'
  BY <1>1, SameSuperblock
<1>6. state' \in {"clean", "dirty", "bad"}
  BY <1>1, StateStaysTyped, StatesTyped
<1> QED BY <1>1, <1>2, <1>4, <1>5, <1>6, QuietStep

LEMMA RepairKeeps ==
  ASSUME IInv, RepairSector
  PROVE  /\ IInv' /\ Settles
         /\ \/ UNCHANGED op
            \/ \A x \in Sectors : bitfat'[x] = CountUsers(Disk, x)'
<1> DEFINE s == Lowest(Mismatches)
           n == CountUsers(Disk, s)
<1>1. op.pc = "repair" /\ UNCHANGED <<mdfat, data, state>> /\ Owing = {}
  BY DEF RepairSector, Owing
<1>2. \/ /\ Mismatches = {s} /\ bitfat' = [bitfat EXCEPT ![s] = n]
         /\ sb' = [sb EXCEPT !.free = UnusedSectors] /\ Finish("consistent")
      \/ SetCounter(s, n) /\ UNCHANGED op /\ Mismatches # {s}
  BY DEF RepairSector
<1>3. /\ Arranged(Disk)' /\ \A x : CountUsers(Disk, x)' = CountUsers(Disk, x)
  BY <1>1, SameLayout DEF IInv
<1>4. \A x \in Sectors : /\ CountUsers(Disk, x) \in Nat /\ bitfat[x] \in 0 .. 3
                         /\ CountUsers(Disk, x) <= bitfat[x]
                         /\ Need(x) = CountUsers(Disk, x)
  <2>1. \A x \in Sectors : Need(x) = CountUsers(Disk, x) + 0
    BY <1>1 DEF Need
  <2> QED BY <2>1, UsersFinite, StatesTyped DEF IInv, Covered
<1>5. sb \in Superblock /\ sb.free = FreeCount /\ bitfat \in [Sectors -> 0 .. 3]
  BY <1>1, StatesTyped
<1>6. s \in Mismatches /\ s \in Sectors
  <2>1. Mismatches # {} /\ Mismatches \subseteq Sectors
    BY <1>1 DEF IInv, CallKnows, Mismatches
  <2>2. Mismatches \in SUBSET (DataStart .. DataEnd) /\ DataStart \in Int /\ DataEnd \in Int
    BY <2>1, Geometry DEF Sectors
  <2>3. s \in Mismatches
    BY <2>1, <2>2, LowestIsMember
  <2> QED BY <2>1, <2>3
<1>7. n \in 0 .. 3
  BY <1>4, <1>6
<1> HIDE DEF n
<1>8. bitfat' = [bitfat EXCEPT ![s] = n] /\ bitfat' \in [Sectors -> 0 .. 3]
  BY <1>2, <1>5, <1>6, <1>7 DEF SetCounter
<1>9. \A x \in Sectors : bitfat'[x] = IF x = s THEN CountUsers(Disk, x) ELSE bitfat[x]
  BY <1>5, <1>6, <1>8 DEF n
<1>10. Mismatches' = Mismatches \ {s}
  BY <1>3, <1>9 DEF Mismatches
<1>11. CASE Mismatches = {s} /\ Finish("consistent") /\ sb' = [sb EXCEPT !.free = UnusedSectors]
  <2>1. Ended(op')
    BY <1>11, FinishedCall DEF Outcomes
  <2>2. CallKnows' /\ RunUnused' /\ ListsKept' /\ Owing' = {}
    BY <2>1, EndedCall
  <2>3. \A x \in Sectors : bitfat'[x] = CountUsers(Disk, x)
    BY <1>9, <1>11 DEF Mismatches
  <2>4. UnusedSectors = FreeCount'
    BY <2>3, ExactCounters DEF FreeCount, Marked
  <2>5. FreeCount' \in Int
    <3>1. UnusedSectors = Cardinality(Sectors \ {x \in Sectors : bitfat'[x] # 0})
      BY <2>3, ExactCounters
    <3>2. IsFiniteSet(Sectors \ {x \in Sectors : bitfat'[x] # 0})
      BY Geometry, FS_Difference
    <3> QED BY <2>4, <3>1, <3>2, FS_CardinalityType
  <2>6. sb' \in Superblock /\ sb'.free = FreeCount'
    BY <1>5, <1>11, <2>4, <2>5, SuperblockChange
  <2>7. \A x : Need(x)' = CountUsers(Disk, x) + 0
    BY <1>3, <2>2 DEF Need
  <2>8. Covered' /\ Settles
    BY <1>4, <2>3, <2>7 DEF Covered, Settles
  <2>9. Typed' /\ FreeCountExact'
    BY <1>1, <1>8, <2>1, <2>6, StatesTyped DEF Typed, FreeCountExact, Ended
  <2> QED BY <1>3, <2>2, <2>3, <2>8, <2>9 DEF IInv
<1>12. CASE SetCounter(s, n) /\ UNCHANGED op /\ Mismatches # {s}
  <2>1. CallKnows' /\ RunUnused' /\ ListsKept' /\ Owing' = {}
    BY <1>1, <1>6, <1>10, <1>12 DEF IInv, CallKnows, RunUnused, ListsKept, Owing
  <2>2. sb' \in Superblock /\ sb'.free = FreeCount'
    BY <1>5, <1>6, <1>7, <1>12, SetCounterKeeps
  <2>3. \A x : Need(x)' = CountUsers(Disk, x) + 0
    BY <1>3, <2>1 DEF Need
  <2>4. Covered' /\ Settles
    BY <1>4, <1>9, <2>3 DEF Covered, Settles
  <2>5. Typed' /\ FreeCountExact'
    BY <1>1, <1>8, <1>12, <2>2, StatesTyped DEF Typed, FreeCountExact
  <2> QED BY <1>3, <1>12, <2>1, <2>4, <2>5 DEF IInv
<1> QED BY <1>2, <1>11, <1>12 DEF n

---------------------------------------------------------------------------
(* A sector has three users at most: one that ends in it, a suballocated   *)
(* cluster of one sector and one of more.  So its counter fits two bits.   *)
LEMMA OneAtMost ==
  ASSUME NEW S, \A c, d \in S : c = d
  PROVE  IsFiniteSet(S) /\ Cardinality(S) \in 0 .. 1
<1>1. CASE S = {}
  BY <1>1, FS_EmptySet
<1>2. CASE S # {}
  <2>1. PICK c \in S : TRUE
    BY <1>2
  <2>2. S = {c}
    BY <2>1
  <2> QED BY <2>2, FS_Singleton
<1> QED BY <1>1, <1>2

LEMMA ThreeUsers ==
  ASSUME NEW D, Arranged(D), NEW s \in Sectors
  PROVE  CountUsers(D, s) \in 0 .. 3
<1> DEFINE U == Users(D, s)
           e(c) == D.mdfat[c]
           A == {c \in U : ~BeginsIn(e(c), s)}
           B == {c \in U : BeginsIn(e(c), s) /\ e(c).size = 1}
           C == {c \in U : BeginsIn(e(c), s) /\ e(c).size # 1}
<1>1. ASSUME NEW c \in U, NEW d \in U, c # d
      PROVE  MayShare(D, e(c), e(d), s)
  <2>1. c \in Clusters /\ d \in Clusters /\ s \in SectorsOf(D, e(c)) /\ s \in SectorsOf(D, e(d))
    BY DEF Users
  <2> QED BY <1>1, <2>1 DEF Arranged
<1> HIDE DEF U, e
<1>2. \A c, d \in A : c = d
  BY <1>1 DEF MayShare
<1>3. \A c, d \in B : c = d
  BY <1>1 DEF MayShare, EndsIn
<1>4. \A c, d \in C : c = d
  BY <1>1 DEF MayShare, EndsIn
<1>5. U = (A \union B) \union C
  OBVIOUS
<1> HIDE DEF A, B, C
<1>6. /\ IsFiniteSet(A) /\ IsFiniteSet(B) /\ IsFiniteSet(C)
      /\ Cardinality(A) \in 0 .. 1 /\ Cardinality(B) \in 0 .. 1 /\ Cardinality(C) \in 0 .. 1
  BY <1>2, <1>3, <1>4, OneAtMost
<1>7. /\ IsFiniteSet(A \union B)
      /\ Cardinality(A \union B) = Cardinality(A) + Cardinality(B) - Cardinality(A \intersect B)
  BY <1>6, FS_Union
<1>8. Cardinality(U) = Cardinality(A \union B) + Cardinality(C)
                         - Cardinality((A \union B) \intersect C)
  BY <1>5, <1>6, <1>7, FS_Union
<1>9. /\ Cardinality(A \intersect B) \in Nat
      /\ Cardinality((A \union B) \intersect C) \in Nat /\ Cardinality(U) \in Nat
  BY <1>5, <1>6, <1>7, FS_Intersection, FS_CardinalityType, FS_Union
<1>10. Cardinality(U) \in 0 .. 3
  BY <1>6, <1>7, <1>8, <1>9
<1> QED BY <1>10 DEF CountUsers, U

LEMMA InitKeeps == Init => IInv
<1> SUFFICES ASSUME Init PROVE IInv
  OBVIOUS
<1>1. PICK v \in Volumes : /\ mdfat = v.mdfat /\ data = v.data
                           /\ bitfat = [s \in Sectors |-> CountUsers(v, s)]
  BY DEF Init
<1>2. Arranged(v)
  BY VolumeAssumption
<1>3. Disk.mdfat = v.mdfat /\ Disk.data = v.data
  BY <1>1 DEF Disk
<1>4. /\ Disk.data = [s \in Media |-> [u \in 0 .. SectorSize - 1 |-> Disk.data[s][u]]]
      /\ \A s \in Media, u \in 0 .. SectorSize - 1 : UnitOK(Disk.data[s][u])
      /\ \A c \in Clusters :
           IsUsed(v.mdfat[c]) /\ Kind(v.mdfat[c]) = "fragmented" =>
             Disk.data[v.mdfat[c].sector][0] = v.data[v.mdfat[c].sector][0]
  BY <1>2, <1>3 DEF Arranged
<1>5. Arranged(Disk) /\ \A s : Users(Disk, s) = Users(v, s)
  BY <1>2, <1>3, <1>4, DataKeepArrangement
<1>6. \A s \in Sectors : CountUsers(Disk, s) \in 0 .. 3 /\ bitfat[s] = CountUsers(Disk, s)
  BY <1>1, <1>5, ThreeUsers DEF CountUsers
<1>7. bitfat \in [Sectors -> 0 .. 3]
  BY <1>1, <1>6
<1>8. state = "clean" /\ sb = Unmounted /\ op = [Idle EXCEPT !.pc = "down"]
  BY DEF Init
<1>9. op \in Calls /\ op.pc = "down" /\ op.val = None
  <2>1. op \in Calls
    BY <1>8, IdleTyped, CallChange, EmptySeq DEF Pcs
  <2> QED BY <1>8, <2>1 DEF Idle
<1>10. Typed
  BY <1>7, <1>8, <1>9 DEF Typed, Unmounted, Superblock
<1>11. CallKnows /\ RunUnused /\ ListsKept /\ Owing = {} /\ FreeCountExact
  BY <1>9 DEF CallKnows, RunUnused, ListsKept, Owing, FreeCountExact
<1>12. \A s : Need(s) = CountUsers(Disk, s) + 0
  BY <1>11 DEF Need
<1>13. Covered
  BY <1>6, <1>12 DEF Covered
<1> QED BY <1>5, <1>10, <1>11, <1>13 DEF IInv

LEMMA StutterKeeps == IInv /\ UNCHANGED vars => IInv'
<1> SUFFICES ASSUME IInv, UNCHANGED vars PROVE IInv'
  OBVIOUS
<1>1. /\ UNCHANGED <<mdfat, bitfat, data, state, sb, op>>
  BY DEF vars, disk
<1>2. /\ Arranged(Disk)' /\ \A s : Users(Disk, s)' = Users(Disk, s)
      /\ \A s : CountUsers(Disk, s)' = CountUsers(Disk, s)
  BY <1>1, SameLayout DEF IInv
<1>3. Owing' = Owing /\ Run' = Run /\ FreeCount' = FreeCount /\ Mismatches' = Mismatches
  BY <1>1, <1>2, SameFree DEF Owing, Run, Mismatches
<1>4. Typed' /\ CallKnows' /\ ListsKept' /\ FreeCountExact'
  BY <1>1, <1>3 DEF IInv, Typed, CallKnows, ListsKept, FreeCountExact
<1>5. RunUnused'
  BY <1>1, <1>2, <1>3 DEF IInv, RunUnused
<1>6. Covered'
  BY <1>1, <1>2, <1>3 DEF IInv, Covered, Need
<1> QED BY <1>2, <1>4, <1>5, <1>6 DEF IInv

(* Every step keeps the invariant, and leaves no counter wrong that was    *)
(* right, but for a crash half-way and for a write that gives up fragments *)
(* whose list it could not read.                                           *)
LEMMA NextKeeps ==
  ASSUME IInv, Next
  PROVE  /\ IInv'
         /\ \/ Settles
            \/ op'.pc = "down" /\ Sectors \intersect Owing # {}
            \/ op.pc \in {"alloc", "entry"} /\ IsUsed(mdfat[op.cl])
<1>1. CASE Request
  BY <1>1, DeleteKeeps, WalkFailsKeeps, WriteKeeps DEF Request
<1>2. CASE Step
  <2>1. CASE NoSpace
    BY <2>1, NoSpaceKeeps DEF NoSpace
  <2>2. CASE WriteEntry
    BY <2>2, EntryKeeps DEF WriteEntry
  <2> QED BY <1>2, <2>1, <2>2, EraseKeeps, NothingToEraseKeeps, FlagKeeps, DropKeeps,
             AllocateKeeps, MarkKeeps, WriteSectorKeeps, SectorFailsKeeps,
             AssertFailsKeeps DEF Step
<1>3. CASE Check
  BY <1>3, CheckRefusesKeeps, CheckPassesKeeps, StartRepairKeeps, RepairKeeps DEF Check
<1>4. CASE Mount \/ Unmount
  BY <1>4, MountKeeps, UnmountKeeps
<1>5. CASE Crash
  BY <1>5, CrashKeeps
<1> QED BY <1>1, <1>2, <1>3, <1>4, <1>5 DEF Next


---------------------------------------------------------------------------
LEMMA InvariantGives ==
  ASSUME IInv
  PROVE  LayoutSound /\ OnlyLostIsIrreparable
<1>1. TypeOK
  <2>1. DOMAIN data = Media
    BY DEF IInv, Arranged, Disk
  <2> QED BY <2>1, StatesTyped DEF TypeOK, Calls
<1>2. UsersCounted
  <2>1. SUFFICES ASSUME NEW s \in Sectors PROVE CountUsers(Disk, s) <= bitfat[s]
    BY DEF UsersCounted
  <2>2. CountUsers(Disk, s) \in Nat /\ Need(s) <= bitfat[s] /\ bitfat[s] \in 0 .. 3
    BY UsersFinite, StatesTyped DEF IInv, Covered
  <2>3. Need(s) = CountUsers(Disk, s) + 0 \/ Need(s) = CountUsers(Disk, s) + 1
    BY DEF Need
  <2> QED BY <2>2, <2>3
<1>3. AreasDisjoint
  BY <1>2, StatesTyped, ArrangedDisjoint DEF IInv
<1>4. WalksAddUp
  BY ArrangedAddsUp DEF IInv
<1>5. LayoutSound
  BY <1>1, <1>2, <1>3, <1>4 DEF LayoutSound, IInv
<1>6. ASSUME NEW c \in Clusters, mdfat[c] # LostEntry
      PROVE  ~Unwalkable(Disk, mdfat[c]) /\ SectorsOf(Disk, mdfat[c]) \subseteq Sectors
  BY <1>6, StatesTyped DEF IInv, Arranged
<1>7. ASSUME NEW c \in Clusters, mdfat[c] # LostEntry, NEW d \in 2 .. (c - 1),
             NEW s \in SectorsOf(Disk, mdfat[c]) \intersect SectorsOf(Disk, mdfat[d])
      PROVE  /\ Version # "STAC3"
             /\ Kind(mdfat[c]) = "suballocated" \/ s = Last(mdfat[c])
  <2>1. d \in Clusters /\ c # d /\ s \in Sectors
    BY <1>6, <1>7, StacAssumption DEF Clusters
  <2>2. Version = "STAC4" /\ MayShare(Disk, mdfat[c], mdfat[d], s)
    BY <1>7, <2>1, StatesTyped DEF IInv, Arranged
  <2> QED BY <2>2 DEF MayShare, BeginsIn, EndsIn, Last
<1>8. OnlyLostIsIrreparable
  <2>1. SUFFICES ASSUME Irreparable, \A c \in Clusters : mdfat[c] # LostEntry PROVE FALSE
    BY DEF OnlyLostIsIrreparable
  <2> QED BY <1>6, <1>7, <2>1 DEF Irreparable
<1> QED BY <1>5, <1>8

(* Only the check reports that a volume is consistent.                     *)
LEMMA OnlyCheckSucceeds ==
  ASSUME IInv, Next, op'.res = "consistent", op.res # "consistent"
  PROVE  CheckPasses \/ RepairSector
<1>1. op \in Calls
  BY StatesTyped
<1>2. ASSUME NEW code, Finish(code)
      PROVE  op'.res = code
  BY <1>2 DEF Finish, Idle
<1>3. AfterFree => op'.res \in {op.res, "ok"}
  <2>1. \A q : \A o \in Calls : [o EXCEPT !.pc = "alloc", !.todo = q].res = o.res
    BY DEF Calls
  <2> QED BY <1>1, <1>2, <2>1 DEF AfterFree
<1>4. ASSUME NEW res, NextPart(res)
      PROVE  op'.res = res
  <2>1. \A q : \A o \in Calls : [o EXCEPT !.parts = q, !.res = res].res = res
    BY DEF Calls
  <2> QED BY <1>1, <1>2, <1>4, <2>1 DEF NextPart
<1>5. ASSUME NEW why, Halt(why)
      PROVE  op'.res = why
  BY <1>5 DEF Halt, Idle
<1>6. ~Request
  <2>1. ASSUME NEW c \in Clusters PROVE ~DeleteCluster(c) /\ ~WalkFails(c)
    BY <1>2 DEF DeleteCluster, WalkFails, Idle
  <2>2. ASSUME NEW c \in Clusters, NEW v \in Payloads, WriteCluster(c, v)
        PROVE  FALSE
    <3>1. PICK len \in CompressedLengths[v] \union {Length[v]}, near \in NearHints :
            LET plain == len = Length[v]
                call == [Idle EXCEPT !.cl = c, !.val = v, !.len = len, !.plain = plain,
                                     !.near = near, !.old = mdfat[c]]
                w == Walk(Disk, c, 3)
            IN  IF w.error THEN Finish("ioerror")
                ELSE IF FitsInPlace(c, len, plain)
                  THEN op' = [call EXCEPT !.pc = "data", !.parts = w.parts, !.res = "ok"]
                ELSE op' = [call EXCEPT !.pc = IF IsUsed(mdfat[c]) THEN "erase" ELSE "alloc"]
      BY <2>2 DEF WriteCluster
    <3> DEFINE call == [Idle EXCEPT !.cl = c, !.val = v, !.len = len,
                                    !.plain = len = Length[v],
                                    !.near = near, !.old = mdfat[c]]
    <3>2. /\ \A p : [call EXCEPT !.pc = "data", !.parts = p, !.res = "ok"].res = "ok"
          /\ \A p : [call EXCEPT !.pc = p].res = "none"
      BY DEF Idle
    <3> HIDE DEF call
    <3>3. \/ Finish("ioerror")
          \/ \E p : op' = [call EXCEPT !.pc = "data", !.parts = p, !.res = "ok"]
          \/ \E p : op' = [call EXCEPT !.pc = p]
      BY <3>1 DEF call
    <3>4. op'.res \in {"ioerror", "ok", "none"}
      BY <1>2, <3>2, <3>3
    <3> QED BY <3>4
  <2> QED BY <2>1, <2>2 DEF Request
<1>7. ~Step
  <2>1. ~EraseEntry /\ ~FlagAbsent /\ ~AllocateRun /\ ~MarkSector
    BY <1>1 DEF EraseEntry, FlagAbsent, AllocateRun, MarkSector, Calls
  <2>2. ~NothingToErase
    BY <1>3 DEF NothingToErase
  <2>3. ~DropSector
    <3>1. \A q : [op EXCEPT !.todo = q].res = op.res
      BY <1>1 DEF Calls
    <3>2. DropSector => AfterFree \/ op' = [op EXCEPT !.todo = Tail(op.todo)]
      BY DEF DropSector
    <3> QED BY <1>3, <3>1, <3>2
  <2>4. ~NoSpace
    BY <1>2 DEF NoSpace
  <2>5. ~WriteEntry
    <3>1. WriteEntry => \/ Finish("ioerror")
                        \/ \E p : op' = [op EXCEPT !.pc = "data", !.parts = p, !.res = "ok"]
      BY DEF WriteEntry
    <3>2. \A p : [op EXCEPT !.pc = "data", !.parts = p, !.res = "ok"].res = "ok"
      BY <1>1 DEF Calls
    <3> QED BY <1>2, <3>1, <3>2
  <2>6. ~WriteSector /\ ~SectorFails
    BY <1>4 DEF WriteSector, SectorFails
  <2>7. ~AssertFails
    BY <1>5 DEF AssertFails
  <2> QED BY <2>1, <2>2, <2>3, <2>4, <2>5, <2>6, <2>7 DEF Step
<1>8. ~CheckRefuses /\ ~StartRepair
  BY <1>2 DEF CheckRefuses, StartRepair, Idle
<1>9. ~Mount
  <2>1. Mount => op' = Idle
    BY DEF Mount
  <2>2. Idle.res = "none"
    BY DEF Idle
  <2> QED BY <2>1, <2>2
<1>10. ~Unmount /\ ~Crash
  BY <1>5 DEF Unmount, Crash
<1> QED BY <1>6, <1>7, <1>8, <1>9, <1>10 DEF Next, Check

LEMMA SuccessIsExact ==
  ASSUME IInv, Next, op'.res = "consistent", op.res # "consistent"
  PROVE  \A s \in Sectors : bitfat'[s] = CountUsers(Disk', s)
<1>1. CASE CheckPasses
  <2>1. UNCHANGED <<mdfat, bitfat, data>> /\ Mismatches = {}
    BY <1>1 DEF CheckPasses
  <2>2. \A s : CountUsers(Disk, s)' = CountUsers(Disk, s)
    BY <2>1, SameLayout DEF IInv
  <2> QED BY <2>1, <2>2 DEF Mismatches
<1>2. CASE RepairSector
  BY <1>2, RepairKeeps
<1> QED BY <1>1, <1>2, OnlyCheckSucceeds

LEMMA StepAccounts ==
  ASSUME IInv, IInv', Next
  PROVE  \/ op'.pc = "down" /\ \E s \in Sectors : Owed(s) > 0
         \/ op.pc \in {"alloc", "entry"} /\ IsUsed(mdfat[op.cl])
         \/ Unaccounted' \subseteq Unaccounted
<1>1. \A s : CountUsers(Disk, s) + Owed(s) = Need(s)
  BY NeedIsOwed DEF IInv, Typed
<1>2. (op \in Calls /\ CallKnows => \A s : CountUsers(Disk, s) + Owed(s) = Need(s))'
  BY NeedIsOwedPrime, PTL
<1>3. \A s : (CountUsers(Disk, s) + Owed(s))' = Need(s)'
  BY <1>2 DEF IInv, Typed
<1>4. CASE Settles
  <2>1. Unaccounted' \subseteq Unaccounted
    BY <1>1, <1>3, <1>4 DEF Unaccounted, Settles
  <2> QED BY <2>1
<1>5. CASE op'.pc = "down" /\ Sectors \intersect Owing # {}
  <2>1. PICK s \in Sectors : s \in Owing
    BY <1>5
  <2>2. Owed(s) = 1
    BY <2>1, NeedIsOwed DEF IInv, Typed
  <2>3. Owed(s) > 0
    BY <2>2
  <2> QED BY <1>5, <2>3
<1> QED BY <1>4, <1>5, NextKeeps

---------------------------------------------------------------------------
(* The invariant behind the results below, on volumes of every size and    *)
(* layout that Arranged allows: the tables are typed, entries and lists    *)
(* stay arranged, and no counter is below what the users of its sector and *)
(* the running call need of it.                                            *)
THEOREM StacStaysArranged == Spec => []IInv
<1>1. IInv /\ [Next]_vars => IInv'
  BY NextKeeps, StutterKeeps
<1> QED BY <1>1, InitKeeps, PTL DEF Spec

(* Through writes, deletions, repairs, crashes and remounts the counters   *)
(* cover all users of a sector, the walks of two clusters (stac_cwalk)     *)
(* come by no unit twice and add up, and s_free_sectors is exact.          *)
THEOREM StacLayoutSound == Spec => []LayoutSound
BY StacStaysArranged, InvariantGives, PTL

(* stac_simple_check finds a volume beyond repair only where a write that  *)
(* found no space has left its entry without a place.                      *)
THEOREM StacOnlyLostIsIrreparable == Spec => []OnlyLostIsIrreparable
BY StacStaysArranged, InvariantGives, PTL

(* A check that reports success, after a repair of any number of counters  *)
(* or without one, leaves every counter exact.                             *)
THEOREM StacSuccessMeansExact == Spec => SuccessMeansExact
<1> DEFINE A == op'.res = "consistent" /\ op.res # "consistent" =>
                  \A s \in Sectors : bitfat'[s] = CountUsers(Disk', s)
<1>1. IInv /\ [Next]_vars => [A]_vars
  BY SuccessIsExact
<1>2. SuccessMeansExact <=> [][A]_vars
  BY DEF SuccessMeansExact
<1> QED BY <1>1, <1>2, StacStaysArranged, PTL DEF Spec

(* No step of stac_write_cluster, stac_special_free or the check makes a   *)
(* counter wrong that was right, but for a crash half-way and for a write  *)
(* that gives up fragments whose list it could not read.                   *)
THEOREM StacCallsAccount == Spec => CallsAccount
<1> DEFINE A == \/ op'.pc = "down" /\ \E s \in Sectors : Owed(s) > 0
                \/ op.pc \in {"alloc", "entry"} /\ IsUsed(mdfat[op.cl])
                \/ Unaccounted' \subseteq Unaccounted
           v == <<mdfat, bitfat, data, op.todo>>
<1>1. IInv /\ IInv' /\ [Next]_vars => [A]_v
  <2>1. CASE Next
    BY <2>1, StepAccounts
  <2>2. CASE UNCHANGED vars
    BY <2>2 DEF vars, disk
  <2> QED BY <2>1, <2>2
<1>2. CallsAccount <=> [][A]_v
  BY DEF CallsAccount
<1> QED BY <1>1, <1>2, StacStaysArranged, PTL DEF Spec
=============================================================================
