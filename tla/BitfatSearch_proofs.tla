------------------------ MODULE BitfatSearch_proofs ------------------------
(***************************************************************************)
(* What the BITFAT search returns, for every size of the volume and every  *)
(* position earlier searches have left behind.                             *)
(***************************************************************************)
EXTENDS BitfatSearch, WellFoundedInduction, TLAPS

LEMMA LessThanRelation ==
  \A x, y \in Nat : x < y => <<x, y>> \in OpToRel(<, Nat)
BY DEF OpToRel

(* A non-empty set of integers that is bounded has a lowest element ...    *)
LEMMA LowestIsMember ==
  ASSUME NEW a \in Int, NEW b \in Int, NEW S \in SUBSET (a .. b), S # {}
  PROVE  Lowest(S) \in S /\ \A y \in S : Lowest(S) <= y
<1> DEFINE T == {x - a : x \in S}
<1>1. T \subseteq Nat /\ T # {}
  OBVIOUS
<1>2. PICK m \in T : \A y \in T : ~(<<y, m>> \in OpToRel(<, Nat))
  <2> HIDE DEF T
  <2> QED BY <1>1, NatLessThanWellFounded, WFMin
<1>3. \A y \in T : m <= y
  <2> HIDE DEF T
  <2>1. \A y \in T : ~(y < m)
    BY <1>1, <1>2, LessThanRelation, Zenon
  <2> QED BY <1>1, <2>1, SMT
<1>4. PICK x \in S : m = x - a
  OBVIOUS
<1>5. \A y \in S : x <= y
  <2> TAKE y \in S
  <2>1. y - a \in T
    OBVIOUS
  <2>2. m <= y - a
    BY <2>1, <1>3
  <2> QED BY <1>4, <2>2
<1> HIDE DEF T
<1> QED BY <1>5 DEF Lowest

(* ... and a highest one.                                                  *)
LEMMA HighestIsMember ==
  ASSUME NEW a \in Int, NEW b \in Int, NEW S \in SUBSET (a .. b), S # {}
  PROVE  Highest(S) \in S /\ \A y \in S : Highest(S) >= y
<1> DEFINE T == {b - x : x \in S}
<1>1. T \subseteq Nat /\ T # {}
  OBVIOUS
<1>2. PICK m \in T : \A y \in T : ~(<<y, m>> \in OpToRel(<, Nat))
  <2> HIDE DEF T
  <2> QED BY <1>1, NatLessThanWellFounded, WFMin
<1>3. \A y \in T : m <= y
  <2> HIDE DEF T
  <2>1. \A y \in T : ~(y < m)
    BY <1>1, <1>2, LessThanRelation, Zenon
  <2> QED BY <1>1, <2>1, SMT
<1>4. PICK x \in S : m = b - x
  OBVIOUS
<1>5. \A y \in S : x >= y
  <2> TAKE y \in S
  <2>1. b - y \in T
    OBVIOUS
  <2>2. m <= b - y
    BY <2>1, <1>3
  <2> QED BY <1>4, <2>2
<1> HIDE DEF T
<1> QED BY <1>5 DEF Highest

(* Each scan, if it finds anything, finds a hole large enough.             *)
LEMMA LowestFittingHole ==
  ASSUME NEW bitfat, NEW from \in Int, NEW last \in Int, NEW n \in Int,
         FittingHoles(bitfat, from, last, n) # {}
  PROVE  /\ Lowest(FittingHoles(bitfat, from, last, n)) \in Int
         /\ Hole(bitfat, Lowest(FittingHoles(bitfat, from, last, n)), n)
<1>1. FittingHoles(bitfat, from, last, n) \in SUBSET (from .. last)
  BY DEF FittingHoles
<1>2. Lowest(FittingHoles(bitfat, from, last, n)) \in FittingHoles(bitfat, from, last, n)
  BY <1>1, LowestIsMember
<1> QED BY <1>2 DEF FittingHoles

LEMMA LowestExactHole ==
  ASSUME NEW bitfat, NEW from \in Int, NEW last \in Int, NEW n \in Int,
         ExactHolesAbove(bitfat, from, last, n) # {}
  PROVE  /\ Lowest(ExactHolesAbove(bitfat, from, last, n)) \in Int
         /\ Hole(bitfat, Lowest(ExactHolesAbove(bitfat, from, last, n)), n)
<1>1. ExactHolesAbove(bitfat, from, last, n) \in SUBSET (from .. last)
  BY DEF ExactHolesAbove
<1>2. Lowest(ExactHolesAbove(bitfat, from, last, n))
        \in ExactHolesAbove(bitfat, from, last, n)
  BY <1>1, LowestIsMember
<1> QED BY <1>2 DEF ExactHolesAbove

LEMMA HighestExactHole ==
  ASSUME NEW bitfat, NEW from \in Int, NEW first \in Int, NEW n \in Int,
         ExactHolesBelow(bitfat, from, first, n) # {}
  PROVE  LET s == Highest(ExactHolesBelow(bitfat, from, first, n)) - n + 1
         IN  s \in Int /\ Hole(bitfat, s, n)
<1>1. ExactHolesBelow(bitfat, from, first, n) \in SUBSET (first .. from)
  BY DEF ExactHolesBelow
<1>2. Highest(ExactHolesBelow(bitfat, from, first, n))
        \in ExactHolesBelow(bitfat, from, first, n)
  BY <1>1, HighestIsMember
<1> QED BY <1>2 DEF ExactHolesBelow

(* A search position and the fill state replaced.                          *)
LEMMA PositionAndFull ==
  ASSUME NEW m \in Superblock, NEW x \in Int
  PROVE  /\ [m EXCEPT !.lastnear = x, !.full = 0] \in Superblock
         /\ [m EXCEPT !.lastnear = x, !.full = 0].free = m.free
         /\ [m EXCEPT !.lastbig = x, !.full = 0] \in Superblock
         /\ [m EXCEPT !.lastbig = x, !.full = 0].free = m.free
<1>1. /\ [m EXCEPT !.lastnear = x, !.full = 0]
           = [[m EXCEPT !.lastnear = x] EXCEPT !.full = 0]
      /\ [m EXCEPT !.lastbig = x, !.full = 0]
           = [[m EXCEPT !.lastbig = x] EXCEPT !.full = 0]
  BY DEF Superblock
<1>2. /\ [m EXCEPT !.lastnear = x] \in Superblock
      /\ [m EXCEPT !.lastbig = x] \in Superblock
      /\ [m EXCEPT !.lastnear = x].free = m.free
      /\ [m EXCEPT !.lastbig = x].free = m.free
  BY DEF Superblock
<1>3. \A k \in Superblock : /\ [k EXCEPT !.full = 0] \in Superblock
                            /\ [k EXCEPT !.full = 0].free = k.free
  BY DEF Superblock
<1> QED BY <1>1, <1>2, <1>3, Zenon

(* A search, with any setting of dmsdos_speedup, returns the first of n     *)
(* free sectors, or gives up for want of sectors or of a hole for them.    *)
FoundSound(found, bitfat, sb, n) ==
  /\ found.sector \in Int
  /\ found.sb \in Superblock
  /\ found.sb.free = sb.free
  /\ found.sector > 0 => Hole(bitfat, found.sector, n)
  /\ found.sector <= 0 => sb.free < n \/ FittingHoles(bitfat, DataStart, DataEnd - n, n) = {}

LEMMA HolesArePositive ==
  ASSUME NEW bitfat, NEW s \in Int, NEW n \in Nat \ {0}, Hole(bitfat, s, n)
  PROVE  s > 0
<1>1. IsFree(bitfat, s)
  BY DEF Hole
<1> QED BY <1>1, GeometryAssumption DEF IsFree, Sectors

LEMMA FindIsSound ==
  ASSUME NEW fastAlloc \in BOOLEAN, NEW noExact \in BOOLEAN,
         NEW bitfat, NEW sb \in Superblock, NEW sectornr \in Nat,
         NEW n \in 1 .. SectPerClust
  PROVE  FoundSound(FindWith(fastAlloc, noExact, bitfat, sb, sectornr, n), bitfat, sb, n)
<1> USE GeometryAssumption, OptionAssumption
<1> DEFINE last == DataEnd - n
           InReach(s) == s \in DataStart .. last
           Resume(s) == IF InReach(s) THEN s ELSE DataStart
           near == IF sectornr = 0 THEN sb.lastnear ELSE sectornr
           fast == IF fastAlloc
              THEN FittingHoles(bitfat, Resume(sb.lastnear), last, n) ELSE {}
           searchNear == ~fastAlloc /\ InReach(near)
           above == IF searchNear
               THEN ExactHolesAbove(bitfat, near, near + NearArea - 1, n) ELSE {}
           below == IF searchNear
               THEN ExactHolesBelow(bitfat, near, near - NearArea + 1, n) ELSE {}
           big == IF fastAlloc \/ sb.lastbig = -1 THEN {}
             ELSE FittingHoles(bitfat, Resume(sb.lastbig), last, BigHole)
           lastbig == IF sb.lastbig \in {0, -1} THEN -1 ELSE 0
           exact == IF fastAlloc \/ noExact THEN {}
               ELSE ExactHolesAbove(bitfat, DataStart, last, n)
           any == FittingHoles(bitfat, DataStart, last, n)
           full == IF fastAlloc \/ sb.full # 0 THEN sb.full ELSE 1
           AfterBig == IF fastAlloc THEN sb ELSE [sb EXCEPT !.lastbig = lastbig]
           found == FindWith(fastAlloc, noExact, bitfat, sb, sectornr, n)
<1>0. /\ last \in Int /\ near \in Int /\ n \in Int /\ lastbig \in Int
      /\ \A s \in Int : Resume(s) \in Int
      /\ full \in 0 .. 2
      /\ sb.lastnear \in Int /\ sb.lastbig \in Int /\ sb.free \in Int
      /\ sb.full \in 0 .. 2
  BY DEF Superblock
<1>1. fast # {} => Lowest(fast) \in Int /\ Hole(bitfat, Lowest(fast), n)
  <2> HIDE DEF Resume, last
  <2> QED BY <1>0, LowestFittingHole
<1>2. above # {} => Lowest(above) \in Int /\ Hole(bitfat, Lowest(above), n)
  <2> HIDE DEF near, InReach
  <2> QED BY <1>0, LowestExactHole
<1>3. below # {} => LET s == Highest(below) - n + 1
                    IN  s \in Int /\ Hole(bitfat, s, n)
  <2> HIDE DEF near, InReach
  <2> QED BY <1>0, HighestExactHole
<1>4. big # {} => Lowest(big) \in Int /\ Hole(bitfat, Lowest(big), n)
  <2> HIDE DEF Resume, last
  <2>1. BigHole \in Int /\ n <= BigHole
    BY DEF BigHole
  <2>2. big # {} => Lowest(big) \in Int /\ Hole(bitfat, Lowest(big), BigHole)
    BY <1>0, <2>1, LowestFittingHole
  <2> QED BY <1>0, <2>1, <2>2 DEF Hole
<1>5. exact # {} => Lowest(exact) \in Int /\ Hole(bitfat, Lowest(exact), n)
  <2> HIDE DEF last
  <2> QED BY <1>0, LowestExactHole
<1>6. any # {} => Lowest(any) \in Int /\ Hole(bitfat, Lowest(any), n)
  <2> HIDE DEF last
  <2> QED BY <1>0, LowestFittingHole
<1>7. /\ AfterBig \in Superblock /\ AfterBig.free = sb.free
  <2> HIDE DEF lastbig
  <2> QED BY <1>0 DEF Superblock
<1> HIDE DEF fast, above, below, big, exact, any, AfterBig, full, lastbig
<1> SUFFICES /\ found.sector \in Int
             /\ found.sb \in Superblock
             /\ found.sb.free = sb.free
             /\ found.sector > 0 => Hole(bitfat, found.sector, n)
             /\ found.sector <= 0 => sb.free < n \/ any = {}
  BY DEF FoundSound, any, last
<1>8. found =
        IF sb.free < n THEN [sector |-> ENOSPC, sb |-> [sb EXCEPT !.full = 2]]
        ELSE IF fast # {}
          THEN [sector |-> Lowest(fast),
                sb |-> [sb EXCEPT !.lastnear = Lowest(fast) + n, !.full = 0]]
        ELSE IF above # {}
          THEN [sector |-> Lowest(above),
                sb |-> [sb EXCEPT !.lastnear = Lowest(above), !.full = 0]]
        ELSE IF below # {}
          THEN [sector |-> Highest(below) - n + 1,
                sb |-> [sb EXCEPT !.lastnear = Highest(below) - n + 1, !.full = 0]]
        ELSE IF big # {}
          THEN [sector |-> Lowest(big),
                sb |-> [sb EXCEPT !.lastbig = Lowest(big), !.full = 0]]
        ELSE IF exact # {}
          THEN [sector |-> Lowest(exact), sb |-> [AfterBig EXCEPT !.full = 0]]
        ELSE IF any # {}
          THEN [sector |-> Lowest(any), sb |-> [AfterBig EXCEPT !.full = full]]
        ELSE [sector |-> NotFound, sb |-> [AfterBig EXCEPT
               !.full = IF Version # "DRVSP3" THEN 2 ELSE IF @ = 0 THEN 1 ELSE @]]
  BY DEF FindWith, fast, above, below, big, exact, any, AfterBig, full, lastbig
<1> HIDE DEF found, last, InReach, Resume, near, searchNear
<1>9. \A s \in Int : Hole(bitfat, s, n) => ~(s <= 0)
  <2>1. n \in Nat \ {0}
    OBVIOUS
  <2> QED BY <2>1, HolesArePositive
<1>10. CASE sb.free < n
  <2>1. found.sector = ENOSPC /\ found.sb = [sb EXCEPT !.full = 2]
    BY <1>8, <1>10
  <2>2. found.sector \in Int /\ ~(found.sector > 0)
    BY <2>1 DEF ENOSPC
  <2>3. found.sb \in Superblock /\ found.sb.free = sb.free
    BY <2>1 DEF Superblock
  <2> QED BY <1>10, <2>2, <2>3
<1>11. CASE ~(sb.free < n) /\ fast # {}
  <2>1. /\ found.sector = Lowest(fast)
        /\ found.sb = [sb EXCEPT !.lastnear = Lowest(fast) + n, !.full = 0]
    BY <1>8, <1>11
  <2>2. Lowest(fast) + n \in Int
    BY <1>0, <1>1, <1>11
  <2>3. found.sb \in Superblock /\ found.sb.free = sb.free
    BY <2>1, <2>2, PositionAndFull, Zenon
  <2> QED BY <1>1, <1>9, <1>11, <2>1, <2>3
<1>12. CASE ~(sb.free < n) /\ fast = {} /\ above # {}
  <2>1. /\ found.sector = Lowest(above)
        /\ found.sb = [sb EXCEPT !.lastnear = Lowest(above), !.full = 0]
    BY <1>8, <1>12
  <2>2. Lowest(above) \in Int
    BY <1>2, <1>12
  <2>3. found.sb \in Superblock /\ found.sb.free = sb.free
    BY <2>1, <2>2, PositionAndFull, Zenon
  <2> QED BY <1>2, <1>9, <1>12, <2>1, <2>3
<1>13. CASE ~(sb.free < n) /\ fast = {} /\ above = {} /\ below # {}
  <2>1. /\ found.sector = Highest(below) - n + 1
        /\ found.sb = [sb EXCEPT !.lastnear = Highest(below) - n + 1, !.full = 0]
    BY <1>8, <1>13
  <2>2. Highest(below) - n + 1 \in Int
    BY <1>3, <1>13
  <2>3. found.sb \in Superblock /\ found.sb.free = sb.free
    BY <2>1, <2>2, PositionAndFull, Zenon
  <2> QED BY <1>3, <1>9, <1>13, <2>1, <2>3
<1> DEFINE notNear == ~(sb.free < n) /\ fast = {} /\ above = {} /\ below = {}
<1>14. CASE notNear /\ big # {}
  <2>1. /\ found.sector = Lowest(big)
        /\ found.sb = [sb EXCEPT !.lastbig = Lowest(big), !.full = 0]
    BY <1>8, <1>14
  <2>2. Lowest(big) \in Int
    BY <1>4, <1>14
  <2>3. found.sb \in Superblock /\ found.sb.free = sb.free
    BY <2>1, <2>2, PositionAndFull, Zenon
  <2> QED BY <1>4, <1>9, <1>14, <2>1, <2>3
<1>15. CASE notNear /\ big = {} /\ exact # {}
  <2>1. /\ found.sector = Lowest(exact)
        /\ found.sb = [AfterBig EXCEPT !.full = 0]
    BY <1>8, <1>15
  <2> QED BY <1>5, <1>7, <1>9, <1>15, <2>1 DEF Superblock
<1>16. CASE notNear /\ big = {} /\ exact = {} /\ any # {}
  <2>1. /\ found.sector = Lowest(any)
        /\ found.sb = [AfterBig EXCEPT !.full = full]
    BY <1>8, <1>16
  <2> QED BY <1>0, <1>6, <1>7, <1>9, <1>16, <2>1 DEF Superblock
<1>17. CASE notNear /\ big = {} /\ exact = {} /\ any = {}
  <2>1. found.sector = NotFound
    BY <1>8, <1>17
  <2>2. PICK f \in 0 .. 2 : found.sb = [AfterBig EXCEPT !.full = f]
    <3>1. found.sb = [AfterBig EXCEPT !.full = IF Version # "DRVSP3" THEN 2
                        ELSE IF AfterBig.full = 0 THEN 1 ELSE AfterBig.full]
      BY <1>8, <1>17
    <3>2. AfterBig.full \in 0 .. 2
      BY <1>7 DEF Superblock
    <3> QED BY <3>1, <3>2
  <2> QED BY <1>7, <1>17, <2>1, <2>2 DEF NotFound, Superblock
<1> QED
  BY <1>10, <1>11, <1>12, <1>13, <1>14, <1>15, <1>16, <1>17

(* find_free_bitfat never makes its caller panic: a sector it returns      *)
(* starts n free sectors of the data area, whatever the resume positions,  *)
(* and the search itself never touches s_free_sectors.                     *)
SearchResultSound(bitfat, sb, near, n) ==
  LET found == FindFreeBitfat(bitfat, sb, near, n)
  IN  /\ found.sector \in Int
      /\ found.sb \in Superblock
      /\ found.sb.free = sb.free
      /\ found.sector > 0 => Hole(bitfat, found.sector, n)

THEOREM SearchIsSound ==
  ASSUME NEW bitfat, NEW sb \in Superblock, NEW sectornr \in Nat,
         NEW n \in 1 .. SectPerClust
  PROVE  SearchResultSound(bitfat, sb, sectornr, n)
BY FindIsSound, OptionAssumption DEF SearchResultSound, FoundSound, FindFreeBitfat
=============================================================================
