--------------------------- MODULE BitfatSearch ---------------------------
(***************************************************************************)
(* How dmsdos looks for free sectors in the BITFAT: find_free_bitfat and   *)
(* try_fragmented of src/src/dblspace_alloc.c.  The BITFAT is the set of   *)
(* the sectors whose bit is set (in Stacker volumes: whose counter is not  *)
(* zero), so a sector of the data area is free when it is not in it.       *)
(*                                                                         *)
(* The scan loops are given by what they find: the lowest (or highest)     *)
(* sector with the property the loop tests for.  BitfatLoops writes the    *)
(* loops out; the two are proved equal there, for every volume.            *)
(***************************************************************************)
EXTENDS Integers, FiniteSets

CONSTANTS
  DataStart,        \* s_datastart: first sector of the data area
  DataEnd,          \* s_dataend: last sector the driver uses
  SectPerClust,     \* s_sectperclust
  NearArea,         \* NEAR_AREA, 512 in the code
  Version,          \* s_cvf_version
  FastBitfatAlloc,  \* dmsdos_speedup & SP_FAST_BITFAT_ALLOC
  NoExactSearch     \* dmsdos_speedup & SP_NO_EXACT_SEARCH

ASSUME GeometryAssumption ==
  /\ DataStart \in Nat \ {0} /\ DataEnd \in Nat /\ DataStart <= DataEnd
  /\ SectPerClust \in Nat \ {0}
  /\ NearArea \in Nat

ASSUME OptionAssumption ==
  /\ Version \in {"DBLSP", "DRVSP", "DRVSP3", "STAC3", "STAC4"}
  /\ FastBitfatAlloc \in BOOLEAN /\ NoExactSearch \in BOOLEAN

Sectors == DataStart .. DataEnd
BigHole == SectPerClust * 3 + 2

NotFound == 0
ENOSPC == -28
EIO == -5

(* The counters and search positions of the Dblsb; they live in memory only. *)
Superblock == [free : Int, full : 0..2, lastnear : Int, lastbig : Int]

Lowest(S) == CHOOSE x \in S : \A y \in S : x <= y
Highest(S) == CHOOSE x \in S : \A y \in S : x >= y

(* Reading a bit: sectors outside the data area never look free. *)
IsFree(bitfat, s) == s \in Sectors \ bitfat

(* n free sectors in a row, the first one being s. *)
Hole(bitfat, s, n) == \A t \in s .. (s + n - 1) : IsFree(bitfat, t)

(* Writing a bit keeps s_free_sectors in step. *)
CountAfterClear(sb, bitfat, s) ==
  [sb EXCEPT !.free = IF s \in bitfat THEN @ + 1 ELSE @]
(* Mutant: setting a bit leaves s_free_sectors alone. *)
CountForgotten(sb, bitfat, s) == sb
CountAfterSet(sb, bitfat, s) ==
  [sb EXCEPT !.free = IF s \in bitfat THEN @ ELSE @ - 1]

---------------------------------------------------------------------------
(* The loops "while (i < size && free) ++i": any hole of at least n sectors. *)
(* Mutants: one sector too few is tested; the scan stops one sector early. *)
FittingHolesShort(bitfat, from, last, n) ==
  {s \in from .. last : Hole(bitfat, s, n - 1)}
FittingHolesEarly(bitfat, from, last, n) ==
  {s \in from .. (last - 1) : Hole(bitfat, s, n)}
FittingHoles(bitfat, from, last, n) ==
  {s \in from .. last : Hole(bitfat, s, n)}

(* The loops "while (i <= size && free) ++i" cut a hole into pieces of n+1 *)
(* sectors, counted from where the scan entered it, and accept only a last *)
(* piece of exactly n.                                                     *)
(* Mutant: a long hole is skipped as a whole instead of being cut.         *)
ExactHolesUncut(bitfat, from, last, n) ==
  {s \in from .. last : /\ Hole(bitfat, s, n) /\ ~IsFree(bitfat, s + n)
                        /\ s = from \/ ~IsFree(bitfat, s - 1)}
ExactHolesAbove(bitfat, from, last, n) ==
  {s \in from .. last :
     /\ Hole(bitfat, s, n)
     /\ ~IsFree(bitfat, s + n)
     /\ \E entry \in from .. s :
          /\ Hole(bitfat, entry, s - entry)
          /\ entry = from \/ ~IsFree(bitfat, entry - 1)
          /\ (s - entry) % (n + 1) = 0}

(* The same downwards; the elements are the LAST sectors of the holes. *)
ExactHolesBelow(bitfat, from, first, n) ==
  {s \in first .. from :
     /\ Hole(bitfat, s - n + 1, n)
     /\ ~IsFree(bitfat, s - n)
     /\ \E entry \in s .. from :
          /\ Hole(bitfat, s + 1, entry - s)
          /\ entry = from \/ ~IsFree(bitfat, entry + 1)
          /\ (entry - s) % (n + 1) = 0}

(* find_free_bitfat: a hole for n sectors near the given sector, and the   *)
(* superblock the search leaves behind, with the two bits of dmsdos_speedup *)
(* it looks at.  Only the first n sectors of a "big hole" are taken by the *)
(* caller.                                                                 *)
FindWith(fastAlloc, noExact, bitfat, sb, sectornr, n) ==
  LET last == DataEnd - n
      InReach(s) == s \in DataStart .. last
      Resume(s) == IF InReach(s) THEN s ELSE DataStart
      near == IF sectornr = 0 THEN sb.lastnear ELSE sectornr
      fast == IF fastAlloc
              THEN FittingHoles(bitfat, Resume(sb.lastnear), last, n) ELSE {}
      searchNear == ~fastAlloc /\ InReach(near)
      above == IF searchNear
               THEN ExactHolesAbove(bitfat, near, near + NearArea - 1, n) ELSE {}
      below == IF searchNear
               THEN ExactHolesBelow(bitfat, near, near - NearArea + 1, n) ELSE {}
      big == IF fastAlloc \/ sb.lastbig = -1 THEN {}
             ELSE FittingHoles(bitfat, Resume(sb.lastbig), last, BigHole)
      lastbig == IF sb.lastbig \in {0, -1} THEN -1 ELSE 0
      exact == IF fastAlloc \/ noExact THEN {}
               ELSE ExactHolesAbove(bitfat, DataStart, last, n)
      any == FittingHoles(bitfat, DataStart, last, n)
      full == IF fastAlloc \/ sb.full # 0 THEN sb.full ELSE 1
      Found(s, newsb) == [sector |-> s, sb |-> newsb]
      AfterBig == IF fastAlloc THEN sb ELSE [sb EXCEPT !.lastbig = lastbig]
  IN  IF sb.free < n THEN Found(ENOSPC, [sb EXCEPT !.full = 2])
      ELSE IF fast # {}
        THEN Found(Lowest(fast),
                   [sb EXCEPT !.lastnear = Lowest(fast) + n, !.full = 0])
      ELSE IF above # {}
        THEN Found(Lowest(above), [sb EXCEPT !.lastnear = Lowest(above), !.full = 0])
      ELSE IF below # {}
        THEN Found(Highest(below) - n + 1,
                   [sb EXCEPT !.lastnear = Highest(below) - n + 1, !.full = 0])
      ELSE IF big # {}
        THEN Found(Lowest(big), [sb EXCEPT !.lastbig = Lowest(big), !.full = 0])
      ELSE IF exact # {}
        THEN Found(Lowest(exact), [AfterBig EXCEPT !.full = 0])
      ELSE IF any # {}
        THEN Found(Lowest(any), [AfterBig EXCEPT !.full = full])
      ELSE Found(NotFound, [AfterBig EXCEPT
             !.full = IF Version # "DRVSP3" THEN 2 ELSE IF @ = 0 THEN 1 ELSE @])

FindFreeBitfat(bitfat, sb, sectornr, n) ==
  FindWith(FastBitfatAlloc, NoExactSearch, bitfat, sb, sectornr, n)

---------------------------------------------------------------------------
(* A fragmentation list names its fragments in ascending order and two     *)
(* fragments never touch (the loop ends a fragment at a used sector), so   *)
(* the set of its sectors determines it.                                   *)
Fragments(F) == Cardinality({s \in F : s - 1 \notin F})
FirstFragment(F) == {s \in F : \A t \in Lowest(F) .. s : t \in F}

(* The first n free sectors from a sector on, fewer if there are no more.  *)
(* Mutant: the collecting loop ends one sector early.                      *)
FirstFreeShort(bitfat, from, n) ==
  {s \in from .. DataEnd :
     /\ IsFree(bitfat, s)
     /\ Cardinality({t \in from .. s : IsFree(bitfat, t)}) < n}
FirstFree(bitfat, from, n) ==
  {s \in from .. DataEnd :
     /\ IsFree(bitfat, s)
     /\ Cardinality({t \in from .. s : IsFree(bitfat, t)}) <= n}

(* try_fragmented: n sectors in several pieces.  A list with less than two *)
(* or more than s_sectperclust+1 fragments "cannot happen" and is refused. *)
TryFragmented(bitfat, sb, anear, n) ==
  LET near == IF anear = 0 THEN sb.lastnear ELSE anear
      from == IF near \in Sectors THEN near ELSE DataStart
      upward == FirstFree(bitfat, from, n)
      list == IF Cardinality(upward) < n THEN FirstFree(bitfat, DataStart, n)
              ELSE upward
      Result(error, F, newsb) == [error |-> error, list |-> F, sb |-> newsb]
  IN  IF sb.free < n \/ Cardinality(list) < n
        THEN Result(ENOSPC, {}, [sb EXCEPT !.full = 2])
      ELSE IF Fragments(list) \notin 2 .. (SectPerClust + 1)
        THEN Result(EIO, {}, sb)
      ELSE Result(0, list, [sb EXCEPT !.full = 1, !.lastnear = Highest(list) + 2])
===========================================================================
