---------------------------- MODULE BitfatLoops ----------------------------
(***************************************************************************)
(* A small allocator over the BITFAT: sectors are taken where the search   *)
(* finds them and released in any order.  On every BITFAT it can reach the *)
(* search of BitfatSearch is compared with the scan loops of               *)
(* src/src/dblspace_alloc.c written out step by step, and with what its    *)
(* callers rely on.                                                        *)
(***************************************************************************)
EXTENDS BitfatSearch

CONSTANT NearHints    \* near_sector arguments, 0 for "none"

ASSUME HintAssumption == NearHints \subseteq Nat

VARIABLES bitfat, sb
vars == <<bitfat, sb>>

---------------------------------------------------------------------------
(* i = 1; while (i < cap && free(s + dir*i)) ++i; *)
RunLength(s, dir, cap) ==
  LET run[i \in Nat] == IF i < cap /\ IsFree(bitfat, s + dir * i) THEN run[i + 1] ELSE i
  IN  run[1]

(* testsek runs up to last; a piece of at most cap sectors must have length n. *)
ScanUp(from, last, cap, n, none) ==
  LET scan[testsek \in Int] ==
        IF testsek > last THEN none
        ELSE IF ~IsFree(bitfat, testsek) THEN scan[testsek + 1]
        ELSE LET i == RunLength(testsek, 1, cap)
             IN  IF i = n THEN testsek ELSE scan[testsek + i]
  IN  scan[from]

ScanDown(from, first, cap, n, none) ==
  LET scan[testsek \in Int] ==
        IF testsek < first THEN none
        ELSE IF ~IsFree(bitfat, testsek) THEN scan[testsek - 1]
        ELSE LET i == RunLength(testsek, -1, cap)
             IN  IF i = n THEN testsek - i + 1 ELSE scan[testsek - i]
  IN  scan[from]

(* The sector find_free_bitfat returns, loop after loop. *)
LoopResult(near0, n, fastAlloc, noExact) ==
  LET last == DataEnd - n
      InReach(s) == s \in DataStart .. last
      Resume(s) == IF InReach(s) THEN s ELSE DataStart
      near == IF near0 = 0 THEN sb.lastnear ELSE near0
      any == ScanUp(DataStart, last, n, n, NotFound)
      exact == IF noExact THEN any
               ELSE ScanUp(DataStart, last, n + 1, n, any)
      big == IF sb.lastbig = -1 THEN exact
             ELSE ScanUp(Resume(sb.lastbig), last, BigHole, BigHole, exact)
      below == ScanDown(near, near - NearArea + 1, n + 1, n, big)
  IN  IF sb.free < n THEN ENOSPC
      ELSE IF fastAlloc THEN ScanUp(Resume(sb.lastnear), last, n, n, any)
      ELSE IF InReach(near) THEN ScanUp(near, near + NearArea - 1, n + 1, n, below)
      ELSE big

(* dmsdos_speedup is a global variable that any mount may change.          *)
Searches(near, n) ==
  {FindWith(fastAlloc, noExact, bitfat, sb, near, n) : fastAlloc, noExact \in BOOLEAN}

---------------------------------------------------------------------------
Sizes == 1 .. SectPerClust

Init == /\ bitfat = {}
        /\ sb = [free |-> Cardinality(Sectors), full |-> 0, lastnear |-> 0,
                 lastbig |-> 0]

(* dbl_replace_existing_cluster takes the first n sectors of what it is given. *)
Take(near, n) == \E found \in Searches(near, n) :
  LET taken == found.sector .. (found.sector + n - 1)
  IN  /\ found.sector > 0
      /\ bitfat' = bitfat \union taken
      /\ sb' = [found.sb EXCEPT !.free = @ - Cardinality(taken \ bitfat)]

(* Not one hole for the n sectors: the pieces and one more for their list. *)
TakePieces(near, n) == \E found \in Searches(near, n) :
  LET pieces == TryFragmented(bitfat, found.sb, near, n + 1)
  IN  /\ Version = "DRVSP3" /\ found.sector <= 0
      /\ bitfat' = bitfat \union pieces.list
      /\ sb' = [pieces.sb EXCEPT !.free = @ - Cardinality(pieces.list \ bitfat)]

(* Older formats cannot have fragments, and SP_NO_FRAG_WRITE forbids them.  *)
Refused(near, n) == \E found \in Searches(near, n) :
  /\ found.sector <= 0
  /\ sb' = found.sb
  /\ UNCHANGED bitfat

(* u_free_cluster_sectors clears the bits of one cluster's sectors. *)
Release(first, n) ==
  /\ first .. (first + n - 1) \subseteq bitfat
  /\ bitfat' = bitfat \ (first .. (first + n - 1))
  /\ sb' = [sb EXCEPT !.free = @ + n, !.full = 0]

Next == \/ \E near \in NearHints, n \in Sizes :
             Take(near, n) \/ TakePieces(near, n) \/ Refused(near, n)
        \/ \E first \in Sectors, n \in Sizes : Release(first, n)

Spec == Init /\ [][Next]_vars

---------------------------------------------------------------------------

(* The search returns the sector the written-out scan loops return, for    *)
(* every size, near_sector and setting of dmsdos_speedup, and for every     *)
(* position that earlier searches left.                                    *)
SearchIsTheLoops ==
  \A near \in NearHints, n \in Sizes, fastAlloc, noExact \in BOOLEAN :
    FindWith(fastAlloc, noExact, bitfat, sb, near, n).sector
      = LoopResult(near, n, fastAlloc, noExact)

(* dbl_replace_existing_cluster panics ("find_free_bitfat returned sector  *)
(* but they are not all free", "try_fragmented returned non-free sectors") *)
(* if the search hands out a used sector or one outside the data area: the *)
(* search never does, whatever the resume positions point at by now.       *)
NeverHandsOutUsedSectors ==
  \A near \in NearHints, n \in Sizes : \A found \in Searches(near, n) :
    LET pieces == TryFragmented(bitfat, found.sb, near, n + 1)
    IN  /\ found.sector > 0 => Hole(bitfat, found.sector, n)
        /\ \A s \in pieces.list : IsFree(bitfat, s)

(* A write is refused or fragmented only if no hole below the last sector  *)
(* is large enough: no scan gives up with a fitting hole left behind its   *)
(* resume position.                                                        *)
FindsWhatFits ==
  \A near \in NearHints, n \in Sizes : \A found \in Searches(near, n) :
    found.sector <= 0 =>
      \A s \in Sectors : s + n <= DataEnd => ~Hole(bitfat, s, n)

(* try_fragmented, tried after the search failed, uses all that is free:   *)
(* its "cannot happen" branches (a list of one fragment, or of more than   *)
(* s_sectperclust+1) are dead and it fails only for want of sectors.       *)
FragmentsUseEverySector ==
  \A near \in NearHints, n \in Sizes : \A found \in Searches(near, n) :
    LET pieces == TryFragmented(bitfat, found.sb, near, n + 1)
    IN  found.sector <= 0 =>
          /\ pieces.error \in {0, ENOSPC}
          /\ pieces.error = 0 <=> Cardinality(Sectors \ bitfat) > n
          /\ pieces.error = 0 => Cardinality(pieces.list) = n + 1
===========================================================================
