---------------------------- MODULE SimpleCheck ----------------------------
(***************************************************************************)
(* The volume with its check and repair: simple_check of                   *)
(* src/src/dblspace_chk.c, called on an open volume between two other      *)
(* calls, as dmsdosfsck and the callers of libdmsdos do.  The repair       *)
(* writes one MDFAT entry or one BITFAT bit at a time; the machine may     *)
(* stop between two of them.                                               *)
(***************************************************************************)
EXTENDS DblVolume

CONSTANT ListErrors  \* whether the check may be unable to read a list

ASSUME ListAssumption == ListErrors \in BOOLEAN

VARIABLES
  check,    \* the running check
  verdict   \* what the last check since the volume was opened has returned

checkVars == <<fat, mdfat, bitfat, data, sb, op, check, verdict>>

NoCheck == [pc |-> "none", repair |-> FALSE, field |-> {}, free |-> 0]

(* "MDFAT-level dead sectors": an entry in use of a cluster that is free   *)
(* in the FAT.                                                             *)
Dead(c) == c \notin fat /\ mdfat[c].used

(* The fragments after the first, which the check takes from the entry.    *)
ListedSectors(e) == data[e.sector][2] \ FirstFragment(data[e.sector][2])

(* The sectors the check enters for a cluster, "field" in the code.        *)
(* Mutant: a cluster's last sector is not entered.                         *)
EnteredShort(c) ==
  IF mdfat[c].used THEN {s \in Extent(mdfat[c]) : s + 1 \in Extent(mdfat[c])} ELSE {}
Entered(c) ==
  LET e == mdfat[c]
  IN  IF ~e.used THEN {}
      ELSE Extent(e) \union
           (IF e.frag /\ ListFits(e, 1 .. SectPerClust) THEN ListedSectors(e) ELSE {})

Field == UNION {Entered(c) : c \in Clusters}
Mismatches == {s \in Sectors : s \in bitfat <=> s \notin check.field}

(* The errors no repair is tried for: an illegal list and a sector that    *)
(* two clusters have ("MDFAT crosslink").                                  *)
Irreparable ==
  \/ \E c \in Clusters : LET e == mdfat[c]
                         IN e.used /\ e.frag /\ ~ListFits(e, 1 .. SectPerClust)
  \/ \E c, d \in Clusters : c # d /\ Entered(c) \intersect Entered(d) # {}

Return(v) == check' = NoCheck /\ verdict' = v

---------------------------------------------------------------------------
(* Callers that heed the documentation do not write after a failed check.  *)
CallRuns ==
  /\ check.pc = "none"
  /\ Step \/ (verdict # "failed" /\ Request)
  /\ UNCHANGED <<check, verdict>>

Stop ==
  /\ Crash \/ (check.pc = "none" /\ verdict # "failed" /\ Fault)
  /\ Return("none")

Open == Mount /\ UNCHANGED <<check, verdict>>

StartCheck(repair) ==
  /\ op.pc = "idle" /\ check.pc = "none"
  /\ check' = [NoCheck EXCEPT !.pc = "fat", !.repair = repair]
  /\ verdict' = "none"
  /\ UNCHANGED vars

(* Part 1 goes through the FAT and removes dead entries, one by one.       *)
RemoveDead ==
  /\ check.pc = "fat" /\ check.repair
  /\ \E c \in Clusters : Dead(c) /\ mdfat' = [mdfat EXCEPT ![c] = Unused]
  /\ UNCHANGED <<fat, bitfat, data, sb, op, check, verdict>>

FatDone ==
  /\ check.pc = "fat"
  /\ IF \A c \in Clusters : ~Dead(c)
       THEN check' = [check EXCEPT !.pc = "mdfat"] /\ UNCHANGED verdict
     ELSE ~check.repair /\ Return("failed")
  /\ UNCHANGED vars

(* Part 2 collects the sectors of all clusters; part 3 counts the free     *)
(* ones and compares them with what was collected.                         *)
MdfatDone ==
  /\ check.pc = "mdfat" /\ ~Irreparable
  /\ check' = [check EXCEPT !.pc = "bitfat", !.field = Field, !.free = FreeCount]
  /\ UNCHANGED <<vars, verdict>>

(* Also if a list cannot be read.                                          *)
MdfatFails ==
  /\ check.pc = "mdfat"
  /\ Irreparable \/ (ListErrors /\ \E c \in Clusters : mdfat[c].used /\ mdfat[c].frag)
  /\ Return("failed")
  /\ UNCHANGED vars

(* A sector is counted as it was before its bit is corrected.              *)
RepairBit ==
  /\ check.pc = "bitfat" /\ check.repair /\ Mismatches # {}
  /\ LET s == Lowest(Mismatches)
     IN  IF s \in bitfat
           THEN bitfat' = bitfat \ {s} /\ sb' = CountAfterClear(sb, bitfat, s)
         ELSE bitfat' = bitfat \union {s} /\ sb' = CountAfterSet(sb, bitfat, s)
  /\ UNCHANGED <<fat, mdfat, data, op, check, verdict>>

(* Mutant: a check that may not repair passes over the mismatches.         *)
BitfatDoneAnyway ==
  /\ check.pc = "bitfat" /\ (check.repair => Mismatches = {})
  /\ sb' = [sb EXCEPT !.free = check.free] /\ Return("ok")
  /\ UNCHANGED <<disk, op>>

BitfatDone ==
  /\ check.pc = "bitfat"
  /\ IF Mismatches = {}
       THEN sb' = [sb EXCEPT !.free = check.free] /\ Return("ok")
     ELSE ~check.repair /\ UNCHANGED sb /\ Return("failed")
  /\ UNCHANGED <<disk, op>>

CheckInit == Init /\ check = NoCheck /\ verdict = "none"

CheckStep == RemoveDead \/ FatDone \/ MdfatDone \/ MdfatFails \/ RepairBit \/ BitfatDone

CheckNext == \/ CallRuns \/ Stop \/ Open
             \/ \E repair \in BOOLEAN : StartCheck(repair)
             \/ CheckStep

CheckSpec == CheckInit /\ [][CheckNext]_checkVars

---------------------------------------------------------------------------
CheckTypeOK ==
  /\ TypeOK
  /\ check \in [pc : {"none", "fat", "mdfat", "bitfat"}, repair : BOOLEAN,
                field : SUBSET Sectors, free : Nat]
  /\ check.pc # "none" => op.pc = "idle"
  /\ verdict \in {"none", "ok", "failed"}

(* A check that may repair never gives up on a volume this driver left     *)
(* behind: whatever crashes, failed writes, refused rewrites and unfinished *)
(* repairs came before, what they leave is dead entries and lost sectors,  *)
(* and never a crosslink or an illegal list.                               *)
RepairSucceeds ==
  [][check.pc # "none" /\ check.repair => verdict' # "failed"]_checkVars

(* The volume remains the store its callers see while it is checked and    *)
(* repaired, and through crashes half-way through a repair: a check step   *)
(* never changes what a cluster of the FAT reads, and only a repair        *)
(* changes what a cluster outside it reads.                                *)
StoreBesideRepairs ==
  Store!Init /\ [][IF check.pc = "none" THEN Store!Next
                  ELSE Store!CrashIdle \/
                       (check.repair /\ \A c \in fat : ReadCluster(c)' = ReadCluster(c))]_(Store!vars)

(* simple_check returns 0 only if the three tables agree: exactly the      *)
(* sectors of the clusters that the FAT knows are marked, each belongs to  *)
(* one cluster, fragmented ones have their lists, and nothing is left of   *)
(* clusters the FAT does not know.                                         *)
SuccessMeansConsistent ==
  [][check.pc # "none" /\ check'.pc = "none" /\ verdict' = "ok" =>
       /\ bitfat' = UNION {SectorsOf(mdfat[c])' : c \in fat}
       /\ \A c \in Clusters : mdfat'[c].used =>
            c \in fat /\ (mdfat'[c].frag => IsList(data'[mdfat'[c].sector]))
       /\ \A c, d \in Clusters :
            c # d => SectorsOf(mdfat[c])' \intersect SectorsOf(mdfat[d])' = {}]_checkVars
=============================================================================
