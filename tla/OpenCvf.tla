------------------------------ MODULE OpenCvf ------------------------------
(***************************************************************************)
(* Opening and closing a compressed volume file (open_cvf and close_cvf in *)
(* src/src/lib_interface.c): processes that open, lock, look for a volume  *)
(* in the root directory of a FAT host and follow its chain, mount it with *)
(* the geometry of its headers, close it, or die.                          *)
(*                                                                         *)
(* The calls of libdmsdos are compiled with USE_FLOCK and mount with       *)
(* "bitfaterrs=nocheck".  Running out of memory is left out.               *)
(***************************************************************************)
EXTENDS Integers, Sequences, FiniteSets

CONSTANTS
  Procs,          \* the processes
  Files(_),       \* the file or device they open, and the calls they make
  Extensions,     \* of volumes, as in "/dev/hda1:001"
  MaxFragment,    \* MAXFRAGMENT
  HostClusters,   \* the clusters of the host
  ClusterSize,    \* cluster_size of the host, in sectors
  HostDataStart,  \* data_start of the host
  IoErrors        \* whether a read may fail

ASSUME OpenAssumption ==
  /\ MaxFragment \in Nat \ {0} /\ ClusterSize \in Nat \ {0} /\ HostDataStart \in Nat \ {0}
  /\ HostClusters \subseteq Nat /\ \A c \in HostClusters : c >= 2
  /\ IsFiniteSet(HostClusters)
  /\ "" \notin Extensions /\ IoErrors \in BOOLEAN

VARIABLES
  file,  \* [access, len, images, root, fat, uses]: what is opened, and as what
  flag,  \* per sector where a Stacker volume begins: its BITFAT state
  pc,
  rw,    \* rwflag
  lock,  \* what flock holds for the process
  sb     \* the super block
vars == <<file, flag, pc, rw, lock, sb>>

Other == [kind |-> "other"]       \* neither a volume nor a FAT host
NoVolume == [format |-> "none"]
NewSb == [ext |-> "", ro |-> FALSE, entry |-> 0, cluster |-> 0, frags |-> <<>>,
          direct |-> FALSE, size |-> 0, vol |-> NoVolume, lost |-> FALSE]
FailedReads == IF IoErrors THEN BOOLEAN ELSE {FALSE}

MinOf(a, b) == IF a < b THEN a ELSE b
CeilDiv(a, b) == (a + b - 1) \div b

-----------------------------------------------------------------------------
(* Direct translation: a volume inside a FAT host.                         *)

\* Mutant: the first data cluster is number 0.
Cluster2SectorFrom0(c) == c * ClusterSize + HostDataStart
DosCluster2Sector(c) == (c - 2) * ClusterSize + HostDataStart

\* translate_direct: block b lies in the first fragment that reaches past it.
\* Blocks beyond the size are sector 0; those beyond the fragments are taken
\* from lengths that were never set.
Before(frags, i) == LET sum[k \in 0 .. i - 1] == IF k = 0 THEN 0 ELSE sum[k - 1] + frags[k].len
                    IN sum[i - 1]
Covered(s, b) == ~s.direct \/ b < Before(s.frags, Len(s.frags) + 1)
TranslateDirect(s, b) ==
  IF b >= s.size THEN 0
  ELSE LET i == CHOOSE k \in DOMAIN s.frags :
                  /\ b >= Before(s.frags, k)
                  /\ b < Before(s.frags, k) + s.frags[k].len
       IN s.frags[i].first + b - Before(s.frags, i)

\* A fragment is a first cluster and a number of clusters while the chain is
\* followed, a first sector and a number of sectors afterwards.
Begun(frags, c) == Append(frags, [first |-> c, len |-> 1])
Grown(frags) == [frags EXCEPT ![Len(frags)].len = @ + 1]
InSectors(frags) ==
  [i \in DOMAIN frags |-> [first |-> DosCluster2Sector(frags[i].first),
                           len |-> frags[i].len * ClusterSize]]

\* Where the volume begins, what is there, and how long it is taken to be.
PlaceOf(s) == IF s.direct THEN TranslateDirect(s, 0) ELSE 0
ImageOf(s) == IF PlaceOf(s) \in DOMAIN file.images THEN file.images[PlaceOf(s)] ELSE Other
LengthOf(s) == IF s.direct THEN s.size ELSE file.len
\* raw_bread fails beyond the size, at sector 0 and before it.
Readable(s, b) == s.direct => b < s.size /\ (Covered(s, b) => TranslateDirect(s, b) > 0)

-----------------------------------------------------------------------------
(* The geometry of a DoubleSpace or DriveSpace volume.                     *)

DblVersion(h) == IF h.flag = 3 \/ h.spc > 16 THEN "DRVSP3"
                 ELSE IF h.flag = 2 THEN "DRVSP" ELSE "DBLSP"
KnownFormat(h) == <<DblVersion(h), h.spc>> \in {<<"DBLSP", 16>>, <<"DRVSP", 16>>, <<"DRVSP3", 64>>}

\* The signature of the boot block decides, or what is in the header.
Wides(s, h) ==
  IF ~Covered(s, h.bootblock) THEN BOOLEAN
  ELSE IF h.signature \in {12, 16} THEN {h.signature = 16} ELSE {h.bits62 > 32}

\* The end, corrected if one "MDR" is found where it may be; the search breaks
\* at a sector that cannot be read.
DblDataEnds(s) ==
  LET guess == 2 * CeilDiv(LengthOf(s), 2) - 1
      Upto(last) == {b \in guess - 1 .. last : \A a \in guess - 1 .. b : Readable(s, a)}
      End(found) == IF Cardinality(found) = 1 THEN (CHOOSE b \in found : TRUE) - 1 ELSE guess
      Ends(near) == LET unset == {b \in near : ~Covered(s, b)}
                    IN {End(((near \cap ImageOf(s).mdr) \ unset) \cup x) : x \in SUBSET unset}
  IN UNION {Ends(Upto(last)) : last \in IF IoErrors THEN guess - 2 .. guess + 1 ELSE {guess + 1}}

\* s_max_cluster2: what the MDFAT, the FAT and its entries can take.
\* Mutant: the displacement of cluster 0 in the MDFAT is forgotten.
MdfatRoomAll(h) == (h.bootblock - (h.mdfat + 1)) * (IF h.spc > 16 THEN 102 ELSE 128)
MdfatRoom(h) == (h.bootblock - (h.mdfat + 1)) * (IF h.spc > 16 THEN 102 ELSE 128) - h.dcluster
FatRoom(h, wide) ==
  LET bytes == 512 * (h.rootdir - h.reserved)
  IN IF wide THEN bytes \div 2 ELSE (2 * bytes) \div 3
MaxCluster2(h, wide) ==
  MinOf(MinOf(MdfatRoom(h), FatRoom(h, wide)) - 1, IF wide THEN 65526 ELSE 4086)
DosLimit(h) == (h.total - h.fatsize - h.reserved - h.entries \div 16) \div h.spc + 1

DblVolume(h, wide, end) ==
  [format |-> DblVersion(h), wide |-> wide, spc |-> h.spc,
   mdfatstart |-> h.mdfat + 1, bootblock |-> h.bootblock, dcluster |-> h.dcluster,
   fatstart |-> h.bootblock + h.reserved, rootdir |-> h.bootblock + h.rootdir,
   second |-> 0, dataend |-> end, max_cluster2 |-> MaxCluster2(h, wide),
   max_cluster |-> MinOf(DosLimit(h), MaxCluster2(h, wide))]

-----------------------------------------------------------------------------
(* The geometry of a Stacker volume.                                       *)

StacRoot(h) == h.fat + 3 * h.fats * h.fatsize
RootSectors(h) == CeilDiv(h.entries * 32, 512)
ClustCnt(h) == (h.total - (RootSectors(h) + h.fats * h.fatsize + h.reserved)) \div h.spc
StacWide(h) == ClustCnt(h) >= 4077
StacFatRoom(h) == IF StacWide(h) THEN (512 * h.fatsize) \div 2 ELSE (512 * h.fatsize * 2) \div 3
Impossible(h) == ClustCnt(h) < 2 \/ ClustCnt(h) > 65527
StacEnd(s) == 2 * CeilDiv(LengthOf(s), 2)
StacReadOnly(s, h) ==
  \/ h.data # RootSectors(h) + StacRoot(h)
  \/ ClustCnt(h) + 2 > StacFatRoom(h)
  \/ h.sectors <= 0 \/ h.sectors - 1 > StacEnd(s)

StacVolume(s, h) ==
  [format |-> IF h.version >= 410 THEN "STAC4" ELSE "STAC3", wide |-> StacWide(h), spc |-> h.spc,
   mdfatstart |-> h.amap, bootblock |-> h.bootblock, dcluster |-> 0,
   fatstart |-> h.fat, rootdir |-> StacRoot(h), second |-> 3 * (h.fats - 1) * h.fatsize,
   dataend |-> MinOf(StacEnd(s), IF h.sectors > 0 THEN h.sectors - 1 ELSE StacEnd(s)),
   max_cluster2 |-> ClustCnt(h) + 1, max_cluster |-> ClustCnt(h) + 1]

\* stac_bitfat_state of a volume that may be written: a bad state stays.
Marked(s, state) ==
  IF s.ro \/ flag[PlaceOf(s)] = "bad" THEN flag ELSE [flag EXCEPT ![PlaceOf(s)] = state]

-----------------------------------------------------------------------------
(* flock, of the kernel: a lock is had at once or refused, and goes with   *)
(* the process.                                                            *)

Granted(p, mode) ==
  \A q \in Procs \ {p} : lock[q] = "none" \/ (mode = "shared" /\ lock[q] = "shared")

\* Mutant: readers and writers ask for the same lock.
SharedMode(w) == "shared"
Mode(w) == IF w THEN "exclusive" ELSE "shared"

-----------------------------------------------------------------------------
(* open_cvf.                                                               *)

\* NULL is returned: the lock is given up, the file closed.
ReturnNull(p) ==
  /\ pc' = [pc EXCEPT ![p] = "closed"] /\ lock' = [lock EXCEPT ![p] = "none"]
  /\ sb' = [sb EXCEPT ![p] = NewSb] /\ rw' = [rw EXCEPT ![p] = FALSE]
  /\ UNCHANGED <<file, flag>>

GoTo(p, where, s) ==
  /\ pc' = [pc EXCEPT ![p] = where] /\ sb' = [sb EXCEPT ![p] = s]
  /\ UNCHANGED <<file, flag, rw, lock>>

\* What was wanted for writing is tried again for reading, once.
\* Mutant: with the same flag.
FallBackSame(p) == rw' = rw
FallBack(p) == rw' = [rw EXCEPT ![p] = FALSE]

Open(p, w, ext) ==
  /\ pc[p] = "closed" /\ <<p, w, ext>> \in file.uses
  /\ pc' = [pc EXCEPT ![p] = "open"] /\ rw' = [rw EXCEPT ![p] = w]
  /\ sb' = [sb EXCEPT ![p] = [NewSb EXCEPT !.ext = ext]]
  /\ UNCHANGED <<file, flag, lock>>

Allowed(p) == file.access = "write" \/ (file.access = "read" /\ ~rw[p])

OpenFile(p) == pc[p] = "open" /\ Allowed(p) /\ GoTo(p, "lock", sb[p])
OpenReadOnly(p) ==
  /\ pc[p] = "open" /\ ~Allowed(p) /\ rw[p] /\ FallBack(p)
  /\ UNCHANGED <<file, flag, pc, lock, sb>>
CannotOpen(p) == pc[p] = "open" /\ ~Allowed(p) /\ ~rw[p] /\ ReturnNull(p)

Locks(p) ==
  /\ pc[p] = "lock" /\ Granted(p, Mode(rw[p]))
  /\ lock' = [lock EXCEPT ![p] = Mode(rw[p])]
  /\ pc' = [pc EXCEPT ![p] = "super"] /\ sb' = [sb EXCEPT ![p].ro = ~rw[p]]
  /\ UNCHANGED <<file, flag, rw>>
LockReadOnly(p) ==
  /\ pc[p] = "lock" /\ ~Granted(p, Mode(rw[p])) /\ rw[p] /\ FallBack(p)
  /\ pc' = [pc EXCEPT ![p] = "open"] /\ UNCHANGED <<file, flag, lock, sb>>
CannotLock(p) == pc[p] = "lock" /\ ~Granted(p, Mode(rw[p])) /\ ~rw[p] /\ ReturnNull(p)

\* read_super, for the file and again for the volume that was found in it:
\* logical sectors of less than 512 bytes are an error.
ReadSuper(p) ==
  /\ pc[p] = "super"
  /\ \E err \in FailedReads :
       IF err \/ ~Readable(sb[p], 0) \/ ImageOf(sb[p]).kind = "odd" THEN ReturnNull(p)
       ELSE GoTo(p, "detect", sb[p])

\* A signature that cannot be read counts as absent.  Without one the file is
\* searched for a volume; what was found there is taken as it is.
Detect(p) ==
  /\ pc[p] = "detect"
  /\ \E err \in FailedReads :
       LET kind == IF err THEN "none" ELSE ImageOf(sb[p]).kind
       IN CASE kind = "dbl" -> GoTo(p, "mount", sb[p])
            [] kind = "stac" -> GoTo(p, "mount", sb[p])
            [] OTHER -> IF sb[p].direct THEN GoTo(p, "mounted", sb[p])
                        ELSE GoTo(p, "scan", [sb[p] EXCEPT !.entry = 1])

\* The root directory is searched for a volume with the wanted extension.
IsCvf(e) == e.name \in {"DRVSPACE", "DBLSPACE", "STACVOL"} /\
            (e.ext \in Extensions \/ (e.name = "STACVOL" /\ e.ext = "DSK"))
Wanted(s, e) == IsCvf(e) /\ s.ext \in {"", e.ext}

SearchRoot(p) ==
  LET s == sb[p] IN
  /\ pc[p] = "scan"
  /\ \E err \in FailedReads :
       IF err \/ s.entry > Len(file.root) \/ file.images[0].kind # "host" THEN ReturnNull(p)
       ELSE IF Wanted(s, file.root[s.entry])
       THEN LET c == file.root[s.entry].start
            IN GoTo(p, "fragment", [s EXCEPT !.cluster = c, !.frags = Begun(<<>>, c)])
       ELSE GoTo(p, "scan", [s EXCEPT !.entry = @ + 1])

\* host_fat_lookup: 0 beyond the clusters, and when the FAT cannot be read.
HostFatLookup(c, err) == IF c \in HostClusters /\ ~err THEN file.fat[c] ELSE 0

\* Mutant: one fragment more than the lists have room for.
TooManyBut1(s) == Len(s.frags) > MaxFragment
TooMany(s) == Len(s.frags) >= MaxFragment

SetupFragment(p) ==
  LET s == sb[p] IN
  /\ pc[p] = "fragment"
  /\ \E err \in FailedReads :
       LET next == HostFatLookup(s.cluster, err)
           t == [s EXCEPT !.lost = @ \/ (err /\ s.cluster \in HostClusters), !.cluster = next]
       IN IF next = s.cluster + 1
            THEN GoTo(p, "fragment", [t EXCEPT !.frags = Grown(@)])
          ELSE IF next > 0 /\ ~TooMany(s)
            THEN GoTo(p, "fragment", [t EXCEPT !.frags = Begun(@, next)])
          ELSE IF next > 0
            THEN GoTo(p, "scan", [s EXCEPT !.entry = @ + 1, !.frags = <<>>, !.cluster = 0])
          ELSE GoTo(p, "super", [t EXCEPT !.frags = InSectors(@), !.direct = TRUE,
                                          !.size = file.root[s.entry].size])

-----------------------------------------------------------------------------
(* mount_dblspace, mount_stacker, unmount_dblspace.                        *)

Header(p) == ImageOf(sb[p]).header

MountDblspace(p) ==
  LET s == sb[p]  h == Header(p) IN
  /\ pc[p] = "mount" /\ ImageOf(s).kind = "dbl"
  /\ \E err \in FailedReads \cup (IF Covered(s, h.bootblock) THEN {} ELSE BOOLEAN) :
       IF err \/ ~Readable(s, h.bootblock) \/ (Covered(s, h.bootblock) /\ h.signature = 32)
         THEN ReturnNull(p)
       ELSE \E wide \in Wides(s, h), end \in DblDataEnds(s) :
              GoTo(p, "mounted", [s EXCEPT !.vol = DblVolume(h, wide, end),
                                           !.ro = @ \/ ~KnownFormat(h)])

\* Nobody is told when the BITFAT state cannot be read and is not changed.
MountStacker(p) ==
  LET s == sb[p]  h == Header(p) IN
  /\ pc[p] = "mount" /\ ImageOf(s).kind = "stac"
  /\ \E err \in FailedReads :
       IF err \/ ~Readable(s, h.bootblock) \/ Impossible(h) THEN ReturnNull(p)
       ELSE \E missed \in FailedReads :
              LET t == [s EXCEPT !.vol = StacVolume(s, h), !.ro = @ \/ StacReadOnly(s, h),
                                 !.lost = @ \/ missed]
              IN /\ sb' = [sb EXCEPT ![p] = t] /\ pc' = [pc EXCEPT ![p] = "mounted"]
                 /\ flag' = IF missed THEN flag ELSE Marked(t, "changing")
                 /\ UNCHANGED <<file, rw, lock>>

Leave(p) ==
  /\ pc' = [pc EXCEPT ![p] = "closed"] /\ lock' = [lock EXCEPT ![p] = "none"]
  /\ rw' = [rw EXCEPT ![p] = FALSE] /\ UNCHANGED file

Close(p) ==
  /\ pc[p] = "mounted" /\ sb[p].vol # NoVolume /\ Leave(p)
  /\ \E missed \in FailedReads :
       flag' = IF ImageOf(sb[p]).kind = "stac" /\ ~missed THEN Marked(sb[p], "clean") ELSE flag
  /\ sb' = [sb EXCEPT ![p] = NewSb]

\* The process dies, of itself or because it closes a super block that has no
\* volume.
Die(p) ==
  /\ pc[p] # "closed" /\ Leave(p)
  /\ sb' = [sb EXCEPT ![p] = NewSb] /\ UNCHANGED flag

Init ==
  /\ Files(file)
  /\ flag \in [{c \in DOMAIN file.images : file.images[c].kind = "stac"} ->
                {"clean", "changing", "bad"}]
  /\ pc = [p \in Procs |-> "closed"] /\ rw = [p \in Procs |-> FALSE]
  /\ lock = [p \in Procs |-> "none"] /\ sb = [p \in Procs |-> NewSb]

Step(p) ==
  \/ OpenFile(p) \/ OpenReadOnly(p) \/ CannotOpen(p)
  \/ Locks(p) \/ LockReadOnly(p) \/ CannotLock(p)
  \/ ReadSuper(p) \/ Detect(p) \/ SearchRoot(p) \/ SetupFragment(p)
  \/ MountDblspace(p) \/ MountStacker(p)

Next == \E p \in Procs :
  \/ \E w \in BOOLEAN, ext \in {""} \cup Extensions : Open(p, w, ext)
  \/ Step(p) \/ Close(p) \/ Die(p)

Spec == Init /\ [][Next]_vars
\* A process that is opening goes on; closing is up to it.
FairSpec == Spec /\ \A p \in Procs : WF_vars(Step(p))

-----------------------------------------------------------------------------
(* The variables keep their types, and the list of fragments a search for  *)
(* the volume in its host collects never outgrows MAXFRAGMENT, whatever    *)
(* chain the host's FAT has.                                               *)
TypeOK ==
  /\ pc \in [Procs -> {"closed", "open", "lock", "super", "detect", "scan", "fragment",
                       "mount", "mounted"}]
  /\ rw \in [Procs -> BOOLEAN]
  /\ lock \in [Procs -> {"none", "shared", "exclusive"}]
  /\ flag \in [DOMAIN flag -> {"clean", "changing", "bad"}]
  /\ \A p \in Procs :
       /\ sb[p].ext \in {""} \cup Extensions /\ sb[p].ro \in BOOLEAN
       /\ sb[p].direct \in BOOLEAN /\ sb[p].lost \in BOOLEAN
       /\ sb[p].entry \in 0 .. Len(file.root) + 1
       /\ \A i \in DOMAIN sb[p].frags : sb[p].frags[i].len \in Nat \ {0}
       /\ Len(sb[p].frags) <= MaxFragment

Writes(p) == pc[p] = "mounted" /\ ~sb[p].ro

(* While one process may write to a volume, no other has it open or is     *)
(* opening it past the lock, whatever falls back to reading, is refused or *)
(* dies in between; and what is closed is not locked.                      *)
LockExclusive ==
  \A p \in Procs : /\ Writes(p) => \A q \in Procs \ {p} : lock[q] = "none"
                   /\ pc[p] \in {"closed", "open", "lock"} => lock[p] = "none"

\* The n-th cluster of the chain from c on, 0 once it has left the host.
Nth(fat, c, n) ==
  LET g[k \in 0 .. n] == IF k = 0 THEN c
                         ELSE IF g[k - 1] \in HostClusters THEN fat[g[k - 1]] ELSE 0
  IN g[n]
Breaks(fat, c, steps) ==
  {n \in steps : Nth(fat, c, n + 1) > 0 /\ Nth(fat, c, n + 1) # Nth(fat, c, n) + 1}
Fragments(fat, c) ==
  1 + Cardinality(Breaks(fat, c, 0 .. (MaxFragment + 1) * Cardinality(HostClusters)))

\* The wanted entries before the one that is used are too fragmented.
PassedOver(f, s) ==
  \A i \in 1 .. s.entry - 1 :
    Wanted(s, f.root[i]) => Fragments(f.fat, f.root[i].start) > MaxFragment
ReadsChain(f, s) ==
  \A b \in 0 .. s.size - 1 :
    LET c == Nth(f.fat, f.root[s.entry].start, b \div ClusterSize)
    IN c \in HostClusters =>
         TranslateDirect(s, b) = (c - 2) * ClusterSize + HostDataStart + (b % ClusterSize)

(* The volume used is the first one in the root directory that has the     *)
(* wanted extension and is not too fragmented, and each of its blocks is   *)
(* read from the sector that the chain of the host gives it.               *)
TranslationRight ==
  \A p \in Procs : LET s == sb[p] IN
    pc[p] = "mounted" /\ s.direct /\ ~s.lost =>
      Wanted(s, file.root[s.entry]) /\ PassedOver(file, s) /\ ReadsChain(file, s)

\* The sectors the table code goes to for the last cluster of volume v.
Stac(v) == v.format \in {"STAC3", "STAC4"}
LastFatSector(v) ==
  LET pos == (IF v.wide THEN 2 * v.max_cluster2 ELSE (3 * v.max_cluster2) \div 2) + 1
      a == pos \div 512
  IN v.fatstart + IF Stac(v) THEN (a \div 3) * 9 + (a % 3) ELSE a
LastMdfatSector(v) ==
  LET n == v.dcluster + v.max_cluster2
      len == IF Stac(v) /\ ~v.wide THEN 3 ELSE 4
      a == (n * len + len - 1) \div 512
  IN CASE Stac(v) -> v.fatstart + (a \div 6) * 9 + (a % 6) + 3
       [] v.format = "DRVSP3" -> v.mdfatstart + (n * 5 + (n \div 102) * 2 + 4) \div 512
       [] OTHER -> v.mdfatstart + a

FatEnd(v) == IF v.second > 0 THEN v.fatstart + v.second ELSE v.rootdir
MdfatEnd(v) == IF Stac(v) THEN FatEnd(v) ELSE v.bootblock
Fits(v) ==
  /\ LastFatSector(v) < FatEnd(v) /\ LastMdfatSector(v) < MdfatEnd(v)
  /\ v.max_cluster <= v.max_cluster2
  /\ v.max_cluster2 < (IF v.wide THEN 65527 ELSE 4087)

(* The entries of all clusters of a volume that may be written lie within  *)
(* its tables, and a cluster's number is not one that means an end.        *)
TablesFit == \A p \in Procs : Writes(p) /\ sb[p].vol # NoVolume => Fits(sb[p].vol)

(* While a Stacker volume may be written, its BITFAT is not marked as      *)
(* clean, whoever closes it or dies meanwhile, so that a crash is seen.    *)
MarkedWhileWritten ==
  \A p \in Procs : LET s == sb[p] IN
    Writes(p) /\ s.vol # NoVolume /\ ~s.lost /\ Stac(s.vol) => flag[PlaceOf(s)] # "clean"

(* Whoever may write to a volume has it alone and has its Stacker flag     *)
(* taken back.                                                             *)
WriterGuarded == LockExclusive /\ MarkedWhileWritten

(* An open_cvf comes to an end, whatever the chains on the host look like  *)
(* and whoever holds the lock.                                             *)
EveryOpenReturns == \A p \in Procs : pc[p] = "open" ~> pc[p] \in {"closed", "mounted"}
=============================================================================
