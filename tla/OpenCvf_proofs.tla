--------------------------- MODULE OpenCvf_proofs ---------------------------
(***************************************************************************)
(* open_cvf with any number of processes and any files: the lock keeps     *)
(* writers alone, a Stacker volume that may be written is marked, the      *)
(* list of fragments keeps its bounds, and a volume inside a host is read  *)
(* from the sectors its chain gives.                                       *)
(***************************************************************************)
EXTENDS OpenCvf, SequenceTheorems, FiniteSetTheorems, WellFoundedInduction, TLAPS

\* What a directory entry, a FAT entry of the host and the headers of volumes
\* may be.
RootEntry == [name : STRING, ext : STRING, start : Nat, size : Nat]
DblHeader ==
  [flag : Nat, spc : Nat \ {0}, dcluster : Nat, mdfat : Nat, bootblock : Nat, reserved : Nat,
   rootdir : Nat, entries : Nat, total : Nat, fatsize : Nat, signature : Nat, bits62 : Nat]
StacHeader ==
  [version : Nat, sectors : Int, bootblock : Nat, amap : Nat, fat : Nat, data : Nat,
   spc : Nat \ {0}, entries : Nat, fats : Nat, fatsize : Nat, reserved : Nat, total : Nat]
HostTyped(f) ==
  /\ f.len \in Nat /\ f.root \in Seq(RootEntry) /\ f.fat \in [HostClusters -> Int]
  /\ \A c \in DOMAIN f.images :
       /\ f.images[c].kind = "dbl" => f.images[c].header \in DblHeader
                                      /\ f.images[c].mdr \subseteq Int
       /\ f.images[c].kind = "stac" => f.images[c].header \in StacHeader
FilesTyped == \A f : Files(f) => HostTyped(f)

Volumes ==
  [format : {"DBLSP", "DRVSP", "DRVSP3", "STAC3", "STAC4"}, wide : BOOLEAN, spc : Nat \ {0},
   mdfatstart : Int, bootblock : Int, dcluster : Int, fatstart : Int, rootdir : Int,
   second : Int, dataend : Int, max_cluster2 : Int, max_cluster : Int]
Fragment == [first : Int, len : Nat \ {0}]
FragmentLists == Seq(Fragment)
Wishes == {""} \cup Extensions
SuperBlocks ==
  [ext : Wishes, ro : BOOLEAN, entry : Nat, cluster : Int, frags : FragmentLists,
   direct : BOOLEAN, size : Nat, vol : {NoVolume} \cup Volumes, lost : BOOLEAN]

Places == {"closed", "open", "lock", "super", "detect", "scan", "fragment", "mount", "mounted"}
Unlocked == {"closed", "open", "lock"}

\* The directory entry the search is at, and the list it has begun.
Searching(where, s) ==
  /\ s.entry <= Len(file.root) + 1 /\ Len(s.frags) <= MaxFragment
  /\ where \in {"scan", "fragment"} => s.entry >= 1
  /\ where = "fragment" => s.entry <= Len(file.root) /\ Len(s.frags) >= 1
  /\ where # "mounted" => s.vol = NoVolume

TypedSearch ==
  /\ HostTyped(file)
  /\ pc \in [Procs -> Places]
  /\ rw \in [Procs -> BOOLEAN]
  /\ sb \in [Procs -> SuperBlocks]
  /\ \A p \in Procs : Searching(pc[p], sb[p])

\* Who has come past the lock has the one its flag asks for, and no writer has
\* company.
Locked ==
  /\ lock \in [Procs -> {"none", "shared", "exclusive"}]
  /\ \A p \in Procs :
       /\ pc[p] \in Unlocked => lock[p] = "none"
       /\ pc[p] \notin Unlocked => lock[p] = Mode(rw[p]) /\ (rw[p] \/ sb[p].ro)
       /\ lock[p] = "exclusive" => \A q \in Procs \ {p} : lock[q] = "none"

\* The flags of the Stacker volumes of the file.
TypedFlags ==
  flag \in [{c \in DOMAIN file.images : file.images[c].kind = "stac"} ->
              {"clean", "changing", "bad"}]

\* A mounted Stacker volume has a flag.
Flagged ==
  \A p \in Procs : pc[p] = "mounted" /\ Stac(sb[p].vol) => PlaceOf(sb[p]) \in DOMAIN flag

FlagsKept == TypedFlags /\ Flagged /\ MarkedWhileWritten
IInv == TypedSearch /\ Locked /\ FlagsKept

-----------------------------------------------------------------------------
(* One process changes, the others stay.                                   *)

\* Where the process goes it has the lock that goes with the place, and it
\* does not get one that another process excludes.
MayHave(p, where, w, mode, s) ==
  /\ mode \in {"none", "shared", "exclusive"}
  /\ where \in Unlocked => mode = "none"
  /\ where \notin Unlocked => mode = Mode(w) /\ (w \/ s.ro)
  /\ mode = "exclusive" => \A q \in Procs \ {p} : lock[q] = "none"
  /\ mode # "none" => \A q \in Procs \ {p} : lock[q] # "exclusive"

Becomes(p, where, w, mode, s) ==
  /\ pc' = [pc EXCEPT ![p] = where] /\ rw' = [rw EXCEPT ![p] = w]
  /\ lock' = [lock EXCEPT ![p] = mode] /\ sb' = [sb EXCEPT ![p] = s]
  /\ UNCHANGED file

LEMMA OneChanges ==
  ASSUME TypedSearch, Locked, NEW p \in Procs, NEW where \in Places, NEW w \in BOOLEAN,
         NEW mode, NEW s \in SuperBlocks, Becomes(p, where, w, mode, s),
         Searching(where, s), MayHave(p, where, w, mode, s)
  PROVE  /\ TypedSearch' /\ Locked' /\ pc'[p] = where /\ sb'[p] = s
         /\ \A q \in Procs \ {p} : pc'[q] = pc[q] /\ sb'[q] = sb[q]
<1>1. /\ pc'[p] = where /\ rw'[p] = w /\ lock'[p] = mode /\ sb'[p] = s
      /\ \A q \in Procs \ {p} : /\ pc'[q] = pc[q] /\ rw'[q] = rw[q]
                                /\ lock'[q] = lock[q] /\ sb'[q] = sb[q]
  BY DEF Becomes, TypedSearch, Locked
<1>2. file' = file /\ pc' \in [Procs -> Places] /\ rw' \in [Procs -> BOOLEAN]
      /\ lock' \in [Procs -> {"none", "shared", "exclusive"}]
  BY DEF Becomes, TypedSearch, Locked, MayHave
<1>3. sb' \in [Procs -> SuperBlocks]
  BY DEF Becomes, TypedSearch
<1>4. \A q \in Procs : Searching(pc[q], sb[q])'
  <2> TAKE q \in Procs
  <2>1. CASE q = p
    BY <1>1, <1>2, <2>1 DEF Searching
  <2>2. CASE q # p
    BY <1>1, <1>2, <2>2 DEF TypedSearch, Searching
  <2> QED BY <2>1, <2>2
<1>5. TypedSearch'
  BY <1>2, <1>3, <1>4 DEF TypedSearch, HostTyped, Searching
<1>6. Locked'
  <2> SUFFICES ASSUME NEW q \in Procs
               PROVE  /\ pc'[q] \in Unlocked => lock'[q] = "none"
                      /\ pc'[q] \notin Unlocked =>
                            lock'[q] = Mode(rw'[q]) /\ (rw'[q] \/ sb'[q].ro)
                      /\ lock'[q] = "exclusive" => \A r \in Procs \ {q} : lock'[r] = "none"
    BY <1>2 DEF Locked, Mode
  <2>1. CASE q = p
    BY <1>1, <2>1 DEF MayHave
  <2>2. CASE q # p
    <3>1. lock[q] = "exclusive" => \A r \in Procs \ {q} : lock'[r] = "none"
      BY <1>1, <2>2 DEF Locked, MayHave
    <3> QED BY <1>1, <2>2, <3>1 DEF Locked
  <2> QED BY <2>1, <2>2
<1> QED BY <1>1, <1>5, <1>6

\* Who may write has the exclusive lock.
LEMMA WriterLocks ==
  ASSUME Locked, NEW p \in Procs, Writes(p)
  PROVE  \A q \in Procs \ {p} : lock[q] = "none" /\ pc[q] \in Unlocked
<1>1. lock[p] = "exclusive"
  BY DEF Locked, Writes, Unlocked, Mode
<1>2. \A q \in Procs \ {p} : lock[q] = "none"
  BY <1>1 DEF Locked
<1> QED BY <1>2 DEF Locked, Mode

\* The flags stay as they are, and the process does not begin to write.
LEMMA FlagsStay ==
  ASSUME FlagsKept, UNCHANGED <<file, flag>>, NEW p \in Procs,
         \A q \in Procs \ {p} : pc'[q] = pc[q] /\ sb'[q] = sb[q],
         pc'[p] = "mounted" => ~Stac(sb'[p].vol)
  PROVE  FlagsKept'
<1>1. TypedFlags'
  BY DEF FlagsKept, TypedFlags
<1>2. \A q \in Procs : (pc[q] = "mounted" /\ Stac(sb[q].vol))' =>
         /\ pc'[q] = pc[q] /\ sb'[q] = sb[q] /\ pc[q] = "mounted" /\ Stac(sb[q].vol)
  BY DEF Stac
<1>3. Flagged'
  BY <1>2 DEF FlagsKept, Flagged
<1>4. MarkedWhileWritten'
  <2> SUFFICES ASSUME NEW q \in Procs,
                      (Writes(q) /\ sb[q].vol # NoVolume /\ ~sb[q].lost /\ Stac(sb[q].vol))'
               PROVE  (flag[PlaceOf(sb[q])] # "clean")'
    BY DEF MarkedWhileWritten
  <2>1. pc'[q] = pc[q] /\ sb'[q] = sb[q]
    BY <1>2 DEF Writes
  <2>2. Writes(q) /\ sb[q].vol # NoVolume /\ ~sb[q].lost /\ Stac(sb[q].vol)
    BY <2>1 DEF Writes, Stac, NoVolume
  <2>3. flag[PlaceOf(sb[q])] # "clean"
    BY <2>2 DEF FlagsKept, MarkedWhileWritten
  <2> QED BY <2>1, <2>3
<1> QED BY <1>1, <1>3, <1>4 DEF FlagsKept

\* Marking a volume that may be written: only the one who has it alone marks it
\* as clean.
LEMMA MarkedKeeps ==
  ASSUME FlagsKept, UNCHANGED file, NEW p \in Procs,
         NEW s, NEW state \in {"clean", "changing"}, flag' = Marked(s, state),
         PlaceOf(s) \in DOMAIN flag,
         \A q \in Procs \ {p} : pc'[q] = pc[q] /\ sb'[q] = sb[q],
         state = "clean" /\ ~s.ro => \A q \in Procs \ {p} : ~Writes(q),
         pc'[p] = "mounted" => state = "changing" /\ sb'[p] = s
  PROVE  FlagsKept'
<1> DEFINE a == PlaceOf(s)
<1>1. \/ flag' = flag /\ (s.ro \/ flag[a] = "bad")
      \/ flag' = [flag EXCEPT ![a] = state] /\ ~s.ro
  BY DEF Marked
<1>2. DOMAIN flag' = DOMAIN flag
  BY <1>1 DEF FlagsKept, TypedFlags
<1>3. TypedFlags'
  BY <1>1 DEF FlagsKept, TypedFlags
<1>4. \A q \in Procs \ {p} : (pc[q] = "mounted" /\ Stac(sb[q].vol))' =>
         /\ pc'[q] = pc[q] /\ sb'[q] = sb[q] /\ pc[q] = "mounted" /\ Stac(sb[q].vol)
         /\ PlaceOf(sb[q]) \in DOMAIN flag
  BY DEF Stac, FlagsKept, Flagged
<1>5. Flagged'
  <2> SUFFICES ASSUME NEW q \in Procs, (pc[q] = "mounted" /\ Stac(sb[q].vol))'
               PROVE  (PlaceOf(sb[q]) \in DOMAIN flag)'
    BY DEF Flagged
  <2>1. CASE q = p
    <3>1. sb'[q] = s
      BY <2>1
    <3> QED BY <1>2, <3>1
  <2>2. CASE q # p
    <3>1. sb'[q] = sb[q] /\ PlaceOf(sb[q]) \in DOMAIN flag
      BY <1>4, <2>2
    <3> QED BY <1>2, <3>1
  <2> QED BY <2>1, <2>2
<1>6. MarkedWhileWritten'
  <2> SUFFICES ASSUME NEW q \in Procs,
                      (Writes(q) /\ sb[q].vol # NoVolume /\ ~sb[q].lost /\ Stac(sb[q].vol))'
               PROVE  (flag[PlaceOf(sb[q])] # "clean")'
    BY DEF MarkedWhileWritten
  <2>1. CASE q = p
    <3>1. state = "changing" /\ sb'[p] = s /\ ~s.ro
      BY <2>1 DEF Writes
    <3>2. flag'[a] # "clean"
      <4> HIDE DEF a
      <4> QED BY <1>1, <3>1 DEF a
    <3> QED BY <2>1, <3>1, <3>2
  <2>2. CASE q # p
    <3>1. pc'[q] = pc[q] /\ sb'[q] = sb[q] /\ PlaceOf(sb[q]) \in DOMAIN flag
      BY <1>4, <2>2 DEF Writes
    <3>2. Writes(q) /\ sb[q].vol # NoVolume /\ ~sb[q].lost /\ Stac(sb[q].vol)
      BY <3>1 DEF Writes, Stac, NoVolume
    <3>3. flag[PlaceOf(sb[q])] # "clean"
      BY <3>2 DEF FlagsKept, MarkedWhileWritten
    <3>4. s.ro \/ state = "changing"
      BY <2>2, <3>2
    <3> DEFINE b == PlaceOf(sb[q])
    <3>5. flag'[b] # "clean"
      <4> HIDE DEF a, b
      <4>1. flag[b] # "clean" /\ b \in DOMAIN flag
        BY <3>1, <3>3 DEF b
      <4>2. flag \in [DOMAIN flag -> {"clean", "changing", "bad"}]
        BY DEF FlagsKept, TypedFlags
      <4> QED BY <1>1, <3>4, <4>1, <4>2
    <3> QED BY <3>1, <3>5
  <2> QED BY <2>1, <2>2
<1> QED BY <1>3, <1>5, <1>6 DEF FlagsKept

-----------------------------------------------------------------------------
(* The steps.                                                              *)

LEMMA Bounds ==
  MaxFragment \in Nat \ {0} /\ ClusterSize \in Nat \ {0} /\ HostDataStart \in Nat \ {0}
BY OpenAssumption DEF OpenAssumption

LEMMA NewSbTyped ==
  ASSUME HostTyped(file), NEW e \in Wishes, NEW where \in Unlocked
  PROVE  LET s == [NewSb EXCEPT !.ext = e]
         IN  /\ NewSb \in SuperBlocks /\ Searching(where, NewSb)
             /\ s \in SuperBlocks /\ Searching(where, s)
<1> DEFINE s == [NewSb EXCEPT !.ext = e]
<1>1. <<>> \in FragmentLists /\ Len(<<>>) = 0
  BY EmptySeq DEF FragmentLists
<1>2. Len(file.root) \in Nat
  BY LenProperties DEF HostTyped
<1>3. /\ NewSb \in SuperBlocks /\ NewSb.entry = 0 /\ NewSb.frags = <<>>
      /\ NewSb.vol = NoVolume
  <2>1. NewSb.entry = 0 /\ NewSb.frags = <<>> /\ NewSb.vol = NoVolume
    BY DEF NewSb
  <2>2. NewSb \in SuperBlocks
    <3> DEFINE x == <<>>
               v == NoVolume
               w == ""
    <3>1. NewSb = [ext |-> w, ro |-> FALSE, entry |-> 0, cluster |-> 0, frags |-> x,
                   direct |-> FALSE, size |-> 0, vol |-> v, lost |-> FALSE]
      BY Zenon DEF NewSb
    <3>2. x \in FragmentLists /\ v \in {NoVolume} \cup Volumes /\ w \in Wishes
      BY <1>1 DEF Wishes
    <3> HIDE DEF x, v, w
    <3> QED BY <3>1, <3>2 DEF SuperBlocks
  <2> QED BY <2>1, <2>2
<1>4. /\ s \in SuperBlocks /\ s.entry = 0 /\ s.frags = <<>>
      /\ s.vol = NoVolume
  BY <1>3 DEF SuperBlocks
<1> HIDE DEF s
<1>5. \A x \in {NewSb, s} : Searching(where, x)
  <2>1. \A x \in {NewSb, s} : x.entry = 0 /\ x.frags = <<>> /\ x.vol = NoVolume
    BY <1>3, <1>4
  <2> HIDE DEF NewSb
  <2> QED BY <1>1, <1>2, <2>1, Bounds DEF Searching, Unlocked
<1> QED BY <1>3, <1>4, <1>5 DEF s

\* The process is outside open_cvf and has no lock: it has been refused, has
\* closed the volume or has died.
LEMMA GoneKeeps ==
  ASSUME IInv, NEW p \in Procs, Becomes(p, "closed", FALSE, "none", NewSb)
  PROVE  /\ TypedSearch' /\ Locked' /\ pc'[p] = "closed"
         /\ \A q \in Procs \ {p} : pc'[q] = pc[q] /\ sb'[q] = sb[q]
<1>1. MayHave(p, "closed", FALSE, "none", NewSb)
  BY DEF MayHave, Unlocked
<1>2. NewSb \in SuperBlocks /\ Searching("closed", NewSb)
  <2>1. "" \in Wishes
    BY DEF Wishes
  <2> QED BY <2>1, NewSbTyped DEF IInv, TypedSearch, Unlocked
<1>3. /\ TypedSearch' /\ Locked' /\ pc'[p] = "closed"
      /\ \A q \in Procs \ {p} : pc'[q] = pc[q] /\ sb'[q] = sb[q]
  BY <1>1, <1>2, OneChanges DEF IInv, Places
<1> QED BY <1>3

LEMMA ReturnNullKeeps ==
  ASSUME IInv, NEW p \in Procs, ReturnNull(p)
  PROVE  IInv'
<1>1. Becomes(p, "closed", FALSE, "none", NewSb)
  BY DEF ReturnNull, Becomes
<1> QED BY <1>1, GoneKeeps, FlagsStay DEF IInv, ReturnNull

LEMMA DieKeeps ==
  ASSUME IInv, NEW p \in Procs, Die(p)
  PROVE  IInv'
<1>1. Becomes(p, "closed", FALSE, "none", NewSb)
  BY DEF Die, Leave, Becomes
<1> QED BY <1>1, GoneKeeps, FlagsStay DEF IInv, Die, Leave

LEMMA CloseKeeps ==
  ASSUME IInv, NEW p \in Procs, Close(p)
  PROVE  IInv'
<1>1. Becomes(p, "closed", FALSE, "none", NewSb)
  BY DEF Close, Leave, Becomes
<1>2. /\ TypedSearch' /\ Locked' /\ pc'[p] = "closed" /\ UNCHANGED file
      /\ \A q \in Procs \ {p} : pc'[q] = pc[q] /\ sb'[q] = sb[q]
  BY <1>1, GoneKeeps DEF Becomes
<1>3. \/ flag' = flag
      \/ ImageOf(sb[p]).kind = "stac" /\ flag' = Marked(sb[p], "clean")
  BY DEF Close
<1>4. CASE flag' = flag
  BY <1>2, <1>4, FlagsStay DEF IInv
<1>5. CASE ImageOf(sb[p]).kind = "stac" /\ flag' = Marked(sb[p], "clean")
  <2>1. PlaceOf(sb[p]) \in DOMAIN flag
    BY <1>5 DEF ImageOf, Other, IInv, FlagsKept, TypedFlags
  <2>2. ~sb[p].ro => \A q \in Procs \ {p} : ~Writes(q)
    <3> SUFFICES ASSUME ~sb[p].ro
                 PROVE  \A q \in Procs \ {p} : ~Writes(q)
      OBVIOUS
    <3>1. Writes(p)
      BY DEF Close, Writes
    <3> QED BY <3>1, WriterLocks DEF IInv, Writes, Unlocked
  <2> QED BY <1>2, <1>5, <2>1, <2>2, MarkedKeeps DEF IInv
<1> QED BY <1>3, <1>4, <1>5

LEMMA OpenKeeps ==
  ASSUME IInv, NEW p \in Procs, NEW w \in BOOLEAN, NEW e \in Wishes,
         Open(p, w, e)
  PROVE  IInv'
<1> DEFINE s == [NewSb EXCEPT !.ext = e]
<1>1. lock[p] = "none" /\ pc[p] = "closed"
  BY DEF Open, IInv, Locked, Unlocked
<1>2. Becomes(p, "open", w, "none", s)
  BY <1>1 DEF Open, Becomes, IInv, Locked
<1>3. s \in SuperBlocks /\ Searching("open", s)
  BY NewSbTyped DEF IInv, TypedSearch, Unlocked
<1> HIDE DEF s
<1>4. MayHave(p, "open", w, "none", s)
  BY DEF MayHave, Unlocked
<1>5. /\ TypedSearch' /\ Locked' /\ pc'[p] = "open"
      /\ \A q \in Procs \ {p} : pc'[q] = pc[q] /\ sb'[q] = sb[q]
  BY <1>2, <1>3, <1>4, OneChanges DEF IInv, Places
<1> QED BY <1>5, FlagsStay DEF IInv, Open

\* A step that changes neither the lock nor the flag, within open_cvf.
LEMMA GoToKeeps ==
  ASSUME IInv, NEW p \in Procs, NEW where \in Places, NEW s \in SuperBlocks,
         GoTo(p, where, s), Searching(where, s),
         where \in Unlocked <=> pc[p] \in Unlocked,
         sb[p].ro => s.ro,
         where = "mounted" => ~Stac(s.vol)
  PROVE  IInv'
<1>1. Becomes(p, where, rw[p], lock[p], s) /\ rw[p] \in BOOLEAN
  BY DEF GoTo, Becomes, IInv, TypedSearch, Locked
<1>2. MayHave(p, where, rw[p], lock[p], s)
  BY DEF MayHave, IInv, Locked
<1>3. /\ TypedSearch' /\ Locked' /\ pc'[p] = where /\ sb'[p] = s
      /\ \A q \in Procs \ {p} : pc'[q] = pc[q] /\ sb'[q] = sb[q]
  BY <1>1, <1>2, OneChanges DEF IInv
<1> QED BY <1>3, FlagsStay DEF IInv, GoTo

LEMMA OpenFileKeeps ==
  ASSUME IInv, NEW p \in Procs, OpenFile(p)
  PROVE  IInv'
<1>1. sb[p] \in SuperBlocks /\ Searching("lock", sb[p])
  BY DEF OpenFile, IInv, TypedSearch, Searching
<1> QED BY <1>1, GoToKeeps DEF OpenFile, Places, Unlocked

\* The flag is changed to reading, and the opening begins again.
LEMMA FallBackKeeps ==
  ASSUME IInv, NEW p \in Procs, OpenReadOnly(p) \/ LockReadOnly(p)
  PROVE  IInv'
<1>1. sb[p] \in SuperBlocks /\ Searching("open", sb[p]) /\ lock[p] = "none"
  BY DEF OpenReadOnly, LockReadOnly, IInv, TypedSearch, Searching, Locked, Unlocked
<1>2. Becomes(p, "open", FALSE, "none", sb[p]) /\ UNCHANGED flag
  BY <1>1 DEF OpenReadOnly, LockReadOnly, FallBack, Becomes, IInv, TypedSearch, Locked
<1>3. MayHave(p, "open", FALSE, "none", sb[p])
  BY DEF MayHave, Unlocked
<1>4. /\ TypedSearch' /\ Locked' /\ pc'[p] = "open"
      /\ \A q \in Procs \ {p} : pc'[q] = pc[q] /\ sb'[q] = sb[q]
  BY <1>1, <1>2, <1>3, OneChanges DEF IInv, Places
<1> QED BY <1>2, <1>4, FlagsStay DEF IInv, Becomes

LEMMA LocksKeeps ==
  ASSUME IInv, NEW p \in Procs, Locks(p)
  PROVE  IInv'
<1> DEFINE s == [sb[p] EXCEPT !.ro = ~rw[p]]
<1>1. pc[p] = "lock" /\ Granted(p, Mode(rw[p])) /\ UNCHANGED <<file, flag>>
  BY DEF Locks
<1>2. Becomes(p, "super", rw[p], Mode(rw[p]), s) /\ rw[p] \in BOOLEAN
  BY DEF Locks, Becomes, IInv, TypedSearch
<1>3. s \in SuperBlocks /\ s.ro = ~rw[p] /\ Searching("super", s)
  BY <1>1, <1>2 DEF IInv, TypedSearch, SuperBlocks, Searching
<1> HIDE DEF s
<1>4. MayHave(p, "super", rw[p], Mode(rw[p]), s)
  BY <1>1, <1>2, <1>3 DEF MayHave, Granted, Mode, Unlocked
<1>5. /\ TypedSearch' /\ Locked' /\ pc'[p] = "super"
      /\ \A q \in Procs \ {p} : pc'[q] = pc[q] /\ sb'[q] = sb[q]
  BY <1>2, <1>3, <1>4, OneChanges DEF IInv, Places
<1> QED BY <1>1, <1>5, FlagsStay DEF IInv

LEMMA ReadSuperKeeps ==
  ASSUME IInv, NEW p \in Procs, ReadSuper(p)
  PROVE  IInv'
<1>1. sb[p] \in SuperBlocks /\ Searching("detect", sb[p])
  BY DEF ReadSuper, IInv, TypedSearch, Searching
<1> QED BY <1>1, GoToKeeps, ReturnNullKeeps DEF ReadSuper, Places, Unlocked

\* NoVolume is not a Stacker volume.
LEMMA DetectKeeps ==
  ASSUME IInv, NEW p \in Procs, Detect(p)
  PROVE  IInv'
<1> DEFINE s == sb[p]
           t == [s EXCEPT !.entry = 1]
<1>1. s \in SuperBlocks /\ Searching("detect", s) /\ pc[p] = "detect"
  BY DEF Detect, IInv, TypedSearch
<1>2. Searching("mount", s) /\ Searching("mounted", s) /\ s.vol = NoVolume /\ ~Stac(s.vol)
  BY <1>1 DEF Searching, Stac, NoVolume
<1>3. t \in SuperBlocks /\ t.ro = s.ro /\ Searching("scan", t)
  <2>1. Len(file.root) \in Nat
    BY LenProperties DEF IInv, TypedSearch, HostTyped
  <2>2. /\ t \in SuperBlocks /\ t.ro = s.ro /\ t.entry = 1 /\ t.frags = s.frags
        /\ t.vol = s.vol
    BY <1>1 DEF SuperBlocks
  <2> QED BY <1>1, <1>2, <2>1, <2>2 DEF Searching
<1>4. GoTo(p, "mount", s) \/ GoTo(p, "mounted", s) \/ GoTo(p, "scan", t)
  BY DEF Detect
<1> HIDE DEF s, t
<1>5. \A x \in {"mount", "mounted", "scan"} : x \in Places /\ x \notin Unlocked
  BY DEF Places, Unlocked
<1> QED BY <1>1, <1>2, <1>3, <1>4, <1>5, GoToKeeps DEF Unlocked, s

LEMMA SearchRootKeeps ==
  ASSUME IInv, NEW p \in Procs, SearchRoot(p)
  PROVE  IInv'
<1> DEFINE s == sb[p]
           c == file.root[s.entry].start
           t == [s EXCEPT !.cluster = c, !.frags = Begun(<<>>, c)]
           u == [s EXCEPT !.entry = @ + 1]
<1>1. /\ s \in SuperBlocks /\ Searching("scan", s) /\ pc[p] = "scan"
      /\ file.root \in Seq(RootEntry) /\ Len(file.root) \in Nat
  BY LenProperties DEF SearchRoot, IInv, TypedSearch, HostTyped
<1>2. ReturnNull(p) \/ (s.entry <= Len(file.root) /\ (GoTo(p, "fragment", t) \/ GoTo(p, "scan", u)))
  BY <1>1 DEF SearchRoot, SuperBlocks
<1>3. CASE s.entry <= Len(file.root) /\ GoTo(p, "fragment", t)
  <2>1. s.entry \in 1 .. Len(file.root)
    BY <1>1, <1>3 DEF Searching, SuperBlocks
  <2>2. c \in Int
    <3>1. file.root[s.entry] \in RootEntry
      BY <1>1, <2>1, ElementOfSeq
    <3> QED BY <3>1 DEF RootEntry
  <2> DEFINE f == Begun(<<>>, c)
  <2>3. f \in FragmentLists /\ Len(f) = 1
    <3>1. [first |-> c, len |-> 1] \in Fragment
      BY <2>2 DEF Fragment
    <3>2. <<>> \in Seq(Fragment) /\ Len(<<>>) = 0
      BY EmptySeq
    <3> QED BY <3>1, <3>2, AppendProperties DEF Begun, FragmentLists
  <2> HIDE DEF f, c
  <2>4. /\ t \in SuperBlocks /\ t.ro = s.ro /\ t.entry = s.entry /\ t.frags = f /\ t.vol = s.vol
    BY <1>1, <2>2, <2>3 DEF SuperBlocks, f
  <2> HIDE DEF t
  <2>5. Searching("fragment", t)
    <3>1. s.vol = NoVolume /\ s.entry \in Nat
      BY <1>1 DEF Searching, SuperBlocks
    <3> HIDE DEF s
    <3>2. Len(t.frags) = 1 /\ t.entry \in 1 .. Len(file.root) /\ t.vol = NoVolume
      BY <2>1, <2>3, <2>4, <3>1
    <3> QED BY <1>1, <3>2, Bounds DEF Searching
  <2> QED BY <1>1, <1>3, <2>4, <2>5, GoToKeeps DEF Places, Unlocked
<1>4. CASE s.entry <= Len(file.root) /\ GoTo(p, "scan", u)
  <2>1. /\ u \in SuperBlocks /\ u.ro = s.ro /\ u.entry = s.entry + 1 /\ u.frags = s.frags
        /\ u.vol = s.vol
    BY <1>1 DEF SuperBlocks
  <2> HIDE DEF u
  <2>2. Searching("scan", u)
    BY <1>1, <1>4, <2>1 DEF Searching, SuperBlocks
  <2> QED BY <1>1, <1>4, <2>1, <2>2, GoToKeeps DEF Places, Unlocked
<1> QED BY <1>2, <1>3, <1>4, ReturnNullKeeps

\* The lists of fragments: begun, grown and turned into sectors.
LEMMA BegunList ==
  ASSUME NEW f \in FragmentLists, NEW c \in Int
  PROVE  Begun(f, c) \in FragmentLists /\ Len(Begun(f, c)) = Len(f) + 1
<1>1. [first |-> c, len |-> 1] \in Fragment
  BY DEF Fragment
<1> QED BY <1>1, AppendProperties DEF Begun, FragmentLists

LEMMA GrownList ==
  ASSUME NEW f \in FragmentLists, Len(f) >= 1
  PROVE  Grown(f) \in FragmentLists /\ Len(Grown(f)) = Len(f)
<1>1. Len(f) \in Nat /\ f \in [1 .. Len(f) -> Fragment]
  BY LenProperties DEF FragmentLists
<1> DEFINE v == [f[Len(f)] EXCEPT !.len = @ + 1]
<1>2. v \in Fragment
  BY <1>1 DEF Fragment
<1>3. Grown(f) = [f EXCEPT ![Len(f)] = v]
  BY <1>1 DEF Grown
<1> HIDE DEF v
<1> QED BY <1>1, <1>2, <1>3, ExceptSeq DEF FragmentLists

LEMMA PositiveProduct ==
  ASSUME NEW a \in Nat \ {0}, NEW b \in Nat \ {0}
  PROVE  a * b \in Nat \ {0}
OBVIOUS

LEMMA ListInSectors ==
  ASSUME NEW f \in FragmentLists
  PROVE  InSectors(f) \in FragmentLists /\ Len(InSectors(f)) = Len(f)
<1>1. Len(f) \in Nat /\ f \in [1 .. Len(f) -> Fragment] /\ DOMAIN f = 1 .. Len(f)
  BY LenProperties DEF FragmentLists
<1> DEFINE V(i) == [first |-> DosCluster2Sector(f[i].first), len |-> f[i].len * ClusterSize]
<1>2. \A i \in 1 .. Len(f) : V(i) \in Fragment
  <2> TAKE i \in 1 .. Len(f)
  <2>1. f[i].first \in Int /\ f[i].len \in Nat \ {0}
    BY <1>1 DEF Fragment
  <2>2. DosCluster2Sector(f[i].first) \in Int
    BY <2>1, Bounds DEF DosCluster2Sector
  <2>3. f[i].len * ClusterSize \in Nat \ {0}
    BY <2>1, Bounds, PositiveProduct
  <2> QED BY <2>2, <2>3 DEF Fragment
<1>3. InSectors(f) = [i \in 1 .. Len(f) |-> V(i)]
  BY <1>1 DEF InSectors
<1> HIDE DEF V
<1>4. InSectors(f) \in [1 .. Len(f) -> Fragment]
  BY <1>2, <1>3
<1> QED BY <1>1, <1>4, IsASeq, LenProperties DEF FragmentLists

\* One cluster further along the chain of the volume: the list grows, ends, or
\* is given up.
LEMMA SetupFragmentKeeps ==
  ASSUME IInv, NEW p \in Procs, SetupFragment(p)
  PROVE  IInv'
<1> DEFINE s == sb[p]
<1>1. PICK err \in FailedReads :
        LET next == HostFatLookup(s.cluster, err)
            t == [s EXCEPT !.lost = @ \/ (err /\ s.cluster \in HostClusters), !.cluster = next]
        IN IF next = s.cluster + 1
             THEN GoTo(p, "fragment", [t EXCEPT !.frags = Grown(@)])
           ELSE IF next > 0 /\ ~TooMany(s)
             THEN GoTo(p, "fragment", [t EXCEPT !.frags = Begun(@, next)])
           ELSE IF next > 0
             THEN GoTo(p, "scan", [s EXCEPT !.entry = @ + 1, !.frags = <<>>, !.cluster = 0])
           ELSE GoTo(p, "super", [t EXCEPT !.frags = InSectors(@), !.direct = TRUE,
                                           !.size = file.root[s.entry].size])
  BY DEF SetupFragment
<1> DEFINE next == HostFatLookup(s.cluster, err)
           t == [s EXCEPT !.lost = @ \/ (err /\ s.cluster \in HostClusters), !.cluster = next]
           f == s.frags
           size == file.root[s.entry].size
           grown == [t EXCEPT !.frags = Grown(f)]
           begun == [t EXCEPT !.frags = Begun(f, next)]
           given == [s EXCEPT !.entry = s.entry + 1, !.frags = <<>>, !.cluster = 0]
           found == [t EXCEPT !.frags = InSectors(f), !.direct = TRUE, !.size = size]
<1>2. /\ s \in SuperBlocks /\ Searching("fragment", s) /\ pc[p] = "fragment"
      /\ file.root \in Seq(RootEntry) /\ Len(file.root) \in Nat
      /\ file.fat \in [HostClusters -> Int] /\ err \in BOOLEAN
  BY LenProperties DEF SetupFragment, IInv, TypedSearch, HostTyped, FailedReads
<1>3. /\ f \in FragmentLists /\ Len(f) \in Nat /\ Len(f) \in 1 .. MaxFragment
      /\ s.entry \in 1 .. Len(file.root) /\ s.vol = NoVolume
  BY <1>2, LenProperties, Bounds DEF Searching, SuperBlocks, FragmentLists
<1>4. next \in Int /\ size \in Nat
  <2>1. next \in Int
    BY <1>2 DEF HostFatLookup
  <2>2. file.root[s.entry] \in RootEntry
    BY <1>2, <1>3, ElementOfSeq
  <2> QED BY <2>1, <2>2 DEF RootEntry
<1>5. \/ GoTo(p, "fragment", grown)
      \/ GoTo(p, "fragment", begun) /\ ~TooMany(s)
      \/ GoTo(p, "scan", given)
      \/ GoTo(p, "super", found)
  <2>1. t.frags = f
    BY <1>2 DEF SuperBlocks
  <2> QED BY <1>1, <2>1
<1> HIDE DEF next, size
<1>6. t \in SuperBlocks /\ t.ro = s.ro /\ t.entry = s.entry /\ t.vol = s.vol
  BY <1>2, <1>4 DEF SuperBlocks
<1> HIDE DEF t, f, s
<1>7. CASE GoTo(p, "fragment", grown)
  <2>1. Grown(f) \in FragmentLists /\ Len(Grown(f)) = Len(f)
    BY <1>3, GrownList
  <2>2. grown \in SuperBlocks /\ grown.ro = s.ro /\ grown.entry = s.entry
        /\ grown.vol = s.vol /\ grown.frags = Grown(f)
    BY <1>6, <2>1 DEF SuperBlocks
  <2> HIDE DEF grown
  <2>3. Searching("fragment", grown)
    BY <1>2, <1>3, <2>1, <2>2, Bounds DEF Searching
  <2> QED BY <1>2, <1>7, <2>2, <2>3, GoToKeeps DEF Places, Unlocked, s
<1>8. CASE GoTo(p, "fragment", begun) /\ ~TooMany(s)
  <2>1. Begun(f, next) \in FragmentLists /\ Len(Begun(f, next)) = Len(f) + 1
    BY <1>3, <1>4, BegunList
  <2>2. begun \in SuperBlocks /\ begun.ro = s.ro /\ begun.entry = s.entry
        /\ begun.vol = s.vol /\ begun.frags = Begun(f, next)
    BY <1>6, <2>1 DEF SuperBlocks
  <2>3. Len(f) < MaxFragment
    BY <1>3, <1>8, Bounds DEF TooMany, f
  <2> HIDE DEF begun
  <2>4. Searching("fragment", begun)
    BY <1>2, <1>3, <2>1, <2>2, <2>3, Bounds DEF Searching
  <2> QED BY <1>2, <1>8, <2>2, <2>4, GoToKeeps DEF Places, Unlocked, s
<1>9. CASE GoTo(p, "scan", given)
  <2> DEFINE e == <<>>
  <2>1. e \in FragmentLists /\ Len(e) = 0
    BY EmptySeq DEF FragmentLists
  <2> HIDE DEF e
  <2>2. given \in SuperBlocks /\ given.ro = s.ro /\ given.entry = s.entry + 1
        /\ given.vol = s.vol /\ given.frags = e
    <3>1. given = [s EXCEPT !.entry = s.entry + 1, !.frags = e, !.cluster = 0]
      BY DEF e
    <3> DEFINE n == s.entry + 1
    <3>2. n \in Nat /\ 0 \in Int
      BY <1>2 DEF SuperBlocks
    <3> HIDE DEF n
    <3>3. given = [s EXCEPT !.entry = n, !.frags = e, !.cluster = 0]
      BY <3>1 DEF n
    <3> HIDE DEF given
    <3>4. given \in SuperBlocks /\ given.ro = s.ro /\ given.entry = n
          /\ given.vol = s.vol /\ given.frags = e
      BY <1>2, <2>1, <3>2, <3>3 DEF SuperBlocks
    <3> QED BY <3>4 DEF n
  <2> HIDE DEF given
  <2>3. Searching("scan", given)
    BY <1>2, <1>3, <2>1, <2>2, Bounds DEF Searching
  <2> QED BY <1>2, <1>9, <2>2, <2>3, GoToKeeps DEF Places, Unlocked, s
<1>10. CASE GoTo(p, "super", found)
  <2>1. InSectors(f) \in FragmentLists /\ Len(InSectors(f)) = Len(f)
    BY <1>3, ListInSectors
  <2>2. found \in SuperBlocks /\ found.ro = s.ro /\ found.entry = s.entry
        /\ found.vol = s.vol /\ found.frags = InSectors(f)
    BY <1>4, <1>6, <2>1 DEF SuperBlocks
  <2> HIDE DEF found
  <2>3. Searching("super", found)
    BY <1>2, <1>3, <2>1, <2>2, Bounds DEF Searching
  <2> QED BY <1>2, <1>10, <2>2, <2>3, GoToKeeps DEF Places, Unlocked, s
<1> QED BY <1>5, <1>7, <1>8, <1>9, <1>10

-----------------------------------------------------------------------------
(* The geometries that are mounted.                                        *)

LEMMA CeilDivInt ==
  ASSUME NEW a \in Int, NEW b \in Nat \ {0}
  PROVE  CeilDiv(a, b) \in Int
BY DEF CeilDiv

LEMMA MinOfInt ==
  ASSUME NEW a \in Int, NEW b \in Int
  PROVE  MinOf(a, b) \in Int /\ MinOf(a, b) <= a /\ MinOf(a, b) <= b
BY DEF MinOf

\* The end of a DoubleSpace volume is a number, wherever the marks are.
LEMMA DblDataEndsInt ==
  ASSUME HostTyped(file), NEW s \in SuperBlocks, ImageOf(s).kind = "dbl"
  PROVE  DblDataEnds(s) \subseteq Int
<1> DEFINE guess == 2 * CeilDiv(LengthOf(s), 2) - 1
           Upto(last) == {b \in guess - 1 .. last : \A a \in guess - 1 .. b : Readable(s, a)}
           End(found) == IF Cardinality(found) = 1 THEN (CHOOSE b \in found : TRUE) - 1
                         ELSE guess
           Unset(near) == {b \in near : ~Covered(s, b)}
           Ends(near) == {End(((near \cap ImageOf(s).mdr) \ Unset(near)) \cup x) :
                            x \in SUBSET Unset(near)}
           lasts == IF IoErrors THEN guess - 2 .. guess + 1 ELSE {guess + 1}
<1>1. guess \in Int
  <2>1. LengthOf(s) \in Int
    BY DEF LengthOf, SuperBlocks, HostTyped
  <2> QED BY <2>1, CeilDivInt
<1>2. DblDataEnds(s) = UNION {Ends(Upto(last)) : last \in lasts}
  BY DEF DblDataEnds
<1> HIDE DEF guess
<1>3. \A x \in SUBSET Int : End(x) \in Int
  <2> SUFFICES ASSUME NEW x \in SUBSET Int, Cardinality(x) = 1
               PROVE  (CHOOSE b \in x : TRUE) \in Int
    BY <1>1
  <2>1. x # {}
    BY FS_EmptySet
  <2> QED BY <2>1
<1> HIDE DEF End
<1>4. \A last \in lasts : Upto(last) \in SUBSET Int
  BY <1>1
<1>5. \A near \in SUBSET Int : Ends(near) \subseteq Int
  BY <1>3
<1> HIDE DEF Upto, Ends, lasts
<1> QED BY <1>2, <1>4, <1>5

LEMMA DblVolumeTyped ==
  ASSUME NEW h \in DblHeader, NEW wide \in BOOLEAN, NEW end \in Int
  PROVE  DblVolume(h, wide, end) \in Volumes /\ ~Stac(DblVolume(h, wide, end))
<1>1. /\ h.flag \in Nat /\ h.spc \in Nat \ {0} /\ h.dcluster \in Nat /\ h.mdfat \in Nat
      /\ h.bootblock \in Nat /\ h.reserved \in Nat /\ h.rootdir \in Nat /\ h.entries \in Nat
      /\ h.total \in Nat /\ h.fatsize \in Nat
  BY DEF DblHeader
<1>2. MaxCluster2(h, wide) \in Int
  <2>1. MdfatRoom(h) \in Int
    BY <1>1 DEF MdfatRoom
  <2>2. FatRoom(h, wide) \in Int
    BY <1>1 DEF FatRoom
  <2>3. MinOf(MdfatRoom(h), FatRoom(h, wide)) \in Int
    BY <2>1, <2>2, MinOfInt
  <2> DEFINE a == MinOf(MdfatRoom(h), FatRoom(h, wide)) - 1
             b == IF wide THEN 65526 ELSE 4086
  <2>4. a \in Int /\ b \in Int
    BY <2>3
  <2>5. MaxCluster2(h, wide) = MinOf(a, b)
    BY DEF MaxCluster2
  <2> HIDE DEF a, b
  <2> QED BY <2>4, <2>5, MinOfInt
<1>3. DosLimit(h) \in Int
  BY <1>1 DEF DosLimit
<1>4. MinOf(DosLimit(h), MaxCluster2(h, wide)) \in Int
  BY <1>2, <1>3, MinOfInt
<1>5. DblVersion(h) \in {"DBLSP", "DRVSP", "DRVSP3"}
  BY DEF DblVersion
<1> QED BY <1>1, <1>2, <1>4, <1>5 DEF DblVolume, Volumes, Stac

LEMMA StacVolumeTyped ==
  ASSUME HostTyped(file), NEW s \in SuperBlocks, NEW h \in StacHeader
  PROVE  StacVolume(s, h) \in Volumes /\ Stac(StacVolume(s, h))
<1>1. /\ h.version \in Nat /\ h.sectors \in Int /\ h.bootblock \in Nat /\ h.amap \in Nat
      /\ h.fat \in Nat /\ h.spc \in Nat \ {0} /\ h.entries \in Nat /\ h.fats \in Nat
      /\ h.fatsize \in Nat /\ h.reserved \in Nat /\ h.total \in Nat
  BY DEF StacHeader
<1>2. h.fats * h.fatsize \in Int /\ 3 * h.fats * h.fatsize \in Int
      /\ 3 * (h.fats - 1) * h.fatsize \in Int
  BY <1>1
<1>3. RootSectors(h) \in Int
  <2>1. h.entries * 32 \in Int
    BY <1>1
  <2> QED BY <2>1, CeilDivInt DEF RootSectors
<1>4. ClustCnt(h) \in Int
  BY <1>1, <1>2, <1>3 DEF ClustCnt
<1>5. StacWide(h) \in BOOLEAN
  BY DEF StacWide
<1>6. StacEnd(s) \in Int
  <2>1. LengthOf(s) \in Int
    BY DEF LengthOf, SuperBlocks, HostTyped
  <2> QED BY <2>1, CeilDivInt DEF StacEnd
<1>7. MinOf(StacEnd(s), IF h.sectors > 0 THEN h.sectors - 1 ELSE StacEnd(s)) \in Int
  <2> DEFINE a == IF h.sectors > 0 THEN h.sectors - 1 ELSE StacEnd(s)
  <2>1. a \in Int
    BY <1>1, <1>6
  <2> HIDE DEF a
  <2>2. MinOf(StacEnd(s), a) \in Int
    BY <1>6, <2>1, MinOfInt
  <2> QED BY <2>2 DEF a
<1>8. StacRoot(h) \in Int
  BY <1>1, <1>2 DEF StacRoot
<1> QED BY <1>1, <1>2, <1>4, <1>5, <1>7, <1>8 DEF StacVolume, Volumes, Stac

LEMMA MountDblspaceKeeps ==
  ASSUME IInv, NEW p \in Procs, MountDblspace(p)
  PROVE  IInv'
<1> DEFINE s == sb[p]
           h == Header(p)
<1>1. /\ s \in SuperBlocks /\ Searching("mount", s) /\ pc[p] = "mount"
      /\ HostTyped(file) /\ ImageOf(s).kind = "dbl"
  BY DEF MountDblspace, IInv, TypedSearch
<1>2. h \in DblHeader
  <2>1. PlaceOf(s) \in DOMAIN file.images /\ ImageOf(s) = file.images[PlaceOf(s)]
    BY <1>1 DEF ImageOf, Other
  <2> QED BY <1>1, <2>1 DEF HostTyped, Header
<1>3. Wides(s, h) \subseteq BOOLEAN /\ DblDataEnds(s) \subseteq Int
  <2>1. Wides(s, h) \subseteq BOOLEAN
    <3> DEFINE a == h.signature = 16
               b == h.bits62 > 32
    <3>1. a \in BOOLEAN /\ b \in BOOLEAN
      OBVIOUS
    <3>2. Wides(s, h) = IF ~Covered(s, h.bootblock) THEN BOOLEAN
                        ELSE IF h.signature \in {12, 16} THEN {a} ELSE {b}
      BY Zenon DEF Wides
    <3> HIDE DEF a, b
    <3> QED BY <3>1, <3>2, Zenon
  <2> QED BY <1>1, <2>1, DblDataEndsInt
<1>4. \/ ReturnNull(p)
      \/ \E wide \in BOOLEAN, end \in Int :
           GoTo(p, "mounted", [s EXCEPT !.vol = DblVolume(h, wide, end),
                                        !.ro = @ \/ ~KnownFormat(h)])
  BY <1>3, Zenon DEF MountDblspace
<1>5. ASSUME NEW wide \in BOOLEAN, NEW end \in Int,
             GoTo(p, "mounted", [s EXCEPT !.vol = DblVolume(h, wide, end),
                                          !.ro = @ \/ ~KnownFormat(h)])
      PROVE  IInv'
  <2> DEFINE v == DblVolume(h, wide, end)
             t == [s EXCEPT !.vol = v, !.ro = @ \/ ~KnownFormat(h)]
  <2>1. v \in Volumes /\ ~Stac(v)
    BY <1>2, DblVolumeTyped
  <2> HIDE DEF v, h
  <2>2. KnownFormat(h) \in BOOLEAN
    BY DEF KnownFormat
  <2>3. t \in SuperBlocks /\ (s.ro => t.ro) /\ t.entry = s.entry /\ t.frags = s.frags
        /\ t.vol = v
    BY <1>1, <2>1, <2>2 DEF SuperBlocks
  <2> HIDE DEF t, s
  <2>4. Searching("mounted", t)
    BY <1>1, <2>3 DEF Searching
  <2>5. GoTo(p, "mounted", t)
    BY <1>5 DEF t, v
  <2> QED BY <1>1, <2>1, <2>3, <2>4, <2>5, GoToKeeps DEF Places, Unlocked, s
<1> QED BY <1>4, <1>5, ReturnNullKeeps

\* Mounting a Stacker volume takes its flag back, or its super block tells that
\* the flag could not be read.
LEMMA MountStackerKeeps ==
  ASSUME IInv, NEW p \in Procs, MountStacker(p)
  PROVE  IInv'
<1> DEFINE s == sb[p]
           h == Header(p)
           v == StacVolume(s, h)
           T(missed) == [s EXCEPT !.vol = v, !.ro = @ \/ StacReadOnly(s, h),
                                  !.lost = @ \/ missed]
<1>1. /\ s \in SuperBlocks /\ Searching("mount", s) /\ pc[p] = "mount"
      /\ HostTyped(file) /\ ImageOf(s).kind = "stac"
  BY DEF MountStacker, IInv, TypedSearch
<1>2. PlaceOf(s) \in DOMAIN file.images /\ ImageOf(s) = file.images[PlaceOf(s)]
  BY <1>1 DEF ImageOf, Other
<1>3. h \in StacHeader
  BY <1>1, <1>2 DEF HostTyped, Header
<1>4. \/ ReturnNull(p)
      \/ \E missed \in BOOLEAN :
           /\ sb' = [sb EXCEPT ![p] = T(missed)] /\ pc' = [pc EXCEPT ![p] = "mounted"]
           /\ flag' = IF missed THEN flag ELSE Marked(T(missed), "changing")
           /\ UNCHANGED <<file, rw, lock>>
  BY Zenon DEF MountStacker, FailedReads
<1>5. ASSUME NEW missed \in BOOLEAN,
             sb' = [sb EXCEPT ![p] = T(missed)], pc' = [pc EXCEPT ![p] = "mounted"],
             flag' = IF missed THEN flag ELSE Marked(T(missed), "changing"),
             UNCHANGED <<file, rw, lock>>
      PROVE  IInv'
  <2> DEFINE t == T(missed)
  <2>1. v \in Volumes /\ Stac(v)
    BY <1>1, <1>3, StacVolumeTyped
  <2>2. StacReadOnly(s, h) \in BOOLEAN
    BY DEF StacReadOnly
  <2> HIDE DEF v, h
  <2>3. /\ t \in SuperBlocks /\ (s.ro => t.ro) /\ t.entry = s.entry /\ t.frags = s.frags
        /\ t.direct = s.direct /\ t.size = s.size /\ t.vol = v /\ (missed => t.lost)
    BY <1>1, <2>1, <2>2 DEF SuperBlocks
  <2>4. sb' = [sb EXCEPT ![p] = t] /\ flag' = IF missed THEN flag ELSE Marked(t, "changing")
    BY <1>5
  <2> HIDE DEF T, t, s
  <2>5. Searching("mounted", t)
    BY <1>1, <2>3 DEF Searching
  <2>6. PlaceOf(t) = PlaceOf(s)
    BY <2>3 DEF PlaceOf, TranslateDirect
  <2>7. Becomes(p, "mounted", rw[p], lock[p], t) /\ rw[p] \in BOOLEAN
    BY <1>5, <2>4 DEF Becomes, IInv, TypedSearch, Locked
  <2>8. MayHave(p, "mounted", rw[p], lock[p], t)
    BY <1>1, <2>3 DEF MayHave, IInv, Locked, Unlocked, s
  <2>9. /\ TypedSearch' /\ Locked' /\ pc'[p] = "mounted" /\ sb'[p] = t
        /\ \A q \in Procs \ {p} : pc'[q] = pc[q] /\ sb'[q] = sb[q]
    BY <2>3, <2>5, <2>7, <2>8, OneChanges DEF IInv, Places
  <2>10. PlaceOf(t) \in DOMAIN flag
    BY <1>1, <1>2, <2>6 DEF IInv, FlagsKept, TypedFlags
  <2>11. CASE ~missed
    BY <1>5, <2>4, <2>9, <2>10, <2>11, MarkedKeeps DEF IInv
  <2>12. CASE missed
    <3>1. UNCHANGED <<file, flag>> /\ t.lost
      BY <1>5, <2>3, <2>4, <2>12
    <3>2. TypedFlags'
      BY <3>1 DEF IInv, FlagsKept, TypedFlags
    <3>3. Flagged'
      <4> SUFFICES ASSUME NEW q \in Procs, (pc[q] = "mounted" /\ Stac(sb[q].vol))'
                   PROVE  (PlaceOf(sb[q]) \in DOMAIN flag)'
        BY DEF Flagged
      <4>1. CASE q = p
        BY <2>9, <2>10, <3>1, <4>1
      <4>2. CASE q # p
        <5>1. pc'[q] = pc[q] /\ sb'[q] = sb[q]
          BY <2>9, <4>2
        <5>2. pc[q] = "mounted" /\ Stac(sb[q].vol)
          BY <5>1 DEF Stac
        <5>3. PlaceOf(sb[q]) \in DOMAIN flag
          BY <5>2 DEF IInv, FlagsKept, Flagged
        <5> QED BY <3>1, <5>1, <5>3
      <4> QED BY <4>1, <4>2
    <3>4. MarkedWhileWritten'
      <4> SUFFICES ASSUME NEW q \in Procs,
                          (Writes(q) /\ sb[q].vol # NoVolume /\ ~sb[q].lost
                           /\ Stac(sb[q].vol))'
                   PROVE  (flag[PlaceOf(sb[q])] # "clean")'
        BY DEF MarkedWhileWritten
      <4>1. q # p
        BY <2>9, <3>1
      <4>2. pc'[q] = pc[q] /\ sb'[q] = sb[q]
        BY <2>9, <4>1
      <4>3. Writes(q) /\ sb[q].vol # NoVolume /\ ~sb[q].lost /\ Stac(sb[q].vol)
        BY <4>2 DEF Writes, Stac, NoVolume
      <4>4. flag[PlaceOf(sb[q])] # "clean"
        BY <4>3 DEF IInv, FlagsKept, MarkedWhileWritten
      <4> QED BY <3>1, <4>2, <4>4
    <3> QED BY <2>9, <3>2, <3>3, <3>4 DEF IInv, FlagsKept
  <2> QED BY <2>11, <2>12
<1> QED BY <1>4, <1>5, ReturnNullKeeps

-----------------------------------------------------------------------------

LEMMA InitKeeps ==
  ASSUME FilesTyped, Init
  PROVE  IInv
<1>1. HostTyped(file)
  BY DEF FilesTyped, Init
<1>2. NewSb \in SuperBlocks /\ Searching("closed", NewSb)
  <2>1. "" \in Wishes
    BY DEF Wishes
  <2> QED BY <1>1, <2>1, NewSbTyped DEF Unlocked
<1>3. \A p \in Procs : pc[p] = "closed" /\ sb[p] = NewSb /\ lock[p] = "none"
  BY DEF Init
<1>4. TypedSearch
  BY <1>1, <1>2, <1>3 DEF Init, TypedSearch, Places
<1>5. Locked
  BY <1>3 DEF Init, Locked, Unlocked
<1>6. FlagsKept
  BY <1>3 DEF Init, FlagsKept, TypedFlags, Flagged, MarkedWhileWritten, Writes
<1> QED BY <1>4, <1>5, <1>6 DEF IInv

LEMMA NextKeeps ==
  ASSUME IInv, [Next]_vars
  PROVE  IInv'
<1>1. CASE UNCHANGED vars
  <2>1. UNCHANGED <<file, flag, pc, rw, lock, sb>>
    BY <1>1 DEF vars
  <2>2. TypedSearch'
    BY <2>1 DEF IInv, TypedSearch, HostTyped, Searching
  <2>3. Locked'
    BY <2>1 DEF IInv, Locked
  <2>4. \A q \in Procs : (Writes(q))' = Writes(q)
    BY <2>1 DEF Writes
  <2>5. FlagsKept'
    BY <2>1, <2>4 DEF IInv, FlagsKept, TypedFlags, Flagged, MarkedWhileWritten
  <2> QED BY <2>2, <2>3, <2>5 DEF IInv
<1>2. ASSUME NEW p \in Procs, NEW w \in BOOLEAN, NEW ext \in {""} \cup Extensions,
             Open(p, w, ext)
      PROVE  IInv'
  BY <1>2, OpenKeeps DEF Wishes
<1>3. ASSUME NEW p \in Procs, Step(p)
      PROVE  IInv'
  <2>1. CASE CannotOpen(p) \/ CannotLock(p)
    BY <2>1, ReturnNullKeeps DEF CannotOpen, CannotLock
  <2> QED BY <1>3, <2>1, OpenFileKeeps, FallBackKeeps, LocksKeeps, ReadSuperKeeps,
             DetectKeeps, SearchRootKeeps, SetupFragmentKeeps, MountDblspaceKeeps,
             MountStackerKeeps DEF Step
<1>4. CASE Next
  BY <1>2, <1>3, <1>4, CloseKeeps, DieKeeps DEF Next
<1> QED BY <1>1, <1>4

\* The parts of the invariant a run checks.
LEMMA InvariantImplies ==
  ASSUME IInv
  PROVE  TypeOK /\ WriterGuarded
<1>1. \A p \in Procs : LockExclusive
  BY WriterLocks DEF LockExclusive, IInv, Locked, Unlocked
<1>2. LockExclusive
  BY <1>1 DEF LockExclusive
<1>3. ASSUME NEW p \in Procs
      PROVE  /\ sb[p].ext \in {""} \cup Extensions /\ sb[p].ro \in BOOLEAN
             /\ sb[p].direct \in BOOLEAN /\ sb[p].lost \in BOOLEAN
             /\ sb[p].entry \in 0 .. Len(file.root) + 1
             /\ \A i \in DOMAIN sb[p].frags : sb[p].frags[i].len \in Nat \ {0}
             /\ Len(sb[p].frags) <= MaxFragment
  <2>1. sb[p] \in SuperBlocks /\ Searching(pc[p], sb[p]) /\ Len(file.root) \in Nat
    BY <1>3, LenProperties DEF IInv, TypedSearch, HostTyped
  <2>2. sb[p].entry \in Nat /\ sb[p].frags \in Seq(Fragment) /\ sb[p].ext \in Wishes
        /\ sb[p].ro \in BOOLEAN /\ sb[p].direct \in BOOLEAN /\ sb[p].lost \in BOOLEAN
    BY <2>1 DEF SuperBlocks, FragmentLists
  <2>3. \A i \in DOMAIN sb[p].frags : sb[p].frags[i] \in Fragment
    BY <2>2, LenProperties, ElementOfSeq
  <2>4. sb[p].ext \in {""} \cup Extensions
    BY <2>2, Zenon DEF Wishes
  <2>5. \A i \in DOMAIN sb[p].frags : sb[p].frags[i].len \in Nat \ {0}
    BY <2>3 DEF Fragment
  <2>6. sb[p].entry \in 0 .. Len(file.root) + 1 /\ Len(sb[p].frags) <= MaxFragment
    <3> DEFINE s == sb[p]
               where == pc[p]
    <3> HIDE DEF s, where
    <3>1. Searching(where, s) /\ Len(file.root) \in Nat /\ s.entry \in Nat
      BY <2>1, <2>2 DEF s, where
    <3>2. s.entry \in 0 .. Len(file.root) + 1 /\ Len(s.frags) <= MaxFragment
      BY <3>1 DEF Searching
    <3> QED BY <3>2 DEF s
  <2> QED BY <2>2, <2>4, <2>5, <2>6
<1>4. TypeOK
  BY <1>3 DEF TypeOK, IInv, TypedSearch, Places, Locked, FlagsKept, TypedFlags
<1> QED BY <1>2, <1>4 DEF IInv, FlagsKept, WriterGuarded

\* The invariant behind the two theorems below.
THEOREM OpensStaySound ==
  ASSUME FilesTyped
  PROVE  Spec => []IInv
BY InitKeeps, NextKeeps, PTL DEF Spec

\* Opening never leaves the types, and the list of fragments of a volume inside
\* a host stays within MAXFRAGMENT, whatever chain the FAT of the host has, even
\* a loop.
THEOREM TypesAreKept ==
  ASSUME FilesTyped
  PROVE  Spec => []TypeOK
BY OpensStaySound, InvariantImplies, PTL

\* However many processes open, close and die: who may write to a volume is
\* alone with it past the lock, and its Stacker flag does not say it is clean.
THEOREM WritersAreGuarded ==
  ASSUME FilesTyped
  PROVE  Spec => []WriterGuarded
BY OpensStaySound, InvariantImplies, PTL
-----------------------------------------------------------------------------
(* The tables are as long as the number of clusters says.                  *)

\* The FAT of a Stacker volume fills whole groups of three sectors, and its
\* clusters have the numbers a FAT has for clusters: mount_stacker checks
\* neither (it lets 65526 and 65527 clusters pass).
StackerMeant(f) ==
  \A c \in DOMAIN f.images : f.images[c].kind = "stac" =>
    LET h == f.images[c].header
    IN h.fats >= 1 /\ h.fatsize % 3 = 0 /\ ClustCnt(h) + 1 < 65527
FilesMeant == \A f : Files(f) => StackerMeant(f)

\* Sectors of the FAT and of the MDFAT that the last cluster's entry ends in.
LEMMA WideFat ==
  ASSUME NEW m \in Int, NEW k \in Int, m + 1 <= (512 * k) \div 2
  PROVE  (2 * m + 1) \div 512 < k
  OBVIOUS
LEMMA NarrowFat ==
  ASSUME NEW m \in Int, NEW k \in Int, m + 1 <= (2 * (512 * k)) \div 3
  PROVE  ((3 * m) \div 2 + 1) \div 512 < k
  OBVIOUS
LEMMA FourByteMdfat ==
  ASSUME NEW n \in Int, NEW k \in Int, n + 1 <= k * 128
  PROVE  (n * 4 + 3) \div 512 < k
  OBVIOUS
LEMMA FiveByteMdfat ==
  ASSUME NEW n \in Int, NEW k \in Int, n + 1 <= k * 102
  PROVE  (n * 5 + (n \div 102) * 2 + 4) \div 512 < k
  OBVIOUS
LEMMA WideStacMdfat ==
  ASSUME NEW m \in Int, NEW k \in Int, m + 1 <= (512 * k) \div 2
  PROVE  (m * 4 + 3) \div 512 < 2 * k
  OBVIOUS
LEMMA NarrowStacMdfat ==
  ASSUME NEW m \in Int, NEW k \in Int, m + 1 <= (512 * k * 2) \div 3
  PROVE  /\ (m * 3 + 2) \div 512 < 2 * k
         /\ ((3 * m) \div 2 + 1) \div 512 < k
  OBVIOUS

\* Three sectors of the FAT, six of the MDFAT, three of the FAT ...
LEMMA AlternatingFat ==
  ASSUME NEW k \in Int, NEW a \in Int, a < 3 * k
  PROVE  (a \div 3) * 9 + (a % 3) < 9 * k
  OBVIOUS
LEMMA AlternatingMdfat ==
  ASSUME NEW k \in Int, NEW b \in Int, b < 6 * k
  PROVE  (b \div 6) * 9 + (b % 6) + 3 < 9 * k
  OBVIOUS

LEMMA MinOfBound ==
  ASSUME NEW a \in Int, NEW b \in Int
  PROVE  MinOf(a, b) \in Int /\ MinOf(a, b) <= a /\ MinOf(a, b) <= b
  BY DEF MinOf

LEMMA MaxCluster2Bound ==
  ASSUME NEW h \in DblHeader, NEW wide \in BOOLEAN, NEW m, m = MaxCluster2(h, wide)
  PROVE  /\ m \in Int /\ m + 1 <= MdfatRoom(h) /\ m + 1 <= FatRoom(h, wide)
         /\ m <= (IF wide THEN 65526 ELSE 4086)
<1>1. /\ h.spc \in Nat \ {0} /\ h.dcluster \in Nat /\ h.mdfat \in Nat
      /\ h.bootblock \in Nat /\ h.reserved \in Nat /\ h.rootdir \in Nat
  BY DEF DblHeader
<1> DEFINE x == MdfatRoom(h)
           y == FatRoom(h, wide)
           c == IF wide THEN 65526 ELSE 4086
<1>2. x \in Int
  BY <1>1 DEF MdfatRoom
<1>3. y \in Int
  BY <1>1 DEF FatRoom
<1>4. c \in Int
  OBVIOUS
<1>5. m = MinOf(MinOf(x, y) - 1, c)
  BY DEF MaxCluster2
<1> HIDE DEF x, y, c
<1>6. MinOf(x, y) \in Int /\ MinOf(x, y) <= x /\ MinOf(x, y) <= y
  BY <1>2, <1>3, MinOfBound
<1> DEFINE z == MinOf(x, y) - 1
<1>7. z \in Int /\ z + 1 <= x /\ z + 1 <= y
  BY <1>2, <1>3, <1>6
<1>8. m = MinOf(z, c)
  BY <1>5
<1> HIDE DEF z
<1>9. m \in Int /\ m <= z /\ m <= c
  BY <1>4, <1>7, <1>8, MinOfBound
<1>10. m + 1 <= x /\ m + 1 <= y
  BY <1>2, <1>3, <1>7, <1>9
<1> QED BY <1>9, <1>10 DEF x, y, c

\* A volume that mount_dblspace does not make read-only.
LEMMA DblFits ==
  ASSUME NEW h \in DblHeader, KnownFormat(h), NEW wide \in BOOLEAN, NEW end \in Int
  PROVE  Fits(DblVolume(h, wide, end))
<1> DEFINE v == DblVolume(h, wide, end)
           m == MaxCluster2(h, wide)
           K == h.bootblock - (h.mdfat + 1)
           F == h.rootdir - h.reserved
<1>1. /\ h.flag \in Nat /\ h.spc \in Nat \ {0} /\ h.dcluster \in Nat /\ h.mdfat \in Nat
      /\ h.bootblock \in Nat /\ h.reserved \in Nat /\ h.rootdir \in Nat /\ h.entries \in Nat
      /\ h.total \in Nat /\ h.fatsize \in Nat
  BY DEF DblHeader
<1>2. /\ m \in Int /\ m + 1 <= MdfatRoom(h) /\ m + 1 <= FatRoom(h, wide)
      /\ m <= (IF wide THEN 65526 ELSE 4086)
  BY MaxCluster2Bound
<1>3. /\ v.format = DblVersion(h) /\ v.wide = wide /\ v.mdfatstart = h.mdfat + 1
      /\ v.bootblock = h.bootblock /\ v.dcluster = h.dcluster
      /\ v.fatstart = h.bootblock + h.reserved /\ v.rootdir = h.bootblock + h.rootdir
      /\ v.second = 0 /\ v.max_cluster2 = m /\ v.max_cluster = MinOf(DosLimit(h), m)
  BY DEF DblVolume
<1>4. ~Stac(v)
  BY DblVolumeTyped
<1> HIDE DEF v, m
<1>5. LastFatSector(v) < FatEnd(v)
  <2>1. K \in Int /\ F \in Int /\ FatEnd(v) = v.fatstart + F /\ v.fatstart \in Int
    BY <1>1, <1>3 DEF FatEnd
  <2>2. CASE wide
    <3>1. m + 1 <= (512 * F) \div 2
      BY <1>2, <2>2 DEF FatRoom
    <3>2. LastFatSector(v) = v.fatstart + (2 * m + 1) \div 512
      BY <1>3, <1>4, <2>2 DEF LastFatSector
    <3> HIDE DEF F
    <3>3. (2 * m + 1) \div 512 < F
      BY <1>2, <2>1, <3>1, WideFat
    <3> QED BY <1>2, <2>1, <3>2, <3>3
  <2>3. CASE ~wide
    <3>1. m + 1 <= (2 * (512 * F)) \div 3
      BY <1>2, <2>3 DEF FatRoom
    <3>2. LastFatSector(v) = v.fatstart + ((3 * m) \div 2 + 1) \div 512
      BY <1>3, <1>4, <2>3 DEF LastFatSector
    <3> HIDE DEF F
    <3>3. ((3 * m) \div 2 + 1) \div 512 < F
      BY <1>2, <2>1, <3>1, NarrowFat
    <3> QED BY <1>2, <2>1, <3>2, <3>3
  <2> QED BY <2>2, <2>3
<1>6. LastMdfatSector(v) < MdfatEnd(v)
  <2> DEFINE n == h.dcluster + m
  <2>1. K \in Int /\ n \in Int /\ MdfatEnd(v) = v.mdfatstart + K /\ v.mdfatstart \in Int
    BY <1>1, <1>2, <1>3, <1>4 DEF MdfatEnd
  <2>2. CASE v.format = "DRVSP3"
    <3>1. h.spc = 64
      BY <1>3, <2>2 DEF KnownFormat
    <3>2. n + 1 <= K * 102
      BY <1>1, <1>2, <3>1 DEF MdfatRoom
    <3>3. LastMdfatSector(v) = v.mdfatstart + (n * 5 + (n \div 102) * 2 + 4) \div 512
      BY <1>3, <1>4, <2>2 DEF LastMdfatSector
    <3> HIDE DEF K, n
    <3>4. (n * 5 + (n \div 102) * 2 + 4) \div 512 < K
      BY <2>1, <3>2, FiveByteMdfat
    <3> QED BY <2>1, <3>3, <3>4
  <2>3. CASE v.format # "DRVSP3"
    <3>1. h.spc = 16
      BY <1>3, <2>3 DEF KnownFormat
    <3>2. n + 1 <= K * 128
      BY <1>1, <1>2, <3>1 DEF MdfatRoom
    <3>3. LastMdfatSector(v) = v.mdfatstart + (n * 4 + 3) \div 512
      BY <1>3, <1>4, <2>3 DEF LastMdfatSector
    <3> HIDE DEF K, n
    <3>4. (n * 4 + 3) \div 512 < K
      BY <2>1, <3>2, FourByteMdfat
    <3> QED BY <2>1, <3>3, <3>4
  <2> QED BY <2>2, <2>3
<1>7. v.max_cluster <= v.max_cluster2
  <2>1. DosLimit(h) \in Int
    BY <1>1 DEF DosLimit
  <2> QED BY <1>2, <1>3, <2>1, MinOfBound
<1>8. v.max_cluster2 < (IF v.wide THEN 65527 ELSE 4087)
  BY <1>2, <1>3
<1>9. Fits(v)
  BY <1>5, <1>6, <1>7, <1>8 DEF Fits
<1> QED BY <1>9 DEF v

LEMMA CountIsInt ==
  ASSUME NEW h \in StacHeader
  PROVE  ClustCnt(h) \in Int
<1>1. /\ h.spc \in Nat \ {0} /\ h.entries \in Nat /\ h.fats * h.fatsize \in Int
      /\ h.reserved \in Nat /\ h.total \in Nat
  BY DEF StacHeader
<1>2. RootSectors(h) \in Int
  <2>1. h.entries * 32 \in Int
    BY <1>1
  <2> QED BY <2>1, CeilDivInt DEF RootSectors
<1> QED BY <1>1, <1>2 DEF ClustCnt

LEMMA RoomForAll ==
  ASSUME NEW s, NEW h, ~StacReadOnly(s, h)
  PROVE  ~(ClustCnt(h) + 2 > StacFatRoom(h))
  BY Zenon DEF StacReadOnly

LEMMA NarrowCount ==
  ASSUME NEW h, ~StacWide(h)
  PROVE  ~(ClustCnt(h) >= 4077)
  BY SMT DEF StacWide

LEMMA LastStacMdfatSector ==
  ASSUME NEW v, Stac(v), v.fatstart \in Int
  PROVE  LET len == IF Stac(v) /\ ~v.wide THEN 3 ELSE 4
             b == ((v.dcluster + v.max_cluster2) * len + len - 1) \div 512
         IN LastMdfatSector(v) = v.fatstart + (b \div 6) * 9 + (b % 6) + 3
<1> DEFINE len == IF Stac(v) /\ ~v.wide THEN 3 ELSE 4
           b == ((v.dcluster + v.max_cluster2) * len + len - 1) \div 512
           x == v.fatstart + (b \div 6) * 9 + (b % 6) + 3
           n == v.dcluster + v.max_cluster2
           y == v.mdfatstart + (n * 5 + (n \div 102) * 2 + 4) \div 512
           z == v.mdfatstart + b
           d == v.format = "DRVSP3"
<1>1. LastMdfatSector(v) = CASE Stac(v) -> x [] d -> y [] OTHER -> z
  BY Zenon DEF LastMdfatSector
<1>2. ~d
  BY DEF Stac
<1> HIDE DEF b, x, y, z, d
<1>3. LastMdfatSector(v) = x
  BY <1>1, <1>2, Zenon
<1> QED BY <1>3, Zenon DEF x, b

\* A volume that mount_stacker does not make read-only.
LEMMA StacFits ==
  ASSUME HostTyped(file), NEW s \in SuperBlocks, NEW h \in StacHeader,
         h.fats >= 1, h.fatsize % 3 = 0, ClustCnt(h) + 1 < 65527, ~StacReadOnly(s, h)
  PROVE  Fits(StacVolume(s, h))
<1> DEFINE v == StacVolume(s, h)
           m == ClustCnt(h) + 1
           F == h.fatsize
           k == F \div 3
<1>1. v \in Volumes /\ Stac(v)
  BY StacVolumeTyped
<1>2. /\ v.wide = StacWide(h) /\ v.dcluster = 0 /\ v.fatstart = h.fat
      /\ v.max_cluster2 = m /\ v.max_cluster = m
  BY DEF StacVolume
<1>10. v.rootdir = StacRoot(h) /\ v.second = 3 * (h.fats - 1) * h.fatsize
  BY DEF StacVolume
<1> HIDE DEF v
<1>3. /\ F \in Nat /\ k \in Nat /\ F = 3 * k /\ h.fat \in Nat /\ h.fats \in Nat /\ h.fats >= 1
  BY DEF StacHeader
<1>4. m \in Int /\ m + 1 <= StacFatRoom(h) /\ m < 65527 /\ (~v.wide => m <= 4077)
  <2>1. v.max_cluster2 \in Int
    BY <1>1 DEF Volumes
  <2>2. m \in Int
    BY <1>2, <2>1
  <2>3. ClustCnt(h) = m - 1
    BY <2>2, CountIsInt
  <2>4. StacFatRoom(h) \in Int
    BY <1>3 DEF StacFatRoom
  <2> HIDE DEF m
  <2>5. m + 1 <= StacFatRoom(h)
    <3>1. ~(ClustCnt(h) + 2 > StacFatRoom(h))
      BY RoomForAll
    <3> QED BY <2>2, <2>3, <2>4, <3>1
  <2>6. ~v.wide => m <= 4077
    <3>1. ASSUME ~v.wide
          PROVE  ~StacWide(h)
      BY <1>2, <3>1
    <3>2. ~v.wide => ~(ClustCnt(h) >= 4077)
      BY <3>1, NarrowCount
    <3> QED BY <2>2, <2>3, <3>2
  <2>7. m < 65527
    BY <2>2, <2>3
  <2> QED BY <2>2, <2>5, <2>6, <2>7
<1>5. /\ FatEnd(v) \in Int /\ FatEnd(v) >= v.fatstart + 9 * k /\ MdfatEnd(v) = FatEnd(v)
      /\ v.fatstart \in Int
  <2> DEFINE others == (h.fats - 1) * F
  <2>1. others \in Int /\ 3 * (h.fats - 1) * h.fatsize = 3 * others
        /\ 3 * h.fats * h.fatsize = 3 * others + 3 * F
    BY <1>3
  <2>2. others >= 0 /\ (h.fats >= 2 => others >= F)
    BY <1>3
  <2>3. v.second = 3 * others /\ v.rootdir = v.fatstart + 3 * others + 3 * F
    <3>1. StacRoot(h) = h.fat + (3 * others + 3 * F)
      BY <2>1 DEF StacRoot
    <3> HIDE DEF others
    <3> QED BY <1>2, <1>3, <1>10, <2>1, <3>1
  <2> HIDE DEF others
  <2>5. h.fats < 2 \/ others >= F
    BY <1>3, <2>2
  <2>6. h.fats < 2 => h.fats = 1
    BY <1>3
  <2>7. h.fats = 1 => others = 0
    BY <1>3 DEF others
  <2> HIDE DEF F, k
  <2>8. FatEnd(v) \in Int /\ FatEnd(v) >= v.fatstart + 9 * k
    <3>1. v.fatstart \in Int
      BY <1>2, <1>3
    <3> QED BY <1>3, <2>1, <2>2, <2>3, <2>5, <2>6, <2>7, <3>1 DEF FatEnd
  <2> QED BY <1>1, <1>2, <1>3, <2>8 DEF MdfatEnd
<1> HIDE DEF m, F
<1>6. LastFatSector(v) < FatEnd(v)
  <2> DEFINE a == ((IF v.wide THEN 2 * v.max_cluster2 ELSE (3 * v.max_cluster2) \div 2) + 1) \div 512
  <2>1. LastFatSector(v) = v.fatstart + ((a \div 3) * 9 + (a % 3))
    BY <1>1 DEF LastFatSector
  <2>2. a \in Int /\ a < 3 * k
    <3>1. CASE v.wide
      <4>1. m + 1 <= (512 * F) \div 2
        BY <1>2, <1>4, <3>1 DEF StacFatRoom, F
      <4>2. (2 * m + 1) \div 512 < F
        BY <1>3, <1>4, <4>1, WideFat
      <4> QED BY <1>2, <1>3, <1>4, <3>1, <4>2
    <3>2. CASE ~v.wide
      <4>1. m + 1 <= (512 * F * 2) \div 3
        BY <1>2, <1>4, <3>2 DEF StacFatRoom, F
      <4>2. ((3 * m) \div 2 + 1) \div 512 < F
        BY <1>3, <1>4, <4>1, NarrowStacMdfat
      <4> QED BY <1>2, <1>3, <1>4, <3>2, <4>2
    <3> QED BY <3>1, <3>2
  <2> HIDE DEF a
  <2>4. (a \div 3) * 9 + (a % 3) < 9 * k
    BY <1>3, <2>2, AlternatingFat
  <2> QED BY <1>3, <1>5, <2>1, <2>2, <2>4
<1>7. LastMdfatSector(v) < MdfatEnd(v)
  <2> DEFINE len == IF Stac(v) /\ ~v.wide THEN 3 ELSE 4
             b == ((v.dcluster + v.max_cluster2) * len + len - 1) \div 512
  <2>1. LastMdfatSector(v) = v.fatstart + (b \div 6) * 9 + (b % 6) + 3
    BY <1>1, <1>5, LastStacMdfatSector
  <2>2. b \in Int /\ b < 6 * k
    <3>1. CASE v.wide
      <4>1. m + 1 <= (512 * F) \div 2
        BY <1>2, <1>4, <3>1 DEF StacFatRoom, F
      <4>2. (m * 4 + 3) \div 512 < 2 * F
        BY <1>3, <1>4, <4>1, WideStacMdfat
      <4>3. b = (m * 4 + 3) \div 512
        BY <1>2, <1>4, <3>1
      <4> QED BY <1>3, <1>4, <4>2, <4>3
    <3>2. CASE ~v.wide
      <4>1. m + 1 <= (512 * F * 2) \div 3
        BY <1>2, <1>4, <3>2 DEF StacFatRoom, F
      <4>2. (m * 3 + 2) \div 512 < 2 * F
        BY <1>3, <1>4, <4>1, NarrowStacMdfat
      <4>3. b = (m * 3 + 2) \div 512
        BY <1>1, <1>2, <1>4, <3>2
      <4> QED BY <1>3, <1>4, <4>2, <4>3
    <3> QED BY <3>1, <3>2
  <2> HIDE DEF b
  <2>3. (b \div 6) * 9 + (b % 6) + 3 < 9 * k
    BY <1>3, <2>2, AlternatingMdfat
  <2> QED BY <1>3, <1>5, <2>1, <2>2, <2>3
<1>8. v.max_cluster <= v.max_cluster2 /\ v.max_cluster2 < (IF v.wide THEN 65527 ELSE 4087)
  BY <1>2, <1>4
<1>9. Fits(v)
  BY <1>6, <1>7, <1>8 DEF Fits
<1> QED BY <1>9 DEF v

\* TablesFit, and what the headers are, which nobody changes.
FitInv == IInv /\ StackerMeant(file) /\ TablesFit

\* A step after which the process has no volume that may be written.
NoWriter(p) == ~(pc'[p] = "mounted" /\ ~sb'[p].ro /\ sb'[p].vol # NoVolume)

LEMMA FitOne ==
  ASSUME FitInv, file' = file, NEW p \in Procs,
         \A q \in Procs \ {p} : pc'[q] = pc[q] /\ sb'[q] = sb[q],
         NoWriter(p) \/ Fits(sb'[p].vol)
  PROVE  StackerMeant(file)' /\ TablesFit'
<1>1. StackerMeant(file)'
  BY DEF FitInv, StackerMeant
<1>2. \A q \in Procs : Writes(q)' /\ (sb[q].vol # NoVolume)' => Fits(sb'[q].vol)
  <2> SUFFICES ASSUME NEW q \in Procs, Writes(q)', (sb[q].vol # NoVolume)'
               PROVE  Fits(sb'[q].vol)
    OBVIOUS
  <2>1. CASE q = p
    BY <2>1 DEF NoWriter, Writes
  <2>2. CASE q # p
    <3>1. pc'[q] = pc[q] /\ sb'[q] = sb[q]
      BY <2>2
    <3>2. Writes(q) /\ sb[q].vol # NoVolume
      BY <3>1 DEF Writes, NoVolume
    <3>3. Fits(sb[q].vol)
      BY <3>2 DEF FitInv, TablesFit
    <3> QED BY <3>1, <3>3
  <2> QED BY <2>1, <2>2
<1>3. TablesFit'
  BY <1>2 DEF TablesFit
<1> QED BY <1>1, <1>3

\* Everything but a mount leaves no volume that may be written: it goes
\* elsewhere, or finds that there is no volume.
LEMMA NoMountFits ==
  ASSUME FitInv, NEW p \in Procs,
         \/ \E w \in BOOLEAN, ext \in {""} \cup Extensions : Open(p, w, ext)
         \/ (Step(p) /\ ~MountDblspace(p) /\ ~MountStacker(p))
         \/ Close(p) \/ Die(p)
  PROVE  StackerMeant(file)' /\ TablesFit'
<1>1. ASSUME NEW where \in Places, NEW s, s.vol = NoVolume \/ where # "mounted",
             GoTo(p, where, s)
      PROVE  StackerMeant(file)' /\ TablesFit'
  <2>1. /\ pc'[p] = where /\ sb'[p] = s /\ file' = file
        /\ \A q \in Procs \ {p} : pc'[q] = pc[q] /\ sb'[q] = sb[q]
    BY <1>1 DEF GoTo, FitInv, IInv, TypedSearch
  <2>2. NoWriter(p)
    BY <1>1, <2>1 DEF NoWriter
  <2> QED BY <2>1, <2>2, FitOne
<1>2. ASSUME NEW where \in Places \ {"mounted"}, file' = file, pc' = [pc EXCEPT ![p] = where],
             NEW s, sb' = [sb EXCEPT ![p] = s]
      PROVE  StackerMeant(file)' /\ TablesFit'
  <2>1. /\ pc'[p] = where /\ \A q \in Procs \ {p} : pc'[q] = pc[q] /\ sb'[q] = sb[q]
    BY <1>2 DEF FitInv, IInv, TypedSearch
  <2>2. NoWriter(p)
    BY <1>2, <2>1 DEF NoWriter
  <2> QED BY <1>2, <2>1, <2>2, FitOne
<1>3. pc[p] # "mounted" => sb[p].vol = NoVolume
  BY DEF FitInv, IInv, TypedSearch, Searching
<1>4. pc = [pc EXCEPT ![p] = pc[p]] /\ sb = [sb EXCEPT ![p] = sb[p]] /\ pc[p] \in Places
  BY DEF FitInv, IInv, TypedSearch
<1>5. CASE \E w \in BOOLEAN, ext \in {""} \cup Extensions : Open(p, w, ext)
  BY <1>2, <1>5 DEF Open, Places
<1>6. CASE OpenFile(p) \/ Locks(p) \/ OpenReadOnly(p) \/ LockReadOnly(p)
  <2>1. CASE OpenFile(p)
    BY <1>1, <2>1 DEF OpenFile, Places
  <2>2. CASE Locks(p)
    BY <1>2, <2>2 DEF Locks, Places
  <2>3. CASE OpenReadOnly(p)
    BY <1>2, <1>4, <2>3 DEF OpenReadOnly, Places
  <2>4. CASE LockReadOnly(p)
    BY <1>2, <1>4, <2>4 DEF LockReadOnly, Places
  <2> QED BY <1>6, <2>1, <2>2, <2>3, <2>4
<1>7. CASE ReturnNull(p)
  BY <1>2, <1>7 DEF ReturnNull, Places
<1>8. CASE ReadSuper(p)
  BY <1>1, <1>7, <1>8 DEF ReadSuper, Places
<1>9. CASE Detect(p)
  <2>1. GoTo(p, "mount", sb[p]) \/ GoTo(p, "mounted", sb[p])
        \/ \E s : GoTo(p, "scan", s)
    BY <1>9, Zenon DEF Detect
  <2>2. pc[p] # "mounted"
    BY <1>9 DEF Detect
  <2> QED BY <1>1, <1>3, <2>1, <2>2 DEF Places
<1>10. CASE SearchRoot(p)
  <2>1. ReturnNull(p) \/ \E where \in {"scan", "fragment"} : \E s : GoTo(p, where, s)
    BY <1>10, Zenon DEF SearchRoot
  <2> QED BY <1>1, <1>7, <2>1 DEF Places
<1>11. CASE SetupFragment(p)
  <2>1. \E where \in {"scan", "fragment", "super"} : \E s : GoTo(p, where, s)
    BY <1>11, Zenon DEF SetupFragment
  <2> QED BY <1>1, <2>1 DEF Places
<1>12. CASE Close(p) \/ Die(p)
  BY <1>2, <1>12 DEF Close, Die, Leave, Places
<1>13. CASE CannotOpen(p) \/ CannotLock(p)
  BY <1>7, <1>13 DEF CannotOpen, CannotLock
<1> QED BY <1>5, <1>6, <1>8, <1>9, <1>10, <1>11, <1>12, <1>13 DEF Step

LEMMA WidesBoolean ==
  ASSUME NEW s, NEW h
  PROVE  Wides(s, h) \subseteq BOOLEAN
<1> DEFINE a == h.signature = 16
           b == h.bits62 > 32
<1>1. a \in BOOLEAN /\ b \in BOOLEAN
  OBVIOUS
<1>2. Wides(s, h) = IF ~Covered(s, h.bootblock) THEN BOOLEAN
                    ELSE IF h.signature \in {12, 16} THEN {a} ELSE {b}
  BY Zenon DEF Wides
<1> HIDE DEF a, b
<1> QED BY <1>1, <1>2, Zenon

LEMMA MountDblspaceFits ==
  ASSUME FitInv, NEW p \in Procs, MountDblspace(p)
  PROVE  StackerMeant(file)' /\ TablesFit'
<1> DEFINE s == sb[p]
           h == Header(p)
<1>1. /\ s \in SuperBlocks /\ pc[p] = "mount" /\ HostTyped(file) /\ ImageOf(s).kind = "dbl"
      /\ file' = file
  BY DEF MountDblspace, FitInv, IInv, TypedSearch, GoTo, ReturnNull
<1>2. h \in DblHeader
  <2>1. PlaceOf(s) \in DOMAIN file.images /\ ImageOf(s) = file.images[PlaceOf(s)]
    BY <1>1 DEF ImageOf, Other
  <2> QED BY <1>1, <2>1 DEF HostTyped, Header
<1>3. \/ ReturnNull(p)
      \/ \E wide \in Wides(s, h), end \in DblDataEnds(s) :
           GoTo(p, "mounted", [s EXCEPT !.vol = DblVolume(h, wide, end),
                                        !.ro = @ \/ ~KnownFormat(h)])
  BY Zenon DEF MountDblspace
<1>4. Wides(s, h) \subseteq BOOLEAN /\ DblDataEnds(s) \subseteq Int
  BY <1>1, WidesBoolean, DblDataEndsInt
<1>5. CASE ReturnNull(p)
  <2>1. /\ pc'[p] = "closed" /\ \A q \in Procs \ {p} : pc'[q] = pc[q] /\ sb'[q] = sb[q]
    BY <1>5 DEF ReturnNull, FitInv, IInv, TypedSearch
  <2>2. NoWriter(p)
    BY <2>1 DEF NoWriter
  <2> QED BY <1>1, <2>1, <2>2, FitOne
<1>6. ASSUME NEW wide \in BOOLEAN, NEW end \in Int,
             GoTo(p, "mounted", [s EXCEPT !.vol = DblVolume(h, wide, end),
                                          !.ro = @ \/ ~KnownFormat(h)])
      PROVE  StackerMeant(file)' /\ TablesFit'
  <2> DEFINE v == DblVolume(h, wide, end)
             known == KnownFormat(h)
             t == [s EXCEPT !.vol = v, !.ro = @ \/ ~known]
  <2>1. known => Fits(v)
    BY <1>2, DblFits
  <2>2. GoTo(p, "mounted", t) /\ s = sb[p]
    BY <1>6
  <2> HIDE DEF v, known, h, s
  <2>3. t.vol = v /\ (~known => t.ro)
    BY <1>1 DEF SuperBlocks
  <2> HIDE DEF t
  <2>4. /\ sb'[p] = t /\ \A q \in Procs \ {p} : pc'[q] = pc[q] /\ sb'[q] = sb[q]
    BY <2>2 DEF GoTo, FitInv, IInv, TypedSearch
  <2>5. NoWriter(p) \/ Fits(sb'[p].vol)
    BY <2>1, <2>3, <2>4 DEF NoWriter
  <2> QED BY <1>1, <2>4, <2>5, FitOne
<1> QED BY <1>3, <1>4, <1>5, <1>6

LEMMA MountStackerFits ==
  ASSUME FitInv, NEW p \in Procs, MountStacker(p)
  PROVE  StackerMeant(file)' /\ TablesFit'
<1> DEFINE s == sb[p]
           h == Header(p)
           v == StacVolume(s, h)
           guarded == StacReadOnly(s, h)
<1>1. /\ s \in SuperBlocks /\ pc[p] = "mount" /\ HostTyped(file) /\ ImageOf(s).kind = "stac"
      /\ file' = file
  BY DEF MountStacker, FitInv, IInv, TypedSearch, ReturnNull
<1>2. /\ PlaceOf(s) \in DOMAIN file.images /\ ImageOf(s) = file.images[PlaceOf(s)]
      /\ h = file.images[PlaceOf(s)].header
  BY <1>1 DEF ImageOf, Other, Header
<1>3. h \in StacHeader
  BY <1>1, <1>2 DEF HostTyped
<1>4. h.fats >= 1 /\ h.fatsize % 3 = 0 /\ ClustCnt(h) + 1 < 65527
  BY <1>1, <1>2 DEF FitInv, StackerMeant
<1>5. ~guarded => Fits(v)
  BY <1>1, <1>3, <1>4, StacFits
<1>6. \/ ReturnNull(p)
      \/ \E missed \in BOOLEAN :
           /\ sb' = [sb EXCEPT ![p] = [s EXCEPT !.vol = v, !.ro = @ \/ guarded,
                                                !.lost = @ \/ missed]]
           /\ pc' = [pc EXCEPT ![p] = "mounted"]
  BY Zenon DEF MountStacker, FailedReads
<1>7. CASE ReturnNull(p)
  <2>1. /\ pc'[p] = "closed" /\ \A q \in Procs \ {p} : pc'[q] = pc[q] /\ sb'[q] = sb[q]
    BY <1>7 DEF ReturnNull, FitInv, IInv, TypedSearch
  <2>2. NoWriter(p)
    BY <2>1 DEF NoWriter
  <2> QED BY <1>1, <2>1, <2>2, FitOne
<1>8. ASSUME NEW missed \in BOOLEAN,
             sb' = [sb EXCEPT ![p] = [s EXCEPT !.vol = v, !.ro = @ \/ guarded,
                                               !.lost = @ \/ missed]],
             pc' = [pc EXCEPT ![p] = "mounted"]
      PROVE  StackerMeant(file)' /\ TablesFit'
  <2> DEFINE t == [s EXCEPT !.vol = v, !.ro = @ \/ guarded, !.lost = @ \/ missed]
  <2>1. sb' = [sb EXCEPT ![p] = t]
    BY <1>8
  <2> HIDE DEF v, guarded, h
  <2>2. t.vol = v /\ (guarded => t.ro)
    <3> HIDE DEF s
    <3> QED BY <1>1 DEF SuperBlocks
  <2> HIDE DEF t
  <2>3. /\ sb'[p] = t /\ \A q \in Procs \ {p} : pc'[q] = pc[q] /\ sb'[q] = sb[q]
    BY <1>8, <2>1 DEF FitInv, IInv, TypedSearch
  <2>4. NoWriter(p) \/ Fits(sb'[p].vol)
    BY <1>5, <2>2, <2>3 DEF NoWriter
  <2> QED BY <1>1, <2>3, <2>4, FitOne
<1> QED BY <1>6, <1>7, <1>8

LEMMA FitInvKeeps ==
  ASSUME FitInv, [Next]_vars
  PROVE  FitInv'
<1>1. IInv'
  BY NextKeeps DEF FitInv
<1>2. CASE UNCHANGED vars
  <2>1. file' = file /\ pc' = pc /\ sb' = sb
    BY <1>2 DEF vars
  <2>2. CASE Procs = {}
    <3>1. StackerMeant(file)'
      BY <2>1 DEF FitInv, StackerMeant
    <3> QED BY <1>1, <2>2, <3>1 DEF FitInv, TablesFit
  <2>3. ASSUME NEW p \in Procs
        PROVE  StackerMeant(file)' /\ TablesFit'
    <3>1. NoWriter(p) \/ Fits(sb'[p].vol)
      <4>1. CASE Writes(p) /\ sb[p].vol # NoVolume
        BY <2>1, <4>1 DEF FitInv, TablesFit
      <4>2. CASE ~(Writes(p) /\ sb[p].vol # NoVolume)
        BY <2>1, <4>2 DEF NoWriter, Writes
      <4> QED BY <4>1, <4>2
    <3> QED BY <2>1, <3>1, FitOne
  <2> QED BY <1>1, <2>2, <2>3 DEF FitInv
<1>3. ASSUME Next
      PROVE  StackerMeant(file)' /\ TablesFit'
  <2>1. PICK p \in Procs :
          \/ \E w \in BOOLEAN, ext \in {""} \cup Extensions : Open(p, w, ext)
          \/ Step(p) \/ Close(p) \/ Die(p)
    BY <1>3 DEF Next
  <2> QED BY <2>1, NoMountFits, MountDblspaceFits, MountStackerFits
<1> QED BY <1>1, <1>2, <1>3 DEF FitInv

\* Whatever a header says: the entries of all clusters of a DoubleSpace or
\* DriveSpace volume that may be written are inside its FAT and MDFAT, and those
\* of a Stacker volume if its FAT is what StackerMeant says.
THEOREM TablesAlwaysFit ==
  ASSUME FilesTyped, FilesMeant
  PROVE  Spec => []TablesFit
<1>1. Init => FitInv
  <2> SUFFICES ASSUME Init
               PROVE  FitInv
    OBVIOUS
  <2>1. IInv /\ StackerMeant(file)
    BY InitKeeps DEF Init, FilesMeant
  <2>2. \A p \in Procs : ~Writes(p)
    BY DEF Init, Writes
  <2> QED BY <2>1, <2>2 DEF FitInv, TablesFit
<1>2. FitInv => TablesFit
  BY DEF FitInv
<1> QED BY <1>1, <1>2, FitInvKeeps, PTL DEF Spec

-----------------------------------------------------------------------------
(* The chain of the host and the lengths of its pieces.                    *)

LEMMA LessThanNat == \A x, y \in Nat : x < y => <<x, y>> \in OpToRel(<, Nat)
BY DEF OpToRel

LEMMA LeastNat ==
  ASSUME NEW S \in SUBSET Nat, S # {}
  PROVE  \E m \in S : \A y \in S : m <= y
<1>1. PICK m \in S : \A y \in S : ~(<<y, m>> \in OpToRel(<, Nat))
  BY NatLessThanWellFounded, WFMin
<1>2. \A y \in S : ~(y < m)
  BY <1>1, LessThanNat, Zenon
<1> QED BY <1>2, SMT

\* g is a walk of n steps along the FAT from cluster c on.
IsWalk(fat, c, n, g) ==
  g = [k \in 0 .. n |-> IF k = 0 THEN c
                        ELSE IF g[k - 1] \in HostClusters THEN fat[g[k - 1]] ELSE 0]

Stepwise(fat, c, n, g) ==
  /\ g[0] = c
  /\ \A k \in 1 .. n : g[k] = IF g[k - 1] \in HostClusters THEN fat[g[k - 1]] ELSE 0

LEMMA WalkSteps ==
  ASSUME NEW fat, NEW c, NEW n \in Nat, NEW g, IsWalk(fat, c, n, g)
  PROVE  Stepwise(fat, c, n, g)
<1> DEFINE h == [k \in 0 .. n |-> IF k = 0 THEN c
                        ELSE IF g[k - 1] \in HostClusters THEN fat[g[k - 1]] ELSE 0]
<1>1. g = h
  BY DEF IsWalk
<1>2. h[0] = c /\ \A k \in 1 .. n :
        h[k] = IF g[k - 1] \in HostClusters THEN fat[g[k - 1]] ELSE 0
  OBVIOUS
<1> HIDE DEF h
<1> QED BY <1>1, <1>2 DEF Stepwise

LEMMA WalkExists ==
  ASSUME NEW fat, NEW c
  PROVE  \A n \in Nat : \E g : IsWalk(fat, c, n, g)
<1> DEFINE bad == {n \in Nat : ~ \E g : IsWalk(fat, c, n, g)}
<1> SUFFICES ASSUME bad # {} PROVE FALSE
  OBVIOUS
<1>1. PICK m \in bad : \A y \in bad : m <= y
  <2> HIDE DEF bad
  <2>1. bad \in SUBSET Nat
    BY DEF bad
  <2> QED BY <2>1, LeastNat
<1>2. CASE m = 0
  <2> DEFINE g == [k \in 0 .. 0 |-> c]
  <2>1. g = [k \in 0 .. 0 |-> IF k = 0 THEN c
                  ELSE IF g[k - 1] \in HostClusters THEN fat[g[k - 1]] ELSE 0]
    OBVIOUS
  <2> HIDE DEF g
  <2>2. IsWalk(fat, c, 0, g)
    BY <2>1 DEF IsWalk
  <2> QED BY <1>1, <1>2, <2>2
<1>3. CASE m # 0
  <2>1. m \in Nat /\ m - 1 \in Nat /\ m - 1 \notin bad
    BY <1>1, <1>3
  <2>2. PICK g : IsWalk(fat, c, m - 1, g)
    BY <2>1
  <2> DEFINE h == [k \in 0 .. m |-> IF k = 0 THEN c
                     ELSE IF g[k - 1] \in HostClusters THEN fat[g[k - 1]] ELSE 0]
  <2>3. \A k \in 0 .. m - 1 : h[k] = g[k]
    <3>1. Stepwise(fat, c, m - 1, g)
      BY <2>1, <2>2, WalkSteps
    <3> QED BY <2>1, <3>1 DEF Stepwise
  <2>4. h = [k \in 0 .. m |-> IF k = 0 THEN c
                     ELSE IF h[k - 1] \in HostClusters THEN fat[h[k - 1]] ELSE 0]
    <3>1. \A k \in 0 .. m : k # 0 => h[k - 1] = g[k - 1]
      <4> HIDE DEF h
      <4>1. \A k \in 0 .. m : k # 0 => k - 1 \in 0 .. m - 1
        BY <2>1
      <4> QED BY <2>3, <4>1
    <3> DEFINE j == [k \in 0 .. m |-> IF k = 0 THEN c
                     ELSE IF h[k - 1] \in HostClusters THEN fat[h[k - 1]] ELSE 0]
    <3>2. \A k \in 0 .. m : h[k] = j[k]
      <4> TAKE k \in 0 .. m
      <4>1. CASE k = 0
        BY <4>1
      <4>2. CASE k # 0
        <5>1. h[k] = IF g[k - 1] \in HostClusters THEN fat[g[k - 1]] ELSE 0
          BY <4>2
        <5>2. j[k] = IF h[k - 1] \in HostClusters THEN fat[h[k - 1]] ELSE 0
          BY <4>2
        <5> HIDE DEF h, j
        <5> QED BY <3>1, <4>2, <5>1, <5>2
      <4> QED BY <4>1, <4>2
    <3> QED BY <3>2
  <2> HIDE DEF h
  <2>5. IsWalk(fat, c, m, h)
    BY <2>4 DEF IsWalk
  <2> QED BY <1>1, <2>5
<1> QED BY <1>2, <1>3

LEMMA WalksAgree ==
  ASSUME NEW fat, NEW c, NEW n \in Nat, NEW m \in Nat, NEW g, NEW h,
         IsWalk(fat, c, n, g), IsWalk(fat, c, m, h), NEW k \in Nat, k <= n, k <= m
  PROVE  g[k] = h[k]
<1> DEFINE bad == {i \in 0 .. k : g[i] # h[i]}
<1> SUFFICES ASSUME bad # {} PROVE FALSE
  OBVIOUS
<1>1. PICK i \in bad : \A y \in bad : i <= y
  <2>1. bad \in SUBSET Nat
    OBVIOUS
  <2> HIDE DEF bad
  <2> QED BY <2>1, LeastNat
<1>2. i \in 0 .. n /\ i \in 0 .. m /\ g[i] # h[i]
  BY <1>1
<1>0. Stepwise(fat, c, n, g) /\ Stepwise(fat, c, m, h)
  BY WalkSteps
<1>3. i # 0
  BY <1>0, <1>2 DEF Stepwise
<1>4. g[i - 1] = h[i - 1]
  <2>1. i - 1 \in 0 .. k /\ ~(i <= i - 1)
    BY <1>1, <1>3
  <2> QED BY <1>1, <2>1
<1>5. i \in 1 .. n /\ i \in 1 .. m
  BY <1>2, <1>3
<1> QED BY <1>0, <1>2, <1>4, <1>5 DEF Stepwise

\* Nth goes along the FAT, step by step.
LEMMA NthSteps ==
  ASSUME NEW fat, NEW c
  PROVE  /\ Nth(fat, c, 0) = c
         /\ \A n \in Nat : Nth(fat, c, n + 1) =
              IF Nth(fat, c, n) \in HostClusters THEN fat[Nth(fat, c, n)] ELSE 0
<1> DEFINE w(n) == CHOOSE g : IsWalk(fat, c, n, g)
<1>1. \A n \in Nat : IsWalk(fat, c, n, w(n)) /\ Nth(fat, c, n) = w(n)[n]
  <2> TAKE n \in Nat
  <2>1. \E g : IsWalk(fat, c, n, g)
    BY WalkExists
  <2>2. IsWalk(fat, c, n, w(n))
    BY <2>1
  <2>3. Nth(fat, c, n) = w(n)[n]
    BY DEF Nth, IsWalk
  <2> QED BY <2>2, <2>3
<1> HIDE DEF w
<1>2. w(0)[0] = c
  <2>1. Stepwise(fat, c, 0, w(0))
    BY <1>1, WalkSteps
  <2> QED BY <2>1 DEF Stepwise
<1>3. ASSUME NEW n \in Nat
      PROVE  w(n + 1)[n + 1] = IF w(n)[n] \in HostClusters THEN fat[w(n)[n]] ELSE 0
  <2>1. n + 1 \in Nat /\ n + 1 \in 1 .. n + 1 /\ (n + 1) - 1 = n /\ n <= n + 1 /\ n <= n
    OBVIOUS
  <2>2. w(n + 1)[n + 1] =
          IF w(n + 1)[n] \in HostClusters THEN fat[w(n + 1)[n]] ELSE 0
    <3>1. IsWalk(fat, c, n + 1, w(n + 1))
      BY <1>1, <2>1
    <3>2. Stepwise(fat, c, n + 1, w(n + 1))
      BY <2>1, <3>1, WalkSteps
    <3>3. \A k \in 1 .. n + 1 : w(n + 1)[k] =
             IF w(n + 1)[k - 1] \in HostClusters THEN fat[w(n + 1)[k - 1]] ELSE 0
      BY <3>2 DEF Stepwise
    <3> QED BY <2>1, <3>3
  <2>3. w(n + 1)[n] = w(n)[n]
    BY <1>1, <2>1, WalksAgree
  <2> QED BY <2>2, <2>3
<1> QED BY <1>1, <1>2, <1>3

\* g adds up the lengths of the first n fragments of f.
IsSum(f, n, g) ==
  g = [k \in 0 .. n |-> IF k = 0 THEN 0
                        ELSE g[k - 1] + f[k].len]

Adds(f, n, g) ==
  /\ g[0] = 0
  /\ \A k \in 1 .. n : g[k] = g[k - 1] + f[k].len

LEMMA SumSteps ==
  ASSUME NEW f, NEW n \in Nat, NEW g, IsSum(f, n, g)
  PROVE  Adds(f, n, g)
<1> DEFINE h == [k \in 0 .. n |-> IF k = 0 THEN 0
                        ELSE g[k - 1] + f[k].len]
<1>1. g = h
  BY DEF IsSum
<1>2. h[0] = 0 /\ \A k \in 1 .. n :
        h[k] = g[k - 1] + f[k].len
  OBVIOUS
<1> HIDE DEF h
<1> QED BY <1>1, <1>2 DEF Adds

LEMMA SumExists ==
  ASSUME NEW f
  PROVE  \A n \in Nat : \E g : IsSum(f, n, g)
<1> DEFINE bad == {n \in Nat : ~ \E g : IsSum(f, n, g)}
<1> SUFFICES ASSUME bad # {} PROVE FALSE
  OBVIOUS
<1>1. PICK m \in bad : \A y \in bad : m <= y
  <2> HIDE DEF bad
  <2>1. bad \in SUBSET Nat
    BY DEF bad
  <2> QED BY <2>1, LeastNat
<1>2. CASE m = 0
  <2> DEFINE g == [k \in 0 .. 0 |-> 0]
  <2>1. g = [k \in 0 .. 0 |-> IF k = 0 THEN 0
                  ELSE g[k - 1] + f[k].len]
    OBVIOUS
  <2> HIDE DEF g
  <2>2. IsSum(f, 0, g)
    BY <2>1 DEF IsSum
  <2> QED BY <1>1, <1>2, <2>2
<1>3. CASE m # 0
  <2>1. m \in Nat /\ m - 1 \in Nat /\ m - 1 \notin bad
    BY <1>1, <1>3
  <2>2. PICK g : IsSum(f, m - 1, g)
    BY <2>1
  <2> DEFINE h == [k \in 0 .. m |-> IF k = 0 THEN 0
                     ELSE g[k - 1] + f[k].len]
  <2>3. \A k \in 0 .. m - 1 : h[k] = g[k]
    <3>1. Adds(f, m - 1, g)
      BY <2>1, <2>2, SumSteps
    <3> QED BY <2>1, <3>1 DEF Adds
  <2>4. h = [k \in 0 .. m |-> IF k = 0 THEN 0
                     ELSE h[k - 1] + f[k].len]
    <3>1. \A k \in 0 .. m : k # 0 => h[k - 1] = g[k - 1]
      <4> HIDE DEF h
      <4>1. \A k \in 0 .. m : k # 0 => k - 1 \in 0 .. m - 1
        BY <2>1
      <4> QED BY <2>3, <4>1
    <3> DEFINE j == [k \in 0 .. m |-> IF k = 0 THEN 0
                     ELSE h[k - 1] + f[k].len]
    <3>2. \A k \in 0 .. m : h[k] = j[k]
      <4> TAKE k \in 0 .. m
      <4>1. CASE k = 0
        BY <4>1
      <4>2. CASE k # 0
        <5>1. h[k] = g[k - 1] + f[k].len
          BY <4>2
        <5>2. j[k] = h[k - 1] + f[k].len
          BY <4>2
        <5> HIDE DEF h, j
        <5> QED BY <3>1, <4>2, <5>1, <5>2
      <4> QED BY <4>1, <4>2
    <3> QED BY <3>2
  <2> HIDE DEF h
  <2>5. IsSum(f, m, h)
    BY <2>4 DEF IsSum
  <2> QED BY <1>1, <2>5
<1> QED BY <1>2, <1>3

LEMMA SumsAgree ==
  ASSUME NEW f, NEW n \in Nat, NEW m \in Nat, NEW g, NEW h,
         IsSum(f, n, g), IsSum(f, m, h), NEW k \in Nat, k <= n, k <= m
  PROVE  g[k] = h[k]
<1> DEFINE bad == {i \in 0 .. k : g[i] # h[i]}
<1> SUFFICES ASSUME bad # {} PROVE FALSE
  OBVIOUS
<1>1. PICK i \in bad : \A y \in bad : i <= y
  <2>1. bad \in SUBSET Nat
    OBVIOUS
  <2> HIDE DEF bad
  <2> QED BY <2>1, LeastNat
<1>2. i \in 0 .. n /\ i \in 0 .. m /\ g[i] # h[i]
  BY <1>1
<1>0. Adds(f, n, g) /\ Adds(f, m, h)
  BY SumSteps
<1>3. i # 0
  BY <1>0, <1>2 DEF Adds
<1>4. g[i - 1] = h[i - 1]
  <2>1. i - 1 \in 0 .. k /\ ~(i <= i - 1)
    BY <1>1, <1>3
  <2> QED BY <1>1, <2>1
<1>5. i \in 1 .. n /\ i \in 1 .. m
  BY <1>2, <1>3
<1> QED BY <1>0, <1>2, <1>4, <1>5 DEF Adds

\* Before adds them up, fragment by fragment.
LEMMA BeforeSteps ==
  ASSUME NEW f
  PROVE  /\ Before(f, 1) = 0
         /\ \A i \in Nat \ {0} : Before(f, i + 1) = Before(f, i) + f[i].len
<1> DEFINE w(n) == CHOOSE g : IsSum(f, n, g)
<1>0. \A n \in Nat : IsSum(f, n, w(n))
  <2> TAKE n \in Nat
  <2>1. \E g : IsSum(f, n, g)
    BY SumExists
  <2> QED BY <2>1
<1>1. \A i \in Nat \ {0} : Before(f, i) = w(i - 1)[i - 1]
  BY DEF Before, IsSum
<1> HIDE DEF w
<1>2. w(0)[0] = 0
  <2>1. Adds(f, 0, w(0))
    BY <1>0, SumSteps
  <2> QED BY <2>1 DEF Adds
<1>3. ASSUME NEW n \in Nat
      PROVE  w(n + 1)[n + 1] = w(n)[n] + f[n + 1].len
  <2>1. n + 1 \in Nat /\ n + 1 \in 1 .. n + 1 /\ (n + 1) - 1 = n /\ n <= n + 1 /\ n <= n
    OBVIOUS
  <2>2. Adds(f, n + 1, w(n + 1))
    BY <1>0, <2>1, SumSteps
  <2>3. \A k \in 1 .. n + 1 : w(n + 1)[k] = w(n + 1)[k - 1] + f[k].len
    BY <2>2 DEF Adds
  <2>4. w(n + 1)[n] = w(n)[n]
    BY <1>0, <2>1, SumsAgree
  <2> QED BY <2>1, <2>3, <2>4
<1>4. ASSUME NEW i \in Nat \ {0}
      PROVE  Before(f, i + 1) = Before(f, i) + f[i].len
  <2>1. i - 1 \in Nat /\ i + 1 \in Nat \ {0} /\ (i - 1) + 1 = i /\ (i + 1) - 1 = i
    OBVIOUS
  <2>2. w(i)[i] = w(i - 1)[i - 1] + f[i].len
    BY <1>3, <2>1
  <2> QED BY <1>1, <2>1, <2>2
<1> QED BY <1>1, <1>2, <1>4

-----------------------------------------------------------------------------
(* A list of fragments and the chain it stands for.                        *)

LEMMA UpTo ==
  ASSUME NEW n \in Nat, NEW S, 1 \in S, \A i \in 1 .. n - 1 : i \in S => i + 1 \in S
  PROVE  \A i \in 1 .. n : i \in S
<1> DEFINE bad == {i \in 1 .. n : i \notin S}
<1> SUFFICES ASSUME bad # {} PROVE FALSE
  OBVIOUS
<1>1. PICK i \in bad : \A y \in bad : i <= y
  <2>1. bad \in SUBSET Nat
    OBVIOUS
  <2> HIDE DEF bad
  <2> QED BY <2>1, LeastNat
<1>2. i \in 1 .. n /\ i \notin S /\ i # 1
  BY <1>1
<1>3. i - 1 \in S
  <2>1. i - 1 \in 1 .. n /\ ~(i <= i - 1)
    BY <1>2
  <2> QED BY <1>1, <2>1
<1>4. i - 1 \in 1 .. n - 1 /\ (i - 1) + 1 = i
  BY <1>2
<1> QED BY <1>2, <1>3, <1>4

LEMMA FragmentsAre ==
  ASSUME NEW f \in FragmentLists
  PROVE  /\ Len(f) \in Nat /\ DOMAIN f = 1 .. Len(f)
         /\ \A i \in 1 .. Len(f) : f[i].first \in Int /\ f[i].len \in Nat \ {0}
<1>1. Len(f) \in Nat /\ f \in [1 .. Len(f) -> Fragment] /\ DOMAIN f = 1 .. Len(f)
  BY LenProperties DEF FragmentLists
<1>2. \A i \in 1 .. Len(f) : f[i] \in Fragment
  BY <1>1
<1> QED BY <1>1, <1>2 DEF Fragment

LEMMA BeforeNat ==
  ASSUME NEW f \in FragmentLists
  PROVE  \A i \in 1 .. Len(f) + 1 : Before(f, i) \in Nat
<1> DEFINE S == {i \in Nat \ {0} : Before(f, i) \in Nat}
<1>1. 1 \in S
  BY BeforeSteps
<1>2. Len(f) + 1 \in Nat /\ Len(f) \in Nat
  BY FragmentsAre
<1>3. \A i \in 1 .. (Len(f) + 1) - 1 : i \in S => i + 1 \in S
  <2> SUFFICES ASSUME NEW i \in 1 .. Len(f), i \in S
               PROVE  i + 1 \in S
    BY <1>2
  <2>1. i \in Nat \ {0} /\ i + 1 \in Nat \ {0} /\ f[i].len \in Nat
    BY <1>2, FragmentsAre
  <2>2. Before(f, i + 1) = Before(f, i) + f[i].len
    BY <2>1, BeforeSteps
  <2> QED BY <2>1, <2>2
<1> HIDE DEF S
<1>4. \A i \in 1 .. Len(f) + 1 : i \in S
  BY <1>1, <1>2, <1>3, UpTo
<1> QED BY <1>4 DEF S

LEMMA BeforeSame ==
  ASSUME NEW f, NEW h, NEW n \in Nat, \A j \in 1 .. n - 1 : f[j].len = h[j].len
  PROVE  \A i \in 1 .. n : Before(f, i) = Before(h, i)
<1> DEFINE S == {i \in Nat : Before(f, i) = Before(h, i)}
<1>1. 1 \in S
  BY BeforeSteps
<1>2. \A i \in 1 .. n - 1 : i \in S => i + 1 \in S
  <2> SUFFICES ASSUME NEW i \in 1 .. n - 1, i \in S
               PROVE  i + 1 \in S
    OBVIOUS
  <2>1. i \in Nat \ {0} /\ i + 1 \in Nat /\ f[i].len = h[i].len
    OBVIOUS
  <2>2. Before(f, i + 1) = Before(f, i) + f[i].len /\ Before(h, i + 1) = Before(h, i) + h[i].len
    BY <2>1, BeforeSteps
  <2> QED BY <2>1, <2>2
<1> HIDE DEF S
<1>3. \A i \in 1 .. n : i \in S
  BY <1>1, <1>2, UpTo
<1> QED BY <1>3 DEF S

LEMMA Distributes == \A a, b, c \in Int : (a + b) * c = a * c + b * c
OBVIOUS

LEMMA SectorsAre ==
  ASSUME NEW f \in FragmentLists
  PROVE  /\ InSectors(f) \in FragmentLists /\ Len(InSectors(f)) = Len(f)
         /\ \A i \in 1 .. Len(f) :
              /\ InSectors(f)[i].first = DosCluster2Sector(f[i].first)
              /\ InSectors(f)[i].len = f[i].len * ClusterSize
         /\ \A i \in 1 .. Len(f) + 1 : Before(InSectors(f), i) = Before(f, i) * ClusterSize
<1> DEFINE g == InSectors(f)
           S == {i \in Nat : Before(g, i) = Before(f, i) * ClusterSize}
<1>1. g \in FragmentLists /\ Len(g) = Len(f)
  BY ListInSectors
<1>2. \A i \in 1 .. Len(f) : /\ g[i].first = DosCluster2Sector(f[i].first)
                             /\ g[i].len = f[i].len * ClusterSize
  BY FragmentsAre DEF InSectors
<1>3. Len(f) \in Nat /\ Len(f) + 1 \in Nat
  BY FragmentsAre
<1> HIDE DEF g
<1>4. 1 \in S
  <2>1. Before(g, 1) = 0 /\ Before(f, 1) = 0
    BY BeforeSteps
  <2> QED BY <2>1, Bounds
<1>5. \A i \in 1 .. (Len(f) + 1) - 1 : i \in S => i + 1 \in S
  <2> SUFFICES ASSUME NEW i \in 1 .. Len(f), i \in S
               PROVE  i + 1 \in S
    BY <1>3
  <2>1. /\ i \in Nat \ {0} /\ i + 1 \in Nat /\ i \in 1 .. Len(f) + 1
        /\ f[i].len \in Int /\ ClusterSize \in Int
    BY <1>3, FragmentsAre, Bounds
  <2>2. Before(f, i + 1) = Before(f, i) + f[i].len /\ Before(g, i + 1) = Before(g, i) + g[i].len
    BY <2>1, BeforeSteps
  <2>3. Before(f, i) \in Int
    BY <2>1, BeforeNat
  <2>4. (Before(f, i) + f[i].len) * ClusterSize = Before(f, i) * ClusterSize + f[i].len * ClusterSize
    BY <2>1, <2>3, Distributes
  <2>5. Before(g, i) = Before(f, i) * ClusterSize
    OBVIOUS
  <2> QED BY <1>2, <2>1, <2>2, <2>4, <2>5
<1> HIDE DEF S
<1>6. \A i \in 1 .. Len(f) + 1 : i \in S
  BY <1>3, <1>4, <1>5, UpTo
<1>7. \A i \in 1 .. Len(f) + 1 : Before(g, i) = Before(f, i) * ClusterSize
  BY <1>6 DEF S
<1> QED BY <1>1, <1>2, <1>7 DEF g

\* Where the list ends, in clusters.
EndOf(f) == Before(f, Len(f)) + f[Len(f)].len

LEMMA EndIs ==
  ASSUME NEW f \in FragmentLists, Len(f) >= 1
  PROVE  /\ Len(f) \in Nat \ {0} /\ EndOf(f) = Before(f, Len(f) + 1)
         /\ Before(f, Len(f)) \in Nat /\ f[Len(f)].len \in Nat \ {0}
         /\ f[Len(f)].first \in Int /\ EndOf(f) \in Nat \ {0}
<1>1. Len(f) \in Nat \ {0} /\ Len(f) \in 1 .. Len(f) /\ Len(f) \in 1 .. Len(f) + 1
  BY FragmentsAre
<1>2. Before(f, Len(f) + 1) = Before(f, Len(f)) + f[Len(f)].len
  BY <1>1, BeforeSteps
<1> QED BY <1>1, <1>2, FragmentsAre, BeforeNat DEF EndOf

\* The last fragment with one cluster more.
LEMMA GrownIs ==
  ASSUME NEW f \in FragmentLists, Len(f) >= 1
  PROVE  LET g == Grown(f)  l == Len(f)
         IN  /\ g \in FragmentLists /\ Len(g) = l
             /\ \A i \in 1 .. l : g[i].first = f[i].first /\ Before(g, i) = Before(f, i)
             /\ \A i \in 1 .. l - 1 : g[i].len = f[i].len
             /\ g[l].len = f[l].len + 1 /\ EndOf(g) = EndOf(f) + 1
<1> DEFINE g == Grown(f)
           l == Len(f)
<1>1. g \in FragmentLists /\ Len(g) = l
  BY GrownList
<1>2. l \in Nat \ {0} /\ f \in [1 .. l -> Fragment]
  BY LenProperties, FragmentsAre DEF FragmentLists
<1>3. /\ \A i \in 1 .. l - 1 : g[i] = f[i]
      /\ g[l] = [f[l] EXCEPT !.len = f[l].len + 1] /\ f[l] \in Fragment
  BY <1>2 DEF Grown
<1> HIDE DEF g, l
<1>4. g[l].first = f[l].first /\ g[l].len = f[l].len + 1
  BY <1>3 DEF Fragment
<1>5. \A i \in 1 .. l : Before(g, i) = Before(f, i)
  <2>1. \A j \in 1 .. l - 1 : g[j].len = f[j].len
    BY <1>3
  <2> QED BY <1>2, <2>1, BeforeSame
<1>6. \A i \in 1 .. l : g[i].first = f[i].first
  <2> TAKE i \in 1 .. l
  <2>1. i = l \/ i \in 1 .. l - 1
    BY <1>2
  <2> QED BY <1>3, <1>4, <2>1
<1>7. EndOf(g) = EndOf(f) + 1
  <2>1. l \in 1 .. l
    BY <1>2
  <2>2. EndOf(g) = Before(g, l) + g[l].len /\ EndOf(f) = Before(f, l) + f[l].len
    BY <1>1 DEF EndOf, l
  <2>3. Before(f, l) \in Nat /\ f[l].len \in Nat
    BY EndIs DEF l
  <2> QED BY <1>4, <1>5, <2>1, <2>2, <2>3
<1> QED BY <1>1, <1>3, <1>4, <1>5, <1>6, <1>7 DEF g, l

\* One fragment more, of one cluster.
LEMMA BegunIs ==
  ASSUME NEW f \in FragmentLists, NEW c \in Int
  PROVE  LET g == Begun(f, c)  l == Len(f)
         IN  /\ g \in FragmentLists /\ Len(g) = l + 1
             /\ \A i \in 1 .. l : g[i] = f[i]
             /\ g[l + 1] = [first |-> c, len |-> 1]
             /\ \A i \in 1 .. l + 1 : Before(g, i) = Before(f, i)
             /\ EndOf(g) = Before(f, l + 1) + 1
<1> DEFINE g == Begun(f, c)
           l == Len(f)
           e == [first |-> c, len |-> 1]
<1>1. g \in FragmentLists /\ Len(g) = l + 1
  BY BegunList
<1>2. l \in Nat /\ f \in Seq(Fragment) /\ e \in Fragment
  BY FragmentsAre DEF FragmentLists, Fragment
<1>3. (\A i \in 1 .. l : g[i] = f[i]) /\ g[l + 1] = e
  <2> HIDE DEF e
  <2>1. g = Append(f, e)
    BY DEF Begun, e
  <2> QED BY <1>2, <2>1, AppendProperties
<1> HIDE DEF g
<1>4. \A i \in 1 .. l + 1 : Before(g, i) = Before(f, i)
  <2>1. \A j \in 1 .. (l + 1) - 1 : g[j].len = f[j].len
    BY <1>2, <1>3
  <2>2. l + 1 \in Nat
    BY <1>2
  <2> HIDE DEF l
  <2> QED BY <2>1, <2>2, BeforeSame
<1>5. EndOf(g) = Before(f, l + 1) + 1
  <2>1. EndOf(g) = Before(g, l + 1) + g[l + 1].len /\ l + 1 \in 1 .. l + 1
    BY <1>1, <1>2 DEF EndOf
  <2> HIDE DEF l
  <2> QED BY <1>3, <1>4, <2>1
<1> QED BY <1>1, <1>3, <1>4, <1>5 DEF g

-----------------------------------------------------------------------------
(* The list describes the chain as far as it has been followed.            *)

Typed(fat) == fat \in [HostClusters -> Int]
Size == Cardinality(HostClusters)

\* What the list f says of the chain from c on: its pieces are those of the
\* chain, a new one begins where the chain breaks, and all but the last one lie
\* within the host.
Trace(fat, c, f) ==
  /\ f \in FragmentLists /\ Len(f) >= 1
  /\ \A i \in 1 .. Len(f) : \A j \in 0 .. f[i].len - 1 :
       Nth(fat, c, Before(f, i) + j) = f[i].first + j
  /\ \A k \in 0 .. EndOf(f) - 2 : Nth(fat, c, k) \in HostClusters
  /\ Cardinality(Breaks(fat, c, 0 .. EndOf(f) - 2)) = Len(f) - 1
  /\ Before(f, Len(f)) <= (Len(f) - 1) * Size

\* The cluster it has come to.
Last(fat, c, f) == Nth(fat, c, EndOf(f) - 1)

LEMMA HostIs ==
  /\ IsFiniteSet(HostClusters) /\ Size \in Nat /\ HostClusters \subseteq Nat
  /\ \A d \in HostClusters : d \in Int /\ d >= 2
<1>1. /\ IsFiniteSet(HostClusters) /\ HostClusters \subseteq Nat
      /\ \A d \in HostClusters : d >= 2
  BY OpenAssumption DEF OpenAssumption
<1>2. Cardinality(HostClusters) \in Nat
  BY <1>1, FS_CardinalityType
<1> QED BY <1>1, <1>2 DEF Size

LEMMA TraceBegins ==
  ASSUME NEW fat, NEW c \in Int
  PROVE  Trace(fat, c, Begun(<<>>, c)) /\ Last(fat, c, Begun(<<>>, c)) = c
<1> DEFINE e == <<>>
           g == Begun(e, c)
<1>1. e \in FragmentLists /\ Len(e) = 0
  BY EmptySeq DEF FragmentLists
<1> HIDE DEF e
<1>2. /\ g \in FragmentLists /\ Len(g) = 1 /\ g[1] = [first |-> c, len |-> 1]
      /\ Before(g, 1) = 0 /\ EndOf(g) = 1
  <2>1. /\ g \in FragmentLists /\ Len(g) = Len(e) + 1
        /\ g[Len(e) + 1] = [first |-> c, len |-> 1]
        /\ EndOf(g) = Before(e, Len(e) + 1) + 1
    BY <1>1, BegunIs
  <2>2. Before(g, 1) = 0 /\ Before(e, 1) = 0
    BY BeforeSteps
  <2> QED BY <1>1, <2>1, <2>2
<1> HIDE DEF g
<1>3. Nth(fat, c, 0) = c
  BY NthSteps
<1>4. \A i \in 1 .. Len(g) : \A j \in 0 .. g[i].len - 1 :
        Nth(fat, c, Before(g, i) + j) = g[i].first + j
  <2>1. \A i \in 1 .. Len(g) : i = 1
    BY <1>2
  <2>2. g[1].len = 1 /\ g[1].first = c /\ \A j \in 0 .. g[1].len - 1 : j = 0
    BY <1>2
  <2>3. Before(g, 1) + 0 = 0 /\ c + 0 = c
    BY <1>2
  <2> QED BY <1>3, <2>1, <2>2, <2>3
<1>5. Cardinality(Breaks(fat, c, 0 .. EndOf(g) - 2)) = Len(g) - 1
  <2>1. 0 .. EndOf(g) - 2 = {}
    BY <1>2
  <2>2. Breaks(fat, c, {}) = {}
    BY DEF Breaks
  <2> QED BY <1>2, <2>1, <2>2, FS_EmptySet
<1>6. Before(g, Len(g)) <= (Len(g) - 1) * Size
  BY <1>2, HostIs
<1>7. \A k \in 0 .. EndOf(g) - 2 : Nth(fat, c, k) \in HostClusters
  BY <1>2
<1>8. Trace(fat, c, g)
  BY <1>2, <1>4, <1>5, <1>6, <1>7 DEF Trace
<1>9. Last(fat, c, g) = c
  BY <1>2, <1>3 DEF Last
<1> QED BY <1>8, <1>9 DEF g, e

\* The next cluster of a chain that has not left the host.
LEMMA NextOfTrace ==
  ASSUME NEW fat, NEW c \in Int, NEW f, Trace(fat, c, f), Last(fat, c, f) \in HostClusters
  PROVE  /\ EndOf(f) \in Nat \ {0}
         /\ Nth(fat, c, EndOf(f)) = fat[Last(fat, c, f)]
         /\ \A k \in 0 .. EndOf(f) - 1 : Nth(fat, c, k) \in HostClusters
         /\ Last(fat, c, f) = f[Len(f)].first + f[Len(f)].len - 1
<1>1. /\ Len(f) \in Nat \ {0} /\ EndOf(f) \in Nat \ {0} /\ Before(f, Len(f)) \in Nat
      /\ f[Len(f)].len \in Nat \ {0} /\ f[Len(f)].first \in Int
  BY EndIs DEF Trace
<1>2. EndOf(f) - 1 \in Nat /\ (EndOf(f) - 1) + 1 = EndOf(f)
  BY <1>1
<1>3. Nth(fat, c, EndOf(f)) = fat[Last(fat, c, f)]
  <2>1. Nth(fat, c, (EndOf(f) - 1) + 1) =
          IF Nth(fat, c, EndOf(f) - 1) \in HostClusters THEN fat[Nth(fat, c, EndOf(f) - 1)] ELSE 0
    BY <1>2, NthSteps
  <2> QED BY <1>2, <2>1 DEF Last
<1>4. \A k \in 0 .. EndOf(f) - 1 : k \in 0 .. EndOf(f) - 2 \/ k = EndOf(f) - 1
  BY <1>1
<1>5. \A k \in 0 .. EndOf(f) - 1 : Nth(fat, c, k) \in HostClusters
  BY <1>4 DEF Trace, Last
<1>6. Last(fat, c, f) = f[Len(f)].first + f[Len(f)].len - 1
  <2> DEFINE i == Len(f)
             j == f[i].len - 1
  <2>1. i \in 1 .. Len(f) /\ j \in 0 .. f[i].len - 1
    BY <1>1
  <2>2. Nth(fat, c, Before(f, i) + j) = f[i].first + j
    BY <2>1 DEF Trace
  <2>3. Before(f, i) + j = EndOf(f) - 1 /\ f[i].first + j = f[i].first + f[i].len - 1
    BY <1>1 DEF EndOf
  <2> QED BY <2>2, <2>3 DEF Last
<1> QED BY <1>1, <1>3, <1>5, <1>6

LEMMA TraceGrows ==
  ASSUME NEW fat, NEW c \in Int, NEW f, Trace(fat, c, f),
         Last(fat, c, f) \in HostClusters, fat[Last(fat, c, f)] = Last(fat, c, f) + 1
  PROVE  Trace(fat, c, Grown(f)) /\ Last(fat, c, Grown(f)) = Last(fat, c, f) + 1
<1> DEFINE g == Grown(f)
           l == Len(f)
           e == EndOf(f)
           d == Last(fat, c, f)
<1>1. /\ f \in FragmentLists /\ l \in Nat \ {0} /\ e \in Nat \ {0}
      /\ f[l].len \in Nat \ {0} /\ f[l].first \in Int /\ Before(f, l) \in Nat
  BY EndIs DEF Trace
<1>2. /\ g \in FragmentLists /\ Len(g) = l
      /\ \A i \in 1 .. l : g[i].first = f[i].first /\ Before(g, i) = Before(f, i)
      /\ \A i \in 1 .. l - 1 : g[i].len = f[i].len
      /\ g[l].len = f[l].len + 1 /\ EndOf(g) = e + 1
  BY <1>1, GrownIs
<1>3. /\ Nth(fat, c, e) = d + 1 /\ d = f[l].first + f[l].len - 1 /\ d \in Int
      /\ \A k \in 0 .. e - 1 : Nth(fat, c, k) \in HostClusters
  BY NextOfTrace, HostIs
<1>4. EndOf(f) = Before(f, l) + f[l].len /\ Nth(fat, c, e - 1) = d
  BY DEF EndOf, Last
<1>5. /\ \A i \in 1 .. l : \A j \in 0 .. f[i].len - 1 :
           Nth(fat, c, Before(f, i) + j) = f[i].first + j
      /\ Cardinality(Breaks(fat, c, 0 .. e - 2)) = l - 1
      /\ Before(f, l) <= (l - 1) * Size
  BY DEF Trace
<1> HIDE DEF g, l, e, d
<1>6. \A i \in 1 .. l : \A j \in 0 .. g[i].len - 1 :
        Nth(fat, c, Before(g, i) + j) = g[i].first + j
  <2> TAKE i \in 1 .. l
  <2> TAKE j \in 0 .. g[i].len - 1
  <2>1. CASE i # l \/ j < f[l].len
    <3>1. j \in 0 .. f[i].len - 1
      BY <1>1, <1>2, <2>1
    <3> QED BY <1>2, <1>5, <3>1
  <2>2. CASE i = l /\ ~(j < f[l].len)
    <3>1. j = f[l].len
      BY <1>1, <1>2, <2>2
    <3>2. e = Before(f, l) + f[l].len
      BY <1>4 DEF e
    <3>3. Before(g, l) = Before(f, l) /\ g[l].first = f[l].first
      BY <1>1, <1>2
    <3>4. Before(g, i) + j = e /\ g[i].first + j = d + 1
      BY <1>1, <1>3, <2>2, <3>1, <3>2, <3>3
    <3> QED BY <1>3, <3>4
  <2> QED BY <2>1, <2>2
<1>7. Breaks(fat, c, 0 .. EndOf(g) - 2) = Breaks(fat, c, 0 .. e - 2)
  <2>1. \A n \in 0 .. EndOf(g) - 2 : n \in 0 .. e - 2 \/ n = e - 1
    BY <1>1, <1>2
  <2>2. 0 .. e - 2 \subseteq 0 .. EndOf(g) - 2 /\ (e - 1) + 1 = e
    BY <1>1, <1>2
  <2>3. e - 1 \notin Breaks(fat, c, 0 .. EndOf(g) - 2)
    BY <1>3, <1>4, <2>2 DEF Breaks
  <2> QED BY <2>1, <2>2, <2>3 DEF Breaks
<1>8. Before(g, l) = Before(f, l) /\ EndOf(g) - 2 = e - 1 /\ EndOf(g) - 1 = e
  BY <1>1, <1>2
<1>9. Trace(fat, c, g)
  BY <1>1, <1>2, <1>3, <1>5, <1>6, <1>7, <1>8 DEF Trace
<1>10. Last(fat, c, g) = d + 1
  BY <1>3, <1>8 DEF Last
<1> QED BY <1>9, <1>10 DEF g, d

\* The chain goes on elsewhere: that is one break more.
LEMMA BreakIs ==
  ASSUME NEW fat, NEW c \in Int, NEW f, Trace(fat, c, f),
         Last(fat, c, f) \in HostClusters, fat[Last(fat, c, f)] \in Int,
         fat[Last(fat, c, f)] > 0, fat[Last(fat, c, f)] # Last(fat, c, f) + 1
  PROVE  /\ Cardinality(Breaks(fat, c, 0 .. EndOf(f) - 1)) = Len(f)
         /\ EndOf(f) <= Len(f) * Size
<1> DEFINE l == Len(f)
           e == EndOf(f)
           d == Last(fat, c, f)
           old == Breaks(fat, c, 0 .. e - 2)
           new == Breaks(fat, c, 0 .. e - 1)
<1>1. /\ f \in FragmentLists /\ l \in Nat \ {0} /\ e \in Nat \ {0}
      /\ f[l].len \in Nat \ {0} /\ f[l].first \in Int /\ Before(f, l) \in Nat
  BY EndIs DEF Trace
<1>2. /\ Nth(fat, c, e) = fat[d] /\ d = f[l].first + f[l].len - 1
      /\ \A k \in 0 .. e - 1 : Nth(fat, c, k) \in HostClusters
  BY NextOfTrace
<1>3. EndOf(f) = Before(f, l) + f[l].len /\ Nth(fat, c, e - 1) = d
  BY DEF EndOf, Last
<1>4. /\ \A j \in 0 .. f[l].len - 1 : Nth(fat, c, Before(f, l) + j) = f[l].first + j
      /\ Cardinality(old) = l - 1 /\ Before(f, l) <= (l - 1) * Size
  <2>1. l \in 1 .. Len(f)
    BY <1>1
  <2> QED BY <2>1 DEF Trace
<1>5. Cardinality(new) = l
  <2>1. new = old \cup {e - 1} /\ e - 1 \notin old
    <3> HIDE DEF l, e, d
    <3>1. \A n \in 0 .. e - 1 : n \in 0 .. e - 2 \/ n = e - 1
      BY <1>1
    <3>2. 0 .. e - 2 \subseteq 0 .. e - 1 /\ (e - 1) + 1 = e /\ e - 1 \in 0 .. e - 1
          /\ e - 1 \notin 0 .. e - 2
      BY <1>1
    <3>3. e - 1 \in new
      BY <1>2, <1>3, <3>2 DEF Breaks, d
    <3> QED BY <3>1, <3>2, <3>3 DEF Breaks
  <2>2. IsFiniteSet(old)
    <3>0. 0 \in Int /\ e - 2 \in Int
      BY <1>1
    <3>1. IsFiniteSet(0 .. e - 2) /\ old \subseteq 0 .. e - 2
      BY <3>0, FS_Interval DEF Breaks
    <3> QED BY <3>1, FS_Subset
  <2> HIDE DEF new, old
  <2>3. Cardinality(old \cup {e - 1}) = Cardinality(old) + 1
    BY <2>1, <2>2, FS_AddElement
  <2> QED BY <1>1, <1>4, <2>1, <2>3
<1>6. f[l].len <= Size
  <2> DEFINE a == f[l].first
             b == f[l].first + f[l].len - 1
  <2>1. a .. b \subseteq HostClusters
    <3> SUFFICES ASSUME NEW x \in a .. b PROVE x \in HostClusters
      OBVIOUS
    <3> DEFINE j == x - a
    <3>1. j \in 0 .. f[l].len - 1 /\ f[l].first + j = x
      BY <1>1
    <3>2. Before(f, l) + j \in 0 .. e - 1
      <4> HIDE DEF e, l, j
      <4> QED BY <1>1, <1>3, <3>1 DEF e
    <3>3. Nth(fat, c, Before(f, l) + j) = x
      BY <1>4, <3>1
    <3> QED BY <1>2, <3>2, <3>3
  <2>2. Cardinality(a .. b) = f[l].len
    <3>1. a \in Int /\ b \in Int /\ a <= b /\ b - a + 1 = f[l].len
      BY <1>1
    <3> HIDE DEF a, b
    <3> QED BY <3>1, FS_Interval
  <2>3. Cardinality(a .. b) <= Cardinality(HostClusters)
    BY <2>1, HostIs, FS_Subset
  <2> QED BY <2>2, <2>3 DEF Size
<1>7. e <= l * Size
  <2> HIDE DEF l
  <2>1. (l - 1) * Size + Size = l * Size
    <3>1. l - 1 \in Int /\ 1 \in Int /\ Size \in Int /\ (l - 1) + 1 = l
      BY <1>1, HostIs
    <3>2. ((l - 1) + 1) * Size = (l - 1) * Size + 1 * Size
      BY <3>1, Distributes
    <3> QED BY <3>1, <3>2
  <2>2. (l - 1) * Size \in Int
    <3>1. l - 1 \in Int /\ Size \in Int
      BY <1>1, HostIs
    <3> QED BY <3>1
  <2> DEFINE x == (l - 1) * Size
  <2> HIDE DEF x
  <2> QED BY <1>1, <1>3, <1>4, <1>6, <2>1, <2>2, HostIs DEF x, e
<1> QED BY <1>5, <1>7

LEMMA TraceBreaks ==
  ASSUME NEW fat, NEW c \in Int, NEW f, Trace(fat, c, f),
         Last(fat, c, f) \in HostClusters, NEW next \in Int, next = fat[Last(fat, c, f)],
         next > 0, next # Last(fat, c, f) + 1
  PROVE  Trace(fat, c, Begun(f, next)) /\ Last(fat, c, Begun(f, next)) = next
<1> DEFINE g == Begun(f, next)
           l == Len(f)
           e == EndOf(f)
<1>1. f \in FragmentLists /\ l \in Nat \ {0} /\ e \in Nat \ {0} /\ e = Before(f, l + 1)
  BY EndIs DEF Trace
<1>2. /\ g \in FragmentLists /\ Len(g) = l + 1
      /\ \A i \in 1 .. l : g[i] = f[i]
      /\ g[l + 1] = [first |-> next, len |-> 1]
      /\ \A i \in 1 .. l + 1 : Before(g, i) = Before(f, i)
      /\ EndOf(g) = e + 1
  BY <1>1, BegunIs
<1>3. Nth(fat, c, e) = next /\ \A k \in 0 .. e - 1 : Nth(fat, c, k) \in HostClusters
  BY NextOfTrace
<1>4. Cardinality(Breaks(fat, c, 0 .. e - 1)) = l /\ e <= l * Size
  BY BreakIs
<1>5. \A i \in 1 .. l : \A j \in 0 .. f[i].len - 1 : Nth(fat, c, Before(f, i) + j) = f[i].first + j
  BY DEF Trace
<1> HIDE DEF g, l, e
<1>6. \A i \in 1 .. l + 1 : \A j \in 0 .. g[i].len - 1 :
        Nth(fat, c, Before(g, i) + j) = g[i].first + j
  <2> TAKE i \in 1 .. l + 1
  <2> TAKE j \in 0 .. g[i].len - 1
  <2>1. CASE i \in 1 .. l
    BY <1>1, <1>2, <1>5, <2>1
  <2>2. CASE i = l + 1
    <3>1. g[i].len = 1 /\ g[i].first = next /\ Before(g, i) = e
      BY <1>1, <1>2, <2>2
    <3>2. j = 0
      BY <3>1
    <3> QED BY <1>1, <1>3, <3>1, <3>2
  <2> QED BY <1>1, <2>1, <2>2
<1>7. /\ EndOf(g) - 2 = e - 1 /\ EndOf(g) - 1 = e /\ Len(g) >= 1 /\ Len(g) - 1 = l
      /\ Before(g, Len(g)) = e
  BY <1>1, <1>2
<1>8. Trace(fat, c, g)
  BY <1>2, <1>3, <1>4, <1>6, <1>7 DEF Trace
<1>9. Last(fat, c, g) = next
  BY <1>3, <1>7 DEF Last
<1> QED BY <1>8, <1>9 DEF g

\* A list that has no room for another break: there are too many in the chain,
\* and they are among the steps Fragments looks at.
LEMMA TraceTooLong ==
  ASSUME NEW fat, NEW c \in Int, NEW f, Trace(fat, c, f), Len(f) = MaxFragment,
         Last(fat, c, f) \in HostClusters, fat[Last(fat, c, f)] \in Int,
         fat[Last(fat, c, f)] > 0, fat[Last(fat, c, f)] # Last(fat, c, f) + 1
  PROVE  Fragments(fat, c) > MaxFragment
<1> DEFINE e == EndOf(f)
           steps == 0 .. (MaxFragment + 1) * Size
           small == Breaks(fat, c, 0 .. e - 1)
           all == Breaks(fat, c, steps)
<1>1. e \in Nat \ {0} /\ MaxFragment \in Nat \ {0} /\ Size \in Nat
  BY EndIs, Bounds, HostIs DEF Trace
<1>2. Cardinality(small) = MaxFragment /\ e <= MaxFragment * Size
  BY BreakIs
<1>3. (MaxFragment + 1) * Size = MaxFragment * Size + 1 * Size
  BY <1>1, Distributes
<1>4. e <= (MaxFragment + 1) * Size /\ (MaxFragment + 1) * Size \in Int
  BY <1>1, <1>2, <1>3
<1>5. 0 .. e - 1 \subseteq steps /\ IsFiniteSet(steps)
  BY <1>1, <1>4, FS_Interval
<1>6. small \subseteq all /\ all \subseteq steps
  <2> HIDE DEF steps, e
  <2> QED BY <1>5 DEF Breaks
<1> HIDE DEF small, all, steps, e
<1>7. Cardinality(small) <= Cardinality(all) /\ Cardinality(all) \in Nat
  <2>1. IsFiniteSet(all)
    BY <1>5, <1>6, FS_Subset
  <2> QED BY <1>6, <2>1, FS_Subset, FS_CardinalityType
<1>8. Fragments(fat, c) = 1 + Cardinality(all)
  BY DEF Fragments, all, steps, Size
<1> QED BY <1>1, <1>2, <1>7, <1>8

\* Once the chain has left the host, it does not come back.
LEMMA TraceEnds ==
  ASSUME NEW fat, NEW c \in Int, NEW f, Trace(fat, c, f),
         Last(fat, c, f) \in HostClusters =>
           fat[Last(fat, c, f)] \in Int /\ fat[Last(fat, c, f)] <= 0
  PROVE  \A k \in Nat : Nth(fat, c, k) \in HostClusters => k < EndOf(f)
<1> DEFINE e == EndOf(f)
           bad == {k \in Nat : k >= e /\ Nth(fat, c, k) \in HostClusters}
<1>1. e \in Nat \ {0}
  BY EndIs DEF Trace
<1> SUFFICES ASSUME bad # {} PROVE FALSE
  BY <1>1
<1>2. PICK k \in bad : \A y \in bad : k <= y
  <2>1. bad \in SUBSET Nat
    OBVIOUS
  <2> HIDE DEF bad
  <2> QED BY <2>1, LeastNat
<1>3. k \in Nat /\ k >= e /\ Nth(fat, c, k) \in HostClusters
  BY <1>2
<1>4. k - 1 \in Nat /\ (k - 1) + 1 = k /\ ~(k <= k - 1)
  BY <1>1, <1>3
<1>5. Nth(fat, c, k) = IF Nth(fat, c, k - 1) \in HostClusters THEN fat[Nth(fat, c, k - 1)] ELSE 0
  <2>1. Nth(fat, c, (k - 1) + 1) =
          IF Nth(fat, c, k - 1) \in HostClusters THEN fat[Nth(fat, c, k - 1)] ELSE 0
    BY <1>4, NthSteps
  <2> QED BY <1>4, <2>1
<1>6. 0 \notin HostClusters
  BY HostIs
<1>7. Nth(fat, c, k - 1) \in HostClusters /\ Nth(fat, c, k) = fat[Nth(fat, c, k - 1)]
  BY <1>3, <1>5, <1>6
<1>8. CASE k = e
  <2>1. fat[Nth(fat, c, k - 1)] \in Int /\ fat[Nth(fat, c, k - 1)] <= 0
    BY <1>7, <1>8 DEF Last
  <2> QED BY <1>3, <1>7, <2>1, HostIs
<1>9. CASE k # e
  <2>1. k - 1 >= e
    BY <1>1, <1>3, <1>9
  <2>2. k - 1 \in bad
    BY <1>4, <1>7, <2>1
  <2> HIDE DEF bad
  <2> QED BY <1>2, <1>4, <2>2
<1> QED BY <1>8, <1>9

\* Blocks and clusters.
LEMMA DivMod ==
  ASSUME NEW a \in Nat, NEW b \in Nat, b > 0
  PROVE  a \div b \in Nat /\ a % b \in 0 .. b - 1 /\ a = (a \div b) * b + (a % b)
BY SMT

LEMMA BlockOfCluster ==
  ASSUME NEW b \in Nat
  PROVE  /\ b \div ClusterSize \in Nat /\ b % ClusterSize \in 0 .. ClusterSize - 1
         /\ b = (b \div ClusterSize) * ClusterSize + (b % ClusterSize)
<1>1. ClusterSize \in Nat /\ ClusterSize > 0
  BY Bounds
<1> QED BY <1>1, DivMod

LEMMA Scales ==
  \A a, x \in Int, s \in Nat \ {0} : a <= x => a * s <= x * s
OBVIOUS

LEMMA WithinScaled ==
  ASSUME NEW a \in Int, NEW k \in Int, NEW s \in Nat \ {0}, NEW r \in 0 .. s - 1
  PROVE  /\ a <= k <=> a * s <= k * s + r
         /\ k < a <=> k * s + r < a * s
<1>1. a * s \in Int /\ k * s \in Int
  OBVIOUS
<1>2. a <= k => a * s <= k * s
  BY Scales
<1>3. k + 1 <= a => (k + 1) * s <= a * s
  BY Scales
<1>4. (k + 1) * s = k * s + s
  BY Distributes
<1>5. a <= k \/ k + 1 <= a
  OBVIOUS
<1> DEFINE x == a * s
           y == k * s
<1> HIDE DEF x, y
<1>6. x \in Int /\ y \in Int /\ (a <= k => x <= y) /\ (k + 1 <= a => y + s <= x)
  BY <1>1, <1>2, <1>3, <1>4 DEF x, y
<1>7. /\ a <= k <=> x <= y + r
      /\ k < a <=> y + r < x
  BY <1>5, <1>6
<1> QED BY <1>7 DEF x, y

\* A cluster of the chain lies in one of the fragments.
LEMMA FragmentOfCluster ==
  ASSUME NEW f \in FragmentLists, Len(f) >= 1, NEW k \in Nat, k < EndOf(f)
  PROVE  \E i \in 1 .. Len(f) : Before(f, i) <= k /\ k < Before(f, i) + f[i].len
<1> DEFINE l == Len(f)
           S == {i \in 1 .. l + 1 : k < Before(f, i)}
<1>1. l \in Nat \ {0} /\ EndOf(f) = Before(f, l + 1)
  BY EndIs
<1>2. l + 1 \in S
  BY <1>1
<1>3. PICK i \in S : \A y \in S : i <= y
  <2>1. S \in SUBSET Nat /\ S # {}
    BY <1>1, <1>2
  <2> HIDE DEF S
  <2> QED BY <2>1, LeastNat
<1>4. i \in 1 .. l + 1 /\ k < Before(f, i)
  BY <1>3
<1>5. i # 1
  <2>1. Before(f, 1) = 0
    BY BeforeSteps
  <2> QED BY <1>4, <2>1
<1>6. i - 1 \in 1 .. l /\ i - 1 \in 1 .. l + 1 /\ i - 1 \in Nat \ {0} /\ (i - 1) + 1 = i
      /\ ~(i <= i - 1)
  BY <1>1, <1>4, <1>5
<1>7. ~(k < Before(f, i - 1))
  <2>1. i - 1 \notin S
    <3> HIDE DEF S
    <3> QED BY <1>3, <1>6
  <2> QED BY <1>6, <2>1
<1>8. Before(f, i) = Before(f, i - 1) + f[i - 1].len /\ Before(f, i - 1) \in Nat
  <2>1. Before(f, (i - 1) + 1) = Before(f, i - 1) + f[i - 1].len
    BY <1>6, BeforeSteps
  <2> QED BY <1>6, <2>1, BeforeNat
<1>9. Before(f, i - 1) <= k /\ k < Before(f, i - 1) + f[i - 1].len
  BY <1>4, <1>7, <1>8
<1> QED BY <1>6, <1>9

\* When the chain has ended, the list, in sectors, is the whole chain.
LEMMA TraceReads ==
  ASSUME NEW fat, NEW c \in Int, NEW f, Trace(fat, c, f),
         Last(fat, c, f) \in HostClusters =>
           fat[Last(fat, c, f)] \in Int /\ fat[Last(fat, c, f)] <= 0,
         NEW s, s.frags = InSectors(f), NEW size \in Nat, s.size = size,
         NEW b \in 0 .. size - 1,
         Nth(fat, c, b \div ClusterSize) \in HostClusters
  PROVE  TranslateDirect(s, b) =
           (Nth(fat, c, b \div ClusterSize) - 2) * ClusterSize + HostDataStart + (b % ClusterSize)
<1> DEFINE g == InSectors(f)
           l == Len(f)
           k == b \div ClusterSize
           r == b % ClusterSize
           Here(i) == b >= Before(g, i) /\ b < Before(g, i) + g[i].len
           j == CHOOSE i \in DOMAIN g : Here(i)
<1>1. /\ f \in FragmentLists /\ l \in Nat \ {0}
      /\ \A i \in 1 .. l : \A m \in 0 .. f[i].len - 1 :
           Nth(fat, c, Before(f, i) + m) = f[i].first + m
  BY EndIs DEF Trace
<1>2. /\ g \in FragmentLists /\ Len(g) = l
      /\ \A i \in 1 .. l : /\ g[i].first = DosCluster2Sector(f[i].first)
                           /\ g[i].len = f[i].len * ClusterSize
      /\ \A i \in 1 .. l + 1 : Before(g, i) = Before(f, i) * ClusterSize
      /\ DOMAIN g = 1 .. l
  BY <1>1, SectorsAre, FragmentsAre
<1>3. k \in Nat /\ r \in 0 .. ClusterSize - 1 /\ b = k * ClusterSize + r /\ b \in Nat
  <2>1. b \in Nat
    OBVIOUS
  <2>2. k \in Nat /\ r \in 0 .. ClusterSize - 1 /\ b = k * ClusterSize + r
    <3>1. /\ b \div ClusterSize \in Nat /\ b % ClusterSize \in 0 .. ClusterSize - 1
          /\ b = (b \div ClusterSize) * ClusterSize + (b % ClusterSize)
      BY <2>1, BlockOfCluster
    <3> QED BY <3>1 DEF k, r
  <2> QED BY <2>1, <2>2
<1>4. \A i \in 1 .. l : /\ i \in 1 .. l + 1 /\ Before(f, i) \in Nat
                        /\ f[i].len \in Nat \ {0} /\ f[i].first \in Int
  BY <1>1, FragmentsAre, BeforeNat
<1> HIDE DEF k, r, g, l
<1>5. \A i \in 1 .. l : Here(i) <=> Before(f, i) <= k /\ k < Before(f, i) + f[i].len
  <2> TAKE i \in 1 .. l
  <2> DEFINE a == Before(f, i)
             n == f[i].len
  <2>1. a \in Int /\ n \in Int /\ a + n \in Int
    BY <1>4
  <2>2. Before(g, i) = a * ClusterSize /\ g[i].len = n * ClusterSize
    BY <1>2, <1>4
  <2>3. (a + n) * ClusterSize = a * ClusterSize + n * ClusterSize
    BY <2>1, Distributes, Bounds
  <2>4. /\ a <= k <=> a * ClusterSize <= k * ClusterSize + r
        /\ k < a + n <=> k * ClusterSize + r < (a + n) * ClusterSize
    BY <1>3, <2>1, WithinScaled, Bounds
  <2>5. a * ClusterSize \in Int /\ n * ClusterSize \in Int
    BY <2>1, Bounds
  <2> HIDE DEF a, n
  <2> DEFINE x == a * ClusterSize
             y == n * ClusterSize
  <2>6. /\ Here(i) <=> b >= x /\ b < x + y
        /\ b >= x <=> x <= b
    BY <1>3, <2>2, <2>5
  <2>7. /\ a <= k <=> x <= b
        /\ k < a + n <=> b < x + y
    BY <1>3, <2>3, <2>4
  <2> HIDE DEF x, y, Here
  <2>8. Here(i) <=> a <= k /\ k < a + n
    BY <2>6, <2>7
  <2> QED BY <2>8 DEF a, n
<1>6. j \in 1 .. l /\ Here(j)
  <2>1. k < EndOf(f)
    BY <1>3, TraceEnds DEF k
  <2>2. \E i \in 1 .. l : Before(f, i) <= k /\ k < Before(f, i) + f[i].len
    BY <1>1, <1>3, <2>1, FragmentOfCluster DEF l
  <2>3. \E i \in DOMAIN g : Here(i)
    BY <1>2, <1>5, <2>2
  <2> HIDE DEF Here
  <2>4. j \in DOMAIN g /\ Here(j)
    BY <2>3
  <2> QED BY <1>2, <2>4
<1>7. TranslateDirect(s, b) = g[j].first + b - Before(g, j)
  <2>1. ~(b >= s.size)
    BY <1>3
  <2>2. TranslateDirect(s, b) = LET i == CHOOSE i \in DOMAIN g : Here(i)
                                IN g[i].first + b - Before(g, i)
    BY <2>1, Zenon DEF TranslateDirect, g
  <2> QED BY <2>2
<1> HIDE DEF j, Here
<1>8. /\ Before(f, j) <= k /\ k < Before(f, j) + f[j].len /\ Before(f, j) \in Nat
      /\ f[j].len \in Nat /\ f[j].first \in Int
  BY <1>4, <1>5, <1>6
<1> DEFINE m == k - Before(f, j)
<1>9. m \in 0 .. f[j].len - 1 /\ Before(f, j) + m = k /\ m \in Int
  BY <1>3, <1>8
<1>10. Nth(fat, c, k) = f[j].first + m
  BY <1>1, <1>6, <1>9 DEF l
<1>11. g[j].first = (f[j].first - 2) * ClusterSize + HostDataStart
       /\ Before(g, j) = Before(f, j) * ClusterSize
  BY <1>2, <1>4, <1>6 DEF DosCluster2Sector
<1>12. k * ClusterSize = Before(f, j) * ClusterSize + m * ClusterSize
  <2>1. Before(f, j) \in Int /\ ClusterSize \in Int
    BY <1>8, Bounds
  <2>2. (Before(f, j) + m) * ClusterSize = Before(f, j) * ClusterSize + m * ClusterSize
    BY <1>9, <2>1, Distributes
  <2> QED BY <1>9, <2>2
<1>13. (f[j].first + m - 2) * ClusterSize = (f[j].first - 2) * ClusterSize + m * ClusterSize
  <2>1. f[j].first - 2 \in Int /\ ClusterSize \in Int /\ (f[j].first - 2) + m = f[j].first + m - 2
    BY <1>8, <1>9, Bounds
  <2>2. ((f[j].first - 2) + m) * ClusterSize = (f[j].first - 2) * ClusterSize + m * ClusterSize
    BY <1>9, <2>1, Distributes
  <2> QED BY <2>1, <2>2
<1>14. Before(f, j) * ClusterSize \in Int /\ m * ClusterSize \in Int
       /\ (f[j].first - 2) * ClusterSize \in Int
  BY <1>8, <1>9, Bounds
<1> DEFINE x == Before(f, j) * ClusterSize
           y == m * ClusterSize
           z == (f[j].first - 2) * ClusterSize
<1>15. /\ TranslateDirect(s, b) = (z + HostDataStart) + b - x /\ b = (x + y) + r
       /\ (Nth(fat, c, k) - 2) * ClusterSize = z + y /\ x \in Int /\ y \in Int /\ z \in Int
       /\ r \in Int /\ HostDataStart \in Int
  <2>1. TranslateDirect(s, b) = (z + HostDataStart) + b - x
    BY <1>7, <1>11
  <2>2. b = (x + y) + r
    <3>1. b = k * ClusterSize + r
      BY <1>3
    <3> QED BY <1>12, <3>1, Zenon
  <2>3. (Nth(fat, c, k) - 2) * ClusterSize = z + y
    <3> HIDE DEF m
    <3>1. (Nth(fat, c, k) - 2) * ClusterSize = (f[j].first + m - 2) * ClusterSize
      BY <1>8, <1>9, <1>10, Bounds
    <3> QED BY <1>13, <3>1 DEF m
  <2>4. r \in Int /\ HostDataStart \in Int
    BY <1>3, Bounds
  <2> QED BY <1>14, <2>1, <2>2, <2>3, <2>4
<1> HIDE DEF x, y, z, m
<1>16. TranslateDirect(s, b) = (Nth(fat, c, k) - 2) * ClusterSize + HostDataStart + r
  BY <1>15
<1> QED BY <1>16 DEF k, r

-----------------------------------------------------------------------------
(* The search of a volume within its host.                                 *)

\* While the chain is followed, the list is its trace.
Follows(f, s) ==
  LET e == f.root[s.entry]
  IN /\ Wanted(s, e)
     /\ Trace(f.fat, e.start, s.frags)
     /\ s.cluster \in Nat /\ s.cluster = Last(f.fat, e.start, s.frags)

RightVolume(f, s) == Wanted(s, f.root[s.entry]) /\ PassedOver(f, s) /\ ReadsChain(f, s)

\* What a process knows at each place.
FoundAt(f, where, s) ==
  /\ where # "mounted" /\ ~s.direct => ~s.lost
  /\ where \in {"scan", "fragment"} => ~s.direct /\ PassedOver(f, s)
  /\ where = "fragment" => Follows(f, s)
  /\ s.direct /\ ~s.lost => RightVolume(f, s)

Found == \A p \in Procs : FoundAt(file, pc[p], sb[p])
FoundInv == IInv /\ Found

LEMMA SameVolume ==
  ASSUME NEW f, NEW s, NEW t, t.ext = s.ext, t.entry = s.entry, t.frags = s.frags,
         t.size = s.size, RightVolume(f, s)
  PROVE  RightVolume(f, t)
<1>1. \A e : Wanted(t, e) = Wanted(s, e)
  BY DEF Wanted
<1>2. \A b : TranslateDirect(t, b) = TranslateDirect(s, b)
  BY DEF TranslateDirect
<1>3. Wanted(t, f.root[t.entry]) /\ PassedOver(f, t)
  BY <1>1 DEF RightVolume, PassedOver
<1>4. ReadsChain(f, t)
  BY <1>2 DEF RightVolume, ReadsChain
<1> QED BY <1>3, <1>4 DEF RightVolume

LEMMA FoundOne ==
  ASSUME FoundInv, NEW p \in Procs, NEW where, NEW s, file' = file,
         pc' = [pc EXCEPT ![p] = where], sb' = [sb EXCEPT ![p] = s], FoundAt(file, where, s)
  PROVE  Found'
<1>1. /\ pc'[p] = where /\ sb'[p] = s
      /\ \A q \in Procs \ {p} : pc'[q] = pc[q] /\ sb'[q] = sb[q]
  BY DEF FoundInv, IInv, TypedSearch
<1>2. \A q \in Procs : FoundAt(file', pc'[q], sb'[q])
  <2> TAKE q \in Procs
  <2>1. CASE q = p
    BY <1>1, <2>1
  <2>2. CASE q # p
    <3>1. FoundAt(file, pc[q], sb[q])
      BY DEF FoundInv, Found
    <3>2. pc'[q] = pc[q] /\ sb'[q] = sb[q]
      BY <1>1, <2>2
    <3> QED BY <3>1, <3>2
  <2> QED BY <2>1, <2>2
<1> QED BY <1>2 DEF Found

\* Outside the search of the root directory only what has been found matters.
LEMMA FoundElsewhere ==
  ASSUME FoundInv, NEW p \in Procs, NEW where, where \notin {"scan", "fragment"},
         NEW s, s.ext = sb[p].ext, s.entry = sb[p].entry, s.frags = sb[p].frags,
         s.size = sb[p].size, s.direct = sb[p].direct, ~s.lost => ~sb[p].lost,
         where # "mounted" => pc[p] # "mounted" /\ s.lost = sb[p].lost
  PROVE  FoundAt(file, where, s)
<1>1. FoundAt(file, pc[p], sb[p])
  BY DEF FoundInv, Found
<1>2. s.direct /\ ~s.lost => RightVolume(file, s)
  BY <1>1, SameVolume DEF FoundAt
<1> QED BY <1>1, <1>2 DEF FoundAt

LEMMA NothingFound ==
  ASSUME NEW f, NEW where \in Places \ {"scan", "fragment"}, NEW e
  PROVE  /\ FoundAt(f, where, NewSb) /\ FoundAt(f, where, [NewSb EXCEPT !.ext = e])
BY DEF FoundAt, NewSb

LEMMA SearchRootFinds ==
  ASSUME FoundInv, NEW p \in Procs, SearchRoot(p)
  PROVE  Found'
<1> DEFINE s == sb[p]
           e == file.root[s.entry]
           c == e.start
           t == [s EXCEPT !.cluster = c, !.frags = Begun(<<>>, c)]
           u == [s EXCEPT !.entry = @ + 1]
<1>1. /\ s \in SuperBlocks /\ Searching("scan", s) /\ FoundAt(file, "scan", s)
      /\ file.root \in Seq(RootEntry) /\ Len(file.root) \in Nat
  BY LenProperties DEF SearchRoot, FoundInv, Found, IInv, TypedSearch, HostTyped
<1>2. \/ ReturnNull(p)
      \/ s.entry <= Len(file.root) /\ Wanted(s, e) /\ GoTo(p, "fragment", t)
      \/ s.entry <= Len(file.root) /\ ~Wanted(s, e) /\ GoTo(p, "scan", u)
  BY <1>1 DEF SearchRoot, SuperBlocks
<1>3. s.entry \in Nat /\ s.entry >= 1 /\ ~s.direct /\ ~s.lost /\ PassedOver(file, s)
  BY <1>1 DEF SuperBlocks, Searching, FoundAt
<1>4. CASE ReturnNull(p)
  BY <1>4, FoundOne, NothingFound DEF ReturnNull, Places
<1>5. CASE s.entry <= Len(file.root) /\ Wanted(s, e) /\ GoTo(p, "fragment", t)
  <2>1. s.entry \in 1 .. Len(file.root)
    BY <1>3, <1>5
  <2>2. c \in Nat
    <3>1. file.root[s.entry] \in RootEntry
      BY <1>1, <2>1, ElementOfSeq
    <3> QED BY <3>1 DEF RootEntry
  <2> DEFINE f == Begun(<<>>, c)
  <2> HIDE DEF f, c
  <2>3. /\ t.cluster = c /\ t.frags = f /\ t.ext = s.ext /\ t.entry = s.entry
        /\ t.direct = s.direct /\ t.lost = s.lost
    BY <1>1 DEF SuperBlocks, f
  <2> HIDE DEF t
  <2>4. Trace(file.fat, c, f) /\ Last(file.fat, c, f) = c
    BY <2>2, TraceBegins DEF f
  <2>5. Wanted(t, e) /\ PassedOver(file, t)
    BY <1>3, <1>5, <2>3 DEF Wanted, PassedOver
  <2>6. Follows(file, t)
    BY <2>2, <2>3, <2>4, <2>5 DEF Follows, c
  <2>7. FoundAt(file, "fragment", t)
    BY <1>3, <2>3, <2>5, <2>6 DEF FoundAt
  <2> QED BY <1>5, <2>7, FoundOne DEF GoTo
<1>6. CASE s.entry <= Len(file.root) /\ ~Wanted(s, e) /\ GoTo(p, "scan", u)
  <2>1. /\ u.ext = s.ext /\ u.entry = s.entry + 1 /\ u.direct = s.direct /\ u.lost = s.lost
    BY <1>1 DEF SuperBlocks
  <2> HIDE DEF u
  <2>2. PassedOver(file, u)
    <3> SUFFICES ASSUME NEW i \in 1 .. u.entry - 1, Wanted(u, file.root[i])
                 PROVE  Fragments(file.fat, file.root[i].start) > MaxFragment
      BY DEF PassedOver
    <3>1. Wanted(s, file.root[i])
      BY <2>1 DEF Wanted
    <3>2. i # s.entry
      BY <1>6, <3>1
    <3>3. i \in 1 .. s.entry - 1
      BY <1>3, <2>1, <3>2
    <3> QED BY <1>3, <3>1, <3>3 DEF PassedOver
  <2>3. FoundAt(file, "scan", u)
    BY <1>3, <2>1, <2>2 DEF FoundAt
  <2> QED BY <1>6, <2>3, FoundOne DEF GoTo
<1> QED BY <1>2, <1>4, <1>5, <1>6

\* One cluster further: the list stays the trace, the entry is given up because
\* its chain breaks too often, or the list is complete.
LEMMA SetupFragmentFinds ==
  ASSUME FoundInv, NEW p \in Procs, SetupFragment(p)
  PROVE  Found'
<1> DEFINE s == sb[p]
<1>1. PICK err \in FailedReads :
        LET next == HostFatLookup(s.cluster, err)
            t == [s EXCEPT !.lost = @ \/ (err /\ s.cluster \in HostClusters), !.cluster = next]
        IN IF next = s.cluster + 1
             THEN GoTo(p, "fragment", [t EXCEPT !.frags = Grown(@)])
           ELSE IF next > 0 /\ ~TooMany(s)
             THEN GoTo(p, "fragment", [t EXCEPT !.frags = Begun(@, next)])
           ELSE IF next > 0
             THEN GoTo(p, "scan", [s EXCEPT !.entry = @ + 1, !.frags = <<>>, !.cluster = 0])
           ELSE GoTo(p, "super", [t EXCEPT !.frags = InSectors(@), !.direct = TRUE,
                                           !.size = file.root[s.entry].size])
  BY DEF SetupFragment
<1> DEFINE d == s.cluster
           next == HostFatLookup(d, err)
           missed == s.lost \/ (err /\ d \in HostClusters)
           f == s.frags
           e == file.root[s.entry]
           fat == file.fat
           size == e.size
           grown == [s EXCEPT !.lost = missed, !.cluster = next, !.frags = Grown(f)]
           begun == [s EXCEPT !.lost = missed, !.cluster = next, !.frags = Begun(f, next)]
           given == [s EXCEPT !.entry = s.entry + 1, !.frags = <<>>, !.cluster = 0]
           found == [s EXCEPT !.lost = missed, !.cluster = next, !.frags = InSectors(f),
                              !.direct = TRUE, !.size = size]
<1>2. /\ s \in SuperBlocks /\ Searching("fragment", s) /\ FoundAt(file, "fragment", s)
      /\ file.root \in Seq(RootEntry) /\ Len(file.root) \in Nat
      /\ fat \in [HostClusters -> Int] /\ err \in BOOLEAN
  BY LenProperties DEF SetupFragment, FoundInv, Found, IInv, TypedSearch, HostTyped, FailedReads
<1>3. /\ f \in FragmentLists /\ Len(f) \in 1 .. MaxFragment /\ s.entry \in 1 .. Len(file.root)
      /\ s.entry \in Nat
  <2>1. f \in FragmentLists /\ s.entry \in Nat
    BY <1>2 DEF SuperBlocks
  <2>2. Len(f) \in Nat
    BY <2>1, FragmentsAre
  <2> QED BY <1>2, <2>1, <2>2, Bounds DEF Searching
<1>4. e.start \in Nat /\ e.size \in Nat
  <2>1. e \in RootEntry
    BY <1>2, <1>3, ElementOfSeq
  <2> QED BY <2>1 DEF RootEntry
<1>5. /\ ~s.direct /\ ~s.lost /\ PassedOver(file, s) /\ Wanted(s, e)
      /\ Trace(fat, e.start, f) /\ d \in Nat /\ d = Last(fat, e.start, f)
  BY <1>2 DEF FoundAt, Follows
<1>6. /\ next = IF d \in HostClusters /\ ~err THEN fat[d] ELSE 0
      /\ d \in HostClusters => fat[d] \in Int /\ d >= 2
      /\ next \in Int
  <2>1. next = IF d \in HostClusters /\ ~err THEN fat[d] ELSE 0
    BY Zenon DEF HostFatLookup
  <2>2. ASSUME d \in HostClusters PROVE fat[d] \in Int /\ d >= 2
    <3> HIDE DEF d, fat
    <3> QED BY <1>2, <2>2, HostIs
  <2> HIDE DEF next, d, fat
  <2> QED BY <2>1, <2>2
<1>7. \/ GoTo(p, "fragment", grown) /\ next = d + 1
      \/ GoTo(p, "fragment", begun) /\ next # d + 1 /\ next > 0
      \/ GoTo(p, "scan", given) /\ next # d + 1 /\ next > 0 /\ TooMany(s)
      \/ GoTo(p, "super", found) /\ ~(next > 0)
  <2> DEFINE t == [s EXCEPT !.lost = missed, !.cluster = next]
  <2>1. t.frags = f /\ [t EXCEPT !.frags = Grown(f)] = grown
        /\ [t EXCEPT !.frags = Begun(f, next)] = begun
        /\ [t EXCEPT !.frags = InSectors(f), !.direct = TRUE, !.size = size] = found
    BY <1>2 DEF SuperBlocks
  <2> HIDE DEF grown, begun, found, missed
  <2> QED BY <1>1, <1>2, <2>1 DEF missed
<1>8. next > 0 => d \in HostClusters /\ ~err /\ next = fat[d] /\ ~missed
  <2> HIDE DEF next, d, fat
  <2>1. ASSUME next > 0 PROVE d \in HostClusters /\ ~err /\ next = fat[d]
    BY <1>6, <2>1
  <2>2. ~err => ~missed
    BY <1>5
  <2> QED BY <2>1, <2>2
<1>9. next = d + 1 => next > 0
  BY <1>5
<1> HIDE DEF next, missed, d, f, e, fat, size, s
<1>10. CASE GoTo(p, "fragment", grown) /\ next = d + 1
  <2>1. Trace(fat, e.start, Grown(f)) /\ Last(fat, e.start, Grown(f)) = d + 1
    BY <1>4, <1>5, <1>8, <1>9, <1>10, TraceGrows
  <2>2. /\ grown.cluster = next /\ grown.frags = Grown(f) /\ grown.ext = s.ext
        /\ grown.entry = s.entry /\ grown.direct = s.direct /\ grown.lost = missed
    BY <1>2 DEF SuperBlocks
  <2> HIDE DEF grown
  <2>3. Wanted(grown, e) /\ PassedOver(file, grown)
    BY <1>5, <2>2 DEF Wanted, PassedOver
  <2>4. Follows(file, grown)
    BY <1>5, <1>10, <2>1, <2>2, <2>3 DEF Follows, e, fat
  <2>5. FoundAt(file, "fragment", grown)
    BY <1>5, <1>8, <1>9, <1>10, <2>2, <2>3, <2>4 DEF FoundAt
  <2> QED BY <1>10, <2>5, FoundOne DEF GoTo
<1>11. CASE GoTo(p, "fragment", begun) /\ next # d + 1 /\ next > 0
  <2>1. Trace(fat, e.start, Begun(f, next)) /\ Last(fat, e.start, Begun(f, next)) = next
    BY <1>4, <1>5, <1>6, <1>8, <1>11, TraceBreaks
  <2>2. /\ begun.cluster = next /\ begun.frags = Begun(f, next) /\ begun.ext = s.ext
        /\ begun.entry = s.entry /\ begun.direct = s.direct /\ begun.lost = missed
    BY <1>2 DEF SuperBlocks
  <2> HIDE DEF begun
  <2>3. Wanted(begun, e) /\ PassedOver(file, begun)
    BY <1>5, <2>2 DEF Wanted, PassedOver
  <2>4. Follows(file, begun)
    <3>1. next \in Nat
      BY <1>6, <1>11
    <3> QED BY <2>1, <2>2, <2>3, <3>1 DEF Follows, e, fat
  <2>5. FoundAt(file, "fragment", begun)
    BY <1>5, <1>8, <1>11, <2>2, <2>3, <2>4 DEF FoundAt
  <2> QED BY <1>11, <2>5, FoundOne DEF GoTo
<1>12. CASE GoTo(p, "scan", given) /\ next # d + 1 /\ next > 0 /\ TooMany(s)
  <2>1. Len(f) = MaxFragment
    BY <1>3, <1>12, Bounds DEF TooMany, f
  <2>2. Fragments(fat, e.start) > MaxFragment
    BY <1>4, <1>5, <1>6, <1>8, <1>12, <2>1, TraceTooLong
  <2>3. /\ given.ext = s.ext /\ given.entry = s.entry + 1 /\ given.direct = s.direct
        /\ given.lost = s.lost
    BY <1>2 DEF SuperBlocks
  <2> HIDE DEF given
  <2>4. PassedOver(file, given)
    <3> SUFFICES ASSUME NEW i \in 1 .. given.entry - 1, Wanted(given, file.root[i])
                 PROVE  Fragments(file.fat, file.root[i].start) > MaxFragment
      BY DEF PassedOver
    <3>1. Wanted(s, file.root[i])
      BY <2>3 DEF Wanted
    <3>2. i = s.entry \/ i \in 1 .. s.entry - 1
      BY <1>3, <2>3
    <3>3. CASE i = s.entry
      BY <2>2, <3>3 DEF e, fat
    <3>4. CASE i \in 1 .. s.entry - 1
      BY <1>5, <3>1, <3>4 DEF PassedOver
    <3> QED BY <3>2, <3>3, <3>4
  <2>5. FoundAt(file, "scan", given)
    BY <1>5, <2>3, <2>4 DEF FoundAt
  <2> QED BY <1>12, <2>5, FoundOne DEF GoTo
<1>13. CASE GoTo(p, "super", found) /\ ~(next > 0)
  <2>1. /\ found.frags = InSectors(f) /\ found.ext = s.ext /\ found.size = e.size
        /\ found.entry = s.entry /\ found.direct = TRUE /\ found.lost = missed
    BY <1>2 DEF SuperBlocks, size
  <2> HIDE DEF found
  <2>2. Wanted(found, e) /\ PassedOver(file, found)
    BY <1>5, <2>1 DEF Wanted, PassedOver
  <2>3. ASSUME ~found.lost
        PROVE  ReadsChain(file, found)
    <3>1. d \in HostClusters => fat[d] \in Int /\ fat[d] <= 0
      <4>1. ~missed
        BY <2>1, <2>3
      <4>2. ASSUME d \in HostClusters PROVE fat[d] \in Int /\ fat[d] <= 0
        <5>1. ~err
          BY <4>1, <4>2 DEF missed
        <5> QED BY <1>6, <1>13, <4>2, <5>1
      <4> QED BY <4>2
    <3>2. ASSUME NEW b \in 0 .. e.size - 1,
                 Nth(fat, e.start, b \div ClusterSize) \in HostClusters
          PROVE  TranslateDirect(found, b) =
                   (Nth(fat, e.start, b \div ClusterSize) - 2) * ClusterSize
                     + HostDataStart + (b % ClusterSize)
      BY <1>4, <1>5, <2>1, <3>1, <3>2, TraceReads
    <3> QED BY <2>1, <3>2, Zenon DEF ReadsChain, e, fat
  <2>4. FoundAt(file, "super", found)
    BY <2>1, <2>2, <2>3 DEF FoundAt, RightVolume, e
  <2> QED BY <1>13, <2>4, FoundOne DEF GoTo
<1> QED BY <1>7, <1>10, <1>11, <1>12, <1>13

\* What has not come to the root directory yet, or is past it.
LEMMA StaysFound ==
  ASSUME FoundInv, NEW p \in Procs, pc[p] # "mounted",
         NEW where \in Places \ {"scan", "fragment"}, file' = file,
         pc' = [pc EXCEPT ![p] = where], sb' = [sb EXCEPT ![p] = sb[p]]
  PROVE  Found'
<1>1. FoundAt(file, where, sb[p])
  BY FoundElsewhere
<1> QED BY <1>1, FoundOne

LEMMA GoneFinds ==
  ASSUME FoundInv, NEW p \in Procs, file' = file,
         pc' = [pc EXCEPT ![p] = "closed"], sb' = [sb EXCEPT ![p] = NewSb]
  PROVE  Found'
<1>1. FoundAt(file, "closed", NewSb)
  BY NothingFound DEF Places
<1> QED BY <1>1, FoundOne

LEMMA OpenFinds ==
  ASSUME FoundInv, NEW p \in Procs, NEW w, NEW ext, Open(p, w, ext)
  PROVE  Found'
<1>1. FoundAt(file, "open", [NewSb EXCEPT !.ext = ext])
  BY NothingFound DEF Places
<1> QED BY <1>1, FoundOne DEF Open

LEMMA LocksFinds ==
  ASSUME FoundInv, NEW p \in Procs,
         OpenFile(p) \/ OpenReadOnly(p) \/ Locks(p) \/ LockReadOnly(p)
  PROVE  Found'
<1> DEFINE s == sb[p]
           t == [s EXCEPT !.ro = ~rw[p]]
<1>1. s \in SuperBlocks /\ sb \in [Procs -> SuperBlocks] /\ pc \in [Procs -> Places]
  BY DEF FoundInv, IInv, TypedSearch
<1>2. CASE OpenFile(p)
  BY <1>2, StaysFound DEF OpenFile, GoTo, Places
<1>3. CASE OpenReadOnly(p)
  <2>1. UNCHANGED <<file, pc, sb>>
    BY <1>3 DEF OpenReadOnly
  <2> QED BY <2>1 DEF FoundInv, Found
<1>4. CASE Locks(p)
  <2>1. /\ t.ext = s.ext /\ t.entry = s.entry /\ t.frags = s.frags /\ t.size = s.size
        /\ t.direct = s.direct /\ t.lost = s.lost
    BY <1>1 DEF SuperBlocks
  <2>2. /\ pc[p] = "lock" /\ file' = file /\ pc' = [pc EXCEPT ![p] = "super"]
        /\ sb' = [sb EXCEPT ![p] = t]
    BY <1>4 DEF Locks
  <2> HIDE DEF t
  <2>3. FoundAt(file, "super", t)
    BY <2>1, <2>2, FoundElsewhere
  <2> QED BY <2>2, <2>3, FoundOne
<1>5. CASE LockReadOnly(p)
  <2>1. pc[p] = "lock" /\ file' = file /\ pc' = [pc EXCEPT ![p] = "open"] /\ sb' = sb
    BY <1>5 DEF LockReadOnly
  <2>2. sb' = [sb EXCEPT ![p] = sb[p]]
    BY <1>1, <2>1
  <2> QED BY <2>1, <2>2, StaysFound DEF Places
<1> QED BY <1>2, <1>3, <1>4, <1>5

\* The search begins where nothing has been passed over.
LEMMA DetectFinds ==
  ASSUME FoundInv, NEW p \in Procs, Detect(p)
  PROVE  Found'
<1> DEFINE s == sb[p]
           t == [s EXCEPT !.entry = 1]
<1>1. s \in SuperBlocks /\ pc[p] = "detect" /\ FoundAt(file, "detect", s)
  BY DEF Detect, FoundInv, Found, IInv, TypedSearch
<1>2. GoTo(p, "mount", s) \/ GoTo(p, "mounted", s) \/ (~s.direct /\ GoTo(p, "scan", t))
  BY DEF Detect
<1>3. CASE GoTo(p, "mount", s) \/ GoTo(p, "mounted", s)
  BY <1>1, <1>3, StaysFound DEF GoTo, Places
<1>4. CASE ~s.direct /\ GoTo(p, "scan", t)
  <2>1. t.entry = 1 /\ t.direct = s.direct /\ t.lost = s.lost
    BY <1>1 DEF SuperBlocks
  <2> HIDE DEF t
  <2>2. ~s.lost
    BY <1>1, <1>4 DEF FoundAt
  <2>3. PassedOver(file, t)
    BY <2>1 DEF PassedOver
  <2>4. FoundAt(file, "scan", t)
    BY <1>4, <2>1, <2>2, <2>3 DEF FoundAt
  <2> QED BY <1>4, <2>4, FoundOne DEF GoTo
<1> QED BY <1>2, <1>3, <1>4

LEMMA MountsFind ==
  ASSUME FoundInv, NEW p \in Procs, MountDblspace(p) \/ MountStacker(p)
  PROVE  Found'
<1> DEFINE s == sb[p]
           h == Header(p)
           D(wide, end) == [s EXCEPT !.vol = DblVolume(h, wide, end), !.ro = @ \/ ~KnownFormat(h)]
           T(missed) == [s EXCEPT !.vol = StacVolume(s, h), !.ro = @ \/ StacReadOnly(s, h),
                                  !.lost = @ \/ missed]
<1>1. s \in SuperBlocks /\ pc[p] = "mount"
  BY DEF MountDblspace, MountStacker, FoundInv, IInv, TypedSearch
<1>2. CASE ReturnNull(p)
  BY <1>2, GoneFinds DEF ReturnNull
<1>3. ASSUME NEW t, t.ext = s.ext, t.entry = s.entry, t.frags = s.frags, t.size = s.size,
             t.direct = s.direct, ~t.lost => ~s.lost, file' = file,
             pc' = [pc EXCEPT ![p] = "mounted"], sb' = [sb EXCEPT ![p] = t]
      PROVE  Found'
  <2>1. FoundAt(file, "mounted", t)
    BY <1>3, FoundElsewhere
  <2> QED BY <1>3, <2>1, FoundOne
<1>4. ASSUME NEW wide, NEW end, GoTo(p, "mounted", D(wide, end))
      PROVE  Found'
  <2> DEFINE t == D(wide, end)
  <2>1. /\ t.ext = s.ext /\ t.entry = s.entry /\ t.frags = s.frags /\ t.size = s.size
        /\ t.direct = s.direct /\ t.lost = s.lost
    BY <1>1 DEF SuperBlocks
  <2>2. /\ file' = file /\ pc' = [pc EXCEPT ![p] = "mounted"] /\ sb' = [sb EXCEPT ![p] = t]
    BY <1>4 DEF GoTo
  <2> HIDE DEF D, s, t
  <2> QED BY <1>3, <2>1, <2>2
<1>5. ASSUME NEW missed, file' = file, pc' = [pc EXCEPT ![p] = "mounted"],
             sb' = [sb EXCEPT ![p] = T(missed)]
      PROVE  Found'
  <2> DEFINE t == T(missed)
  <2>1. /\ t.ext = s.ext /\ t.entry = s.entry /\ t.frags = s.frags /\ t.size = s.size
        /\ t.direct = s.direct /\ t.lost = (s.lost \/ missed)
    BY <1>1 DEF SuperBlocks
  <2>2. sb' = [sb EXCEPT ![p] = t]
    BY <1>5
  <2> HIDE DEF T, s, t
  <2> QED BY <1>3, <1>5, <2>1, <2>2
<1>6. CASE MountDblspace(p)
  <2>1. \/ ReturnNull(p)
        \/ \E wide, end : GoTo(p, "mounted", D(wide, end))
    BY <1>6, Zenon DEF MountDblspace
  <2> QED BY <1>2, <1>4, <2>1
<1>7. CASE MountStacker(p)
  <2>1. \/ ReturnNull(p)
        \/ \E missed : /\ file' = file /\ pc' = [pc EXCEPT ![p] = "mounted"]
                       /\ sb' = [sb EXCEPT ![p] = T(missed)]
    BY <1>7, Zenon DEF MountStacker
  <2> QED BY <1>2, <1>5, <2>1
<1> QED BY <1>6, <1>7

LEMMA FoundKeeps ==
  ASSUME FoundInv, [Next]_vars
  PROVE  FoundInv'
<1>1. IInv'
  BY NextKeeps DEF FoundInv
<1>2. Found'
  <2>1. CASE UNCHANGED vars
    BY <2>1 DEF vars, FoundInv, Found
  <2>2. ASSUME NEW p \in Procs, NEW w, NEW ext, Open(p, w, ext)
        PROVE  Found'
    BY <2>2, OpenFinds
  <2>3. ASSUME NEW p \in Procs, Step(p)
        PROVE  Found'
    <3>1. CASE CannotOpen(p) \/ CannotLock(p)
      BY <3>1, GoneFinds DEF CannotOpen, CannotLock, ReturnNull
    <3>2. CASE OpenFile(p) \/ OpenReadOnly(p) \/ Locks(p) \/ LockReadOnly(p)
      BY <3>2, LocksFinds
    <3>3. CASE ReadSuper(p)
      <4>1. \/ ReturnNull(p)
            \/ pc[p] = "super" /\ GoTo(p, "detect", sb[p])
        BY <3>3 DEF ReadSuper
      <4> QED BY <4>1, GoneFinds, StaysFound DEF ReturnNull, GoTo, Places
    <3> QED BY <2>3, <3>1, <3>2, <3>3, DetectFinds, SearchRootFinds, SetupFragmentFinds,
               MountsFind DEF Step
  <2>4. ASSUME NEW p \in Procs, Close(p) \/ Die(p)
        PROVE  Found'
    BY <2>4, GoneFinds DEF Close, Die, Leave
  <2> QED BY <2>1, <2>2, <2>3, <2>4 DEF Next
<1> QED BY <1>1, <1>2 DEF FoundInv

\* A volume that was found in a host is the first one with the wanted extension
\* that is not too fragmented, and every block of it is read from the sector
\* the chain gives it, whatever is on the host, as long as its FAT could be read.
THEOREM VolumesAreRead ==
  ASSUME FilesTyped
  PROVE  Spec => []TranslationRight
<1>1. Init => FoundInv
  <2> SUFFICES ASSUME Init
               PROVE  FoundInv
    OBVIOUS
  <2>1. \A p \in Procs : pc[p] = "closed" /\ sb[p] = NewSb
    BY DEF Init
  <2>2. FoundAt(file, "closed", NewSb)
    BY NothingFound DEF Places
  <2> QED BY <2>1, <2>2, InitKeeps DEF FoundInv, Found
<1>2. FoundInv => TranslationRight
  <2> SUFFICES ASSUME FoundInv, NEW p \in Procs, sb[p].direct, ~sb[p].lost
               PROVE  RightVolume(file, sb[p])
    BY DEF TranslationRight, RightVolume
  <2> QED BY DEF FoundInv, Found, FoundAt
<1> QED BY <1>1, <1>2, FoundKeeps, PTL DEF Spec
=============================================================================
