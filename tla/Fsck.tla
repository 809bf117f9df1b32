-------------------------------- MODULE Fsck --------------------------------
(***************************************************************************)
(* dmsdosfsck (src/src/dmsdosfsck.c): the five passes over the FAT and the *)
(* directory tree, with the answers of the user or of -a, and the tables   *)
(* fat[].referrenced_from and fat[].start that later passes rely on.       *)
(*                                                                         *)
(* A directory cluster is modelled with its "." and ".." and one more      *)
(* entry; names are left out (their check changes nothing but the name).   *)
(***************************************************************************)
EXTENDS Integers, Sequences, FiniteSets

CONSTANTS
  MaxCluster,    \* s_max_cluster
  ClusterSize,   \* s_sectperclust * SECTOR_SIZE, in the unit of the file sizes
  RootEntries,   \* the number of entries of the root directory
  SizeLimit,     \* 2^32, scaled down: the size of a file is less
  WORD,          \* 2^32 or 2^64, scaled down: the range of unsigned long
  Cases(_, _, _, _, _)  \* the volumes that are checked, and how

Clusters == 2 .. MaxCluster
FatEof == -1
Bad == MaxCluster + 1                \* a value beyond the last cluster
FatValues == {FatEof, 0, 1, Bad} \cup Clusters

ASSUME FsckAssumption ==
  /\ MaxCluster \in Nat /\ MaxCluster >= 2
  /\ ClusterSize \in Nat \ {0} /\ RootEntries \in Nat \ {0}
  /\ SizeLimit \in Nat /\ WORD \in Nat
  /\ ClusterSize * MaxCluster < SizeLimit /\ SizeLimit <= WORD

\* The entries: those of the root directory, and one in each cluster that is
\* used for a directory, under the number of that cluster.
RootPlaces == {Bad + r : r \in 1 .. RootEntries}
Places == RootPlaces \cup Clusters
Entry == [used : BOOLEAN, dir : BOOLEAN, cluster : FatValues \ {FatEof}, size : 0 .. SizeLimit - 1]
Wrong == -1                          \* no directory starts here
Unreadable == -2
Parents == {Wrong, Unreadable, 0} \cup Clusters

VARIABLES
  fat,        \* the FAT
  ent,        \* the directory entries as they are in memory
  saved,      \* the directory entries on the disk
  dots,       \* per cluster: the parent in "..", or Wrong, or Unreadable
  mdfat,      \* what simple_check says of the MDFAT: sound, fixable, broken
  ref,        \* fat[].referrenced_from
  start,      \* fat[].start
  answers,    \* what repair() may return: TRUE with -a, both with -r
  pc, i,      \* the pass and its position
  at, walked, \* cluster, prevcluster and the length of a chain
  stack,      \* check_root_dir and check_dir calls, innermost first
  result,     \* of the last check_direntry or check_dir
  errors,     \* of check_fat, then of main
  code,       \* the exit code
  healthy     \* whether the volume was in order when it was brought
vars == <<fat, ent, saved, dots, mdfat, ref, start, answers, pc, i, at, walked,
          stack, result, errors, code, healthy>>
volume == <<fat, ent, saved, dots>>
tables == <<ref, start>>
walk == <<at, walked>>
given == <<mdfat, answers, healthy>>

-----------------------------------------------------------------------------
(* Chains.                                                                 *)

\* The cluster that n steps along the FAT lead to, 0 after the end.
Along(f, c, n) ==
  LET g[k \in 0 .. n] == IF k = 0 THEN c
                         ELSE IF g[k - 1] \in Clusters THEN f[g[k - 1]] ELSE 0
  IN g[n]
Chain(f, c) == {Along(f, c, n) : n \in 0 .. MaxCluster} \cap Clusters
ChainEnd(f, c) == {f[d] : d \in Chain(f, c)} \ Clusters

\* check_fat_loop: the cluster whose entry leads back to one already seen.
Seen(f, c, n) == {Along(f, c, k) : k \in 0 .. n}
LoopEnds(f, c) ==
  {b \in Clusters : \E n \in 0 .. MaxCluster :
     /\ b = Along(f, c, n)
     /\ Seen(f, c, n) \subseteq Clusters
     /\ f[b] \in Seen(f, c, n)
     /\ \A k \in 0 .. n - 1 : f[Along(f, c, k)] \notin Seen(f, c, k)}

NoLoops(f) == \A c \in Clusters : LoopEnds(f, c) = {}
Crosslinked(f) == \E c, d \in Clusters : c # d /\ f[c] = f[d] /\ f[c] \notin {0, FatEof}

-----------------------------------------------------------------------------
(* What a volume in order looks like: whatever the passes would complain   *)
(* of or repair is absent.                                                 *)

Owners(e) == {p \in Places : e[p].used /\ e[p].cluster # 0}
\* The places that the tree of directories reaches.
Below(f, e, ps) ==
  ps \cup UNION {Chain(f, e[p].cluster) : p \in {q \in ps : e[q].used /\ e[q].dir}}
Reached(f, e) ==
  LET g[n \in 0 .. MaxCluster] == IF n = 0 THEN RootPlaces ELSE Below(f, e, g[n - 1])
  IN g[MaxCluster]
SizeFits(f, e) ==
  LET n == Cardinality(Chain(f, e.cluster))
  IN IF e.dir THEN e.size = 0
     ELSE IF e.cluster = 0 THEN e.size = 0
     ELSE e.size = n * ClusterSize \/ e.size \div ClusterSize = n - 1

\* The parts, for the entries the tree reaches.
Disjoint(f, e) ==
  LET own == Reached(f, e) \cap Owners(e)
  IN /\ \A p \in own : e[p].cluster \in Clusters
     /\ \A p, q \in own : p # q => Chain(f, e[p].cluster) \cap Chain(f, e[q].cluster) = {}
Sized(f, e) == \A p \in Reached(f, e) : e[p].used => SizeFits(f, e[p])
Ended(f, e) == \A p \in Reached(f, e) \cap Owners(e) : ChainEnd(f, e[p].cluster) = {FatEof}
NothingLost(f, e) ==
  \A c \in Clusters : f[c] \in Clusters =>
     \E p \in Reached(f, e) \cap Owners(e) : c \in Chain(f, e[p].cluster)
\* The first cluster of the directory that holds place p, 0 for the root.
HeldBy(f, e, p) ==
  IF p \in RootPlaces THEN 0
  ELSE e[CHOOSE q \in Reached(f, e) \cap Owners(e) :
           e[q].dir /\ p \in Chain(f, e[q].cluster)].cluster
Rooted(f, e, d) ==
  \A p \in Reached(f, e) : e[p].used /\ e[p].dir =>
     /\ e[p].cluster \in Clusters
     /\ d[e[p].cluster] = HeldBy(f, e, p)
     /\ \A c \in Chain(f, e[p].cluster) : d[c] # Unreadable
InOrder(f, e, d) ==
  /\ NoLoops(f) /\ ~Crosslinked(f)
  /\ \A c \in Clusters : f[c] # 1 /\ (f[c] = 0 => d[c] = Wrong)
  /\ Disjoint(f, e) /\ Ended(f, e) /\ Sized(f, e) /\ Rooted(f, e, d) /\ NothingLost(f, e)

-----------------------------------------------------------------------------

\* A call of check_dir: the directory, the cluster read, the entry looked at,
\* whether that must be written, and the errors so far.
Frame(dir, place) == [dir |-> dir, place |-> place, need |-> FALSE, errors |-> 0]

Init ==
  /\ Cases(fat, ent, dots, mdfat, answers)
  /\ fat \in [Clusters -> FatValues] /\ ent \in [Places -> Entry]
  /\ dots \in [Clusters -> Parents] /\ answers \subseteq BOOLEAN
  /\ healthy = (InOrder(fat, ent, dots) /\ mdfat = "sound")
  /\ ref = [c \in Clusters |-> 0]
  /\ start = [c \in Clusters |-> FALSE]
  /\ saved = ent
  /\ pc = "fat" /\ i = 2 /\ at = 0 /\ walked = <<>>
  /\ stack = <<>> /\ result = 0
  /\ errors = 0 /\ code = -1

Goto(p) == pc' = p /\ UNCHANGED code
Exit(c) == pc' = "exit" /\ code' = c

-----------------------------------------------------------------------------
(* Pass 1, check_fat, one cluster: an entry of 1, the loop its chain ends  *)
(* in, and the crosslink with a cluster seen before.  The entry is read    *)
(* once: the third repair does not see what the first two have written.    *)

Corrected(f, yes) == IF f[i] = 1 /\ yes THEN [f EXCEPT ![i] = FatEof] ELSE f
\* Mutant: a loop is reported but not broken.
UnloopedNot(f) == f
Unlooped(f) == [c \in Clusters |-> IF c \in LoopEnds(f, i) THEN FatEof ELSE f[c]]
Uncrossed(f, v) == [f EXCEPT ![i] = FatEof, ![ref[v]] = FatEof]
Referred(v) == IF v \in Clusters THEN [ref EXCEPT ![v] = i] ELSE ref

CheckFat ==
  LET val == fat[i]
      crossed == val \in Clusters /\ ref[val] # 0
  IN
  /\ pc = "fat" /\ i <= MaxCluster
  /\ \E correct, break, uncross \in answers :
     LET f1 == Corrected(fat, correct)
         loop == val # 0 /\ LoopEnds(f1, i) # {}
         f2 == IF loop THEN Unlooped(f1) ELSE f1
     IN \/ /\ loop /\ ~break
           /\ fat' = f1 /\ Exit(4)
           /\ UNCHANGED <<ref, i, errors>>
        \/ /\ ~loop \/ break
           /\ fat' = IF crossed /\ uncross THEN Uncrossed(f2, val) ELSE f2
           /\ ref' = Referred(val)
           /\ errors' = errors + (IF val = 1 /\ ~correct THEN 1 ELSE 0)
                               + (IF crossed /\ ~uncross THEN 1 ELSE 0)
           /\ i' = i + 1 /\ Goto("fat")
  /\ UNCHANGED <<given, dots, ent, saved, start, walk, stack, result>>

CheckFatEnds ==
  /\ pc = "fat" /\ i > MaxCluster
  /\ i' = 2
  /\ IF errors > 0 THEN Exit(4) ELSE Goto("chains")
  /\ UNCHANGED <<given, volume, tables, walk, stack, result, errors>>

(* Pass 2, check_chains: from every cluster nobody refers to, to the end.  *)
(* The errors it counts are not what it returns.                           *)
CheckChains ==
  /\ pc = "chains" /\ at = 0
  /\ \/ i > MaxCluster /\ Goto("simple") /\ UNCHANGED <<i, at>>
     \/ /\ i <= MaxCluster /\ Goto("chains")
        /\ IF fat[i] \in Clusters /\ ref[i] = 0
           THEN at' = fat[i] /\ UNCHANGED i
           ELSE i' = i + 1 /\ UNCHANGED at
  /\ UNCHANGED <<given, volume, tables, walked, stack, result, errors>>

Broken(v) == v \in {0, Bad}

FollowChain ==
  /\ pc = "chains" /\ at # 0
  /\ \/ /\ fat[at] \in Clusters
        /\ at' = fat[at] /\ UNCHANGED <<fat, i>>
     \/ /\ fat[at] \notin Clusters
        /\ \E yes \in answers :
             fat' = IF Broken(fat[at]) /\ yes THEN [fat EXCEPT ![at] = FatEof] ELSE fat
        /\ at' = 0 /\ i' = i + 1
  /\ UNCHANGED <<given, dots, ent, saved, tables, pc, walked, stack, result, errors, code>>

(* Pass 3, simple_check: it fails for a FAT with crosslinks, which it      *)
(* never repairs, and for a wrong MDFAT, which it may.  Clusters that are  *)
(* free in the FAT and not in the MDFAT are wrong: it drops their data.    *)
Dead == {c \in Clusters : fat[c] = 0 /\ dots[c] # Wrong}
Fixable == ~Crosslinked(fat) /\ mdfat # "broken"
Consistent == ~Crosslinked(fat) /\ mdfat = "sound" /\ Dead = {}

SimpleCheck ==
  /\ pc = "simple" /\ Goto("entry")
  /\ \/ /\ Consistent
        /\ UNCHANGED <<errors, dots>>
     \/ /\ ~Consistent /\ FALSE \in answers
        /\ errors' = errors + 1 /\ UNCHANGED dots
     \/ /\ ~Consistent /\ TRUE \in answers
        /\ errors' = errors + IF Fixable THEN 0 ELSE 1
        /\ dots' = [c \in Clusters |-> IF Fixable /\ c \in Dead THEN Wrong ELSE dots[c]]
  /\ stack' = <<Frame(0, Bad + 1)>>
  /\ UNCHANGED <<given, fat, ent, saved, tables, i, walk, result>>

-----------------------------------------------------------------------------
(* Pass 4: check_direntry, for the entry of the innermost call.            *)

Here == Head(stack)
E == ent[Here.place]
Change(e) == ent' = [ent EXCEPT ![Here.place] = e]
Mark == stack' = [stack EXCEPT ![1].need = TRUE]
Return(r) == result' = r /\ Goto("return")

\* Mutant: not compared with the first clusters of other entries.
TakenByChain(c) == c \in Clusters /\ ref[c] # 0
\* The first cluster: invalid, or one that a chain or an entry leads to.
Taken(c) == c \in Clusters /\ (ref[c] # 0 \/ start[c])
Misplaced(c) == c \in {1, Bad} \/ Taken(c)

CheckEntry ==
  /\ pc = "entry"
  /\ \/ /\ ~E.used
        /\ Return(0) /\ UNCHANGED <<ent, start, stack>>
     \/ /\ E.used /\ Misplaced(E.cluster)
        /\ UNCHANGED start
        /\ \/ /\ FALSE \in answers
              /\ Return(-1) /\ UNCHANGED <<ent, stack>>
           \/ /\ TRUE \in answers
              /\ Change([E EXCEPT !.cluster = 0]) /\ Mark
              /\ Goto(IF E.dir THEN "dir" ELSE "file") /\ UNCHANGED result
     \/ /\ E.used /\ ~Misplaced(E.cluster)
        /\ start' = IF E.cluster = 0 THEN start ELSE [start EXCEPT ![E.cluster] = TRUE]
        /\ Goto(IF E.dir THEN "dir" ELSE "file")
        /\ UNCHANGED <<ent, stack, result>>
  /\ UNCHANGED <<given, dots, fat, saved, ref, i, walk, errors>>

\* check_dir: a directory that cannot be read, or does not start with "." and
\* the ".." of this one, is not entered.
Enterable(c) == c # 0 /\ dots[c] = Here.dir
CheckDir ==
  /\ pc = "dir"
  /\ \/ /\ Enterable(E.cluster)
        /\ stack' = <<Frame(E.cluster, E.cluster)>> \o stack /\ Goto("entry")
     \/ /\ ~Enterable(E.cluster)
        /\ Goto("irreparable") /\ UNCHANGED stack
  /\ UNCHANGED <<given, volume, tables, i, walk, result, errors>>

\* A call of check_direntry has returned: count or write, and the next entry
\* of this directory.  A sector of the root directory is written as a whole.
WriteEntry ==
  saved' = IF result = 0 /\ Here.need
           THEN [p \in Places |-> IF \/ p = Here.place
                                     \/ Here.dir = 0 /\ p \in RootPlaces
                                  THEN ent[p] ELSE saved[p]]
           ELSE saved
Counted == Here.errors + IF result # 0 THEN 1 ELSE 0
\* Mutant: the next cluster of a directory is not taken.
ContinueHere(p) ==
  /\ stack' = <<[Here EXCEPT !.place = IF Here.dir = 0 THEN p ELSE @,
                             !.need = FALSE, !.errors = Counted]>> \o Tail(stack)
  /\ Goto("entry") /\ UNCHANGED <<result, errors>>
Continue(p) ==
  /\ stack' = <<[Here EXCEPT !.place = p, !.need = FALSE, !.errors = Counted]>> \o Tail(stack)
  /\ Goto("entry") /\ UNCHANGED <<result, errors>>
Leave(r) ==
  /\ stack' = Tail(stack) /\ result' = r /\ Goto("ascend") /\ UNCHANGED errors

NextEntry ==
  /\ pc = "return"
  /\ WriteEntry
  /\ IF Here.dir = 0
     THEN \/ /\ Here.place < Bad + RootEntries
             /\ Continue(Here.place + 1)
          \/ /\ Here.place = Bad + RootEntries
             /\ errors' = errors + IF Counted > 0 THEN 1 ELSE 0
             /\ stack' = <<>> /\ Goto("unused") /\ UNCHANGED result
     ELSE LET next == fat[Here.place] IN
          \/ next \in Clusters /\ dots[next] # Unreadable /\ Continue(next)
          \/ next \in Clusters /\ dots[next] = Unreadable /\ Leave(-1)
          \/ next \in {FatEof, 0} /\ Leave(Counted)
          \/ next \in {1, Bad} /\ Leave(Counted + 1)
  /\ UNCHANGED <<given, dots, fat, ent, tables, i, walk>>

\* Back in the entry of a directory.
Ascend ==
  /\ pc = "ascend"
  /\ \/ /\ result = -1
        /\ Goto("irreparable") /\ UNCHANGED <<ent, stack, result>>
     \/ /\ result >= 0 /\ E.size = 0
        /\ Goto("return") /\ UNCHANGED <<ent, stack, result>>
     \/ /\ result >= 0 /\ E.size # 0 /\ TRUE \in answers
        /\ Change([E EXCEPT !.size = 0]) /\ Mark
        /\ Goto("return") /\ UNCHANGED result
     \/ /\ result >= 0 /\ E.size # 0 /\ FALSE \in answers
        /\ Return(result + 1) /\ UNCHANGED <<ent, stack>>
  /\ UNCHANGED <<given, dots, fat, saved, tables, i, walk, errors>>

ConvertToFile ==
  /\ pc = "irreparable"
  /\ \/ /\ FALSE \in answers
        /\ Return(-1) /\ UNCHANGED <<ent, stack>>
     \/ /\ TRUE \in answers
        /\ Change([E EXCEPT !.dir = FALSE]) /\ Mark
        /\ Goto("file") /\ UNCHANGED result
  /\ UNCHANGED <<given, dots, fat, saved, tables, i, walk, errors>>

\* A file: an empty one, or the walk along its chain.
Resize(n) ==
  \/ FALSE \in answers /\ Return(-1) /\ UNCHANGED <<ent, stack>>
  \/ TRUE \in answers /\ Change([E EXCEPT !.size = n]) /\ Mark /\ Return(0)

CheckFile ==
  /\ pc = "file"
  /\ \/ /\ E.cluster = 0 /\ E.size = 0
        /\ Return(0) /\ UNCHANGED <<ent, stack, walk>>
     \/ /\ E.cluster = 0 /\ E.size # 0
        /\ Resize(0) /\ UNCHANGED walk
     \/ /\ E.cluster # 0
        /\ at' = E.cluster /\ walked' = <<>>
        /\ Goto("walk") /\ UNCHANGED <<ent, stack, result>>
  /\ UNCHANGED <<given, dots, fat, saved, tables, i, errors>>

WalkFile ==
  /\ pc = "walk" /\ at \in Clusters
  /\ at' = fat[at] /\ walked' = Append(walked, at)
  /\ UNCHANGED <<given, volume, tables, pc, i, stack, result, errors, code>>

\* Mutant: a file that fills its last cluster is not accepted.
AcceptsLess(size, n) ==
  size \div ClusterSize = ((n * ClusterSize - 1) % WORD) \div ClusterSize
\* The size of a chain of n clusters, and whether the size of the entry is
\* accepted for it: the same number of clusters, in unsigned arithmetic.
FatSize(n) == (n * ClusterSize) % WORD
Accepts(size, n) ==
  \/ size = FatSize(n)
  \/ size \div ClusterSize = ((FatSize(n) - 1) % WORD) \div ClusterSize
CompareSize(n) ==
  \/ Accepts(E.size, n) /\ Return(0) /\ UNCHANGED <<ent, stack>>
  \/ ~Accepts(E.size, n) /\ Resize(FatSize(n))

\* A chain that ends in a free cluster is cut after the last but one: the
\* size counts one cluster less than the chain keeps.
FileEnds ==
  LET n == Len(walked) IN
  /\ pc = "walk" /\ at \notin Clusters
  /\ \/ /\ at = 0 /\ FALSE \in answers
        /\ Return(-1) /\ UNCHANGED <<fat, ent, stack>>
     \/ /\ at = 0 /\ TRUE \in answers
        /\ fat' = [fat EXCEPT ![walked[n]] = FatEof]
        /\ CompareSize(n - 1)
     \/ /\ at \in {1, Bad}
        /\ Return(-1) /\ UNCHANGED <<fat, ent, stack>>
     \/ /\ at = FatEof
        /\ CompareSize(n) /\ UNCHANGED fat
  /\ at' = 0 /\ walked' = <<>>
  /\ UNCHANGED <<given, dots, saved, tables, i, errors>>

-----------------------------------------------------------------------------
(* Pass 5, check_unused_chains, and the exit code.                         *)

Unused == {c \in Clusters : fat[c] \in Clusters /\ ref[c] = 0 /\ ~start[c]}
CheckUnusedChains ==
  /\ pc = "unused"
  /\ errors' = errors + IF Unused # {} THEN 1 ELSE 0
  /\ Exit(IF errors' = 0 THEN 0 ELSE 4)
  /\ UNCHANGED <<given, volume, tables, i, walk, stack, result>>

Done == pc = "exit" /\ UNCHANGED vars

Work ==
  \/ CheckFat \/ CheckFatEnds \/ CheckChains \/ FollowChain \/ SimpleCheck
  \/ CheckEntry \/ CheckDir \/ NextEntry \/ Ascend \/ ConvertToFile
  \/ CheckFile \/ WalkFile \/ FileEnds \/ CheckUnusedChains
Next == Work \/ Done

Spec == Init /\ [][Next]_vars
\* The program runs, and the user answers.
FairSpec == Spec /\ WF_vars(Work)

-----------------------------------------------------------------------------

\* The variables keep their types: positions stay within the tables.
TypeOK ==
  /\ fat \in [Clusters -> FatValues]
  /\ ent \in [Places -> Entry] /\ saved \in [Places -> Entry]
  /\ dots \in [Clusters -> Parents]
  /\ ref \in [Clusters -> {0} \cup Clusters] /\ start \in [Clusters -> BOOLEAN]
  /\ i \in 2 .. MaxCluster + 1 /\ at \in FatValues
  /\ walked \in Seq(Clusters) /\ Len(walked) < MaxCluster
  /\ Len(stack) <= MaxCluster
  /\ \A k \in 1 .. Len(stack) : stack[k].place \in Places
  /\ errors \in Nat /\ code \in {-1, 0, 4}

\* What pass 1 promises the others: once it lets the check go on, and through
\* every repair that follows, no chain loops, no cluster has two predecessors
\* and no entry is 1 (main stops after pass 1 if check_fat returns errors).
PassOneSound ==
  pc \notin {"fat", "exit"} =>
    NoLoops(fat) /\ ~Crosslinked([c \in Clusters |-> IF fat[c] = Bad THEN 0 ELSE fat[c]])
    /\ \A c \in Clusters : fat[c] # 1

\* The program's tables are typed and stay as pass 1 has left them.
TablesSound == TypeOK /\ PassOneSound

\* "filesystem has no errors" (main): the entries of the tree have chains of
\* their own, every file has the clusters its size needs, and the repaired
\* entries are the ones on the disk.  (Of entries out of the tree it says
\* nothing: where a directory becomes a file, what was wrong below it is no
\* error any more, and may be repaired in memory only.)
Covered(f, e) ==
  e.used /\ ~e.dir => e.size <= ClusterSize * Cardinality(Chain(f, e.cluster))
CleanExit ==
  code = 0 =>
    /\ Disjoint(fat, ent)
    /\ \A p \in Reached(fat, ent) : ent[p] = saved[p] /\ Covered(fat, ent[p])
    /\ Cardinality(answers) = 1 => Sized(fat, ent)

\* A volume in order is left alone, whatever the answers, and passes.
HealthyPasses ==
  [][healthy => UNCHANGED volume /\ (pc' = "exit" => code' = 0)]_vars

\* The check ends, on every volume: no chain and no directory leads it around
\* for ever (check_chains and check_dir have no bound of their own).
Terminates == <>(pc = "exit")

\* "filesystem has no errors" says that pass 5 found no chain without an owner
\* (main adds to its errors if it does), after whatever was repaired before.
NothingLostAtExit == code = 0 => NothingLost(fat, ent)

=============================================================================
