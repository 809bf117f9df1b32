----------------------------- MODULE Fsck_proofs -----------------------------
(***************************************************************************)
(* Proofs about dmsdosfsck, for volumes of any size, with any FAT and any  *)
(* directory entries.                                                      *)
(*                                                                         *)
(* Chains are recursive functions over the FAT; what is needed of them is  *)
(* derived from the least number with some property (LeastOf).             *)
(* Three results: the program's tables stay sound (TablesStaySound), an    *)
(* exit code of 0 is the truth (CleanExitIsTrue), and a volume in order    *)
(* passes untouched (HealthyVolumesPass).                                  *)
(***************************************************************************)
EXTENDS Fsck, FiniteSetTheorems, SequenceTheorems, WellFoundedInduction, TLAPS

LEMMA LessThanRelation ==
  \A x, y \in Nat : x < y => <<x, y>> \in OpToRel(<, Nat)
BY DEF OpToRel

(* A non-empty set of naturals has a least member ...                      *)
LEMMA LeastOf ==
  ASSUME NEW S \in SUBSET Nat, S # {}
  PROVE  \E m \in S : \A y \in S : m <= y
<1>1. PICK m \in S : \A y \in S : ~(<<y, m>> \in OpToRel(<, Nat))
  BY NatLessThanWellFounded, WFMin
<1>2. \A y \in S : ~(y < m)
  BY <1>1, LessThanRelation, Zenon
<1>3. \A y \in S : m <= y
  BY <1>2
<1> QED BY <1>3

(* ... so a set that holds 0 and the successor of each member is all of    *)
(* them.                                                                   *)
LEMMA AllNaturals ==
  ASSUME NEW S, 0 \in S, \A n \in Nat : n \in S => n + 1 \in S
  PROVE  Nat \subseteq S
<1> SUFFICES ASSUME Nat \ S # {} PROVE FALSE
  OBVIOUS
<1>1. PICK m \in Nat \ S : \A y \in Nat \ S : m <= y
  <2>1. Nat \ S \in SUBSET Nat
    OBVIOUS
  <2> QED BY <2>1, LeastOf
<1>2. m # 0 /\ m - 1 \in Nat
  BY <1>1
<1>3. m - 1 \in S
  BY <1>1, <1>2
<1> QED BY <1>1, <1>2, <1>3

-----------------------------------------------------------------------------
(* Following a chain.                                                      *)

From(f, v) == IF v \in Clusters THEN f[v] ELSE 0
IsPath(f, c, n, g) ==
  g = [k \in 0 .. n |-> IF k = 0 THEN c
                        ELSE IF g[k - 1] \in Clusters THEN f[g[k - 1]] ELSE 0]
Path(f, c, n) == CHOOSE g : IsPath(f, c, n, g)

LEMMA PathValues ==
  ASSUME NEW f, NEW c, NEW n \in Nat, NEW g, IsPath(f, c, n, g)
  PROVE  g[0] = c /\ \A k \in 1 .. n : g[k] = From(f, g[k - 1])
<1> DEFINE h == [k \in 0 .. n |-> IF k = 0 THEN c
                      ELSE IF g[k - 1] \in Clusters THEN f[g[k - 1]] ELSE 0]
<1>1. g = h
  BY DEF IsPath
<1>2. h[0] = c /\ \A k \in 1 .. n : h[k] = From(f, g[k - 1])
  BY DEF From
<1> HIDE DEF h
<1> QED BY <1>1, <1>2

LEMMA PathBuilt ==
  ASSUME NEW f, NEW c, NEW n \in Nat, NEW e,
         e[0] = c, \A k \in 1 .. n : e[k] = From(f, e[k - 1])
  PROVE  \E g : IsPath(f, c, n, g)
<1> DEFINE g == [k \in 0 .. n |-> e[k]]
<1>1. ASSUME NEW k \in 0 .. n
      PROVE  e[k] = IF k = 0 THEN c
                    ELSE IF g[k - 1] \in Clusters THEN f[g[k - 1]] ELSE 0
  <2>1. CASE k = 0
    BY <2>1
  <2>2. CASE k # 0
    <3>1. k - 1 \in 0 .. n /\ k \in 1 .. n
      BY <2>2
    <3>2. g[k - 1] = e[k - 1]
      BY <3>1
    <3> QED BY <2>2, <3>1, <3>2 DEF From
  <2> QED BY <2>1, <2>2
<1>2. IsPath(f, c, n, g)
  BY <1>1 DEF IsPath
<1> QED BY <1>2

LEMMA PathExists ==
  ASSUME NEW f, NEW c, NEW n \in Nat
  PROVE  IsPath(f, c, n, Path(f, c, n))
<1> DEFINE S == {m \in Nat : \E g : IsPath(f, c, m, g)}
<1>1. 0 \in S
  <2> DEFINE e == [k \in 0 .. 0 |-> c]
  <2>1. e[0] = c
    OBVIOUS
  <2> HIDE DEF e
  <2> QED BY <2>1, PathBuilt
<1>2. ASSUME NEW m \in Nat, m \in S
      PROVE  m + 1 \in S
  <2>1. PICK g : IsPath(f, c, m, g)
    BY <1>2
  <2>2. g[0] = c /\ \A k \in 1 .. m : g[k] = From(f, g[k - 1])
    BY <2>1, PathValues
  <2> DEFINE h == [k \in 0 .. m + 1 |-> IF k = m + 1 THEN From(f, g[m]) ELSE g[k]]
  <2>3. h[0] = c
    BY <2>2
  <2>4. \A k \in 1 .. m + 1 : h[k] = From(f, h[k - 1])
    <3> TAKE k \in 1 .. m + 1
    <3>1. h[k - 1] = g[k - 1]
      OBVIOUS
    <3>2. CASE k = m + 1
      BY <3>1, <3>2
    <3>3. CASE k \in 1 .. m
      <4>1. h[k] = g[k]
        BY <3>3
      <4> HIDE DEF h
      <4> QED BY <2>2, <3>1, <3>3, <4>1
    <3> QED BY <3>2, <3>3
  <2> HIDE DEF h
  <2>5. m + 1 \in Nat
    OBVIOUS
  <2>6. \E p : IsPath(f, c, m + 1, p)
    BY <2>3, <2>4, <2>5, PathBuilt, Zenon
  <2> QED BY <2>5, <2>6
<1> HIDE DEF S
<1>3. n \in S
  BY <1>1, <1>2, AllNaturals
<1> QED BY <1>3 DEF S, Path

LEMMA PathWalks ==
  ASSUME NEW f, NEW c
  PROVE  \A n \in Nat : /\ Path(f, c, n)[0] = c
                        /\ \A k \in 1 .. n :
                             Path(f, c, n)[k] = From(f, Path(f, c, n)[k - 1])
<1> TAKE n \in Nat
<1>1. IsPath(f, c, n, Path(f, c, n))
  BY PathExists
<1> QED BY <1>1, PathValues

LEMMA AlongPath ==
  ASSUME NEW f, NEW c, NEW n \in Nat
  PROVE  Along(f, c, n) = Path(f, c, n)[n]
BY DEF Along, Path, IsPath

(* One step of the walk.                                                   *)
LEMMA AlongSteps ==
  ASSUME NEW f, NEW c
  PROVE  /\ Along(f, c, 0) = c
         /\ \A n \in Nat : Along(f, c, n + 1) = From(f, Along(f, c, n))
<1>1. Along(f, c, 0) = c
  BY AlongPath, PathExists, PathValues
<1>2. ASSUME NEW n \in Nat
      PROVE  Along(f, c, n + 1) = From(f, Along(f, c, n))
  <2> DEFINE g == Path(f, c, n)
             h == Path(f, c, n + 1)
             S == {k \in Nat : k <= n => h[k] = g[k]}
  <2>1. /\ g[0] = c /\ \A k \in 1 .. n : g[k] = From(f, g[k - 1])
        /\ h[0] = c /\ \A k \in 1 .. n + 1 : h[k] = From(f, h[k - 1])
    <3>1. n + 1 \in Nat
      OBVIOUS
    <3>2. PICK m \in Nat : m = n + 1
      BY <3>1
    <3>3. g[0] = c /\ \A k \in 1 .. n : g[k] = From(f, g[k - 1])
      BY PathWalks
    <3>4. h[0] = c /\ \A k \in 1 .. m : h[k] = From(f, h[k - 1])
      BY <3>2, PathWalks
    <3> QED BY <3>2, <3>3, <3>4
  <2>2. Along(f, c, n) = g[n] /\ Along(f, c, n + 1) = h[n + 1]
    BY AlongPath
  <2> HIDE DEF g, h
  <2>3. 0 \in S
    BY <2>1
  <2>4. ASSUME NEW k \in Nat, k \in S
        PROVE  k + 1 \in S
    <3> SUFFICES ASSUME k + 1 <= n PROVE h[k + 1] = g[k + 1]
      OBVIOUS
    <3>1. h[k] = g[k]
      BY <2>4
    <3>2. k + 1 \in 1 .. n /\ k + 1 \in 1 .. n + 1 /\ (k + 1) - 1 = k
      OBVIOUS
    <3> QED BY <2>1, <3>1, <3>2
  <2> HIDE DEF S
  <2>5. n \in S
    BY <2>3, <2>4, AllNaturals
  <2>6. h[n] = g[n]
    BY <2>5 DEF S
  <2>7. n + 1 \in 1 .. n + 1 /\ (n + 1) - 1 = n
    OBVIOUS
  <2> QED BY <2>1, <2>2, <2>6, <2>7
<1> QED BY <1>1, <1>2

LEMMA Numbers ==
  /\ MaxCluster \in Nat /\ MaxCluster >= 2
  /\ Clusters \subseteq Nat /\ 0 \notin Clusters /\ 1 \notin Clusters
  /\ FatEof \notin Clusters /\ Bad \notin Clusters
  /\ FatEof # 0 /\ FatEof # 1 /\ FatEof # Bad /\ Bad # 0 /\ Bad # 1
  /\ FatValues \subseteq Int
BY FsckAssumption DEF Clusters, FatEof, Bad, FatValues

(* Before the end of a chain there are only clusters.                      *)
LEMMA AlongEarlier ==
  ASSUME NEW f, NEW c, NEW n \in Nat, Along(f, c, n) \in Clusters
  PROVE  \A k \in 0 .. n : Along(f, c, k) \in Clusters
<1> DEFINE S == {d \in Nat : d <= n => Along(f, c, n - d) \in Clusters}
<1>1. 0 \in S
  OBVIOUS
<1>2. ASSUME NEW d \in Nat, d \in S
      PROVE  d + 1 \in S
  <2> SUFFICES ASSUME d + 1 <= n PROVE Along(f, c, n - (d + 1)) \in Clusters
    OBVIOUS
  <2>1. PICK m \in Nat : m = n - (d + 1) /\ m + 1 = n - d
    OBVIOUS
  <2>2. Along(f, c, m + 1) \in Clusters
    BY <1>2, <2>1
  <2>3. Along(f, c, m + 1) = From(f, Along(f, c, m))
    BY AlongSteps
  <2> QED BY <2>1, <2>2, <2>3, Numbers DEF From
<1> HIDE DEF S
<1>3. Nat \subseteq S
  BY <1>1, <1>2, AllNaturals
<1> SUFFICES ASSUME NEW k \in 0 .. n PROVE Along(f, c, k) \in Clusters
  OBVIOUS
<1>4. n - k \in S /\ n - (n - k) = k
  BY <1>3
<1> QED BY <1>4 DEF S

(* After it there is nothing.                                              *)
LEMMA AlongLater ==
  ASSUME NEW f, NEW c, NEW n \in Nat, Along(f, c, n) \notin Clusters
  PROVE  \A k \in Nat : k >= n => Along(f, c, k) \notin Clusters
<1> TAKE k \in Nat
<1> HAVE k >= n
<1>1. n \in 0 .. k
  OBVIOUS
<1> QED BY <1>1, AlongEarlier

(* The repairs cut: they set entries to FAT_EOF.                           *)
Fats == [Clusters -> FatValues]
IsCut(f, h) ==
  f \in Fats /\ h \in Fats /\ \A c \in Clusters : h[c] \in {f[c], FatEof}

LEMMA CutOnce ==
  ASSUME NEW f, NEW h, IsCut(f, h), NEW v, From(h, v) \in Clusters
  PROVE  v \in Clusters /\ h[v] = f[v] /\ From(h, v) = From(f, v)
BY Numbers DEF IsCut, From

LEMMA AlongCut ==
  ASSUME NEW f, NEW h, IsCut(f, h), NEW c,
         NEW n \in Nat, Along(h, c, n) \in Clusters
  PROVE  Along(h, c, n) = Along(f, c, n)
<1> DEFINE S == {k \in Nat : k <= n => Along(h, c, k) = Along(f, c, k)}
<1>1. 0 \in S
  BY AlongSteps
<1>2. ASSUME NEW k \in Nat, k \in S
      PROVE  k + 1 \in S
  <2> SUFFICES ASSUME k + 1 <= n PROVE Along(h, c, k + 1) = Along(f, c, k + 1)
    OBVIOUS
  <2>1. Along(h, c, k) = Along(f, c, k)
    BY <1>2
  <2>2. k + 1 \in 0 .. n
    OBVIOUS
  <2>3. Along(h, c, k + 1) \in Clusters
    BY <2>2, AlongEarlier
  <2>4. /\ Along(h, c, k + 1) = From(h, Along(h, c, k))
        /\ Along(f, c, k + 1) = From(f, Along(f, c, k))
    BY AlongSteps
  <2> QED BY <2>1, <2>3, <2>4, CutOnce
<1> HIDE DEF S
<1>3. n \in S
  BY <1>1, <1>2, AllNaturals
<1> QED BY <1>3 DEF S

(* A cut makes no loop, and a loop that is left is as it was.              *)
LEMMA LoopCut ==
  ASSUME NEW f, NEW h, IsCut(f, h), NEW c, NEW b \in LoopEnds(h, c)
  PROVE  b \in LoopEnds(f, c) /\ h[b] \in Clusters
<1>1. PICK n \in 0 .. MaxCluster :
        /\ b \in Clusters /\ b = Along(h, c, n)
        /\ Seen(h, c, n) \subseteq Clusters
        /\ h[b] \in Seen(h, c, n)
        /\ \A k \in 0 .. n - 1 : h[Along(h, c, k)] \notin Seen(h, c, k)
  BY DEF LoopEnds
<1>2. n \in Nat
  BY <1>1, Numbers
<1>3. \A k \in 0 .. n : Along(h, c, k) \in Clusters
  BY <1>1 DEF Seen
<1>4. \A k \in 0 .. n : Along(h, c, k) = Along(f, c, k)
  BY <1>2, <1>3, AlongCut
<1>5. \A k \in 0 .. n : Seen(h, c, k) = Seen(f, c, k)
  BY <1>2, <1>4 DEF Seen
<1>6. h[b] \in Clusters /\ h[b] = f[b]
  BY <1>1, CutOnce DEF From
<1>7. ASSUME NEW k \in 0 .. n - 1
      PROVE  f[Along(f, c, k)] \notin Seen(f, c, k)
  <2>1. k \in 0 .. n /\ k + 1 \in 0 .. n /\ k \in Nat
    BY <1>2
  <2>2. Along(h, c, k + 1) = From(h, Along(h, c, k))
    BY <2>1, AlongSteps
  <2>3. From(h, Along(h, c, k)) \in Clusters
    BY <1>3, <2>1, <2>2
  <2>4. h[Along(h, c, k)] = f[Along(h, c, k)]
    BY <2>3, CutOnce
  <2> QED BY <1>1, <1>4, <1>5, <2>1, <2>4
<1>8. n \in 0 .. n
  BY <1>2
<1>9. /\ b = Along(f, c, n) /\ Seen(f, c, n) \subseteq Clusters
      /\ f[b] \in Seen(f, c, n)
  BY <1>1, <1>4, <1>5, <1>6, <1>8
<1> QED BY <1>1, <1>6, <1>7, <1>9 DEF LoopEnds

LEMMA LoopsStayBroken ==
  ASSUME NEW f, NEW h, IsCut(f, h), NEW c, LoopEnds(f, c) = {}
  PROVE  LoopEnds(h, c) = {}
BY LoopCut

(* A walk through clusters takes at most as many steps as there are.       *)
LEMMA FewDistinct ==
  ASSUME NEW w, NEW n \in Nat, \A k \in 1 .. n : w[k] \in Clusters,
         \A k, m \in 1 .. n : w[k] = w[m] => k = m
  PROVE  n < MaxCluster
<1> DEFINE g == [k \in 1 .. n |-> w[k]]
<1>1. g \in Injection(1 .. n, Clusters)
  BY DEF Injection, IsInjective
<1>2. IsFiniteSet(Clusters) /\ Cardinality(Clusters) = MaxCluster - 1
  BY Numbers, FS_Interval DEF Clusters
<1>3. Cardinality(1 .. n) <= Cardinality(Clusters)
  <2> HIDE DEF g
  <2> QED BY <1>1, <1>2, FS_Injection
<1>4. Cardinality(1 .. n) = n
  BY FS_Interval
<1> QED BY <1>2, <1>3, <1>4, Numbers

(* A chain without a loop never comes back to a cluster.                   *)
LEMMA AlongDistinct ==
  ASSUME NEW f, NEW c, LoopEnds(f, c) = {},
         NEW n \in Nat, \A k \in 0 .. n : Along(f, c, k) \in Clusters
  PROVE  \A k, m \in 0 .. n : Along(f, c, k) = Along(f, c, m) => k = m
<1> DEFINE S == {m \in 0 .. n : \E k \in 0 .. m - 1 : Along(f, c, k) = Along(f, c, m)}
<1>1. CASE S = {}
  <2> TAKE k, m \in 0 .. n
  <2>1. CASE k < m
    BY <1>1, <2>1
  <2>2. CASE m < k
    BY <1>1, <2>2
  <2> QED BY <2>1, <2>2
<1>2. CASE S # {}
  <2>1. S \in SUBSET Nat
    OBVIOUS
  <2>2. PICK m \in S : \A y \in S : m <= y
    <3> HIDE DEF S
    <3> QED BY <1>2, <2>1, LeastOf
  <2>3. PICK k \in 0 .. m - 1 : Along(f, c, k) = Along(f, c, m)
    BY <2>2
  <2>4. m \in Nat /\ m >= 1 /\ m <= n
    BY <2>2, <2>3
  <2>5. PICK l \in Nat : m = l + 1
    BY <2>4
  <2> DEFINE b == Along(f, c, l)
  <2>6. \A x, y \in 0 .. l : Along(f, c, x) = Along(f, c, y) => x = y
    <3>1. ASSUME NEW x \in 0 .. l, NEW y \in 0 .. l, x < y,
                 Along(f, c, x) = Along(f, c, y)
          PROVE  FALSE
      <4>1. y \in S
        BY <3>1, <2>4, <2>5
      <4> HIDE DEF S
      <4> QED BY <2>2, <2>5, <3>1, <4>1
    <3> HIDE DEF S
    <3> TAKE x, y \in 0 .. l
    <3> QED BY <3>1
  <2>7. l + 1 < MaxCluster
    <3> DEFINE w == [j \in 1 .. l + 1 |-> Along(f, c, j - 1)]
    <3>1. \A j \in 1 .. l + 1 : w[j] \in Clusters
      BY <2>4, <2>5
    <3>2. \A x, y \in 1 .. l + 1 : w[x] = w[y] => x = y
      <4> TAKE x, y \in 1 .. l + 1
      <4>1. x - 1 \in 0 .. l /\ y - 1 \in 0 .. l
        OBVIOUS
      <4> QED BY <2>6, <4>1
    <3>3. l + 1 \in Nat
      OBVIOUS
    <3> HIDE DEF w
    <3> QED BY <3>1, <3>2, <3>3, FewDistinct
  <2>8. l \in 0 .. MaxCluster
    BY <2>7, Numbers
  <2>9. b \in Clusters /\ Seen(f, c, l) \subseteq Clusters
    BY <2>4, <2>5 DEF Seen
  <2>10. \A x \in 0 .. l : f[Along(f, c, x)] = Along(f, c, x + 1)
    <3> TAKE x \in 0 .. l
    <3>1. x \in Nat /\ x \in 0 .. n
      BY <2>4, <2>5
    <3> QED BY <3>1, AlongSteps DEF From
  <2>11. f[b] \in Seen(f, c, l)
    <3>1. l \in 0 .. l /\ k \in 0 .. l
      BY <2>3, <2>5
    <3>2. f[b] = Along(f, c, k)
      BY <2>3, <2>5, <2>10, <3>1
    <3> QED BY <3>1, <3>2 DEF Seen
  <2>12. ASSUME NEW x \in 0 .. l - 1
         PROVE  f[Along(f, c, x)] \notin Seen(f, c, x)
    <3>1. x \in 0 .. l /\ x + 1 \in 0 .. l
      OBVIOUS
    <3>2. f[Along(f, c, x)] = Along(f, c, x + 1)
      BY <2>10, <3>1
    <3>3. ASSUME NEW y \in 0 .. x, Along(f, c, x + 1) = Along(f, c, y)
          PROVE  FALSE
      <4>1. y \in 0 .. l /\ y # x + 1
        OBVIOUS
      <4> QED BY <2>6, <3>1, <3>3, <4>1
    <3> QED BY <3>2, <3>3 DEF Seen
  <2>13. b \in LoopEnds(f, c)
    BY <2>8, <2>9, <2>11, <2>12 DEF LoopEnds
  <2> QED BY <2>13
<1> QED BY <1>1, <1>2

LEMMA ShortChains ==
  ASSUME NEW f, NEW c, LoopEnds(f, c) = {},
         NEW n \in Nat, \A k \in 0 .. n : Along(f, c, k) \in Clusters
  PROVE  n + 1 < MaxCluster
<1> DEFINE w == [j \in 1 .. n + 1 |-> Along(f, c, j - 1)]
<1>1. \A j \in 1 .. n + 1 : w[j] \in Clusters
  OBVIOUS
<1>2. \A x, y \in 1 .. n + 1 : w[x] = w[y] => x = y
  <2> TAKE x, y \in 1 .. n + 1
  <2>1. x - 1 \in 0 .. n /\ y - 1 \in 0 .. n
    OBVIOUS
  <2> QED BY <2>1, AlongDistinct
<1>3. n + 1 \in Nat
  OBVIOUS
<1> HIDE DEF w
<1> QED BY <1>1, <1>2, <1>3, FewDistinct

-----------------------------------------------------------------------------
(* What the passes rely on.                                                *)

Frames == [dir : {0} \cup Clusters, place : Places, need : BOOLEAN, errors : Nat]
PassFour == {"entry", "dir", "irreparable", "file", "walk", "return", "ascend"}
Passes == {"fat", "chains", "simple", "unused", "exit"} \cup PassFour

Typed ==
  /\ fat \in Fats
  /\ ent \in [Places -> Entry] /\ saved \in [Places -> Entry]
  /\ dots \in [Clusters -> Parents] /\ answers \subseteq BOOLEAN
  /\ ref \in [Clusters -> {0} \cup Clusters] /\ start \in [Clusters -> BOOLEAN]
  /\ i \in 2 .. MaxCluster + 1 /\ at \in FatValues
  /\ walked \in Seq(Clusters)
  /\ stack \in Seq(Frames)
  /\ pc \in Passes /\ result \in Int /\ result >= -1
  /\ errors \in Nat /\ code \in {-1, 0, 4}

(* Every link of the FAT is known to fat[].referrenced_from, which has     *)
(* room for one: no two links lead to the same cluster.                    *)
Linked(c) == fat[c] # 1 /\ (fat[c] \in Clusters => ref[fat[c]] = c)
PassOneKeeps ==
  /\ pc = "fat" => \A c \in 2 .. i - 1 : /\ LoopEnds(fat, c) = {}
                                         /\ errors = 0 => Linked(c)
  /\ pc \notin {"fat", "exit"} => \A c \in Clusters : LoopEnds(fat, c) = {} /\ Linked(c)

(* The calls under way: check_root_dir, and within it a check_dir for each *)
(* of some different directories, each taken by the entry that led to it.  *)
Stacked ==
  /\ pc \in PassFour <=> stack # <<>>
  /\ \A k \in 1 .. Len(stack) :
       /\ stack[k].dir = 0 <=> k = Len(stack)
       /\ stack[k].place \in IF stack[k].dir = 0 THEN RootPlaces ELSE Clusters
       /\ stack[k].dir # 0 => start[stack[k].dir]
       /\ k > 1 => ent[stack[k].place].cluster \in {0} \cup Clusters
  /\ \A k, m \in 1 .. Len(stack) : stack[k].dir = stack[m].dir => k = m

Entered ==
  /\ pc \in {"dir", "irreparable", "file", "walk", "ascend"} =>
       E.cluster \in {0} \cup Clusters
  /\ pc = "dir" /\ E.cluster # 0 =>
       /\ start[E.cluster]
       /\ \A k \in 1 .. Len(stack) : stack[k].dir # E.cluster

(* The walk along the chain of a file.                                     *)
Walking ==
  /\ pc # "walk" => walked = <<>>
  /\ pc = "walk" =>
       /\ E.cluster \in Clusters
       /\ at = Along(fat, E.cluster, Len(walked))
       /\ \A k \in 1 .. Len(walked) : walked[k] = Along(fat, E.cluster, k - 1)

(* Pass 2 on its way along a chain.                                        *)
Following ==
  /\ pc = "fat" => at = 0
  /\ pc = "chains" /\ at # 0 => i \in Clusters /\ at \in Clusters

IInv == Typed /\ PassOneKeeps /\ Following /\ Stacked /\ Entered /\ Walking

-----------------------------------------------------------------------------
(* The stack.                                                              *)

LEMMA TopFrame ==
  ASSUME NEW s \in Seq(Frames), s # <<>>
  PROVE  /\ Head(s) = s[1] /\ s[1] \in Frames
         /\ Len(s) \in Nat /\ Len(s) >= 1
         /\ s[1].dir \in {0} \cup Clusters /\ s[1].place \in Places
         /\ s[1].errors \in Nat
<1>1. Len(s) \in Nat /\ Len(s) >= 1
  OBVIOUS
<1>2. Head(s) = s[1] /\ s[1] \in Frames
  BY <1>1
<1> QED BY <1>1, <1>2 DEF Frames

LEMMA MarkedFrame ==
  ASSUME NEW s \in Seq(Frames), s # <<>>,
         NEW m, m = [s EXCEPT ![1].need = TRUE]
  PROVE  /\ m \in Seq(Frames) /\ Len(m) = Len(s) /\ m # <<>>
         /\ m[1] = [s[1] EXCEPT !.need = TRUE]
         /\ \A k \in 2 .. Len(s) : m[k] = s[k]
         /\ \A k \in 1 .. Len(s) : /\ m[k].dir = s[k].dir /\ m[k].place = s[k].place
                                  /\ m[k].errors = s[k].errors
<1> DEFINE fr == [s[1] EXCEPT !.need = TRUE]
<1>1. Len(s) \in Nat /\ Len(s) >= 1 /\ s[1] \in Frames
  BY TopFrame
<1>2. fr \in Frames /\ fr.dir = s[1].dir /\ fr.place = s[1].place /\ fr.errors = s[1].errors
  BY <1>1 DEF Frames
<1>3. m = [s EXCEPT ![1] = fr]
  OBVIOUS
<1> HIDE DEF fr
<1>4. /\ m \in Seq(Frames) /\ Len(m) = Len(s)
      /\ \A k \in 1 .. Len(s) : m[k] = IF k = 1 THEN fr ELSE s[k]
  <2>1. 1 \in 1 .. Len(s) /\ fr \in Frames
    BY <1>1, <1>2
  <2>2. LET t == [s EXCEPT ![1] = fr]
        IN  /\ t \in Seq(Frames) /\ Len(t) = Len(s)
            /\ \A k \in 1 .. Len(s) : t[k] = IF k = 1 THEN fr ELSE s[k]
    BY <2>1, ExceptSeq
  <2> QED BY <1>3, <2>2
<1>5. m # <<>>
  BY <1>1, <1>4
<1>6. m[1] = fr
  BY <1>1, <1>4
<1>7. \A k \in 2 .. Len(s) : m[k] = s[k]
  BY <1>1, <1>4
<1>8. \A k \in 1 .. Len(s) : /\ m[k].dir = s[k].dir /\ m[k].place = s[k].place
                            /\ m[k].errors = s[k].errors
  BY <1>2, <1>4
<1> QED BY <1>4, <1>5, <1>6, <1>7, <1>8 DEF fr

LEMMA PushedFrame ==
  ASSUME NEW s \in Seq(Frames), NEW fr \in Frames
  PROVE  /\ <<fr>> \o s \in Seq(Frames) /\ Len(<<fr>> \o s) = Len(s) + 1
         /\ <<fr>> \o s # <<>> /\ (<<fr>> \o s)[1] = fr
         /\ \A k \in 1 .. Len(s) : (<<fr>> \o s)[k + 1] = s[k]
         /\ \A k \in 2 .. Len(s) + 1 : (<<fr>> \o s)[k] = s[k - 1]
<1>1. <<fr>> \in Seq(Frames) /\ Len(<<fr>>) = 1 /\ <<fr>>[1] = fr /\ Len(s) \in Nat
  OBVIOUS
<1> DEFINE t == <<fr>> \o s
<1>2. /\ t \in Seq(Frames) /\ Len(t) = 1 + Len(s)
      /\ \A k \in 1 .. 1 + Len(s) : t[k] = IF k <= 1 THEN <<fr>>[k] ELSE s[k - 1]
  BY <1>1, ConcatProperties
<1> HIDE DEF t
<1>3. t # <<>> /\ t[1] = fr
  <2>1. Len(t) # 0
    BY <1>1, <1>2
  <2>2. 1 \in 1 .. 1 + Len(s)
    BY <1>1
  <2>3. t[1] = fr
    BY <1>1, <1>2, <2>2
  <2> QED BY <2>1, <2>3
<1>4. \A k \in 1 .. Len(s) : t[k + 1] = s[k]
  <2> TAKE k \in 1 .. Len(s)
  <2>1. k + 1 \in 1 .. 1 + Len(s) /\ ~(k + 1 <= 1) /\ (k + 1) - 1 = k
    BY <1>1
  <2> QED BY <1>2, <2>1
<1>5. \A k \in 2 .. Len(s) + 1 : t[k] = s[k - 1]
  BY <1>1, <1>2
<1> QED BY <1>1, <1>2, <1>3, <1>4, <1>5 DEF t

LEMMA PoppedFrame ==
  ASSUME NEW s \in Seq(Frames), s # <<>>
  PROVE  /\ Tail(s) \in Seq(Frames) /\ Len(Tail(s)) = Len(s) - 1
         /\ \A k \in 1 .. Len(s) - 1 : Tail(s)[k] = s[k + 1]
BY HeadTailProperties

LEMMA ReplacedFrame ==
  ASSUME NEW s \in Seq(Frames), s # <<>>, NEW fr \in Frames
  PROVE  /\ <<fr>> \o Tail(s) \in Seq(Frames) /\ Len(<<fr>> \o Tail(s)) = Len(s)
         /\ <<fr>> \o Tail(s) # <<>> /\ (<<fr>> \o Tail(s))[1] = fr
         /\ \A k \in 2 .. Len(s) : (<<fr>> \o Tail(s))[k] = s[k]
<1>1. Len(s) \in Nat /\ Len(s) >= 1
  BY TopFrame
<1> DEFINE t == Tail(s)
<1>2. /\ t \in Seq(Frames) /\ Len(t) = Len(s) - 1
      /\ \A k \in 1 .. Len(s) - 1 : t[k] = s[k + 1]
  BY PoppedFrame
<1> HIDE DEF t
<1> DEFINE u == <<fr>> \o t
<1>3. /\ u \in Seq(Frames) /\ Len(u) = Len(t) + 1 /\ u # <<>> /\ u[1] = fr
      /\ \A k \in 2 .. Len(t) + 1 : u[k] = t[k - 1]
  BY <1>2, PushedFrame
<1> HIDE DEF u
<1>4. \A k \in 2 .. Len(s) : u[k] = s[k]
  <2> TAKE k \in 2 .. Len(s)
  <2>1. k \in 2 .. Len(t) + 1 /\ k - 1 \in 1 .. Len(s) - 1 /\ (k - 1) + 1 = k
    BY <1>1, <1>2
  <2> QED BY <1>2, <1>3, <2>1
<1>5. Len(u) = Len(s)
  BY <1>1, <1>2, <1>3
<1> QED BY <1>3, <1>4, <1>5 DEF u, t

-----------------------------------------------------------------------------
(* The steps keep the invariant.                                           *)

LEMMA SameStack ==
  ASSUME Typed, Stacked,
         stack' \in Seq(Frames), Len(stack') = Len(stack),
         pc \in PassFour <=> pc' \in PassFour,
         \A k \in 1 .. Len(stack) : /\ stack'[k].dir = stack[k].dir
                                    /\ stack'[k].place = stack[k].place,
         \A c \in Clusters : start[c] => start'[c],
         \A p \in Places : ent[p].cluster \in {0} \cup Clusters
                            => ent'[p].cluster \in {0} \cup Clusters
  PROVE  Stacked'
<1>1. /\ pc \in PassFour <=> stack # <<>>
      /\ \A k \in 1 .. Len(stack) :
           /\ stack[k].dir = 0 <=> k = Len(stack)
           /\ stack[k].place \in IF stack[k].dir = 0 THEN RootPlaces ELSE Clusters
           /\ stack[k].dir # 0 => start[stack[k].dir]
           /\ k > 1 => ent[stack[k].place].cluster \in {0} \cup Clusters
      /\ \A k, m \in 1 .. Len(stack) : stack[k].dir = stack[m].dir => k = m
  BY DEF Stacked
<1>2. stack \in Seq(Frames)
  BY DEF Typed
<1>3. stack' # <<>> <=> stack # <<>>
  <2>1. stack # <<>> <=> Len(stack) # 0
    BY <1>2
  <2>2. stack' # <<>> <=> Len(stack') # 0
    OBVIOUS
  <2> QED BY <2>1, <2>2
<1>4. ASSUME NEW k \in 1 .. Len(stack)
      PROVE  stack[k].place \in Places /\ stack[k].dir \in {0} \cup Clusters
  <2>1. stack[k] \in Frames
    BY <1>2
  <2> QED BY <2>1 DEF Frames
<1>5. ASSUME NEW k \in 1 .. Len(stack')
      PROVE  /\ stack'[k].dir = 0 <=> k = Len(stack')
             /\ stack'[k].place \in IF stack'[k].dir = 0 THEN RootPlaces ELSE Clusters
             /\ stack'[k].dir # 0 => start'[stack'[k].dir]
             /\ k > 1 => ent'[stack'[k].place].cluster \in {0} \cup Clusters
  <2>1. k \in 1 .. Len(stack)
    OBVIOUS
  <2>2. stack'[k].dir = stack[k].dir /\ stack'[k].place = stack[k].place
    BY <2>1
  <2>3. stack[k].place \in Places /\ stack[k].dir \in {0} \cup Clusters
    BY <1>4, <2>1
  <2> QED BY <1>1, <2>1, <2>2, <2>3
<1>6. \A k, m \in 1 .. Len(stack') : stack'[k].dir = stack'[m].dir => k = m
  BY <1>1
<1> QED BY <1>1, <1>3, <1>5, <1>6 DEF Stacked

LEMMA CutKeepsLinks ==
  ASSUME PassOneKeeps, pc \notin {"fat", "exit"}, pc' # "fat",
         IsCut(fat, fat'), ref' = ref
  PROVE  PassOneKeeps'
<1> SUFFICES ASSUME NEW c \in Clusters
             PROVE  LoopEnds(fat', c) = {} /\ Linked(c)'
  BY DEF PassOneKeeps
<1>1. LoopEnds(fat, c) = {} /\ Linked(c)
  BY DEF PassOneKeeps
<1>2. LoopEnds(fat', c) = {}
  BY <1>1, LoopsStayBroken
<1>3. fat'[c] \in {fat[c], FatEof}
  BY DEF IsCut
<1>4. Linked(c)'
  BY <1>1, <1>3, Numbers DEF Linked
<1> QED BY <1>2, <1>4

LEMMA NoCut ==
  \A f \in Fats : IsCut(f, f)
BY DEF IsCut

LEMMA OneCut ==
  ASSUME NEW f \in Fats, NEW c
  PROVE  [f EXCEPT ![c] = FatEof] \in Fats /\ IsCut(f, [f EXCEPT ![c] = FatEof])
BY DEF IsCut, Fats, FatValues

LEMMA CutTwice ==
  ASSUME NEW f, NEW g, NEW h, IsCut(f, g), IsCut(g, h)
  PROVE  IsCut(f, h)
BY DEF IsCut

(* Where a directory entry is, and what it may become.                     *)
LEMMA PlaceHere ==
  ASSUME Typed, Stacked, pc \in PassFour
  PROVE  /\ stack # <<>> /\ Here = stack[1] /\ Len(stack) >= 1 /\ Len(stack) \in Nat
         /\ Here \in Frames /\ Here.place \in Places /\ Here.errors \in Nat
         /\ Here.dir \in {0} \cup Clusters
         /\ E \in Entry
<1>1. stack # <<>> /\ stack \in Seq(Frames)
  BY DEF Typed, Stacked
<1>2. /\ Here = stack[1] /\ Len(stack) >= 1 /\ Len(stack) \in Nat /\ stack[1] \in Frames
      /\ stack[1].place \in Places /\ stack[1].errors \in Nat
      /\ stack[1].dir \in {0} \cup Clusters
  BY <1>1, TopFrame DEF Here
<1> QED BY <1>1, <1>2 DEF E, Typed

LEMMA EntryChanges ==
  ASSUME NEW e \in Entry
  PROVE  /\ e.used \in BOOLEAN /\ e.dir \in BOOLEAN
         /\ e.cluster \in FatValues \ {FatEof} /\ e.size \in 0 .. SizeLimit - 1
         /\ [e EXCEPT !.cluster = 0] \in Entry
         /\ [e EXCEPT !.dir = FALSE] \in Entry
         /\ \A n \in 0 .. SizeLimit - 1 : [e EXCEPT !.size = n] \in Entry
BY Numbers DEF Entry, FatValues

(* The sizes of chains are far from the range of unsigned long.            *)
LEMMA Sizes ==
  /\ ClusterSize \in Nat \ {0} /\ SizeLimit \in Nat /\ WORD \in Nat /\ SizeLimit <= WORD
  /\ SizeLimit > 0
  /\ \A n \in 0 .. MaxCluster : /\ n * ClusterSize \in 0 .. SizeLimit - 1
                               /\ FatSize(n) = n * ClusterSize
<1>1. /\ ClusterSize \in Nat \ {0} /\ SizeLimit \in Nat /\ WORD \in Nat /\ SizeLimit <= WORD
      /\ ClusterSize * MaxCluster < SizeLimit /\ MaxCluster \in Nat
  BY FsckAssumption
<1>2. ASSUME NEW n \in 0 .. MaxCluster
      PROVE  n * ClusterSize \in 0 .. SizeLimit - 1
  <2>1. n * ClusterSize <= MaxCluster * ClusterSize
    <3>1. (MaxCluster - n) * ClusterSize >= 0
      BY <1>1
    <3>2. (MaxCluster - n) * ClusterSize = MaxCluster * ClusterSize - n * ClusterSize
      BY <1>1
    <3> QED BY <1>1, <3>1, <3>2
  <2>2. n * ClusterSize \in Nat
    BY <1>1
  <2> QED BY <1>1, <2>1, <2>2
<1>3. ASSUME NEW x \in 0 .. SizeLimit - 1
      PROVE  x % WORD = x
  BY <1>1
<1>4. SizeLimit > 0
  BY <1>1, Numbers
<1> QED BY <1>1, <1>2, <1>3, <1>4 DEF FatSize

LEMMA InitKept ==
  Init => IInv
<1> SUFFICES ASSUME Init PROVE IInv
  OBVIOUS
<1>1. Typed
  <2>1. 2 \in 2 .. MaxCluster + 1 /\ 0 \in FatValues
    BY Numbers DEF FatValues
  <2>2. <<>> \in Seq(Clusters) /\ <<>> \in Seq(Frames)
    OBVIOUS
  <2> QED BY <2>1, <2>2 DEF Init, Typed, Fats, Passes
<1>2. PassOneKeeps
  <2>1. pc = "fat" /\ i = 2
    BY DEF Init
  <2> QED BY <2>1 DEF PassOneKeeps
<1>3. pc = "fat" /\ stack = <<>> /\ Len(stack) = 0 /\ walked = <<>>
  BY DEF Init
<1>4. Stacked /\ Entered /\ Walking
  BY <1>3 DEF Stacked, Entered, Walking, PassFour
<1>5. Following
  BY DEF Init, Following
<1> QED BY <1>1, <1>2, <1>4, <1>5 DEF IInv

(* Outside pass 4 nothing is on the stack.                                 *)
LEMMA BetweenPasses ==
  ASSUME IInv, pc \notin PassFour, pc' \notin PassFour, stack' = stack, walked' = walked
  PROVE  Stacked' /\ Entered' /\ Walking'
<1>1. stack' = <<>> /\ walked' = <<>>
  BY DEF IInv, Stacked, Walking, PassFour
<1>2. Stacked'
  BY <1>1 DEF Stacked
<1>3. Entered' /\ Walking'
  BY <1>1 DEF Entered, Walking, PassFour
<1> QED BY <1>2, <1>3

(* What pass 1 does with one cluster is a cut, breaks the loop its chain   *)
(* leads into, and leaves it the only one to refer to its successor.       *)
LEMMA CorrectedCut ==
  ASSUME fat \in Fats, NEW yes
  PROVE  IsCut(fat, Corrected(fat, yes))
BY OneCut, NoCut DEF Corrected

LEMMA UnloopedCut ==
  ASSUME NEW f \in Fats
  PROVE  IsCut(f, Unlooped(f)) /\ LoopEnds(Unlooped(f), i) = {}
<1>1. IsCut(f, Unlooped(f))
  BY DEF IsCut, Unlooped, Fats, FatValues
<1>2. ASSUME NEW b \in LoopEnds(Unlooped(f), i)
      PROVE  FALSE
  <2>1. b \in LoopEnds(f, i) /\ Unlooped(f)[b] \in Clusters
    BY <1>1, LoopCut
  <2>2. b \in Clusters
    BY <2>1 DEF LoopEnds
  <2>3. Unlooped(f)[b] = FatEof
    BY <2>1, <2>2 DEF Unlooped
  <2> QED BY <2>1, <2>3, Numbers
<1> QED BY <1>1, <1>2

LEMMA FreeHasNoLoop ==
  ASSUME NEW f, NEW c \in Clusters, f[c] \notin Clusters
  PROVE  LoopEnds(f, c) = {}
<1> SUFFICES ASSUME NEW b \in LoopEnds(f, c) PROVE FALSE
  OBVIOUS
<1>1. PICK n \in 0 .. MaxCluster :
        b = Along(f, c, n) /\ Seen(f, c, n) \subseteq Clusters /\ f[b] \in Seen(f, c, n)
  BY DEF LoopEnds
<1>2. n \in Nat /\ \A k \in 0 .. n : Along(f, c, k) \in Clusters
  BY <1>1, Numbers DEF Seen
<1>3. Along(f, c, 0) = c /\ Along(f, c, 1) \notin Clusters
  <2>1. Along(f, c, 0 + 1) = From(f, Along(f, c, 0)) /\ Along(f, c, 0) = c
    BY AlongSteps
  <2> QED BY <2>1 DEF From
<1>4. n = 0
  <2> SUFFICES ASSUME 1 <= n PROVE FALSE
    BY <1>2
  <2>1. 1 \in 0 .. n
    BY <1>2
  <2> QED BY <1>2, <1>3, <2>1
<1> QED BY <1>1, <1>3, <1>4

LEMMA CheckFatKept ==
  IInv /\ CheckFat => IInv'
<1> SUFFICES ASSUME IInv, CheckFat PROVE IInv'
  OBVIOUS
<1> DEFINE val == fat[i]
           crossed == val \in Clusters /\ ref[val] # 0
           same == <<given, dots, ent, saved, start, walk, stack, result>>
<1>1. PICK correct, break, uncross \in answers :
        LET f1 == Corrected(fat, correct)
            loop == val # 0 /\ LoopEnds(f1, i) # {}
            f2 == IF loop THEN Unlooped(f1) ELSE f1
        IN \/ /\ loop /\ ~break
              /\ fat' = f1 /\ Exit(4)
              /\ UNCHANGED <<ref, i, errors>>
           \/ /\ ~loop \/ break
              /\ fat' = IF crossed /\ uncross THEN Uncrossed(f2, val) ELSE f2
              /\ ref' = Referred(val)
              /\ errors' = errors + (IF val = 1 /\ ~correct THEN 1 ELSE 0)
                                  + (IF crossed /\ ~uncross THEN 1 ELSE 0)
              /\ i' = i + 1 /\ Goto("fat")
  BY DEF CheckFat
<1> DEFINE f1 == Corrected(fat, correct)
           loop == val # 0 /\ LoopEnds(f1, i) # {}
           f2 == IF loop THEN Unlooped(f1) ELSE f1
<1>2. pc = "fat" /\ i \in Clusters /\ i \in 2 .. MaxCluster /\ UNCHANGED same
  BY DEF CheckFat, IInv, Typed, Clusters
<1>3. /\ fat \in Fats /\ ref \in [Clusters -> {0} \cup Clusters] /\ errors \in Nat
      /\ correct \in BOOLEAN /\ break \in BOOLEAN /\ uncross \in BOOLEAN
  BY <1>1 DEF IInv, Typed
<1>4. IsCut(fat, f1) /\ f1 \in Fats
  BY <1>3, CorrectedCut DEF IsCut
<1>5. IsCut(f1, f2) /\ f2 \in Fats
  BY <1>4, UnloopedCut, NoCut DEF IsCut
<1>6. val \in FatValues
  BY <1>2, <1>3 DEF Fats
<1>7. CASE /\ loop /\ ~break
           /\ fat' = f1 /\ Exit(4)
           /\ UNCHANGED <<ref, i, errors>>
  <2>1. pc' = "exit" /\ code' = 4
    BY <1>7 DEF Exit
  <2>2. Typed'
    BY <1>2, <1>4, <1>7, <2>1 DEF IInv, Typed, Passes, given, walk
  <2>3. PassOneKeeps'
    BY <2>1 DEF PassOneKeeps
  <2>4. Stacked' /\ Entered' /\ Walking'
    BY <1>2, <2>1, BetweenPasses DEF PassFour, walk
  <2>5. Following'
    BY <2>1 DEF Following
  <2> QED BY <2>2, <2>3, <2>4, <2>5 DEF IInv
<1>8. CASE /\ ~loop \/ break
           /\ fat' = IF crossed /\ uncross THEN Uncrossed(f2, val) ELSE f2
           /\ ref' = Referred(val)
           /\ errors' = errors + (IF val = 1 /\ ~correct THEN 1 ELSE 0)
                               + (IF crossed /\ ~uncross THEN 1 ELSE 0)
           /\ i' = i + 1 /\ Goto("fat")
  <2>1. pc' = "fat" /\ code' = code /\ i' = i + 1
    BY <1>8 DEF Goto
  <2> HIDE DEF f1, f2
  <2>2. IsCut(f2, fat') /\ fat' \in Fats
    <3>1. CASE crossed /\ uncross
      <4> DEFINE g == [f2 EXCEPT ![i] = FatEof]
      <4>1. g \in Fats /\ IsCut(f2, g)
        BY <1>5, OneCut
      <4>2. fat' = [g EXCEPT ![ref[val]] = FatEof]
        BY <1>8, <3>1 DEF Uncrossed
      <4> HIDE DEF g
      <4>3. IsCut(g, fat') /\ fat' \in Fats
        BY <4>1, <4>2, OneCut
      <4> QED BY <4>1, <4>3, CutTwice
    <3>2. CASE ~(crossed /\ uncross)
      <4>1. fat' = f2
        BY <1>8, <3>2
      <4> QED BY <1>5, <4>1, NoCut
    <3> QED BY <3>1, <3>2
  <2>3. IsCut(fat, f2) /\ IsCut(fat, fat')
    BY <1>4, <1>5, <2>2, CutTwice
  <2>4. ref' \in [Clusters -> {0} \cup Clusters]
    BY <1>2, <1>3, <1>8 DEF Referred
  <2>5. errors' \in Nat
    BY <1>3, <1>8
  <2>6. Typed'
    <3>1. i' \in 2 .. MaxCluster + 1 /\ pc' \in Passes
      BY <1>2, <2>1, Numbers DEF Passes
    <3> QED BY <1>2, <2>1, <2>2, <2>4, <2>5, <3>1 DEF IInv, Typed, given, walk
  <2>7. ASSUME NEW c \in 2 .. i
        PROVE  LoopEnds(fat', c) = {}
    <3>1. CASE c # i
      <4>1. LoopEnds(fat, c) = {}
        BY <1>2, <3>1 DEF IInv, PassOneKeeps
      <4> QED BY <2>3, <4>1, LoopsStayBroken
    <3>2. CASE c = i
      <4>1. LoopEnds(f2, i) = {}
        <5>1. CASE val = 0
          <6>1. fat[i] \notin Clusters
            BY <5>1, Numbers
          <6>2. LoopEnds(fat, i) = {}
            BY <1>2, <6>1, FreeHasNoLoop
          <6> QED BY <2>3, <6>2, LoopsStayBroken
        <5>2. CASE val # 0 /\ ~loop
          BY <5>2 DEF f2
        <5>3. CASE loop
          BY <1>4, <5>3, UnloopedCut DEF f2
        <5> QED BY <5>1, <5>2, <5>3
      <4> QED BY <2>2, <3>2, <4>1, LoopsStayBroken
    <3> QED BY <3>1, <3>2
  <2>8. ASSUME NEW c \in 2 .. i, errors' = 0
        PROVE  Linked(c)'
    <3>1. c \in Clusters /\ fat'[c] \in {fat[c], FatEof}
      <4>1. c \in Clusters
        BY <1>2, Numbers DEF Clusters
      <4> QED BY <2>3, <4>1 DEF IsCut
    <3>2. errors = 0 /\ ~(val = 1 /\ ~correct) /\ ~(crossed /\ ~uncross)
      BY <1>3, <1>8, <2>8
    <3>3. SUFFICES ASSUME fat'[c] = fat[c], fat[c] # FatEof
                   PROVE  fat'[c] # 1 /\ (fat'[c] \in Clusters => ref'[fat'[c]] = c)
      BY <3>1, Numbers DEF Linked
    <3>4. CASE c = i
      <4>1. val # 1
        <5> SUFFICES ASSUME val = 1 PROVE FALSE
          OBVIOUS
        <5>1. f1[i] = FatEof
          BY <1>2, <1>3, <3>2 DEF f1, Corrected, Fats
        <5>2. f2[i] = FatEof
          BY <1>2, <1>5, <5>1 DEF IsCut
        <5>3. fat'[i] = FatEof
          BY <1>2, <2>2, <5>2 DEF IsCut
        <5> QED BY <3>3, <3>4, <5>3
      <4>2. val \in Clusters => ref'[val] = i
        BY <1>3, <1>8 DEF Referred
      <4> QED BY <3>3, <3>4, <4>1, <4>2
    <3>5. CASE c # i
      <4>1. fat[c] # 1 /\ (fat[c] \in Clusters => ref[fat[c]] = c)
        <5>1. c \in 2 .. i - 1
          BY <1>2, <3>5
        <5> QED BY <1>2, <3>2, <5>1 DEF IInv, PassOneKeeps, Linked
      <4>2. SUFFICES ASSUME fat[c] \in Clusters PROVE ref'[fat[c]] = c
        BY <3>3, <4>1
      <4>3. CASE fat[c] # val
        BY <1>3, <1>8, <4>1, <4>2, <4>3 DEF Referred
      <4>4. CASE fat[c] = val
        <5>1. crossed /\ ref[val] = c
          BY <3>1, <4>1, <4>2, <4>4, Numbers
        <5>2. uncross
          BY <1>3, <3>2, <5>1
        <5>3. fat' = Uncrossed(f2, val)
          BY <1>8, <5>1, <5>2
        <5>4. fat'[c] = FatEof
          BY <1>5, <3>1, <5>1, <5>3 DEF Uncrossed, Fats
        <5> QED BY <3>3, <5>4
      <4> QED BY <4>3, <4>4
    <3> QED BY <3>4, <3>5
  <2>9. PassOneKeeps'
    <3>1. 2 .. i' - 1 = 2 .. i
      BY <1>2, <2>1
    <3> QED BY <2>1, <2>7, <2>8, <3>1 DEF PassOneKeeps
  <2>10. Stacked' /\ Entered' /\ Walking'
    BY <1>2, <2>1, BetweenPasses DEF PassFour, walk
  <2>11. Following'
    BY <1>2, <2>1 DEF IInv, Following, walk
  <2> QED BY <2>6, <2>9, <2>10, <2>11 DEF IInv
<1> QED BY <1>1, <1>7, <1>8

LEMMA CheckFatEndsKept ==
  IInv /\ CheckFatEnds => IInv'
<1> SUFFICES ASSUME IInv, CheckFatEnds PROVE IInv'
  OBVIOUS
<1>1. /\ pc = "fat" /\ i > MaxCluster /\ i' = 2
      /\ IF errors > 0 THEN pc' = "exit" /\ code' = 4 ELSE pc' = "chains" /\ code' = code
      /\ UNCHANGED <<given, volume, tables, walk, stack, result, errors>>
  BY DEF CheckFatEnds, Goto, Exit
<1>2. Typed'
  <2>1. i' \in 2 .. MaxCluster + 1
    BY <1>1, Numbers
  <2>2. pc' \in Passes /\ code' \in {-1, 0, 4}
    BY <1>1 DEF IInv, Typed, Passes
  <2> QED BY <1>1, <2>1, <2>2 DEF IInv, Typed, given, volume, tables, walk
<1>3. PassOneKeeps'
  <2> SUFFICES ASSUME pc' = "chains", NEW c \in Clusters
               PROVE  LoopEnds(fat', c) = {} /\ Linked(c)'
    BY <1>1 DEF PassOneKeeps
  <2>1. errors = 0
    BY <1>1 DEF IInv, Typed
  <2>2. c \in 2 .. i - 1
    BY <1>1, Numbers DEF Clusters, IInv, Typed
  <2>3. fat' = fat /\ ref' = ref
    BY <1>1 DEF volume, tables
  <2> QED BY <1>1, <2>1, <2>2, <2>3 DEF IInv, PassOneKeeps, Linked
<1>4. Stacked' /\ Entered' /\ Walking'
  BY <1>1, BetweenPasses DEF PassFour, walk
<1>5. Following'
  BY <1>1 DEF IInv, Following, walk
<1> QED BY <1>2, <1>3, <1>4, <1>5 DEF IInv

LEMMA CheckChainsKept ==
  IInv /\ CheckChains => IInv'
<1> SUFFICES ASSUME IInv, CheckChains PROVE IInv'
  OBVIOUS
<1>1. /\ pc = "chains" /\ at = 0 /\ pc' \in {"chains", "simple"} /\ code' = code
      /\ i' \in {i, i + 1} /\ (i > MaxCluster => i' = i)
      /\ at' = at \/ (i <= MaxCluster /\ fat[i] \in Clusters /\ at' = fat[i] /\ i' = i)
      /\ UNCHANGED <<given, volume, tables, walked, stack, result, errors>>
  <2>1. i \in Int /\ MaxCluster \in Int
    BY Numbers DEF IInv, Typed
  <2> QED BY <2>1 DEF CheckChains, Goto
<1>2. i \in 2 .. MaxCluster + 1 /\ MaxCluster \in Nat /\ (i <= MaxCluster => i \in Clusters)
  BY Numbers DEF IInv, Typed, Clusters
<1>3. Typed'
  <2>1. i' \in 2 .. MaxCluster + 1
    BY <1>1, <1>2
  <2>2. at' \in FatValues
    BY <1>1 DEF IInv, Typed, FatValues
  <2>3. pc' \in Passes
    BY <1>1 DEF Passes
  <2> QED BY <1>1, <2>1, <2>2, <2>3 DEF IInv, Typed, given, volume, tables
<1>4. PassOneKeeps'
  <2>1. IsCut(fat, fat') /\ ref' = ref
    BY <1>1, NoCut DEF volume, tables, IInv, Typed
  <2> QED BY <1>1, <2>1, CutKeepsLinks DEF IInv
<1>5. Stacked' /\ Entered' /\ Walking'
  <2>1. pc \notin PassFour /\ pc' \notin PassFour
    BY <1>1 DEF PassFour
  <2> QED BY <1>1, <2>1, BetweenPasses
<1>6. Following'
  BY <1>1, <1>2 DEF Following
<1> QED BY <1>3, <1>4, <1>5, <1>6 DEF IInv

LEMMA FollowChainKept ==
  IInv /\ FollowChain => IInv'
<1> SUFFICES ASSUME IInv, FollowChain PROVE IInv'
  OBVIOUS
<1>1. /\ pc = "chains" /\ at # 0 /\ pc' = pc /\ code' = code
      /\ UNCHANGED <<given, dots, ent, saved, tables, walked, stack, result, errors>>
  BY DEF FollowChain
<1>2. \/ /\ fat[at] \in Clusters /\ at' = fat[at] /\ i' = i /\ fat' = fat
      \/ /\ fat' = fat \/ fat' = [fat EXCEPT ![at] = FatEof]
         /\ at' = 0 /\ i' = i + 1
  BY DEF FollowChain
<1>3. i \in Clusters /\ at \in Clusters
  BY <1>1 DEF IInv, Following
<1>4. fat' \in Fats /\ IsCut(fat, fat')
  <2>1. fat \in Fats
    BY DEF IInv, Typed
  <2>2. CASE fat' = fat
    BY <2>1, <2>2, NoCut
  <2>3. CASE fat' = [fat EXCEPT ![at] = FatEof]
    BY <2>1, <2>3, OneCut
  <2> QED BY <1>2, <2>2, <2>3
<1>5. Typed'
  <2>1. i' \in 2 .. MaxCluster + 1
    BY <1>2, <1>3, Numbers DEF Clusters
  <2>2. at' \in FatValues
    BY <1>2 DEF FatValues
  <2> QED BY <1>1, <1>4, <2>1, <2>2 DEF IInv, Typed, given, tables
<1>6. PassOneKeeps'
  BY <1>1, <1>4, CutKeepsLinks DEF IInv, tables
<1>7. Stacked' /\ Entered' /\ Walking'
  <2>1. pc \notin PassFour /\ pc' \notin PassFour
    BY <1>1 DEF PassFour
  <2> QED BY <1>1, <2>1, BetweenPasses
<1>8. Following'
  BY <1>1, <1>2, <1>3 DEF Following
<1> QED BY <1>5, <1>6, <1>7, <1>8 DEF IInv

LEMMA SimpleCheckKept ==
  IInv /\ SimpleCheck => IInv'
<1> SUFFICES ASSUME IInv, SimpleCheck PROVE IInv'
  OBVIOUS
<1> DEFINE fr == Frame(0, Bad + 1)
<1>1. /\ pc = "simple" /\ pc' = "entry" /\ code' = code /\ stack' = <<fr>>
      /\ UNCHANGED <<given, fat, ent, saved, tables, i, walk, result>>
  BY DEF SimpleCheck, Goto
<1>2. errors' \in Nat /\ dots' \in [Clusters -> Parents]
  <2>1. errors \in Nat /\ dots \in [Clusters -> Parents] /\ Wrong \in Parents
    BY DEF IInv, Typed, Parents
  <2>2. errors' \in {errors, errors + 1, errors + 0}
    BY DEF SimpleCheck
  <2>3. \/ dots' = dots
        \/ dots' = [c \in Clusters |-> IF Fixable /\ c \in Dead THEN Wrong ELSE dots[c]]
    BY DEF SimpleCheck
  <2>4. dots' \in [Clusters -> Parents]
    BY <2>1, <2>3
  <2> QED BY <2>1, <2>2, <2>4
<1>3. fr \in Frames /\ fr.dir = 0 /\ fr.place \in RootPlaces
  <2>1. Bad + 1 \in RootPlaces
    BY FsckAssumption DEF RootPlaces
  <2> QED BY <2>1 DEF Frame, Frames, Places
<1> HIDE DEF fr
<1>4. stack' \in Seq(Frames) /\ Len(stack') = 1 /\ stack' # <<>> /\ stack'[1] = fr
  BY <1>1, <1>3
<1>5. Typed'
  BY <1>1, <1>2, <1>4 DEF IInv, Typed, Passes, PassFour, given, tables, walk
<1>6. PassOneKeeps'
  <2>1. IsCut(fat, fat') /\ ref' = ref
    BY <1>1, NoCut DEF tables, IInv, Typed
  <2> QED BY <1>1, <2>1, CutKeepsLinks DEF IInv
<1>7. Stacked'
  BY <1>1, <1>3, <1>4 DEF Stacked, PassFour
<1>8. Entered' /\ Walking' /\ Following'
  BY <1>1 DEF IInv, Entered, Walking, Following, walk
<1> QED BY <1>5, <1>6, <1>7, <1>8 DEF IInv

LEMMA CheckUnusedChainsKept ==
  IInv /\ CheckUnusedChains => IInv'
<1> SUFFICES ASSUME IInv, CheckUnusedChains PROVE IInv'
  OBVIOUS
<1>1. /\ pc = "unused" /\ pc' = "exit" /\ code' \in {0, 4}
      /\ UNCHANGED <<given, volume, tables, i, walk, stack, result>>
  BY DEF CheckUnusedChains, Exit
<1>2. errors' \in Nat
  BY DEF CheckUnusedChains, IInv, Typed
<1>3. Typed'
  BY <1>1, <1>2 DEF IInv, Typed, Passes, given, volume, tables, walk
<1>4. PassOneKeeps' /\ Following'
  BY <1>1 DEF PassOneKeeps, Following
<1>5. Stacked' /\ Entered' /\ Walking'
  BY <1>1, BetweenPasses DEF PassFour, walk
<1> QED BY <1>3, <1>4, <1>5 DEF IInv

(* Within pass 4 the FAT is only cut.                                      *)
LEMMA WithinPassFour ==
  ASSUME IInv, pc \in PassFour, pc' \in PassFour, IsCut(fat, fat'), ref' = ref
  PROVE  PassOneKeeps' /\ Following'
<1>1. pc \notin {"fat", "exit"} /\ pc' \notin {"fat", "chains"}
  BY DEF PassFour
<1>2. PassOneKeeps'
  BY <1>1, CutKeepsLinks DEF IInv
<1> QED BY <1>1, <1>2 DEF Following

(* What a repair of the entry here leaves.                                 *)
LEMMA ChangedHere ==
  ASSUME IInv, pc \in PassFour, NEW e \in Entry, Change(e), Mark
  PROVE  /\ ent' \in [Places -> Entry] /\ stack' \in Seq(Frames) /\ Len(stack') = Len(stack)
         /\ stack' # <<>> /\ E' = e
         /\ \A k \in 1 .. Len(stack) : /\ stack'[k].dir = stack[k].dir
                                      /\ stack'[k].place = stack[k].place
         /\ (E.cluster \in {0} \cup Clusters => e.cluster \in {0} \cup Clusters) =>
              \A p \in Places : ent[p].cluster \in {0} \cup Clusters
                                 => ent'[p].cluster \in {0} \cup Clusters
<1>1. /\ stack # <<>> /\ Here = stack[1] /\ Len(stack) >= 1 /\ Len(stack) \in Nat
      /\ Here \in Frames /\ Here.place \in Places
  BY PlaceHere DEF IInv
<1>2. stack \in Seq(Frames) /\ ent \in [Places -> Entry]
  BY DEF IInv, Typed
<1>3. /\ stack' \in Seq(Frames) /\ Len(stack') = Len(stack) /\ stack' # <<>>
      /\ \A k \in 1 .. Len(stack) : /\ stack'[k].dir = stack[k].dir
                                   /\ stack'[k].place = stack[k].place
  BY <1>1, <1>2, MarkedFrame DEF Mark
<1>4. ent' = [ent EXCEPT ![Here.place] = e]
  BY DEF Change
<1>5. E' = e
  <2>1. Here' = stack'[1]
    BY <1>3, TopFrame DEF Here
  <2>2. Here'.place = Here.place
    BY <1>1, <1>3, <2>1
  <2> QED BY <1>1, <1>2, <1>4, <2>2 DEF E
<1>6. ASSUME E.cluster \in {0} \cup Clusters => e.cluster \in {0} \cup Clusters
      PROVE  \A p \in Places : ent[p].cluster \in {0} \cup Clusters
                                 => ent'[p].cluster \in {0} \cup Clusters
  <2> TAKE p \in Places
  <2>1. CASE p = Here.place
    BY <1>1, <1>2, <1>4, <1>6, <2>1 DEF E
  <2>2. CASE p # Here.place
    BY <1>1, <1>2, <1>4, <2>2
  <2> QED BY <2>1, <2>2
<1>7. ent' \in [Places -> Entry]
  BY <1>1, <1>2, <1>4
<1> QED BY <1>3, <1>5, <1>6, <1>7

LEMMA CheckEntryKept ==
  IInv /\ CheckEntry => IInv'
<1> SUFFICES ASSUME IInv, CheckEntry PROVE IInv'
  OBVIOUS
<1>1. pc = "entry" /\ UNCHANGED <<given, dots, fat, saved, ref, i, walk, errors>>
  BY DEF CheckEntry
<1>2. /\ stack # <<>> /\ Here = stack[1] /\ Len(stack) >= 1 /\ Len(stack) \in Nat
      /\ Here \in Frames /\ Here.place \in Places /\ E \in Entry
  BY <1>1, PlaceHere DEF IInv, PassFour
<1>3. IsCut(fat, fat') /\ ref' = ref
  BY <1>1, NoCut DEF IInv, Typed
<1>4. /\ stack \in Seq(Frames) /\ start \in [Clusters -> BOOLEAN]
      /\ \A k \in 1 .. Len(stack) : stack[k].dir # 0 => start[stack[k].dir]
  BY DEF IInv, Typed, Stacked
<1>5. CASE /\ pc' = "return" /\ code' = code /\ result' \in {0, -1}
           /\ UNCHANGED <<ent, start, stack>>
  <2>1. pc' \in PassFour /\ pc \in PassFour
    BY <1>1, <1>5 DEF PassFour
  <2>2. Typed'
    BY <1>1, <1>5, <2>1 DEF IInv, Typed, Passes, given, walk
  <2>3. PassOneKeeps' /\ Following'
    BY <1>3, <2>1, WithinPassFour
  <2>4. Stacked'
    BY <1>4, <1>5, <2>1, SameStack DEF IInv
  <2>5. Entered' /\ Walking'
    BY <1>1, <1>5 DEF IInv, Entered, Walking, walk
  <2> QED BY <2>2, <2>3, <2>4, <2>5 DEF IInv
<1>6. CASE /\ Change([E EXCEPT !.cluster = 0]) /\ Mark
           /\ pc' \in {"dir", "file"} /\ code' = code /\ result' = result /\ start' = start
  <2> DEFINE e == [E EXCEPT !.cluster = 0]
  <2>1. pc' \in PassFour /\ pc \in PassFour
    BY <1>1, <1>6 DEF PassFour
  <2>2. e \in Entry /\ e.cluster = 0
    <3>1. e \in Entry
      BY <1>2, EntryChanges
    <3> QED BY <1>2, <3>1 DEF Entry
  <2> HIDE DEF e
  <2>3. /\ ent' \in [Places -> Entry] /\ stack' \in Seq(Frames) /\ Len(stack') = Len(stack)
        /\ stack' # <<>> /\ E' = e
        /\ \A k \in 1 .. Len(stack) : /\ stack'[k].dir = stack[k].dir
                                     /\ stack'[k].place = stack[k].place
        /\ (E.cluster \in {0} \cup Clusters => e.cluster \in {0} \cup Clusters) =>
             \A p \in Places : ent[p].cluster \in {0} \cup Clusters
                                => ent'[p].cluster \in {0} \cup Clusters
    <3>1. Change(e) /\ Mark
      BY <1>6 DEF e
    <3> QED BY <2>1, <2>2, <3>1, ChangedHere
  <2>4. Typed'
    BY <1>1, <1>6, <2>1, <2>3 DEF IInv, Typed, Passes, given, walk
  <2>5. PassOneKeeps' /\ Following'
    BY <1>3, <2>1, WithinPassFour
  <2>6. Stacked'
    <3>1. e.cluster \in {0} \cup Clusters
      BY <2>2
    <3> QED BY <1>6, <2>1, <2>3, <3>1, SameStack DEF IInv
  <2>7. Entered' /\ Walking'
    BY <1>1, <1>6, <2>2, <2>3 DEF IInv, Entered, Walking, walk
  <2> QED BY <2>4, <2>5, <2>6, <2>7 DEF IInv
<1>7. CASE /\ ~Misplaced(E.cluster)
           /\ start' = IF E.cluster = 0 THEN start ELSE [start EXCEPT ![E.cluster] = TRUE]
           /\ pc' \in {"dir", "file"} /\ code' = code
           /\ UNCHANGED <<ent, stack, result>>
  <2>1. pc' \in PassFour /\ pc \in PassFour
    BY <1>1, <1>7 DEF PassFour
  <2>2. E.cluster \in {0} \cup Clusters
    <3>1. E.cluster \in FatValues \ {FatEof}
      BY <1>2, EntryChanges
    <3> QED BY <1>7, <3>1 DEF Misplaced, FatValues
  <2>3. /\ start' \in [Clusters -> BOOLEAN]
        /\ \A c \in Clusters : start[c] => start'[c]
        /\ E.cluster # 0 => start'[E.cluster] /\ ~start[E.cluster]
    BY <1>4, <1>7, <2>2 DEF Misplaced, Taken
  <2>4. Typed'
    BY <1>1, <1>7, <2>1, <2>3 DEF IInv, Typed, Passes, given, walk
  <2>5. PassOneKeeps' /\ Following'
    BY <1>3, <2>1, WithinPassFour
  <2>6. Stacked'
    BY <1>4, <1>7, <2>1, <2>3, SameStack DEF IInv
  <2>7. E' = E /\ stack' = stack
    BY <1>7 DEF E, Here
  <2>8. Entered'
    <3>1. \A k \in 1 .. Len(stack) : E.cluster # 0 => stack[k].dir # E.cluster
      BY <1>4, <2>3
    <3> QED BY <1>7, <2>2, <2>3, <2>7, <3>1 DEF Entered
  <2>9. Walking'
    BY <1>1, <1>7 DEF IInv, Walking, walk
  <2> QED BY <2>4, <2>5, <2>6, <2>8, <2>9 DEF IInv
<1>8. \/ /\ pc' = "return" /\ code' = code /\ result' \in {0, -1}
         /\ UNCHANGED <<ent, start, stack>>
      \/ /\ Change([E EXCEPT !.cluster = 0]) /\ Mark
         /\ pc' \in {"dir", "file"} /\ code' = code /\ result' = result /\ start' = start
      \/ /\ ~Misplaced(E.cluster)
         /\ start' = IF E.cluster = 0 THEN start ELSE [start EXCEPT ![E.cluster] = TRUE]
         /\ pc' \in {"dir", "file"} /\ code' = code
         /\ UNCHANGED <<ent, stack, result>>
  BY DEF CheckEntry, Return, Goto
<1> QED BY <1>5, <1>6, <1>7, <1>8

LEMMA CheckDirKept ==
  IInv /\ CheckDir => IInv'
<1> SUFFICES ASSUME IInv, CheckDir PROVE IInv'
  OBVIOUS
<1>1. pc = "dir" /\ code' = code /\ UNCHANGED <<given, volume, tables, i, walk, result, errors>>
  BY DEF CheckDir, Goto
<1>2. /\ stack # <<>> /\ Here = stack[1] /\ Len(stack) >= 1 /\ Len(stack) \in Nat
      /\ stack \in Seq(Frames)
  BY <1>1, PlaceHere DEF IInv, PassFour, Typed
<1>3. IsCut(fat, fat') /\ ref' = ref
  BY <1>1, NoCut DEF IInv, Typed, volume, tables
<1>4. E.cluster \in {0} \cup Clusters
  BY <1>1 DEF IInv, Entered
<1>5. CASE ~Enterable(E.cluster)
  <2>1. pc' = "irreparable" /\ stack' = stack
    BY <1>5 DEF CheckDir, Goto
  <2>2. pc' \in PassFour /\ pc \in PassFour
    BY <1>1, <2>1 DEF PassFour
  <2>3. Typed'
    BY <1>1, <2>1, <2>2 DEF IInv, Typed, Passes, given, volume, tables, walk
  <2>4. PassOneKeeps' /\ Following'
    BY <1>3, <2>2, WithinPassFour
  <2>5. Stacked'
    BY <1>1, <1>2, <2>1, <2>2, SameStack DEF IInv, volume, tables
  <2>6. E' = E
    BY <1>1, <2>1 DEF E, Here, volume
  <2>7. Entered' /\ Walking'
    BY <1>1, <1>4, <2>1, <2>6 DEF IInv, Entered, Walking, walk
  <2> QED BY <2>3, <2>4, <2>5, <2>7 DEF IInv
<1>6. CASE Enterable(E.cluster)
  <2> DEFINE c == E.cluster
             fr == Frame(c, c)
  <2>1. pc' = "entry" /\ stack' = <<fr>> \o stack
    BY <1>6 DEF CheckDir, Goto
  <2>2. pc' \in PassFour /\ pc \in PassFour
    BY <1>1, <2>1 DEF PassFour
  <2>3. /\ c \in Clusters /\ c # 0 /\ start[c]
        /\ \A k \in 1 .. Len(stack) : stack[k].dir # c
    BY <1>1, <1>4, <1>6 DEF Enterable, IInv, Entered
  <2>4. fr \in Frames /\ fr.dir = c /\ fr.place = c
    BY <2>3 DEF Frame, Frames, Places
  <2> HIDE DEF fr
  <2>5. /\ stack' \in Seq(Frames) /\ Len(stack') = Len(stack) + 1
        /\ stack' # <<>> /\ stack'[1] = fr
        /\ \A k \in 2 .. Len(stack) + 1 : stack'[k] = stack[k - 1]
    BY <1>2, <2>1, <2>4, PushedFrame
  <2>6. Typed'
    BY <1>1, <2>2, <2>5 DEF IInv, Typed, Passes, given, volume, tables, walk
  <2>7. PassOneKeeps' /\ Following'
    BY <1>3, <2>2, WithinPassFour
  <2>8. Stacked'
    <3>1. /\ \A k \in 1 .. Len(stack) :
               /\ stack[k].dir = 0 <=> k = Len(stack)
               /\ stack[k].place \in IF stack[k].dir = 0 THEN RootPlaces ELSE Clusters
               /\ stack[k].dir # 0 => start[stack[k].dir]
               /\ k > 1 => ent[stack[k].place].cluster \in {0} \cup Clusters
          /\ \A k, m \in 1 .. Len(stack) : stack[k].dir = stack[m].dir => k = m
      BY DEF IInv, Stacked
    <3>2. ent' = ent /\ start' = start
      BY <1>1 DEF volume, tables
    <3>3. ASSUME NEW k \in 1 .. Len(stack')
          PROVE  /\ stack'[k].dir = 0 <=> k = Len(stack')
                 /\ stack'[k].place \in IF stack'[k].dir = 0 THEN RootPlaces ELSE Clusters
                 /\ stack'[k].dir # 0 => start'[stack'[k].dir]
                 /\ k > 1 => ent'[stack'[k].place].cluster \in {0} \cup Clusters
      <4>1. CASE k = 1
        <5>1. k # Len(stack')
          BY <1>2, <2>5, <4>1
        <5> QED BY <2>3, <2>4, <2>5, <3>2, <4>1, <5>1
      <4>2. CASE k # 1
        <5>1. PICK m \in 1 .. Len(stack) : k = m + 1 /\ stack'[k] = stack[m]
          <6>1. k \in 2 .. Len(stack) + 1 /\ k - 1 \in 1 .. Len(stack) /\ k = (k - 1) + 1
            BY <1>2, <2>5, <4>2
          <6> QED BY <2>5, <6>1
        <5>2. k = Len(stack') <=> m = Len(stack)
          BY <1>2, <2>5, <5>1
        <5>3. ent[stack[m].place].cluster \in {0} \cup Clusters
          <6>1. CASE m = 1
            BY <1>2, <1>4, <6>1 DEF E
          <6>2. CASE m # 1
            BY <3>1, <6>2
          <6> QED BY <6>1, <6>2
        <5> QED BY <3>1, <3>2, <5>1, <5>2, <5>3
      <4> QED BY <4>1, <4>2
    <3>4. ASSUME NEW k \in 1 .. Len(stack'), NEW m \in 1 .. Len(stack'),
                 stack'[k].dir = stack'[m].dir
          PROVE  k = m
      <4>1. \A x \in 1 .. Len(stack') :
              x = 1 \/ (x - 1 \in 1 .. Len(stack) /\ stack'[x] = stack[x - 1])
        BY <1>2, <2>5
      <4>2. CASE k = 1 \/ m = 1
        BY <2>3, <2>4, <2>5, <3>4, <4>1, <4>2
      <4>3. CASE k # 1 /\ m # 1
        <5>1. /\ k - 1 \in 1 .. Len(stack) /\ stack'[k] = stack[k - 1]
              /\ m - 1 \in 1 .. Len(stack) /\ stack'[m] = stack[m - 1]
          BY <4>1, <4>3
        <5>2. \A x, y \in 1 .. Len(stack) : stack[x].dir = stack[y].dir => x = y
          BY <3>1
        <5>3. k - 1 = m - 1
          BY <3>4, <5>1, <5>2
        <5> QED BY <5>3
      <4> QED BY <4>2, <4>3
    <3> QED BY <2>2, <2>5, <3>3, <3>4 DEF Stacked
  <2>9. Entered' /\ Walking'
    BY <1>1, <2>1 DEF IInv, Entered, Walking, walk
  <2> QED BY <2>6, <2>7, <2>8, <2>9 DEF IInv
<1> QED BY <1>5, <1>6

LEMMA AscendKept ==
  IInv /\ Ascend => IInv'
<1> SUFFICES ASSUME IInv, Ascend PROVE IInv'
  OBVIOUS
<1>1. pc = "ascend" /\ UNCHANGED <<given, dots, fat, saved, tables, i, walk, errors>>
  BY DEF Ascend
<1>2. /\ stack # <<>> /\ stack \in Seq(Frames) /\ E \in Entry
      /\ E.cluster \in {0} \cup Clusters
  BY <1>1, PlaceHere DEF IInv, PassFour, Typed, Entered
<1>3. IsCut(fat, fat') /\ ref' = ref /\ start' = start
  BY <1>1, NoCut DEF IInv, Typed, tables
<1>4. CASE /\ pc' \in {"irreparable", "return"} /\ code' = code
           /\ result' \in {result, result + 1} /\ UNCHANGED <<ent, stack>>
  <2>1. pc' \in PassFour /\ pc \in PassFour
    BY <1>1, <1>4 DEF PassFour
  <2>2. Typed'
    BY <1>1, <1>4, <2>1 DEF IInv, Typed, Passes, given, tables, walk
  <2>3. PassOneKeeps' /\ Following'
    BY <1>3, <2>1, WithinPassFour
  <2>4. Stacked'
    BY <1>2, <1>3, <1>4, <2>1, SameStack DEF IInv
  <2>5. E' = E
    BY <1>4 DEF E, Here
  <2>6. Entered' /\ Walking'
    BY <1>1, <1>2, <1>4, <2>5 DEF IInv, Entered, Walking, walk
  <2> QED BY <2>2, <2>3, <2>4, <2>6 DEF IInv
<1>5. CASE /\ Change([E EXCEPT !.size = 0]) /\ Mark
           /\ pc' = "return" /\ code' = code /\ result' = result
  <2> DEFINE e == [E EXCEPT !.size = 0]
  <2>1. pc' \in PassFour /\ pc \in PassFour
    BY <1>1, <1>5 DEF PassFour
  <2>2. e \in Entry /\ e.cluster = E.cluster
    <3>1. 0 \in 0 .. SizeLimit - 1
      BY Sizes
    <3>2. e \in Entry
      BY <1>2, <3>1, EntryChanges
    <3> QED BY <1>2, <3>2 DEF Entry
  <2> HIDE DEF e
  <2>3. /\ ent' \in [Places -> Entry] /\ stack' \in Seq(Frames) /\ Len(stack') = Len(stack)
        /\ \A k \in 1 .. Len(stack) : /\ stack'[k].dir = stack[k].dir
                                     /\ stack'[k].place = stack[k].place
        /\ \A p \in Places : ent[p].cluster \in {0} \cup Clusters
                                => ent'[p].cluster \in {0} \cup Clusters
    <3>1. Change(e) /\ Mark
      BY <1>5 DEF e
    <3> QED BY <1>2, <2>1, <2>2, <3>1, ChangedHere
  <2>4. Typed'
    BY <1>1, <1>5, <2>1, <2>3 DEF IInv, Typed, Passes, given, tables, walk
  <2>5. PassOneKeeps' /\ Following'
    BY <1>3, <2>1, WithinPassFour
  <2>6. Stacked'
    BY <1>3, <2>1, <2>3, SameStack DEF IInv
  <2>7. Entered' /\ Walking'
    BY <1>1, <1>5 DEF IInv, Entered, Walking, walk
  <2> QED BY <2>4, <2>5, <2>6, <2>7 DEF IInv
<1>6. \/ /\ pc' \in {"irreparable", "return"} /\ code' = code
         /\ result' \in {result, result + 1} /\ UNCHANGED <<ent, stack>>
      \/ /\ Change([E EXCEPT !.size = 0]) /\ Mark
         /\ pc' = "return" /\ code' = code /\ result' = result
  BY DEF Ascend, Return, Goto
<1> QED BY <1>4, <1>5, <1>6

LEMMA ConvertToFileKept ==
  IInv /\ ConvertToFile => IInv'
<1> SUFFICES ASSUME IInv, ConvertToFile PROVE IInv'
  OBVIOUS
<1>1. pc = "irreparable" /\ UNCHANGED <<given, dots, fat, saved, tables, i, walk, errors>>
  BY DEF ConvertToFile
<1>2. /\ stack # <<>> /\ stack \in Seq(Frames) /\ E \in Entry
      /\ E.cluster \in {0} \cup Clusters
  BY <1>1, PlaceHere DEF IInv, PassFour, Typed, Entered
<1>3. IsCut(fat, fat') /\ ref' = ref /\ start' = start
  BY <1>1, NoCut DEF IInv, Typed, tables
<1>4. CASE pc' = "return" /\ code' = code /\ result' = -1 /\ UNCHANGED <<ent, stack>>
  <2>1. pc' \in PassFour /\ pc \in PassFour
    BY <1>1, <1>4 DEF PassFour
  <2>2. Typed'
    BY <1>1, <1>4, <2>1 DEF IInv, Typed, Passes, given, tables, walk
  <2>3. PassOneKeeps' /\ Following'
    BY <1>3, <2>1, WithinPassFour
  <2>4. Stacked'
    BY <1>2, <1>3, <1>4, <2>1, SameStack DEF IInv
  <2>5. Entered' /\ Walking'
    BY <1>1, <1>4 DEF IInv, Entered, Walking, walk
  <2> QED BY <2>2, <2>3, <2>4, <2>5 DEF IInv
<1>5. CASE /\ Change([E EXCEPT !.dir = FALSE]) /\ Mark
           /\ pc' = "file" /\ code' = code /\ result' = result
  <2> DEFINE e == [E EXCEPT !.dir = FALSE]
  <2>1. pc' \in PassFour /\ pc \in PassFour
    BY <1>1, <1>5 DEF PassFour
  <2>2. e \in Entry /\ e.cluster = E.cluster
    <3>1. e \in Entry
      BY <1>2, EntryChanges
    <3> QED BY <1>2, <3>1 DEF Entry
  <2> HIDE DEF e
  <2>3. /\ ent' \in [Places -> Entry] /\ stack' \in Seq(Frames) /\ Len(stack') = Len(stack)
        /\ E' = e
        /\ \A k \in 1 .. Len(stack) : /\ stack'[k].dir = stack[k].dir
                                     /\ stack'[k].place = stack[k].place
        /\ \A p \in Places : ent[p].cluster \in {0} \cup Clusters
                                => ent'[p].cluster \in {0} \cup Clusters
    <3>1. Change(e) /\ Mark
      BY <1>5 DEF e
    <3> QED BY <1>2, <2>1, <2>2, <3>1, ChangedHere
  <2>4. Typed'
    BY <1>1, <1>5, <2>1, <2>3 DEF IInv, Typed, Passes, given, tables, walk
  <2>5. PassOneKeeps' /\ Following'
    BY <1>3, <2>1, WithinPassFour
  <2>6. Stacked'
    BY <1>3, <2>1, <2>3, SameStack DEF IInv
  <2>7. Entered' /\ Walking'
    BY <1>1, <1>2, <1>5, <2>2, <2>3 DEF IInv, Entered, Walking, walk
  <2> QED BY <2>4, <2>5, <2>6, <2>7 DEF IInv
<1>6. \/ pc' = "return" /\ code' = code /\ result' = -1 /\ UNCHANGED <<ent, stack>>
      \/ /\ Change([E EXCEPT !.dir = FALSE]) /\ Mark
         /\ pc' = "file" /\ code' = code /\ result' = result
  BY DEF ConvertToFile, Return, Goto
<1> QED BY <1>4, <1>5, <1>6

(* A file has been looked at, and perhaps given another size.              *)
LEMMA FileDone ==
  ASSUME IInv, pc \in {"file", "walk"}, IsCut(fat, fat'),
         UNCHANGED <<given, dots, saved, tables, i, errors>>,
         at' \in FatValues, walked' = <<>>, NEW n \in 0 .. SizeLimit - 1,
         Resize(n) \/ (result' \in {-1, 0} /\ Goto("return") /\ UNCHANGED <<ent, stack>>)
  PROVE  IInv'
<1>1. /\ stack # <<>> /\ stack \in Seq(Frames) /\ E \in Entry
      /\ E.cluster \in {0} \cup Clusters
  BY PlaceHere DEF IInv, PassFour, Typed, Entered
<1>2. fat' \in Fats /\ ref' = ref /\ start' = start
  BY DEF IsCut, tables
<1>3. CASE pc' = "return" /\ code' = code /\ result' \in {-1, 0} /\ UNCHANGED <<ent, stack>>
  <2>1. pc' \in PassFour /\ pc \in PassFour
    BY <1>3 DEF PassFour
  <2>2. Typed'
    BY <1>2, <1>3, <2>1 DEF IInv, Typed, Passes, given, tables
  <2>3. PassOneKeeps' /\ Following'
    BY <1>2, <2>1, WithinPassFour
  <2>4. Stacked'
    BY <1>1, <1>2, <1>3, <2>1, SameStack DEF IInv
  <2>5. Entered' /\ Walking'
    BY <1>3 DEF Entered, Walking
  <2> QED BY <2>2, <2>3, <2>4, <2>5 DEF IInv
<1>4. CASE /\ Change([E EXCEPT !.size = n]) /\ Mark
           /\ pc' = "return" /\ code' = code /\ result' = 0
  <2> DEFINE e == [E EXCEPT !.size = n]
  <2>1. pc' \in PassFour /\ pc \in PassFour
    BY <1>4 DEF PassFour
  <2>2. e \in Entry /\ e.cluster = E.cluster
    <3>1. e \in Entry
      BY <1>1, EntryChanges
    <3> QED BY <1>1, <3>1 DEF Entry
  <2> HIDE DEF e
  <2>3. /\ ent' \in [Places -> Entry] /\ stack' \in Seq(Frames) /\ Len(stack') = Len(stack)
        /\ \A k \in 1 .. Len(stack) : /\ stack'[k].dir = stack[k].dir
                                     /\ stack'[k].place = stack[k].place
        /\ \A p \in Places : ent[p].cluster \in {0} \cup Clusters
                                => ent'[p].cluster \in {0} \cup Clusters
    <3>1. Change(e) /\ Mark
      BY <1>4 DEF e
    <3> QED BY <1>1, <2>1, <2>2, <3>1, ChangedHere
  <2>4. Typed'
    BY <1>2, <1>4, <2>1, <2>3 DEF IInv, Typed, Passes, given, tables
  <2>5. PassOneKeeps' /\ Following'
    BY <1>2, <2>1, WithinPassFour
  <2>6. Stacked'
    BY <1>2, <2>1, <2>3, SameStack DEF IInv
  <2>7. Entered' /\ Walking'
    BY <1>4 DEF Entered, Walking
  <2> QED BY <2>4, <2>5, <2>6, <2>7 DEF IInv
<1>5. \/ pc' = "return" /\ code' = code /\ result' \in {-1, 0} /\ UNCHANGED <<ent, stack>>
      \/ /\ Change([E EXCEPT !.size = n]) /\ Mark
         /\ pc' = "return" /\ code' = code /\ result' = 0
  BY DEF Resize, Return, Goto
<1> QED BY <1>3, <1>4, <1>5

LEMMA CheckFileKept ==
  IInv /\ CheckFile => IInv'
<1> SUFFICES ASSUME IInv, CheckFile PROVE IInv'
  OBVIOUS
<1>1. pc = "file" /\ UNCHANGED <<given, dots, fat, saved, tables, i, errors>>
  BY DEF CheckFile
<1>2. IsCut(fat, fat') /\ ref' = ref /\ start' = start /\ at \in FatValues /\ walked = <<>>
  BY <1>1, NoCut DEF IInv, Typed, tables, Walking
<1>3. CASE /\ UNCHANGED walk
           /\ Resize(0) \/ (result' \in {-1, 0} /\ Goto("return") /\ UNCHANGED <<ent, stack>>)
  <2>1. 0 \in 0 .. SizeLimit - 1
    BY Sizes
  <2>2. at' \in FatValues /\ walked' = <<>>
    BY <1>2, <1>3 DEF walk
  <2> QED BY <1>1, <1>2, <1>3, <2>1, <2>2, FileDone
<1>4. CASE /\ E.cluster # 0 /\ at' = E.cluster /\ walked' = <<>>
           /\ Goto("walk") /\ UNCHANGED <<ent, stack, result>>
  <2>1. E.cluster \in Clusters
    BY <1>1, <1>4 DEF IInv, Entered
  <2>2. pc' = "walk" /\ code' = code /\ E' = E
    BY <1>4 DEF Goto, E, Here
  <2>3. pc' \in PassFour /\ pc \in PassFour
    BY <1>1, <2>2 DEF PassFour
  <2>4. at' \in FatValues
    BY <1>4, <2>1 DEF FatValues
  <2>5. Typed'
    BY <1>1, <1>4, <2>2, <2>3, <2>4 DEF IInv, Typed, Passes, given, tables
  <2>6. PassOneKeeps' /\ Following'
    BY <1>2, <2>3, WithinPassFour
  <2>7. Stacked'
    <3>1. stack \in Seq(Frames)
      BY DEF IInv, Typed
    <3> QED BY <1>2, <1>4, <2>3, <3>1, SameStack DEF IInv
  <2>8. Entered'
    BY <2>1, <2>2 DEF Entered
  <2>9. Walking'
    <3>1. Len(walked') = 0
      BY <1>4
    <3>2. at' = Along(fat', E'.cluster, 0)
      BY <1>4, <2>2, AlongSteps
    <3> QED BY <2>1, <2>2, <3>1, <3>2 DEF Walking
  <2> QED BY <2>5, <2>6, <2>7, <2>8, <2>9 DEF IInv
<1>5. \/ /\ UNCHANGED walk
         /\ Resize(0) \/ (result' \in {-1, 0} /\ Goto("return") /\ UNCHANGED <<ent, stack>>)
      \/ /\ E.cluster # 0 /\ at' = E.cluster /\ walked' = <<>>
         /\ Goto("walk") /\ UNCHANGED <<ent, stack, result>>
  BY DEF CheckFile, Return
<1> QED BY <1>3, <1>4, <1>5

LEMMA WalkFileKept ==
  IInv /\ WalkFile => IInv'
<1> SUFFICES ASSUME IInv, WalkFile PROVE IInv'
  OBVIOUS
<1> DEFINE n == Len(walked)
<1>1. /\ pc = "walk" /\ at \in Clusters /\ at' = fat[at] /\ walked' = Append(walked, at)
      /\ UNCHANGED <<given, volume, tables, pc, i, stack, result, errors, code>>
  BY DEF WalkFile
<1>2. IsCut(fat, fat') /\ ref' = ref /\ start' = start /\ fat \in Fats /\ ent' = ent /\ fat' = fat
  BY <1>1, NoCut DEF IInv, Typed, volume, tables
<1>3. /\ E.cluster \in Clusters /\ at = Along(fat, E.cluster, n)
      /\ \A k \in 1 .. n : walked[k] = Along(fat, E.cluster, k - 1)
      /\ walked \in Seq(Clusters) /\ n \in Nat /\ E' = E
  BY <1>1, <1>2 DEF IInv, Walking, Typed, E, Here
<1>4. pc' = pc /\ pc' \in PassFour /\ pc \in PassFour
  BY <1>1 DEF PassFour
<1>5. Typed'
  <2>1. at' \in FatValues /\ walked' \in Seq(Clusters)
    BY <1>1, <1>2, <1>3 DEF Fats
  <2> QED BY <1>1, <1>2, <1>4, <2>1 DEF IInv, Typed, Passes, given, volume, tables
<1>6. PassOneKeeps' /\ Following'
  BY <1>2, <1>4, WithinPassFour
<1>7. Stacked'
  <2>1. stack \in Seq(Frames) /\ stack' = stack
    BY <1>1 DEF IInv, Typed
  <2> QED BY <1>2, <1>4, <2>1, SameStack DEF IInv
<1>8. Entered'
  BY <1>1, <1>3, <1>4 DEF Entered
<1>9. Walking'
  <2>1. Len(walked') = n + 1 /\ \A k \in 1 .. n + 1 : walked'[k] = IF k = n + 1 THEN at ELSE walked[k]
    BY <1>1, <1>3
  <2>2. at' = Along(fat, E.cluster, n + 1)
    BY <1>1, <1>3, AlongSteps DEF From
  <2>3. \A k \in 1 .. n + 1 : walked'[k] = Along(fat, E.cluster, k - 1)
    <3> TAKE k \in 1 .. n + 1
    <3>1. CASE k = n + 1
      BY <1>3, <2>1, <3>1
    <3>2. CASE k \in 1 .. n
      BY <1>3, <2>1, <3>2
    <3> QED BY <1>3, <3>1, <3>2
  <2> QED BY <1>1, <1>2, <1>3, <1>4, <2>1, <2>2, <2>3 DEF Walking
<1> QED BY <1>5, <1>6, <1>7, <1>8, <1>9 DEF IInv

(* A walk has gone through different clusters.                             *)
LEMMA WalkedFew ==
  ASSUME IInv, pc = "walk"
  PROVE  /\ Len(walked) \in Nat /\ Len(walked) < MaxCluster
         /\ at \notin Clusters => Len(walked) > 0
<1> DEFINE n == Len(walked)
           c == E.cluster
<1>1. /\ c \in Clusters /\ at = Along(fat, c, n) /\ n \in Nat /\ walked \in Seq(Clusters)
      /\ \A k \in 1 .. n : walked[k] = Along(fat, c, k - 1)
  BY DEF IInv, Walking, Typed
<1>2. LoopEnds(fat, c) = {}
  BY <1>1 DEF IInv, PassOneKeeps
<1>3. n < MaxCluster
  <2>1. CASE n = 0
    BY <2>1, Numbers
  <2>2. CASE n # 0
    <3> HIDE DEF n, c
    <3>1. PICK m \in Nat : n = m + 1
      <4>1. n - 1 \in Nat /\ n = (n - 1) + 1
        BY <1>1, <2>2
      <4> QED BY <4>1
    <3>2. \A k \in 0 .. m : Along(fat, c, k) \in Clusters
      <4> TAKE k \in 0 .. m
      <4>1. k + 1 \in 1 .. n /\ (k + 1) - 1 = k
        BY <3>1
      <4>2. walked[k + 1] \in Clusters
        BY <1>1, <4>1 DEF n
      <4> QED BY <1>1, <4>1, <4>2
    <3> QED BY <1>2, <3>1, <3>2, ShortChains
  <2> QED BY <2>1, <2>2
<1>4. at \notin Clusters => n # 0
  <2>1. Along(fat, c, 0) = c
    BY AlongSteps
  <2> QED BY <1>1, <2>1
<1> QED BY <1>1, <1>3, <1>4

LEMMA FileEndsKept ==
  IInv /\ FileEnds => IInv'
<1> SUFFICES ASSUME IInv, FileEnds PROVE IInv'
  OBVIOUS
<1> DEFINE n == Len(walked)
<1>1. /\ pc = "walk" /\ at \notin Clusters /\ at' = 0 /\ walked' = <<>>
      /\ UNCHANGED <<given, dots, saved, tables, i, errors>>
  BY DEF FileEnds
<1>2. n \in Nat /\ n < MaxCluster /\ n > 0
  BY <1>1, WalkedFew
<1>3. at' \in FatValues
  BY <1>1 DEF FatValues
<1>4. fat' = fat \/ fat' = [fat EXCEPT ![walked[n]] = FatEof]
  BY DEF FileEnds
<1>5. IsCut(fat, fat')
  <2>1. fat \in Fats
    BY DEF IInv, Typed
  <2> QED BY <1>4, <2>1, NoCut, OneCut
<1>6. \E m \in 0 .. MaxCluster :
        CompareSize(m) \/ (result' = -1 /\ Goto("return") /\ UNCHANGED <<ent, stack>>)
  <2>1. n \in 0 .. MaxCluster /\ n - 1 \in 0 .. MaxCluster
    BY <1>2, Numbers
  <2>2. \/ CompareSize(n) \/ CompareSize(n - 1)
        \/ (result' = -1 /\ Goto("return") /\ UNCHANGED <<ent, stack>>)
    BY DEF FileEnds, Return
  <2> QED BY <2>1, <2>2
<1>7. PICK m \in 0 .. MaxCluster :
        CompareSize(m) \/ (result' = -1 /\ Goto("return") /\ UNCHANGED <<ent, stack>>)
  BY <1>6
<1>8. FatSize(m) \in 0 .. SizeLimit - 1
  BY Sizes
<1>9. Resize(FatSize(m)) \/ (result' \in {-1, 0} /\ Goto("return") /\ UNCHANGED <<ent, stack>>)
  BY <1>7 DEF CompareSize, Return
<1> QED BY <1>1, <1>3, <1>5, <1>8, <1>9, FileDone

LEMMA NextEntryKept ==
  IInv /\ NextEntry => IInv'
<1> SUFFICES ASSUME IInv, NextEntry PROVE IInv'
  OBVIOUS
<1>1. pc = "return" /\ WriteEntry /\ UNCHANGED <<given, dots, fat, ent, tables, i, walk>>
  BY DEF NextEntry
<1>2. /\ stack # <<>> /\ Here = stack[1] /\ Len(stack) >= 1 /\ Len(stack) \in Nat
      /\ Here \in Frames /\ Here.place \in Places /\ Here.errors \in Nat
      /\ Here.dir \in {0} \cup Clusters /\ stack \in Seq(Frames)
  BY <1>1, PlaceHere DEF IInv, PassFour, Typed
<1>3. IsCut(fat, fat') /\ ref' = ref /\ start' = start
  BY <1>1, NoCut DEF IInv, Typed, tables
<1>4. saved' \in [Places -> Entry]
  <2>1. saved \in [Places -> Entry] /\ ent \in [Places -> Entry]
    BY DEF IInv, Typed
  <2> QED BY <1>1, <2>1 DEF WriteEntry
<1>5. Counted \in Nat
  BY <1>2 DEF Counted
<1>6. /\ \A k \in 1 .. Len(stack) :
           /\ stack[k].dir = 0 <=> k = Len(stack)
           /\ stack[k].place \in IF stack[k].dir = 0 THEN RootPlaces ELSE Clusters
           /\ stack[k].dir # 0 => start[stack[k].dir]
           /\ k > 1 => ent[stack[k].place].cluster \in {0} \cup Clusters
      /\ \A k, m \in 1 .. Len(stack) : stack[k].dir = stack[m].dir => k = m
  BY DEF IInv, Stacked
<1>7. pc' # "walk" => Walking'
  BY <1>1 DEF IInv, Walking, walk
<1>8. ASSUME NEW p \in IF Here.dir = 0 THEN RootPlaces ELSE Clusters, Continue(p)
      PROVE  IInv'
  <2> DEFINE fr == [Here EXCEPT !.place = p, !.need = FALSE, !.errors = Counted]
  <2>1. pc' = "entry" /\ code' = code /\ result' = result /\ errors' = errors
        /\ stack' = <<fr>> \o Tail(stack)
    BY <1>8 DEF Continue, Goto
  <2>2. pc' \in PassFour /\ pc \in PassFour
    BY <1>1, <2>1 DEF PassFour
  <2>3. fr \in Frames /\ fr.dir = stack[1].dir /\ fr.place = p
    <3>1. p \in Places
      BY <1>8 DEF Places
    <3> QED BY <1>2, <1>5, <3>1 DEF Frames
  <2> HIDE DEF fr
  <2>4. /\ stack' \in Seq(Frames) /\ Len(stack') = Len(stack)
        /\ stack' # <<>> /\ stack'[1] = fr
        /\ \A k \in 2 .. Len(stack) : stack'[k] = stack[k]
    BY <1>2, <2>1, <2>3, ReplacedFrame
  <2>5. Typed'
    BY <1>1, <1>4, <2>1, <2>2, <2>4 DEF IInv, Typed, Passes, given, tables, walk
  <2>6. PassOneKeeps' /\ Following'
    BY <1>3, <2>2, WithinPassFour
  <2>7. Stacked'
    <3>1. ASSUME NEW k \in 1 .. Len(stack)
          PROVE  /\ stack'[k].dir = stack[k].dir
                 /\ k > 1 => stack'[k].place = stack[k].place
                 /\ k = 1 => stack'[k].place = p
      <4>1. CASE k = 1
        BY <2>3, <2>4, <4>1
      <4>2. CASE k # 1
        <5>1. k \in 2 .. Len(stack)
          BY <4>2
        <5>2. stack'[k] = stack[k]
          BY <2>4, <5>1
        <5> QED BY <4>2, <5>2
      <4> QED BY <4>1, <4>2
    <3>2. ASSUME NEW k \in 1 .. Len(stack')
          PROVE  /\ stack'[k].dir = 0 <=> k = Len(stack')
                 /\ stack'[k].place \in IF stack'[k].dir = 0 THEN RootPlaces ELSE Clusters
                 /\ stack'[k].dir # 0 => start'[stack'[k].dir]
                 /\ k > 1 => ent'[stack'[k].place].cluster \in {0} \cup Clusters
      <4>1. k \in 1 .. Len(stack)
        BY <2>4
      <4>2. stack'[k].dir = stack[k].dir
        BY <3>1, <4>1
      <4>3. CASE k = 1
        BY <1>2, <1>3, <1>6, <1>8, <2>4, <3>1, <4>1, <4>2, <4>3
      <4>4. CASE k # 1
        <5>1. k > 1 /\ stack'[k].place = stack[k].place
          BY <1>2, <3>1, <4>1, <4>4
        <5>2. ent' = ent
          BY <1>1
        <5> QED BY <1>3, <1>6, <2>4, <4>1, <4>2, <5>1, <5>2
      <4> QED BY <4>3, <4>4
    <3>3. \A k, m \in 1 .. Len(stack') : stack'[k].dir = stack'[m].dir => k = m
      BY <1>6, <2>4, <3>1
    <3> QED BY <2>2, <2>4, <3>2, <3>3 DEF Stacked
  <2>8. Entered' /\ Walking'
    BY <1>7, <2>1 DEF Entered
  <2> QED BY <2>5, <2>6, <2>7, <2>8 DEF IInv
<1>9. ASSUME NEW r \in Int, r >= -1, Leave(r), Here.dir # 0
      PROVE  IInv'
  <2>1. /\ pc' = "ascend" /\ code' = code /\ result' = r /\ errors' = errors
        /\ stack' = Tail(stack)
    BY <1>9 DEF Leave, Goto
  <2>2. pc' \in PassFour /\ pc \in PassFour
    BY <1>1, <2>1 DEF PassFour
  <2>3. Len(stack) > 1
    <3>1. 1 # Len(stack)
      <4>1. 1 \in 1 .. Len(stack) /\ stack[1].dir # 0
        BY <1>2, <1>9
      <4> QED BY <1>6, <4>1
    <3>2. PICK n \in Nat : n = Len(stack) /\ n >= 1
      BY <1>2
    <3> QED BY <3>1, <3>2
  <2>4. /\ stack' \in Seq(Frames) /\ Len(stack') = Len(stack) - 1
        /\ \A k \in 1 .. Len(stack) - 1 : stack'[k] = stack[k + 1]
    BY <1>2, <2>1, PoppedFrame
  <2>5. stack' # <<>>
    BY <1>2, <2>3, <2>4
  <2>6. Typed'
    BY <1>1, <1>4, <1>9, <2>1, <2>2, <2>4 DEF IInv, Typed, Passes, given, tables, walk
  <2>7. PassOneKeeps' /\ Following'
    BY <1>3, <2>2, WithinPassFour
  <2>8. \A k \in 1 .. Len(stack') : /\ k + 1 \in 1 .. Len(stack) /\ k + 1 > 1
                                    /\ stack'[k] = stack[k + 1]
    BY <1>2, <2>4
  <2>9. Stacked'
    <3>1. ASSUME NEW k \in 1 .. Len(stack')
          PROVE  /\ stack'[k].dir = 0 <=> k = Len(stack')
                 /\ stack'[k].place \in IF stack'[k].dir = 0 THEN RootPlaces ELSE Clusters
                 /\ stack'[k].dir # 0 => start'[stack'[k].dir]
                 /\ k > 1 => ent'[stack'[k].place].cluster \in {0} \cup Clusters
      <4>1. k = Len(stack') <=> k + 1 = Len(stack)
        BY <1>2, <2>4
      <4>2. ent' = ent
        BY <1>1
      <4> QED BY <1>3, <1>6, <2>8, <4>1, <4>2
    <3>2. \A k, m \in 1 .. Len(stack') : stack'[k].dir = stack'[m].dir => k = m
      <4> TAKE k, m \in 1 .. Len(stack')
      <4> HAVE stack'[k].dir = stack'[m].dir
      <4>1. k + 1 = m + 1
        BY <1>6, <2>8
      <4> QED BY <4>1
    <3> QED BY <2>2, <2>5, <3>1, <3>2 DEF Stacked
  <2>10. E'.cluster \in {0} \cup Clusters
    <3>1. 1 \in 1 .. Len(stack') /\ Here' = stack'[1]
      BY <1>2, <2>3, <2>4, <2>5, TopFrame DEF Here
    <3>2. ent[stack[1 + 1].place].cluster \in {0} \cup Clusters /\ stack'[1] = stack[1 + 1]
      BY <1>6, <2>8, <3>1
    <3> QED BY <1>1, <3>1, <3>2 DEF E
  <2>11. Entered' /\ Walking'
    BY <1>7, <2>1, <2>10 DEF Entered
  <2> QED BY <2>6, <2>7, <2>9, <2>11 DEF IInv
<1>10. ASSUME /\ errors' = errors + IF Counted > 0 THEN 1 ELSE 0
              /\ stack' = <<>> /\ Goto("unused") /\ UNCHANGED result
       PROVE  IInv'
  <2>1. pc' = "unused" /\ code' = code
    BY <1>10 DEF Goto
  <2>2. errors' \in Nat
    <3>1. errors \in Nat
      BY DEF IInv, Typed
    <3> QED BY <1>5, <1>10, <3>1
  <2>3. Typed'
    BY <1>1, <1>4, <1>10, <2>1, <2>2 DEF IInv, Typed, Passes, given, tables, walk
  <2>4. PassOneKeeps'
    BY <1>1, <1>3, <2>1, CutKeepsLinks DEF IInv
  <2>5. Stacked'
    <3>1. Len(stack') = 0
      BY <1>10
    <3> QED BY <1>10, <2>1, <3>1 DEF Stacked, PassFour
  <2>6. Entered' /\ Walking' /\ Following'
    BY <1>7, <2>1 DEF Entered, Following
  <2> QED BY <2>3, <2>4, <2>5, <2>6 DEF IInv
<1>11. CASE Here.dir = 0
  <2>1. Here.place \in RootPlaces
    <3>1. 1 \in 1 .. Len(stack)
      BY <1>2
    <3> QED BY <1>2, <1>6, <1>11, <3>1
  <2>2. CASE Here.place < Bad + RootEntries /\ Continue(Here.place + 1)
    <3>1. Here.place + 1 \in RootPlaces
      <4>1. PICK r \in 1 .. RootEntries : Here.place = Bad + r
        BY <2>1 DEF RootPlaces
      <4>2. RootEntries \in Nat /\ Bad \in Nat
        BY FsckAssumption DEF Bad
      <4>3. r + 1 \in 1 .. RootEntries /\ Here.place + 1 = Bad + (r + 1)
        BY <2>2, <4>1, <4>2
      <4> QED BY <4>3 DEF RootPlaces
    <3> QED BY <1>8, <1>11, <2>2, <3>1
  <2>3. CASE ~(Here.place < Bad + RootEntries /\ Continue(Here.place + 1))
    BY <1>10, <1>11, <2>3 DEF NextEntry
  <2> QED BY <2>2, <2>3
<1>12. CASE Here.dir # 0
  <2> DEFINE next == fat[Here.place]
  <2>1. CASE next \in Clusters /\ Continue(next)
    BY <1>8, <1>12, <2>1
  <2>2. CASE Leave(-1)
    BY <1>9, <1>12, <2>2
  <2>3. CASE Leave(Counted) \/ Leave(Counted + 1)
    <3>1. Counted \in Int /\ Counted >= -1 /\ Counted + 1 \in Int /\ Counted + 1 >= -1
      BY <1>5
    <3> QED BY <1>9, <1>12, <2>3, <3>1
  <2> QED BY <1>12, <2>1, <2>2, <2>3 DEF NextEntry
<1> QED BY <1>11, <1>12

-----------------------------------------------------------------------------

LEMMA StutterKept ==
  IInv /\ UNCHANGED vars => IInv'
<1> SUFFICES ASSUME IInv, UNCHANGED vars PROVE IInv'
  OBVIOUS
<1>1. /\ fat' = fat /\ ent' = ent /\ saved' = saved /\ dots' = dots /\ ref' = ref
      /\ start' = start /\ answers' = answers /\ pc' = pc /\ i' = i /\ at' = at
      /\ walked' = walked /\ stack' = stack /\ result' = result /\ errors' = errors
      /\ code' = code
  BY DEF vars
<1>2. Typed' /\ Stacked'
  BY <1>1 DEF IInv, Typed, Stacked
<1>3. PassOneKeeps' /\ Following'
  BY <1>1 DEF IInv, PassOneKeeps, Following, Linked
<1>4. E' = E
  BY <1>1 DEF E, Here
<1>5. Entered' /\ Walking'
  BY <1>1, <1>4 DEF IInv, Entered, Walking
<1> QED BY <1>2, <1>3, <1>5 DEF IInv

LEMMA StepKept ==
  IInv /\ [Next]_vars => IInv'
<1> SUFFICES ASSUME IInv, [Next]_vars PROVE IInv'
  OBVIOUS
<1>1. CASE CheckFat \/ CheckFatEnds \/ CheckChains \/ FollowChain \/ SimpleCheck
  BY <1>1, CheckFatKept, CheckFatEndsKept, CheckChainsKept, FollowChainKept, SimpleCheckKept
<1>2. CASE CheckEntry \/ CheckDir \/ NextEntry \/ Ascend \/ ConvertToFile
  BY <1>2, CheckEntryKept, CheckDirKept, NextEntryKept, AscendKept, ConvertToFileKept
<1>3. CASE CheckFile \/ WalkFile \/ FileEnds \/ CheckUnusedChains
  BY <1>3, CheckFileKept, WalkFileKept, FileEndsKept, CheckUnusedChainsKept
<1>4. CASE Done \/ UNCHANGED vars
  BY <1>4, StutterKept DEF Done
<1> QED BY <1>1, <1>2, <1>3, <1>4 DEF Next, Work

(* The calls of check_dir are for different directories.                   *)
LEMMA StackFits ==
  ASSUME IInv
  PROVE  Len(stack) <= MaxCluster
<1> DEFINE n == Len(stack)
<1>1. /\ stack \in Seq(Frames) /\ n \in Nat
      /\ \A k \in 1 .. n : stack[k].dir = 0 <=> k = n
      /\ \A k, m \in 1 .. n : stack[k].dir = stack[m].dir => k = m
  BY DEF IInv, Typed, Stacked
<1>2. CASE n = 0
  BY <1>2, Numbers
<1>3. CASE n # 0
  <2> DEFINE w == [k \in 1 .. n - 1 |-> stack[k].dir]
  <2>1. \A k \in 1 .. n - 1 : w[k] \in Clusters
    <3> TAKE k \in 1 .. n - 1
    <3>1. k \in 1 .. n /\ k # n
      BY <1>1
    <3>2. stack[k] \in Frames
      BY <1>1, <3>1
    <3> QED BY <1>1, <3>1, <3>2 DEF Frames
  <2>2. \A k, m \in 1 .. n - 1 : w[k] = w[m] => k = m
    <3> TAKE k, m \in 1 .. n - 1
    <3>1. k \in 1 .. n /\ m \in 1 .. n
      BY <1>1
    <3> QED BY <1>1, <3>1
  <2>3. n - 1 \in Nat
    BY <1>1, <1>3
  <2> HIDE DEF w, n
  <2>4. n - 1 < MaxCluster
    BY <2>1, <2>2, <2>3, FewDistinct
  <2> QED BY <1>1, <2>4, Numbers DEF n
<1> QED BY <1>2, <1>3

LEMMA WalkFits ==
  ASSUME IInv
  PROVE  Len(walked) < MaxCluster
<1>1. CASE pc = "walk"
  BY <1>1, WalkedFew
<1>2. CASE pc # "walk"
  <2>1. Len(walked) = 0
    BY <1>2 DEF IInv, Walking
  <2> QED BY <2>1, Numbers
<1> QED BY <1>1, <1>2

LEMMA TablesSoundHolds ==
  IInv => TablesSound
<1> SUFFICES ASSUME IInv PROVE TablesSound
  OBVIOUS
<1>1. TypeOK
  <2>1. \A k \in 1 .. Len(stack) : stack[k].place \in Places
    <3> TAKE k \in 1 .. Len(stack)
    <3>1. stack[k] \in Frames
      BY DEF IInv, Typed
    <3> QED BY <3>1 DEF Frames
  <2> QED BY <2>1, StackFits, WalkFits DEF IInv, Typed, TypeOK, Fats
<1>2. PassOneSound
  <2> SUFFICES ASSUME pc \notin {"fat", "exit"}
               PROVE  /\ NoLoops(fat) /\ \A c \in Clusters : fat[c] # 1
                      /\ ~Crosslinked([c \in Clusters |-> IF fat[c] = Bad THEN 0 ELSE fat[c]])
    BY DEF PassOneSound
  <2>1. \A c \in Clusters : LoopEnds(fat, c) = {} /\ Linked(c) /\ fat[c] \in FatValues
    BY DEF IInv, PassOneKeeps, Typed, Fats
  <2>2. NoLoops(fat) /\ \A c \in Clusters : fat[c] # 1
    BY <2>1 DEF NoLoops, Linked
  <2> DEFINE f == [c \in Clusters |-> IF fat[c] = Bad THEN 0 ELSE fat[c]]
  <2>3. ASSUME NEW c \in Clusters, NEW d \in Clusters, c # d, f[c] = f[d],
               f[c] \notin {0, FatEof}
        PROVE  FALSE
    <3>1. fat[c] = f[c] /\ fat[d] = f[d]
      BY <2>3
    <3>2. f[c] \in Clusters
      BY <2>1, <2>3, <3>1 DEF Linked, FatValues
    <3> QED BY <2>1, <2>3, <3>1, <3>2 DEF Linked
  <2>4. ~Crosslinked(f)
    <3> HIDE DEF f
    <3> QED BY <2>3 DEF Crosslinked
  <2> QED BY <2>2, <2>4
<1> QED BY <1>1, <1>2 DEF TablesSound

LEMMA InvariantHolds ==
  Spec => []IInv
BY InitKept, StepKept, PTL DEF Spec

(* dmsdosfsck keeps its tables within their bounds on every volume: a      *)
(* position, a cluster or a call of check_dir never leads outside of them, *)
(* the walk along a file and the calls of check_dir go no deeper than      *)
(* there are clusters, and from pass 1 to the exit no chain loops, no      *)
(* cluster has two predecessors and no FAT entry is 1, whatever the passes *)
(* repair and whatever the user answers.                                   *)
THEOREM TablesStaySound == Spec => []TablesSound
BY InvariantHolds, TablesSoundHolds, PTL

-----------------------------------------------------------------------------
(* Chains as sets, in a FAT without loops.                                 *)

LEMMA ChainEmpty ==
  ASSUME NEW f, NEW c, c \notin Clusters
  PROVE  Chain(f, c) = {}
<1>1. Along(f, c, 0) \notin Clusters
  BY AlongSteps
<1>2. \A k \in Nat : Along(f, c, k) \notin Clusters
  BY <1>1, AlongLater
<1>3. 0 .. MaxCluster \subseteq Nat
  BY Numbers
<1> QED BY <1>2, <1>3 DEF Chain

LEMMA InChain ==
  ASSUME NEW f, NoLoops(f), NEW c, NEW x
  PROVE  x \in Chain(f, c) <=> x \in Clusters /\ \E n \in Nat : x = Along(f, c, n)
<1>1. CASE c \notin Clusters
  <2>1. Along(f, c, 0) \notin Clusters
    BY <1>1, AlongSteps
  <2>2. \A k \in Nat : Along(f, c, k) \notin Clusters
    BY <2>1, AlongLater
  <2> QED BY <1>1, <2>2, ChainEmpty
<1>2. CASE c \in Clusters
  <2>1. LoopEnds(f, c) = {}
    BY <1>2 DEF NoLoops
  <2>2. ASSUME NEW n \in Nat, Along(f, c, n) \in Clusters
        PROVE  n \in 0 .. MaxCluster
    <3>1. \A k \in 0 .. n : Along(f, c, k) \in Clusters
      BY <2>2, AlongEarlier
    <3>2. n + 1 < MaxCluster
      BY <2>1, <3>1, ShortChains
    <3> QED BY <3>2, Numbers
  <2>3. 0 .. MaxCluster \subseteq Nat
    BY Numbers
  <2> QED BY <2>2, <2>3 DEF Chain
<1> QED BY <1>1, <1>2

LEMMA AlongShift ==
  ASSUME NEW f, NEW c, NEW m \in Nat, NEW n \in Nat
  PROVE  Along(f, c, m + n) = Along(f, Along(f, c, m), n)
<1> DEFINE d == Along(f, c, m)
           S == {k \in Nat : Along(f, c, m + k) = Along(f, d, k)}
<1>1. 0 \in S
  <2>1. Along(f, d, 0) = d
    BY AlongSteps
  <2> HIDE DEF d
  <2>2. m + 0 = m
    OBVIOUS
  <2> QED BY <2>1, <2>2 DEF d
<1>2. ASSUME NEW k \in Nat, k \in S
      PROVE  k + 1 \in S
  <2>1. PICK j \in Nat : j = m + k
    OBVIOUS
  <2>2. Along(f, c, j) = Along(f, d, k)
    BY <1>2, <2>1
  <2> HIDE DEF d
  <2>3. Along(f, c, j + 1) = From(f, Along(f, c, j))
    BY AlongSteps
  <2>4. Along(f, d, k + 1) = From(f, Along(f, d, k))
    BY AlongSteps
  <2>5. j + 1 = m + (k + 1)
    BY <2>1
  <2> QED BY <2>2, <2>3, <2>4, <2>5
<1> HIDE DEF S
<1>3. n \in S
  BY <1>1, <1>2, AllNaturals
<1> QED BY <1>3 DEF S

(* A chain is its first cluster and the chain behind it.                   *)
LEMMA ChainSteps ==
  ASSUME NEW f, NoLoops(f), NEW c \in Clusters
  PROVE  /\ Chain(f, c) = {c} \cup Chain(f, f[c])
         /\ c \in Chain(f, c) /\ c \notin Chain(f, f[c])
         /\ Chain(f, c) \subseteq Clusters
<1>1. Along(f, c, 0) = c /\ Along(f, c, 1) = f[c]
  <2>1. Along(f, c, 0) = c /\ Along(f, c, 0 + 1) = From(f, Along(f, c, 0))
    BY AlongSteps
  <2> QED BY <2>1 DEF From
<1>2. \A n \in Nat : Along(f, c, 1 + n) = Along(f, f[c], n)
  <2> TAKE n \in Nat
  <2>1. 1 \in Nat
    OBVIOUS
  <2>2. Along(f, c, 1 + n) = Along(f, Along(f, c, 1), n)
    BY <2>1, AlongShift
  <2> QED BY <1>1, <2>2
<1>3. \A x : x \in Chain(f, c) <=> x \in Clusters /\ \E n \in Nat : x = Along(f, c, n)
  BY InChain
<1>4. \A x : x \in Chain(f, f[c]) <=> x \in Clusters /\ \E n \in Nat : x = Along(f, f[c], n)
  BY InChain
<1>5. c \in Chain(f, c)
  BY <1>1, <1>3
<1>6. ASSUME NEW x \in Chain(f, c), x # c
      PROVE  x \in Chain(f, f[c])
  <2>1. PICK n \in Nat : x = Along(f, c, n)
    BY <1>3
  <2>2. n # 0 /\ n - 1 \in Nat /\ n = 1 + (n - 1)
    BY <1>1, <1>6, <2>1
  <2>3. x = Along(f, f[c], n - 1)
    BY <1>2, <2>1, <2>2
  <2> QED BY <1>3, <1>4, <2>2, <2>3
<1>7. ASSUME NEW x \in Chain(f, f[c])
      PROVE  x \in Chain(f, c) /\ x # c
  <2>1. PICK n \in Nat : x = Along(f, f[c], n) /\ x \in Clusters
    BY <1>4
  <2>2. PICK m \in Nat : m = 1 + n
    OBVIOUS
  <2>3. x = Along(f, c, m)
    BY <1>2, <2>1, <2>2
  <2>4. x \in Chain(f, c)
    BY <1>3, <2>1, <2>3
  <2>5. LoopEnds(f, c) = {}
    BY DEF NoLoops
  <2>6. \A k \in 0 .. m : Along(f, c, k) \in Clusters
    BY <2>1, <2>3, AlongEarlier
  <2>7. \A k, l \in 0 .. m : Along(f, c, k) = Along(f, c, l) => k = l
    BY <2>5, <2>6, AlongDistinct
  <2>8. m \in 0 .. m /\ 0 \in 0 .. m /\ m # 0
    BY <2>2
  <2>9. x # c
    BY <1>1, <2>3, <2>7, <2>8
  <2> QED BY <2>4, <2>9
<1>8. Chain(f, c) \subseteq Clusters
  BY <1>3
<1> QED BY <1>5, <1>6, <1>7, <1>8

LEMMA SubChain ==
  ASSUME NEW f, NoLoops(f), NEW c, NEW d \in Chain(f, c)
  PROVE  d \in Clusters /\ Chain(f, d) \subseteq Chain(f, c)
         /\ Chain(f, f[d]) \subseteq Chain(f, c)
<1>1. d \in Clusters /\ \E m \in Nat : d = Along(f, c, m)
  BY InChain
<1>2. PICK m \in Nat : d = Along(f, c, m)
  BY <1>1
<1>3. ASSUME NEW x \in Chain(f, d)
      PROVE  x \in Chain(f, c)
  <2>1. PICK n \in Nat : x = Along(f, d, n) /\ x \in Clusters
    BY InChain
  <2>2. x = Along(f, c, m + n) /\ m + n \in Nat
    BY <1>2, <2>1, AlongShift
  <2> QED BY <2>1, <2>2, InChain
<1>4. Chain(f, f[d]) \subseteq Chain(f, d)
  BY <1>1, ChainSteps
<1> QED BY <1>1, <1>3, <1>4

(* Only the last cluster of a chain leads to none.                         *)
LEMMA LastOfChain ==
  ASSUME NEW f, NoLoops(f), NEW c, NEW d \in Chain(f, c), NEW e \in Chain(f, c),
         f[d] \notin Clusters, e # d
  PROVE  f[e] \in Clusters
<1>1. d \in Clusters /\ e \in Clusters
  BY SubChain
<1>2. PICK m \in Nat : d = Along(f, c, m)
  BY InChain
<1>3. PICK n \in Nat : e = Along(f, c, n)
  BY InChain
<1>4. Along(f, c, m + 1) = f[d] /\ Along(f, c, n + 1) = f[e]
  BY <1>1, <1>2, <1>3, AlongSteps DEF From
<1>5. n # m
  BY <1>2, <1>3
<1>6. CASE n < m
  <2>1. n + 1 \in 0 .. m
    BY <1>6
  <2>2. \A k \in 0 .. m : Along(f, c, k) \in Clusters
    BY <1>1, <1>2, AlongEarlier
  <2> QED BY <1>4, <2>1, <2>2
<1>7. CASE m < n
  <2>1. m + 1 \in Nat /\ n >= m + 1
    BY <1>7
  <2>2. PICK l \in Nat : l = m + 1
    OBVIOUS
  <2>3. Along(f, c, l) \notin Clusters
    BY <1>4, <2>2
  <2>4. Along(f, c, n) \notin Clusters
    BY <2>1, <2>2, <2>3, AlongLater
  <2> QED BY <1>1, <1>3, <2>4
<1> QED BY <1>5, <1>6, <1>7

LEMMA ChainLength ==
  ASSUME NEW f, NoLoops(f), NEW c \in Clusters, NEW n \in Nat, n > 0,
         \A k \in 0 .. n - 1 : Along(f, c, k) \in Clusters,
         Along(f, c, n) \notin Clusters
  PROVE  Cardinality(Chain(f, c)) = n
<1> DEFINE g == [k \in 1 .. n |-> Along(f, c, k - 1)]
           T == Chain(f, c)
<1>1. \A x : x \in T <=> x \in Clusters /\ \E m \in Nat : x = Along(f, c, m)
  BY InChain
<1>2. \A k \in 1 .. n : k - 1 \in 0 .. n - 1 /\ k - 1 \in Nat
  OBVIOUS
<1>3. g \in [1 .. n -> T]
  <2> HIDE DEF T
  <2> QED BY <1>1, <1>2
<1>4. \A k, m \in 1 .. n : g[k] = g[m] => k = m
  <2>1. LoopEnds(f, c) = {}
    BY DEF NoLoops
  <2>2. PICK l \in Nat : l = n - 1
    OBVIOUS
  <2>3. \A k, m \in 0 .. l : Along(f, c, k) = Along(f, c, m) => k = m
    BY <2>1, <2>2, AlongDistinct
  <2> HIDE DEF T
  <2> TAKE k, m \in 1 .. n
  <2> HAVE g[k] = g[m]
  <2>4. k - 1 = m - 1
    BY <1>2, <2>2, <2>3
  <2> QED BY <2>4
<1>5. \A x \in T : \E k \in 1 .. n : g[k] = x
  <2> TAKE x \in T
  <2>1. PICK m \in Nat : x = Along(f, c, m) /\ x \in Clusters
    BY <1>1
  <2>2. ~(m >= n)
    BY <2>1, AlongLater
  <2>3. m + 1 \in 1 .. n /\ (m + 1) - 1 = m
    BY <2>2
  <2> QED BY <2>1, <2>3
<1> HIDE DEF g, T
<1>6. g \in Bijection(1 .. n, T)
  BY <1>3, <1>4, <1>5 DEF Bijection, Injection, Surjection, IsInjective
<1>7. ExistsBijection(1 .. n, T)
  BY <1>6 DEF ExistsBijection
<1>8. IsFiniteSet(1 .. n) /\ Cardinality(1 .. n) = n
  BY FS_Interval
<1>9. Cardinality(T) = n
  BY <1>7, <1>8, FS_Bijection
<1> QED BY <1>9 DEF T

(* A cut shortens chains, and one behind the end of a chain changes none.  *)
LEMMA CutChains ==
  ASSUME NEW f, NEW h, IsCut(f, h), NEW c
  PROVE  Chain(h, c) \subseteq Chain(f, c)
<1>1. 0 .. MaxCluster \subseteq Nat
  BY Numbers
<1> QED BY <1>1, AlongCut DEF Chain

LEMMA SameChains ==
  ASSUME NEW f, NEW h, IsCut(f, h),
         \A c \in Clusters : h[c] # f[c] => f[c] \notin Clusters,
         NEW c
  PROVE  Chain(h, c) = Chain(f, c)
<1> DEFINE S == {n \in Nat : Along(f, c, n) \in Clusters => Along(h, c, n) = Along(f, c, n)}
<1>1. 0 \in S
  BY AlongSteps
<1>2. ASSUME NEW n \in Nat, n \in S
      PROVE  n + 1 \in S
  <2> SUFFICES ASSUME Along(f, c, n + 1) \in Clusters
               PROVE  Along(h, c, n + 1) = Along(f, c, n + 1)
    OBVIOUS
  <2>1. /\ Along(f, c, n + 1) = From(f, Along(f, c, n))
        /\ Along(h, c, n + 1) = From(h, Along(h, c, n))
    BY AlongSteps
  <2>2. Along(f, c, n) \in Clusters
    BY <2>1, Numbers DEF From
  <2>3. Along(h, c, n) = Along(f, c, n)
    BY <1>2, <2>2
  <2> QED BY <2>1, <2>2, <2>3 DEF From
<1> HIDE DEF S
<1>3. Nat \subseteq S
  BY <1>1, <1>2, AllNaturals
<1>4. Chain(f, c) \subseteq Chain(h, c)
  <2>1. 0 .. MaxCluster \subseteq Nat
    BY Numbers
  <2>2. \A n \in 0 .. MaxCluster : Along(f, c, n) \in Clusters => Along(h, c, n) = Along(f, c, n)
    BY <1>3, <2>1 DEF S
  <2> QED BY <2>2 DEF Chain
<1> QED BY <1>4, CutChains

(* Chains that nothing leads into, where every cluster has one             *)
(* predecessor, do not meet.                                               *)
LEMMA HeadsApart ==
  ASSUME NEW f, NoLoops(f), NEW r, \A c \in Clusters : f[c] \in Clusters => r[f[c]] = c,
         NEW c \in Clusters, NEW d \in Clusters, r[c] = 0, r[d] = 0,
         NEW x, x \in Chain(f, c), x \in Chain(f, d)
  PROVE  c = d
<1> DEFINE S == {m \in Nat : \A n \in Nat : /\ Along(f, c, m) \in Clusters
                                            /\ Along(f, c, m) = Along(f, d, n)
                                            => c = d}
<1>0. Along(f, c, 0) = c /\ Along(f, d, 0) = d
  BY AlongSteps
<1>1. \A b, m : m \in Nat /\ Along(f, b, m + 1) \in Clusters =>
         Along(f, b, m) \in Clusters /\ r[Along(f, b, m + 1)] = Along(f, b, m)
  <2> TAKE b, m
  <2> HAVE m \in Nat /\ Along(f, b, m + 1) \in Clusters
  <2>1. Along(f, b, m + 1) = From(f, Along(f, b, m))
    BY AlongSteps
  <2> QED BY <2>1, Numbers DEF From
<1>2. \A n \in Nat : n = 0 \/ \E k \in Nat : n = k + 1
  <2> TAKE n \in Nat
  <2>1. n # 0 => n - 1 \in Nat /\ n = (n - 1) + 1
    OBVIOUS
  <2> QED BY <2>1
<1>3. 0 \in S
  <2> SUFFICES ASSUME NEW n \in Nat, c = Along(f, d, n) PROVE c = d
    BY <1>0
  <2>1. CASE n = 0
    BY <1>0, <2>1
  <2>2. CASE n # 0
    <3>1. PICK k \in Nat : n = k + 1
      BY <1>2, <2>2
    <3>2. Along(f, d, k) \in Clusters /\ r[c] = Along(f, d, k)
      BY <1>1, <3>1
    <3> QED BY <3>2, Numbers
  <2> QED BY <2>1, <2>2
<1>4. ASSUME NEW m \in Nat, m \in S
      PROVE  m + 1 \in S
  <2> SUFFICES ASSUME NEW n \in Nat, Along(f, c, m + 1) \in Clusters,
                      Along(f, c, m + 1) = Along(f, d, n)
               PROVE  c = d
    OBVIOUS
  <2>1. Along(f, c, m) \in Clusters /\ r[Along(f, c, m + 1)] = Along(f, c, m)
    BY <1>1
  <2>2. CASE n = 0
    BY <1>0, <2>1, <2>2, Numbers
  <2>3. CASE n # 0
    <3>1. PICK k \in Nat : n = k + 1
      BY <1>2, <2>3
    <3>2. r[Along(f, d, n)] = Along(f, d, k)
      BY <1>1, <3>1
    <3> QED BY <1>4, <2>1, <3>2
  <2> QED BY <2>2, <2>3
<1> HIDE DEF S
<1>5. Nat \subseteq S
  BY <1>3, <1>4, AllNaturals
<1>6. PICK m \in Nat : x = Along(f, c, m) /\ x \in Clusters
  BY InChain
<1>7. PICK n \in Nat : x = Along(f, d, n)
  BY InChain
<1> QED BY <1>5, <1>6, <1>7 DEF S

-----------------------------------------------------------------------------
(* What exit code 0 relies on.                                             *)

IsHead(h) == h \in Clusters /\ start[h] /\ ref[h] = 0

(* Pass 2, with -a: the chains that nothing leads into end with FAT_EOF.   *)
HeadEnds(h) ==
  ref[h] = 0 /\ fat[h] \in Clusters =>
    \A d \in Chain(fat, h) : fat[d] \in Clusters \cup {FatEof}
PassTwoKeeps ==
  answers = {TRUE} =>
    /\ pc = "chains" => /\ \A h \in 2 .. i - 1 : HeadEnds(h)
                        /\ at # 0 => /\ fat[i] \in Clusters /\ ref[i] = 0
                                     /\ at \in Chain(fat, i)
    /\ pc \in {"simple", "unused"} \cup PassFour => \A h \in Clusters : HeadEnds(h)

BeforeAndAfter ==
  /\ pc \in {"fat", "chains", "simple"} => ent = saved
  /\ code = 0 => /\ pc = "exit" /\ errors = 0 /\ stack = <<>>
                 /\ \A c \in Clusters : LoopEnds(fat, c) = {} /\ Linked(c)

(* A step of pass 4 leaves the chains and their heads as they are.         *)
Calm ==
  /\ pc \in PassFour /\ pc' \in PassFour \cup {"unused"}
  /\ IsCut(fat, fat') /\ \A c \in Clusters : fat'[c] # fat[c] => fat[c] \notin Clusters
  /\ ref' = ref /\ answers' = answers /\ code' = code
  /\ \A c \in Clusters : start[c] => start'[c]
StepOfPassFour ==
  \/ CheckEntry \/ CheckDir \/ NextEntry \/ Ascend \/ ConvertToFile
  \/ CheckFile \/ WalkFile \/ FileEnds

LEMMA LastWalked ==
  ASSUME IInv, pc = "walk", at \notin Clusters
  PROVE  /\ Len(walked) \in Nat /\ Len(walked) > 0
         /\ walked[Len(walked)] \in Clusters /\ fat[walked[Len(walked)]] = at
<1> DEFINE n == Len(walked)
<1>1. n \in Nat /\ n > 0
  BY WalkedFew
<1>2. PICK m \in Nat : n = m + 1
  <2>1. n - 1 \in Nat /\ n = (n - 1) + 1
    BY <1>1
  <2> QED BY <2>1
<1>3. /\ at = Along(fat, E.cluster, n) /\ walked \in Seq(Clusters)
      /\ \A k \in 1 .. n : walked[k] = Along(fat, E.cluster, k - 1)
  BY DEF IInv, Walking, Typed
<1>4. n \in 1 .. n /\ n - 1 = m
  BY <1>1, <1>2
<1>5. walked[n] = Along(fat, E.cluster, m) /\ walked[n] \in Clusters
  BY <1>3, <1>4
<1>6. at = From(fat, Along(fat, E.cluster, m))
  BY <1>2, <1>3, AlongSteps
<1> QED BY <1>1, <1>5, <1>6 DEF From

LEMMA PassFourCalm ==
  IInv /\ StepOfPassFour => Calm
<1> SUFFICES ASSUME IInv, StepOfPassFour PROVE Calm
  OBVIOUS
<1>1. fat \in Fats /\ start \in [Clusters -> BOOLEAN]
  BY DEF IInv, Typed
<1>2. CASE CheckEntry
  <2>1. pc = "entry" /\ pc' \in {"return", "dir", "file"} /\ code' = code
        /\ UNCHANGED <<given, fat, ref>>
    BY <1>2 DEF CheckEntry, Return, Goto
  <2>2. start' = start \/ start' = [start EXCEPT ![E.cluster] = TRUE]
    BY <1>2 DEF CheckEntry
  <2>3. \A c \in Clusters : start[c] => start'[c]
    BY <1>1, <2>2
  <2> QED BY <1>1, <2>1, <2>3, NoCut DEF Calm, PassFour, given
<1>3. CASE CheckDir
  BY <1>1, <1>3, NoCut DEF CheckDir, Goto, Calm, PassFour, given, volume, tables
<1>4. CASE NextEntry
  <2>1. pc = "return" /\ pc' \in {"entry", "ascend", "unused"} /\ code' = code
        /\ UNCHANGED <<given, fat, tables>>
    BY <1>4 DEF NextEntry, Continue, Leave, Goto
  <2> QED BY <1>1, <2>1, NoCut DEF Calm, PassFour, given, tables
<1>5. CASE Ascend
  <2>1. pc = "ascend" /\ pc' \in {"irreparable", "return"} /\ code' = code
        /\ UNCHANGED <<given, fat, tables>>
    BY <1>5 DEF Ascend, Return, Goto
  <2> QED BY <1>1, <2>1, NoCut DEF Calm, PassFour, given, tables
<1>6. CASE ConvertToFile
  <2>1. pc = "irreparable" /\ pc' \in {"file", "return"} /\ code' = code
        /\ UNCHANGED <<given, fat, tables>>
    BY <1>6 DEF ConvertToFile, Return, Goto
  <2> QED BY <1>1, <2>1, NoCut DEF Calm, PassFour, given, tables
<1>7. CASE CheckFile
  <2>1. pc = "file" /\ pc' \in {"walk", "return"} /\ code' = code
        /\ UNCHANGED <<given, fat, tables>>
    BY <1>7 DEF CheckFile, Resize, Return, Goto
  <2> QED BY <1>1, <2>1, NoCut DEF Calm, PassFour, given, tables
<1>8. CASE WalkFile
  <2>1. pc = "walk" /\ pc' = pc /\ code' = code /\ UNCHANGED <<given, volume, tables>>
    BY <1>8 DEF WalkFile
  <2> QED BY <1>1, <2>1, NoCut DEF Calm, PassFour, given, tables, volume
<1>9. CASE FileEnds
  <2>1. pc = "walk" /\ pc' = "return" /\ code' = code /\ at \notin Clusters
        /\ UNCHANGED <<given, tables>>
    BY <1>9 DEF FileEnds, CompareSize, Resize, Return, Goto
  <2>2. CASE fat' = fat
    BY <1>1, <2>1, <2>2, NoCut DEF Calm, PassFour, given, tables
  <2>3. CASE fat' = [fat EXCEPT ![walked[Len(walked)]] = FatEof]
    <3>1. IsCut(fat, fat')
      BY <1>1, <2>3, OneCut
    <3>2. walked[Len(walked)] \in Clusters /\ fat[walked[Len(walked)]] \notin Clusters
      BY <2>1, LastWalked
    <3>3. \A c \in Clusters : fat'[c] # fat[c] => fat[c] \notin Clusters
      BY <1>1, <2>3, <3>2 DEF Fats
    <3> QED BY <2>1, <3>1, <3>3 DEF Calm, PassFour, given, tables
  <2> QED BY <1>9, <2>2, <2>3 DEF FileEnds
<1> QED BY <1>2, <1>3, <1>4, <1>5, <1>6, <1>7, <1>8, <1>9 DEF StepOfPassFour

LEMMA ChainsKnown ==
  ASSUME IInv, pc \notin {"fat", "exit"}
  PROVE  /\ NoLoops(fat) /\ fat \in Fats
         /\ \A c \in Clusters : fat[c] \in Clusters => ref[fat[c]] = c
BY DEF IInv, PassOneKeeps, NoLoops, Linked, Typed

LEMMA HeadsStayEnded ==
  ASSUME NEW h \in Clusters, HeadEnds(h), IsCut(fat, fat'), ref' = ref
  PROVE  HeadEnds(h)'
<1> SUFFICES ASSUME ref[h] = 0, fat'[h] \in Clusters, NEW d \in Chain(fat', h)
             PROVE  fat'[d] \in Clusters \cup {FatEof}
  BY DEF HeadEnds
<1>1. fat[h] \in Clusters
  BY Numbers DEF IsCut
<1>2. d \in Chain(fat, h) /\ d \in Clusters
  BY CutChains DEF Chain
<1>3. fat[d] \in Clusters \cup {FatEof}
  BY <1>1, <1>2 DEF HeadEnds
<1> QED BY <1>2, <1>3 DEF IsCut

LEMMA PassTwoKept ==
  ASSUME IInv, PassTwoKeeps, Next
  PROVE  PassTwoKeeps'
<1> SUFFICES ASSUME answers' = {TRUE}
             PROVE  /\ pc' = "chains" => /\ \A h \in 2 .. i' - 1 : HeadEnds(h)'
                                         /\ at' # 0 => /\ fat'[i'] \in Clusters /\ ref'[i'] = 0
                                                       /\ at' \in Chain(fat', i')
                    /\ pc' \in {"simple", "unused"} \cup PassFour =>
                         \A h \in Clusters : HeadEnds(h)'
  BY DEF PassTwoKeeps
<1>1. CASE CheckFat
  BY <1>1 DEF CheckFat, Exit, Goto, PassFour
<1>2. CASE CheckFatEnds
  <2>1. pc = "fat" /\ pc' \in {"exit", "chains"} /\ i' = 2 /\ at' = at
    BY <1>2 DEF CheckFatEnds, Exit, Goto, walk
  <2>2. at = 0
    BY <2>1 DEF IInv, Following
  <2> QED BY <2>1, <2>2 DEF PassFour
<1>3. CASE CheckChains
  <2>1. pc = "chains" /\ at = 0 /\ fat' = fat /\ ref' = ref /\ answers = {TRUE}
    BY <1>3 DEF CheckChains, volume, tables, given
  <2>2. (\A h \in 2 .. i - 1 : HeadEnds(h)) /\ i \in 2 .. MaxCluster + 1 /\ MaxCluster \in Nat
    BY <2>1, Numbers DEF PassTwoKeeps, IInv, Typed
  <2>3. \A h \in Clusters : HeadEnds(h) => HeadEnds(h)'
    BY <2>1 DEF HeadEnds
  <2>4. CASE i > MaxCluster
    <3>1. pc' = "simple"
      BY <1>3, <2>2, <2>4 DEF CheckChains, Goto
    <3>2. \A h \in Clusters : h \in 2 .. i - 1
      BY <2>2, <2>4 DEF Clusters
    <3> QED BY <2>2, <2>3, <3>1, <3>2
  <2>5. CASE i <= MaxCluster
    <3>1. pc' = "chains" /\ i \in Clusters /\ \A h \in 2 .. i : h \in Clusters
      <4>1. pc' = "chains"
        BY <1>3, <2>2, <2>5 DEF CheckChains, Goto
      <4> QED BY <4>1, <2>2, <2>5 DEF Clusters
    <3>2. CASE fat[i] \in Clusters /\ ref[i] = 0
      <4>1. at' = fat[i] /\ i' = i
        BY <1>3, <2>2, <2>5, <3>2 DEF CheckChains
      <4>2. fat[i] \in Chain(fat, i)
        <5>1. NoLoops(fat)
          BY <2>1, ChainsKnown
        <5> QED BY <3>1, <3>2, <5>1, ChainSteps
      <4>3. \A h \in 2 .. i - 1 : h \in 2 .. i
        BY <2>2
      <4> QED BY <2>1, <2>2, <2>3, <3>1, <3>2, <4>1, <4>2, <4>3 DEF PassFour
    <3>3. CASE ~(fat[i] \in Clusters /\ ref[i] = 0)
      <4>1. at' = 0 /\ i' = i + 1
        BY <1>3, <2>1, <2>2, <2>5, <3>3 DEF CheckChains
      <4>2. HeadEnds(i)
        BY <3>3 DEF HeadEnds
      <4>3. \A h \in 2 .. i' - 1 : h = i \/ h \in 2 .. i - 1
        BY <2>2, <4>1
      <4>4. \A h \in 2 .. i' - 1 : HeadEnds(h) /\ h \in Clusters
        BY <2>2, <3>1, <4>1, <4>2, <4>3
      <4> QED BY <2>3, <3>1, <4>1, <4>4 DEF PassFour
    <3> QED BY <3>2, <3>3
  <2> QED BY <2>2, <2>4, <2>5
<1>4. CASE FollowChain
  <2>1. pc = "chains" /\ at # 0 /\ pc' = pc /\ ref' = ref /\ answers = {TRUE}
    BY <1>4 DEF FollowChain, tables, given
  <2>2. /\ \A h \in 2 .. i - 1 : HeadEnds(h)
        /\ fat[i] \in Clusters /\ ref[i] = 0 /\ at \in Chain(fat, i)
    BY <2>1 DEF PassTwoKeeps
  <2>3. NoLoops(fat) /\ fat \in Fats /\ i \in Clusters /\ at \in Clusters /\ fat[at] # 1
    BY <2>1, ChainsKnown DEF IInv, Following, PassOneKeeps, Linked
  <2>4. \A h \in 2 .. i : h \in Clusters
    BY <2>3, Numbers DEF Clusters
  <2>5. CASE fat[at] \in Clusters
    <3>1. at' = fat[at] /\ fat' = fat /\ i' = i
      BY <1>4, <2>5 DEF FollowChain
    <3>2. fat[at] \in Chain(fat, i)
      <4>1. fat[at] \in Chain(fat, fat[at])
        BY <2>3, <2>5, ChainSteps
      <4> QED BY <2>2, <2>3, <4>1, SubChain
    <3>3. \A h \in Clusters : HeadEnds(h) => HeadEnds(h)'
      BY <2>1, <3>1 DEF HeadEnds
    <3>4. \A h \in 2 .. i - 1 : h \in 2 .. i
      BY <2>3, Numbers
    <3> QED BY <2>1, <2>2, <2>4, <3>1, <3>2, <3>3, <3>4 DEF PassFour
  <2>6. CASE fat[at] \notin Clusters
    <3>1. at' = 0 /\ i' = i + 1
          /\ fat' = IF Broken(fat[at]) THEN [fat EXCEPT ![at] = FatEof] ELSE fat
      BY <1>4, <2>1, <2>6 DEF FollowChain
    <3>2. IsCut(fat, fat')
      BY <2>3, <3>1, OneCut, NoCut
    <3>3. fat'[at] = FatEof
      <4>1. fat[at] \in {FatEof, 0, Bad}
        BY <2>3, <2>6 DEF Fats, FatValues
      <4> QED BY <2>3, <3>1, <4>1 DEF Broken, Fats
    <3>4. ASSUME NEW h \in Clusters, h = i
          PROVE  HeadEnds(h)'
      <4> SUFFICES ASSUME NEW d \in Chain(fat', h)
                   PROVE  fat'[d] \in Clusters \cup {FatEof}
        BY DEF HeadEnds
      <4>1. d \in Chain(fat, i) /\ d \in Clusters
        BY <3>2, <3>4, CutChains DEF Chain
      <4>2. CASE d = at
        BY <3>3, <4>2
      <4>3. CASE d # at
        <5>1. fat[d] \in Clusters
          BY <2>2, <2>3, <2>6, <4>1, <4>3, LastOfChain
        <5> QED BY <3>2, <4>1, <5>1 DEF IsCut
      <4> QED BY <4>2, <4>3
    <3>5. ASSUME NEW h \in 2 .. i - 1
          PROVE  HeadEnds(h)'
      <4>1. h \in Clusters
        BY <2>3, <2>4, Numbers
      <4> QED BY <2>1, <2>2, <3>2, <4>1, HeadsStayEnded
    <3>6. \A h \in 2 .. i' - 1 : h = i \/ h \in 2 .. i - 1
      BY <2>3, <3>1, Numbers
    <3>7. \A h \in 2 .. i' - 1 : HeadEnds(h)'
      BY <2>3, <3>4, <3>5, <3>6
    <3> QED BY <2>1, <3>1, <3>7 DEF PassFour
  <2> QED BY <2>5, <2>6
<1>5. CASE SimpleCheck
  <2>1. pc = "simple" /\ pc' = "entry" /\ fat' = fat /\ ref' = ref /\ answers = {TRUE}
    BY <1>5 DEF SimpleCheck, Goto, tables, given
  <2> QED BY <2>1 DEF PassTwoKeeps, HeadEnds
<1>6. CASE StepOfPassFour
  <2>1. Calm
    BY <1>6, PassFourCalm
  <2>2. \A h \in Clusters : HeadEnds(h)
    BY <2>1 DEF PassTwoKeeps, Calm
  <2>3. \A h \in Clusters : HeadEnds(h)'
    BY <2>1, <2>2, HeadsStayEnded DEF Calm
  <2>4. pc' # "chains"
    BY <2>1 DEF Calm, PassFour
  <2> QED BY <2>3, <2>4
<1>7. CASE CheckUnusedChains
  BY <1>7 DEF CheckUnusedChains, Exit, PassFour
<1>8. CASE Done
  <2>1. pc = "exit" /\ pc' = "exit"
    BY <1>8 DEF Done, vars
  <2> QED BY <2>1 DEF PassFour
<1> QED BY <1>1, <1>2, <1>3, <1>4, <1>5, <1>6, <1>7, <1>8 DEF Next, Work, StepOfPassFour

LEMMA BeforeAndAfterKept ==
  ASSUME IInv, BeforeAndAfter, Next
  PROVE  BeforeAndAfter'
<1>1. CASE CheckFat \/ CheckFatEnds \/ CheckChains \/ FollowChain
  <2>1. /\ pc \in {"fat", "chains"} /\ ent' = ent /\ saved' = saved
        /\ code' = code \/ code' = 4
    BY <1>1 DEF CheckFat, CheckFatEnds, CheckChains, FollowChain, Exit, Goto, volume
  <2>2. code' # 0
    BY <2>1 DEF BeforeAndAfter
  <2> QED BY <2>1, <2>2 DEF BeforeAndAfter
<1>2. CASE SimpleCheck
  <2>1. pc = "simple" /\ pc' = "entry" /\ code' = code
    BY <1>2 DEF SimpleCheck, Goto
  <2> QED BY <2>1 DEF BeforeAndAfter
<1>3. CASE StepOfPassFour
  <2>1. Calm
    BY <1>3, PassFourCalm
  <2> QED BY <2>1 DEF Calm, PassFour, BeforeAndAfter
<1>4. CASE CheckUnusedChains
  <2>1. /\ pc = "unused" /\ pc' = "exit" /\ (code' = 0 => errors' = 0)
        /\ UNCHANGED <<fat, ref, stack>>
    BY <1>4 DEF CheckUnusedChains, Exit, volume, tables
  <2>2. stack = <<>> /\ \A c \in Clusters : LoopEnds(fat, c) = {} /\ Linked(c)
    BY <2>1 DEF IInv, Stacked, PassOneKeeps, PassFour
  <2>3. \A c \in Clusters : LoopEnds(fat', c) = {} /\ Linked(c)'
    BY <2>1, <2>2 DEF Linked
  <2> QED BY <2>1, <2>2, <2>3 DEF BeforeAndAfter
<1>5. CASE Done
  <2>1. UNCHANGED <<pc, ent, saved, code, errors, stack, fat, ref>>
    BY <1>5 DEF Done, vars
  <2> QED BY <2>1 DEF BeforeAndAfter, Linked
<1> QED BY <1>1, <1>2, <1>3, <1>4, <1>5 DEF Next, Work, StepOfPassFour

-----------------------------------------------------------------------------
(* The entries check_direntry has finished with are D, those it has come   *)
(* to are V.                                                               *)

Owner(p) == ent[p].used /\ ent[p].cluster # 0
Fit(e) ==
  /\ e.cluster \in {0} \cup Clusters /\ (e.cluster # 0 => IsHead(e.cluster))
  /\ e.dir => e.cluster # 0
  /\ ~e.dir => e.size <= ClusterSize * Cardinality(Chain(fat, e.cluster))
  /\ Cardinality(answers) = 1 => SizeFits(fat, e)

(* Finished entries are on the disk, have what they need and nobody        *)
(* else's; with a directory, all that is in it is finished.                *)
Finished(D) ==
  /\ \A p \in D : /\ ent[p] = saved[p]
                  /\ ent[p].used => Fit(ent[p])
                  /\ ent[p].used /\ ent[p].dir => Chain(fat, ent[p].cluster) \subseteq D
  /\ \A p, q \in D : Owner(p) /\ Owner(q) /\ ent[p].cluster = ent[q].cluster => p = q

(* The entries of the directory of a call, and those still ahead.          *)
Listing(k) == IF stack[k].dir = 0 THEN RootPlaces ELSE Chain(fat, stack[k].dir)
Ahead(k) ==
  IF stack[k].dir = 0 THEN {r \in RootPlaces : r > stack[k].place}
  ELSE Chain(fat, fat[stack[k].place])

(* Only entries the check has come to can differ from the disk.            *)
Visited(V) ==
  /\ \A p \in Places \ V : ent[p] = saved[p]
  /\ \A d \in V \cap Clusters : \E h \in Clusters : IsHead(h) /\ d \in Chain(fat, h)
  /\ \A k \in 1 .. Len(stack) :
       /\ stack[k].place \in V /\ Ahead(k) \cap V = {}
       /\ ~stack[k].need => ent[stack[k].place] = saved[stack[k].place]
  /\ \A k, m \in 1 .. Len(stack) : stack[k].place = stack[m].place => k = m

(* A call without errors has finished all entries behind it.               *)
Open(D) ==
  \A k \in 1 .. Len(stack) :
    /\ stack[k].place \in Listing(k) \ D /\ Ahead(k) \subseteq Listing(k)
    /\ stack[k].errors = 0 => Listing(k) \subseteq D \cup {stack[k].place} \cup Ahead(k)
    /\ stack[k].dir # 0 => /\ IsHead(stack[k].dir)
                           /\ \A p \in D : Owner(p) => ent[p].cluster # stack[k].dir
    /\ k > 1 => /\ ent[stack[k].place].used /\ ent[stack[k].place].dir
                /\ ent[stack[k].place].cluster = stack[k - 1].dir

Standing(D, V) ==
  /\ D \subseteq V /\ Finished(D) /\ Visited(V) /\ Open(D)
  /\ stack = <<>> /\ errors = 0 => RootPlaces \subseteq D

(* The entry being looked at has its chain for itself.                     *)
Alone(D) ==
  /\ E.used
  /\ E.cluster # 0 => /\ IsHead(E.cluster)
                      /\ \A p \in D : Owner(p) => ent[p].cluster # E.cluster
                      /\ \A k \in 1 .. Len(stack) : stack[k].dir # E.cluster
Held(D) ==
  pc \in PassFour \ {"entry", "return"} \/ (pc = "return" /\ result = 0 /\ E.used) =>
    Alone(D)

Returning(D, V) ==
  /\ pc = "dir" => E.dir /\ (E.cluster # 0 => Chain(fat, E.cluster) \cap V = {})
  /\ pc = "irreparable" => E.dir
  /\ pc \in {"file", "walk"} => ~E.dir
  /\ pc = "ascend" =>
       E.dir /\ E.cluster # 0 /\ (result = 0 => Chain(fat, E.cluster) \subseteq D)
  /\ pc = "return" /\ result = 0 /\ E.used =>
       Fit(E) /\ (E.dir => Chain(fat, E.cluster) \subseteq D)

Clean(D, V) == Standing(D, V) /\ Held(D) /\ Returning(D, V)
CleanIInv ==
  pc \in PassFour \cup {"unused"} \/ code = 0 => \E D, V \in SUBSET Places : Clean(D, V)

LEMMA CalmKeeps ==
  ASSUME Calm
  PROVE  /\ \A c : Chain(fat', c) = Chain(fat, c)
         /\ \A h : IsHead(h) => IsHead(h)'
         /\ \A e : Fit(e) => Fit(e)'
<1>1. \A c : Chain(fat', c) = Chain(fat, c)
  BY SameChains DEF Calm
<1>2. \A h : IsHead(h) => IsHead(h)'
  BY DEF Calm, IsHead
<1>3. ASSUME NEW e, Fit(e) PROVE Fit(e)'
  <2>1. answers' = answers /\ (SizeFits(fat, e) => SizeFits(fat', e))
    BY <1>1 DEF Calm, SizeFits
  <2> QED BY <1>1, <1>2, <1>3, <2>1 DEF Fit
<1> QED BY <1>1, <1>2, <1>3

LEMMA FinishedKept ==
  ASSUME Calm, NEW D, Finished(D),
         \A p \in D : ent'[p] = ent[p] /\ saved'[p] \in {saved[p], ent[p]}
  PROVE  Finished(D)'
<1>1. \A p \in D : Owner(p)' <=> Owner(p)
  BY DEF Owner
<1>2. ASSUME NEW p \in D
      PROVE  /\ ent'[p] = saved'[p]
             /\ ent'[p].used => Fit(ent[p])'
             /\ ent'[p].used /\ ent'[p].dir => Chain(fat', ent'[p].cluster) \subseteq D
  <2>1. /\ ent[p] = saved[p]
        /\ ent[p].used => Fit(ent[p])
        /\ ent[p].used /\ ent[p].dir => Chain(fat, ent[p].cluster) \subseteq D
    BY DEF Finished
  <2>2. PICK e : e = ent[p]
    OBVIOUS
  <2>3. Fit(e) => Fit(e)'
    BY CalmKeeps
  <2>4. \A c : Chain(fat', c) = Chain(fat, c)
    BY CalmKeeps
  <2>5. ent'[p] = e
    BY <2>2
  <2>6. Fit(e) => Fit(ent[p])'
    BY <2>3, <2>5 DEF Fit, IsHead, SizeFits
  <2> QED BY <2>1, <2>2, <2>4, <2>5, <2>6
<1>3. \A p, q \in D : Owner(p)' /\ Owner(q)' /\ ent'[p].cluster = ent'[q].cluster => p = q
  BY <1>1 DEF Finished
<1> QED BY <1>2, <1>3 DEF Finished

(* The call at work, and where it is.                                      *)
LEMMA CallHere ==
  ASSUME IInv, pc \in PassFour, NEW D, NEW V, Standing(D, V)
  PROVE  /\ stack # <<>> /\ stack \in Seq(Frames) /\ Len(stack) \in Nat /\ Len(stack) >= 1
         /\ 1 \in 1 .. Len(stack) /\ Here = stack[1] /\ Here \in Frames
         /\ Here.place \in Places /\ Here.errors \in Nat /\ Here.place = stack[1].place
         /\ Here.place \in V /\ Here.place \notin D /\ E = ent[Here.place] /\ E \in Entry
         /\ D \subseteq V
         /\ \A k \in 1 .. Len(stack) : stack[k].place = Here.place => k = 1
<1>1. /\ stack # <<>> /\ Here = stack[1] /\ Len(stack) >= 1 /\ Len(stack) \in Nat
      /\ Here \in Frames /\ Here.place \in Places /\ Here.errors \in Nat /\ E \in Entry
  BY PlaceHere DEF IInv
<1>2. 1 \in 1 .. Len(stack) /\ stack \in Seq(Frames)
  BY <1>1 DEF IInv, Typed
<1>3. /\ stack[1].place \in V /\ stack[1].place \notin D /\ D \subseteq V
      /\ \A k \in 1 .. Len(stack) : stack[k].place = stack[1].place => k = 1
  BY <1>2 DEF Standing, Visited, Open
<1> QED BY <1>1, <1>2, <1>3 DEF E

(* A step that changes at most the entry here.                             *)
LEMMA SamePlaces ==
  ASSUME IInv, Calm, pc' \in PassFour, NEW D \in SUBSET Places, NEW V \in SUBSET Places,
         Standing(D, V), saved' = saved,
         UNCHANGED <<ent, stack>> \/ \E e \in Entry : Change(e) /\ Mark
  PROVE  Standing(D, V)'
<1>1. /\ stack # <<>> /\ stack \in Seq(Frames) /\ Len(stack) \in Nat /\ Len(stack) >= 1
      /\ 1 \in 1 .. Len(stack) /\ Here = stack[1]
      /\ Here.place \in Places /\ Here.place = stack[1].place
      /\ Here.place \in V /\ Here.place \notin D /\ D \subseteq V
      /\ \A k \in 1 .. Len(stack) : stack[k].place = Here.place => k = 1
  BY CallHere DEF Calm
<1>2. /\ stack' # <<>> /\ Len(stack') = Len(stack)
      /\ \A k \in 1 .. Len(stack) : /\ stack'[k].dir = stack[k].dir
                                   /\ stack'[k].place = stack[k].place
                                   /\ stack'[k].errors = stack[k].errors
      /\ \/ UNCHANGED <<ent, stack>>
         \/ stack'[1].need /\ \A k \in 2 .. Len(stack) : stack'[k] = stack[k]
      /\ \A p \in Places : p # Here.place => ent'[p] = ent[p]
  <2>1. CASE UNCHANGED <<ent, stack>>
    BY <1>1, <2>1
  <2>2. CASE \E e \in Entry : Change(e) /\ Mark
    <3>1. PICK e \in Entry : Change(e) /\ Mark
      BY <2>2
    <3>2. /\ Len(stack') = Len(stack) /\ stack' # <<>>
          /\ stack'[1] = [stack[1] EXCEPT !.need = TRUE]
          /\ \A k \in 2 .. Len(stack) : stack'[k] = stack[k]
          /\ \A k \in 1 .. Len(stack) : /\ stack'[k].dir = stack[k].dir
                                       /\ stack'[k].place = stack[k].place
                                       /\ stack'[k].errors = stack[k].errors
      BY <1>1, <3>1, MarkedFrame DEF Mark
    <3>3. stack'[1].need
      <4>1. stack[1] \in Frames
        BY <1>1
      <4> QED BY <3>2, <4>1 DEF Frames
    <3>4. \A p \in Places : p # Here.place => ent'[p] = ent[p]
      BY <3>1 DEF Change, IInv, Typed
    <3> QED BY <3>2, <3>3, <3>4
  <2> QED BY <2>1, <2>2
<1>3. \A c : Chain(fat', c) = Chain(fat, c)
  BY CalmKeeps
<1>4. \A h : IsHead(h) => IsHead(h)'
  BY CalmKeeps
<1>5. \A p \in D : ent'[p] = ent[p] /\ (Owner(p)' <=> Owner(p))
  <2>1. \A p \in D : ent'[p] = ent[p]
    BY <1>1, <1>2
  <2> QED BY <2>1 DEF Owner
<1>6. Finished(D)'
  BY <1>5, FinishedKept DEF Standing
<1>7. \A k \in 1 .. Len(stack) : Listing(k)' = Listing(k) /\ Ahead(k)' = Ahead(k)
  <2> TAKE k \in 1 .. Len(stack)
  <2>1. Listing(k)' = Listing(k)
    BY <1>2, <1>3 DEF Listing
  <2>2. Ahead(k)' = Ahead(k)
    <3>1. CASE stack[k].dir = 0
      BY <1>2, <3>1 DEF Ahead
    <3>2. CASE stack[k].dir # 0
      <4>1. stack[k].place \in Clusters
        BY <3>2 DEF IInv, Stacked
      <4>2. Chain(fat, fat'[stack[k].place]) = Chain(fat, fat[stack[k].place])
        <5>1. CASE fat'[stack[k].place] = fat[stack[k].place]
          BY <5>1
        <5>2. CASE fat'[stack[k].place] # fat[stack[k].place]
          <6>1. fat'[stack[k].place] \notin Clusters /\ fat[stack[k].place] \notin Clusters
            BY <4>1, <5>2, Numbers DEF Calm, IsCut
          <6>2. Chain(fat, fat'[stack[k].place]) = {} /\ Chain(fat, fat[stack[k].place]) = {}
            BY <6>1, ChainEmpty
          <6> QED BY <6>2
        <5> QED BY <5>1, <5>2
      <4> QED BY <1>2, <1>3, <3>2, <4>2 DEF Ahead
    <3> QED BY <3>1, <3>2
  <2> QED BY <2>1, <2>2
<1>8. Visited(V)'
  <2>1. \A p \in Places \ V : ent'[p] = saved'[p]
    BY <1>1, <1>2 DEF Standing, Visited
  <2>2. \A d \in V \cap Clusters : \E h \in Clusters : IsHead(h)' /\ d \in Chain(fat', h)
    BY <1>3, <1>4 DEF Standing, Visited
  <2>3. ASSUME NEW k \in 1 .. Len(stack')
        PROVE  /\ stack'[k].place \in V /\ Ahead(k)' \cap V = {}
               /\ ~stack'[k].need => ent'[stack'[k].place] = saved'[stack'[k].place]
    <3>1. k \in 1 .. Len(stack)
      BY <1>2
    <3>2. stack'[k].place \in V /\ Ahead(k)' \cap V = {}
      BY <1>2, <1>7, <3>1 DEF Standing, Visited
    <3>3. ~stack[k].need => ent[stack[k].place] = saved[stack[k].place]
      BY <3>1 DEF Standing, Visited
    <3>4. CASE UNCHANGED <<ent, stack>>
      BY <3>2, <3>3, <3>4
    <3>5. CASE stack'[1].need /\ \A j \in 2 .. Len(stack) : stack'[j] = stack[j]
      <4> SUFFICES ASSUME ~stack'[k].need
                   PROVE  ent'[stack'[k].place] = saved'[stack'[k].place]
        BY <3>2
      <4>1. k \in 2 .. Len(stack) /\ k # 1
        BY <1>1, <3>1, <3>5
      <4>2. stack'[k] = stack[k]
        BY <3>5, <4>1
      <4>3. stack[k].place \in Places /\ stack[k].place # Here.place
        BY <1>1, <3>1, <4>1 DEF Standing, Visited
      <4> QED BY <1>2, <3>3, <4>2, <4>3
    <3> QED BY <1>2, <3>4, <3>5
  <2>4. \A k, m \in 1 .. Len(stack') : stack'[k].place = stack'[m].place => k = m
    BY <1>2 DEF Standing, Visited
  <2> QED BY <2>1, <2>2, <2>3, <2>4 DEF Visited
<1>9. Open(D)'
  <2> SUFFICES ASSUME NEW k \in 1 .. Len(stack')
               PROVE  /\ stack'[k].place \in Listing(k)' \ D /\ Ahead(k)' \subseteq Listing(k)'
                      /\ stack'[k].errors = 0 =>
                           Listing(k)' \subseteq D \cup {stack'[k].place} \cup Ahead(k)'
                      /\ stack'[k].dir # 0 =>
                           /\ IsHead(stack[k].dir)'
                           /\ \A p \in D : Owner(p)' => ent'[p].cluster # stack'[k].dir
                      /\ k > 1 => /\ ent'[stack'[k].place].used /\ ent'[stack'[k].place].dir
                                  /\ ent'[stack'[k].place].cluster = stack'[k - 1].dir
    BY DEF Open
  <2>1. k \in 1 .. Len(stack)
    BY <1>2
  <2>2. /\ stack[k].place \in Listing(k) \ D /\ Ahead(k) \subseteq Listing(k)
        /\ stack[k].errors = 0 => Listing(k) \subseteq D \cup {stack[k].place} \cup Ahead(k)
        /\ stack[k].dir # 0 => /\ IsHead(stack[k].dir)
                               /\ \A p \in D : Owner(p) => ent[p].cluster # stack[k].dir
        /\ k > 1 => /\ ent[stack[k].place].used /\ ent[stack[k].place].dir
                    /\ ent[stack[k].place].cluster = stack[k - 1].dir
    BY <2>1 DEF Standing, Open
  <2>3. stack'[k].dir = stack[k].dir /\ stack'[k].place = stack[k].place
        /\ stack'[k].errors = stack[k].errors
    BY <1>2, <2>1
  <2>4. stack'[k].dir # 0 => IsHead(stack[k].dir)'
    <3>1. PICK h : h = stack[k].dir
      OBVIOUS
    <3>2. stack'[k].dir # 0 => IsHead(h)'
      BY <1>4, <2>2, <2>3, <3>1
    <3> QED BY <2>3, <3>1, <3>2 DEF IsHead
  <2>5. k > 1 => /\ ent'[stack'[k].place].used /\ ent'[stack'[k].place].dir
                 /\ ent'[stack'[k].place].cluster = stack'[k - 1].dir
    <3> SUFFICES ASSUME k > 1
                 PROVE  /\ ent'[stack'[k].place].used /\ ent'[stack'[k].place].dir
                        /\ ent'[stack'[k].place].cluster = stack'[k - 1].dir
      OBVIOUS
    <3>1. k - 1 \in 1 .. Len(stack) /\ k # 1
      BY <1>1, <2>1
    <3>2. stack[k].place # Here.place /\ stack[k].place \in Places
      BY <1>1, <2>1, <3>1 DEF Standing, Visited
    <3> QED BY <1>2, <2>2, <2>3, <3>1, <3>2
  <2> QED BY <1>5, <1>7, <2>1, <2>2, <2>3, <2>4, <2>5
<1> QED BY <1>1, <1>2, <1>6, <1>8, <1>9 DEF Standing

LEMMA AloneKept ==
  ASSUME IInv, Calm, pc' \in PassFour, NEW D \in SUBSET Places, NEW V \in SUBSET Places,
         Standing(D, V), saved' = saved,
         UNCHANGED <<ent, stack>> \/ \E e \in Entry : Change(e) /\ Mark,
         Alone(D), E'.used, E'.cluster \in {0, E.cluster}
  PROVE  Alone(D)'
<1>1. /\ stack # <<>> /\ stack \in Seq(Frames) /\ Here.place \notin D /\ D \subseteq V
  BY CallHere DEF Calm
<1>2. /\ Len(stack') = Len(stack)
      /\ \A k \in 1 .. Len(stack) : stack'[k].dir = stack[k].dir
      /\ \A p \in Places : p # Here.place => ent'[p] = ent[p]
  <2>1. CASE UNCHANGED <<ent, stack>>
    BY <2>1
  <2>2. CASE \E e \in Entry : Change(e) /\ Mark
    <3>1. PICK e \in Entry : Change(e) /\ Mark
      BY <2>2
    <3>2. /\ Len(stack') = Len(stack)
          /\ \A k \in 1 .. Len(stack) : stack'[k].dir = stack[k].dir
      BY <1>1, <3>1, MarkedFrame DEF Mark
    <3>3. \A p \in Places : p # Here.place => ent'[p] = ent[p]
      BY <3>1 DEF Change, IInv, Typed
    <3> QED BY <3>2, <3>3
  <2> QED BY <2>1, <2>2
<1>3. \A p \in D : ent'[p] = ent[p] /\ (Owner(p)' <=> Owner(p))
  <2>1. \A p \in D : ent'[p] = ent[p]
    BY <1>1, <1>2
  <2> QED BY <2>1 DEF Owner
<1>4. SUFFICES ASSUME E'.cluster # 0
               PROVE  /\ IsHead(E.cluster)'
                      /\ \A p \in D : Owner(p)' => ent'[p].cluster # E'.cluster
                      /\ \A k \in 1 .. Len(stack') : stack'[k].dir # E'.cluster
  BY DEF Alone
<1>5. /\ E'.cluster = E.cluster /\ IsHead(E.cluster)
      /\ \A p \in D : Owner(p) => ent[p].cluster # E.cluster
      /\ \A k \in 1 .. Len(stack) : stack[k].dir # E.cluster
  BY <1>4 DEF Alone
<1>6. IsHead(E.cluster)'
  BY <1>5 DEF IsHead, Calm
<1> QED BY <1>2, <1>3, <1>5, <1>6

LEMMA CheckEntryClean ==
  ASSUME IInv, CheckEntry, NEW D \in SUBSET Places, NEW V \in SUBSET Places, Clean(D, V)
  PROVE  Clean(D, V)'
<1>1. /\ pc = "entry" /\ UNCHANGED <<dots, fat, saved, ref>>
  BY DEF CheckEntry
<1>2. Calm
  BY PassFourCalm DEF StepOfPassFour
<1>3. /\ E \in Entry /\ Here.place \notin D /\ D \subseteq V /\ Standing(D, V)
  BY <1>2, CallHere DEF Calm, Clean
<1>4. CASE /\ ~E.used
           /\ Return(0) /\ UNCHANGED <<ent, start, stack>>
  <2>1. pc' = "return" /\ result' = 0 /\ pc' \in PassFour /\ E' = E
    BY <1>4 DEF Return, Goto, PassFour, E, Here
  <2>2. Standing(D, V)'
    BY <1>1, <1>2, <1>3, <1>4, <2>1, SamePlaces
  <2> QED BY <1>4, <2>1, <2>2 DEF Clean, Held, Returning
<1>5. CASE Return(-1) /\ UNCHANGED <<ent, stack>>
  <2>1. pc' = "return" /\ result' = -1 /\ pc' \in PassFour
    BY <1>5 DEF Return, Goto, PassFour
  <2>2. Standing(D, V)'
    BY <1>1, <1>2, <1>3, <1>5, <2>1, SamePlaces
  <2> QED BY <2>1, <2>2 DEF Clean, Held, Returning
<1>6. CASE /\ E.used /\ Change([E EXCEPT !.cluster = 0]) /\ Mark
           /\ Goto(IF E.dir THEN "dir" ELSE "file")
  <2> DEFINE e == [E EXCEPT !.cluster = 0]
  <2>1. e \in Entry /\ e.cluster = 0 /\ e.used = E.used /\ e.dir = E.dir
    <3>1. e \in Entry
      BY <1>3, EntryChanges
    <3> QED BY <1>3, <3>1 DEF Entry
  <2> HIDE DEF e
  <2>2. Change(e) /\ Mark
    BY <1>6 DEF e
  <2>3. pc' = (IF E.dir THEN "dir" ELSE "file") /\ pc' \in PassFour
    BY <1>6 DEF Goto, PassFour
  <2>4. E' = e
    BY <1>2, <2>1, <2>2, ChangedHere DEF Calm
  <2>5. Standing(D, V)'
    BY <1>1, <1>2, <1>3, <2>1, <2>2, <2>3, SamePlaces
  <2>6. Alone(D)'
    BY <1>6, <2>1, <2>4 DEF Alone
  <2> QED BY <2>1, <2>3, <2>4, <2>5, <2>6 DEF Clean, Held, Returning
<1>7. CASE /\ E.used /\ ~Misplaced(E.cluster)
           /\ start' = IF E.cluster = 0 THEN start ELSE [start EXCEPT ![E.cluster] = TRUE]
           /\ Goto(IF E.dir THEN "dir" ELSE "file")
           /\ UNCHANGED <<ent, stack>>
  <2> DEFINE c == E.cluster
  <2>1. pc' = (IF E.dir THEN "dir" ELSE "file") /\ pc' \in PassFour /\ E' = E
    BY <1>7 DEF Goto, PassFour, E, Here
  <2>2. Standing(D, V)'
    BY <1>1, <1>2, <1>3, <1>7, <2>1, SamePlaces
  <2>3. c \in {0} \cup Clusters /\ (c # 0 => ref[c] = 0 /\ ~start[c] /\ start'[c])
    <3>1. c \in FatValues \ {FatEof}
      BY <1>3, EntryChanges
    <3>2. c \in {0} \cup Clusters
      BY <1>7, <3>1 DEF Misplaced, FatValues
    <3>3. start \in [Clusters -> BOOLEAN]
      BY DEF IInv, Typed
    <3> QED BY <1>7, <3>2, <3>3 DEF Misplaced, Taken
  <2>4. ASSUME c # 0, NEW p \in D, Owner(p)
        PROVE  ent[p].cluster # c
    <3>1. ent[p].used /\ ent[p].cluster # 0 /\ Fit(ent[p])
      BY <1>3, <2>4 DEF Standing, Finished, Owner
    <3>2. start[ent[p].cluster]
      BY <3>1 DEF Fit, IsHead
    <3> QED BY <2>3, <2>4, <3>2
  <2>5. c # 0 => \A k \in 1 .. Len(stack) : stack[k].dir # c
    BY <2>3 DEF IInv, Stacked
  <2>6. Alone(D)'
    <3>1. \A p \in D : Owner(p)' <=> Owner(p)
      BY <1>7 DEF Owner
    <3>2. c # 0 => IsHead(E.cluster)'
      BY <1>1, <2>1, <2>3 DEF IsHead
    <3> QED BY <1>7, <2>1, <2>4, <2>5, <3>1, <3>2 DEF Alone
  <2>7. c # 0 => Chain(fat', c) \cap V = {}
    <3> SUFFICES ASSUME c # 0, NEW d \in Chain(fat, c), d \in V
                 PROVE  FALSE
      BY <1>1
    <3>1. d \in Clusters
      BY DEF Chain
    <3>2. PICK h \in Clusters : IsHead(h) /\ d \in Chain(fat, h)
      BY <1>3, <3>1 DEF Standing, Visited
    <3>3. /\ NoLoops(fat)
          /\ \A b \in Clusters : fat[b] \in Clusters => ref[fat[b]] = b
      BY <1>1, ChainsKnown
    <3>4. c \in Clusters /\ ref[c] = 0 /\ ref[h] = 0
      BY <2>3, <3>2 DEF IsHead
    <3> HIDE DEF c
    <3>5. c = h
      BY <3>2, <3>3, <3>4, HeadsApart
    <3> QED BY <2>3, <3>2, <3>4, <3>5, Numbers DEF IsHead
  <2> QED BY <1>7, <2>1, <2>2, <2>6, <2>7 DEF Clean, Held, Returning
<1>8. \/ /\ ~E.used
         /\ Return(0) /\ UNCHANGED <<ent, start, stack>>
      \/ Return(-1) /\ UNCHANGED <<ent, stack>>
      \/ /\ E.used /\ Change([E EXCEPT !.cluster = 0]) /\ Mark
         /\ Goto(IF E.dir THEN "dir" ELSE "file")
      \/ /\ E.used /\ ~Misplaced(E.cluster)
         /\ start' = IF E.cluster = 0 THEN start ELSE [start EXCEPT ![E.cluster] = TRUE]
         /\ Goto(IF E.dir THEN "dir" ELSE "file")
         /\ UNCHANGED <<ent, stack>>
  BY DEF CheckEntry
<1> QED BY <1>4, <1>5, <1>6, <1>7, <1>8

-----------------------------------------------------------------------------
(* The sizes check_direntry accepts, where unsigned long is wider than the *)
(* sizes of files: 64 bits.  With 32 bits, a file whose only cluster has   *)
(* just been cut off may claim the largest size of all: 0 - 1 wraps.       *)
LongsAreWide == SizeLimit + ClusterSize <= WORD

LEMMA DivMod ==
  ASSUME NEW a \in Nat, NEW b \in Nat, b > 0
  PROVE  a \div b \in Nat /\ a % b \in 0 .. b - 1 /\ a = b * (a \div b) + (a % b)
BY SMT

LEMMA Division ==
  ASSUME NEW a \in Nat, NEW b \in Nat \ {0}
  PROVE  a \div b \in Nat /\ b * (a \div b) <= a /\ a < b * (a \div b) + b
<1>1. b \in Nat /\ b > 0
  OBVIOUS
<1>2. PICK q \in Nat, r \in 0 .. b - 1 : q = a \div b /\ a = b * q + r
  BY <1>1, DivMod
<1> QED BY <1>1, <1>2

LEMMA DivisionIs ==
  ASSUME NEW a \in Nat, NEW b \in Nat \ {0}, NEW q \in Nat, b * q <= a, a < b * q + b
  PROVE  a \div b = q
<1>1. PICK p \in Nat : p = a \div b /\ b * p <= a /\ a < b * p + b
  BY Division
<1>2. CASE p < q
  <2>1. b * (q - p - 1) >= 0
    BY <1>2
  <2>2. b * (q - p - 1) = b * q - b * p - b
    OBVIOUS
  <2> QED BY <1>1, <2>1, <2>2
<1>3. CASE p > q
  <2>1. b * (p - q - 1) >= 0
    BY <1>3
  <2>2. b * (p - q - 1) = b * p - b * q - b
    OBVIOUS
  <2> QED BY <1>1, <2>1, <2>2
<1> QED BY <1>1, <1>2, <1>3

LEMMA Accepted ==
  ASSUME LongsAreWide, NEW size \in 0 .. SizeLimit - 1, NEW n \in 0 .. MaxCluster,
         Accepts(size, n)
  PROVE  /\ size <= ClusterSize * n
         /\ n > 0 => size = n * ClusterSize \/ size \div ClusterSize = n - 1
         /\ n = 0 => size = 0
<1> DEFINE b == ClusterSize
<1>1. /\ b \in Nat \ {0} /\ SizeLimit \in Nat /\ WORD \in Nat /\ SizeLimit > 0
      /\ SizeLimit + b <= WORD /\ size \in Nat /\ n \in Nat
      /\ n * b \in 0 .. SizeLimit - 1 /\ FatSize(n) = n * b
  BY Sizes, Numbers DEF LongsAreWide
<1>2. size = n * b \/ size \div b = ((n * b - 1) % WORD) \div b
  BY <1>1 DEF Accepts
<1>3. PICK p \in Nat : p = size \div b /\ b * p <= size /\ size < b * p + b
  BY <1>1, Division
<1>4. CASE size = n * b
  BY <1>1, <1>4
<1>5. CASE size # n * b /\ n = 0
  <2>1. n * b = 0
    BY <1>1, <1>5
  <2>2. (0 - 1) % WORD = WORD - 1
    BY <1>1
  <2>3. PICK q \in Nat : q = (WORD - 1) \div b /\ WORD - 1 < b * q + b
    <3>1. WORD - 1 \in Nat
      BY <1>1
    <3> QED BY <1>1, <3>1, Division
  <2>4. q = p
    BY <1>2, <1>3, <1>5, <2>1, <2>2, <2>3
  <2> QED BY <1>1, <1>3, <2>3, <2>4
<1>6. CASE size # n * b /\ n > 0
  <2>1. PICK k \in Nat : n = k + 1
    <3>1. n - 1 \in Nat /\ n = (n - 1) + 1
      BY <1>1, <1>6
    <3> QED BY <3>1
  <2>2. n * b = b * k + b
    BY <1>1, <2>1
  <2>3. n * b - 1 \in Nat /\ n * b - 1 < WORD
    <3>1. b * k >= 0 /\ b * k \in Nat
      BY <1>1
    <3> QED BY <1>1, <2>2, <3>1
  <2>4. (n * b - 1) % WORD = n * b - 1
    <3>1. PICK x \in Nat : x = n * b - 1
      BY <2>3
    <3>2. x % WORD = x
      BY <1>1, <2>3, <3>1
    <3> QED BY <3>1, <3>2
  <2>5. (n * b - 1) \div b = k
    <3>1. PICK x \in Nat : x = n * b - 1
      BY <2>3
    <3>2. b * k <= x /\ x < b * k + b
      BY <1>1, <2>2, <3>1
    <3>3. x \div b = k
      BY <1>1, <3>2, DivisionIs
    <3> QED BY <3>1, <3>3
  <2>6. p = k
    BY <1>2, <1>3, <1>6, <2>4, <2>5
  <2> QED BY <1>1, <1>3, <2>1, <2>2, <2>6
<1> QED BY <1>1, <1>4, <1>5, <1>6

(* The sizes that fit the chain of the file here.                          *)
ChainHere == Cardinality(Chain(fat, E.cluster))
Suits(n) ==
  /\ n <= ClusterSize * ChainHere
  /\ Cardinality(answers) = 1 =>
       IF E.cluster = 0 THEN n = 0
       ELSE n = ChainHere * ClusterSize \/ n \div ClusterSize = ChainHere - 1

LEMMA FileReturns ==
  ASSUME IInv, pc \in {"file", "walk"}, Calm, pc' = "return", saved' = saved,
         NEW D \in SUBSET Places, NEW V \in SUBSET Places, Clean(D, V),
         \/ result' # 0 /\ UNCHANGED <<ent, stack>>
         \/ result' = 0 /\ UNCHANGED <<ent, stack>> /\ Suits(E.size)
         \/ /\ result' = 0
            /\ \E n \in 0 .. SizeLimit - 1 :
                 Change([E EXCEPT !.size = n]) /\ Mark /\ Suits(n)
  PROVE  Clean(D, V)'
<1>1. /\ Standing(D, V) /\ Alone(D) /\ ~E.dir /\ E \in Entry
      /\ pc' \in PassFour /\ E.cluster \in {0} \cup Clusters
  <2>1. Standing(D, V) /\ Alone(D) /\ ~E.dir
    BY DEF Clean, Held, Returning, PassFour
  <2>2. E \in Entry
    BY <2>1, CallHere DEF Calm
  <2> QED BY <2>1, <2>2 DEF IInv, Entered, PassFour
<1>2. \E e \in Entry : /\ E' = e /\ e.used = E.used /\ e.dir = E.dir /\ e.cluster = E.cluster
                       /\ result' = 0 => Suits(e.size)
                       /\ UNCHANGED <<ent, stack>> \/ (Change(e) /\ Mark)
  <2>1. CASE UNCHANGED <<ent, stack>> /\ (result' = 0 => Suits(E.size))
    <3>1. E' = E
      BY <2>1 DEF E, Here
    <3> QED BY <1>1, <2>1, <3>1
  <2>2. CASE \E n \in 0 .. SizeLimit - 1 : Change([E EXCEPT !.size = n]) /\ Mark /\ Suits(n)
    <3>1. PICK n \in 0 .. SizeLimit - 1 : Change([E EXCEPT !.size = n]) /\ Mark /\ Suits(n)
      BY <2>2
    <3>2. PICK e \in Entry : e = [E EXCEPT !.size = n]
      BY <1>1, EntryChanges
    <3>3. e.used = E.used /\ e.dir = E.dir /\ e.cluster = E.cluster /\ e.size = n
      BY <1>1, <3>2 DEF Entry
    <3>4. Change(e) /\ Mark
      BY <3>1, <3>2
    <3>5. E' = e
      BY <3>4, ChangedHere DEF Calm
    <3> QED BY <3>1, <3>3, <3>4, <3>5
  <2> QED BY <2>1, <2>2
<1>3. PICK e \in Entry : /\ E' = e /\ e.used = E.used /\ e.dir = E.dir /\ e.cluster = E.cluster
                         /\ result' = 0 => Suits(e.size)
                         /\ UNCHANGED <<ent, stack>> \/ (Change(e) /\ Mark)
  BY <1>2
<1>4. Standing(D, V)'
  BY <1>1, <1>3, SamePlaces
<1>5. Alone(D)'
  <2>1. E'.used /\ E'.cluster \in {0, E.cluster}
    BY <1>1, <1>3 DEF Alone
  <2> QED BY <1>1, <1>3, <2>1, AloneKept
<1>6. result' = 0 => Fit(E)'
  <2> SUFFICES ASSUME result' = 0 PROVE Fit(E)'
    OBVIOUS
  <2>1. Suits(e.size)
    BY <1>3
  <2>2. e.cluster # 0 => IsHead(e.cluster)
    BY <1>1, <1>3 DEF Alone
  <2>3. Cardinality(answers) = 1 => SizeFits(fat, e)
    BY <1>1, <1>3, <2>1 DEF Suits, SizeFits, ChainHere
  <2>4. e.size <= ClusterSize * Cardinality(Chain(fat, e.cluster))
    BY <1>3, <2>1 DEF Suits, ChainHere
  <2>5. Fit(e)
    BY <1>1, <1>3, <2>2, <2>3, <2>4 DEF Fit
  <2>6. Fit(e)'
    BY <2>5, CalmKeeps
  <2> QED BY <1>3, <2>6 DEF Fit, IsHead, SizeFits
<1>7. ~E'.dir
  BY <1>1, <1>3
<1> QED BY <1>4, <1>5, <1>6, <1>7 DEF Clean, Held, Returning

(* A step on to another part of check_direntry, with nothing changed.      *)
LEMMA StepsOn ==
  ASSUME IInv, Calm, pc' \in {"irreparable", "file", "walk"}, saved' = saved,
         UNCHANGED <<ent, stack>>,
         NEW D \in SUBSET Places, NEW V \in SUBSET Places, Clean(D, V),
         pc \notin {"entry", "return"}, pc' = "irreparable" <=> E.dir
  PROVE  Clean(D, V)'
<1>1. Standing(D, V) /\ Alone(D) /\ pc' \in PassFour
  BY DEF Clean, Held, Calm, PassFour
<1>2. E' = E
  BY DEF E, Here
<1>3. Standing(D, V)'
  BY <1>1, SamePlaces
<1>4. Alone(D)'
  <2>1. E'.used /\ E'.cluster \in {0, E.cluster}
    BY <1>1, <1>2 DEF Alone
  <2> QED BY <1>1, <2>1, AloneKept
<1> QED BY <1>2, <1>3, <1>4 DEF Clean, Held, Returning

LEMMA NoChain ==
  E.cluster = 0 => ChainHere = 0
<1> SUFFICES ASSUME E.cluster = 0 PROVE ChainHere = 0
  OBVIOUS
<1>1. Chain(fat, E.cluster) = {}
  BY ChainEmpty, Numbers
<1> QED BY <1>1, FS_EmptySet DEF ChainHere

LEMMA CheckFileClean ==
  ASSUME IInv, CheckFile, NEW D \in SUBSET Places, NEW V \in SUBSET Places, Clean(D, V)
  PROVE  Clean(D, V)'
<1>1. Calm /\ pc = "file" /\ saved' = saved
  BY PassFourCalm DEF StepOfPassFour, CheckFile
<1>2. ClusterSize \in Nat \ {0}
  BY Sizes
<1>3. E.cluster = 0 => Suits(0)
  BY <1>2, NoChain DEF Suits
<1>4. CASE E.cluster = 0 /\ E.size = 0 /\ Return(0) /\ UNCHANGED <<ent, stack>>
  <2>1. pc' = "return" /\ result' = 0
    BY <1>4 DEF Return, Goto
  <2> QED BY <1>1, <1>3, <1>4, <2>1, FileReturns
<1>5. CASE E.cluster = 0 /\ Resize(0)
  <2>1. 0 \in 0 .. SizeLimit - 1
    BY Sizes
  <2>2. /\ pc' = "return"
        /\ \/ result' = -1 /\ UNCHANGED <<ent, stack>>
           \/ result' = 0 /\ Change([E EXCEPT !.size = 0]) /\ Mark
    BY <1>5 DEF Resize, Return, Goto
  <2> QED BY <1>1, <1>3, <1>5, <2>1, <2>2, FileReturns
<1>6. CASE Goto("walk") /\ UNCHANGED <<ent, stack, result>>
  <2>1. pc' = "walk" /\ ~E.dir
    BY <1>1, <1>6 DEF Goto, Clean, Returning
  <2> QED BY <1>1, <1>6, <2>1, StepsOn
<1> QED BY <1>4, <1>5, <1>6 DEF CheckFile

LEMMA WalkFileClean ==
  ASSUME IInv, WalkFile, NEW D \in SUBSET Places, NEW V \in SUBSET Places, Clean(D, V)
  PROVE  Clean(D, V)'
<1>1. Calm /\ pc = "walk" /\ pc' = pc /\ UNCHANGED <<ent, stack>> /\ saved' = saved
  BY PassFourCalm DEF StepOfPassFour, WalkFile, volume
<1>2. ~E.dir
  BY <1>1 DEF Clean, Returning
<1> QED BY <1>1, <1>2, StepsOn

(* The chain is as long as the walk along it.                              *)
LEMMA WalkedAll ==
  ASSUME IInv, pc = "walk", at \notin Clusters
  PROVE  Len(walked) = ChainHere /\ ChainHere > 0 /\ ChainHere < MaxCluster
<1> DEFINE n == Len(walked)
           c == E.cluster
<1>1. n \in Nat /\ n < MaxCluster /\ n > 0
  BY WalkedFew
<1>2. /\ c \in Clusters /\ at = Along(fat, c, n) /\ walked \in Seq(Clusters)
      /\ \A k \in 1 .. n : walked[k] = Along(fat, c, k - 1)
  BY DEF IInv, Walking, Typed
<1>3. NoLoops(fat)
  BY ChainsKnown
<1>4. \A k \in 0 .. n - 1 : Along(fat, c, k) \in Clusters
  <2> TAKE k \in 0 .. n - 1
  <2>1. k + 1 \in 1 .. n /\ (k + 1) - 1 = k
    BY <1>1
  <2> QED BY <1>2, <2>1
<1>5. Along(fat, c, n) \notin Clusters
  BY <1>2
<1>6. Cardinality(Chain(fat, c)) = n
  <2> HIDE DEF n, c
  <2> QED BY <1>1, <1>2, <1>3, <1>4, <1>5, ChainLength
<1> QED BY <1>1, <1>6 DEF ChainHere

(* With -a pass 2 has seen to the ends of the chains of several clusters.  *)
LEMMA EndsWell ==
  ASSUME IInv, PassTwoKeeps, LongsAreWide, pc = "walk", at = 0, TRUE \in answers,
         NEW D \in SUBSET Places, Alone(D), Cardinality(answers) = 1
  PROVE  ChainHere = 1
<1>1. answers = {TRUE}
  <2>1. answers \subseteq BOOLEAN
    BY DEF IInv, Typed
  <2>2. PICK x : answers = {x}
    <3>1. IsFiniteSet({FALSE} \cup {TRUE})
      BY FS_Singleton, FS_AddElement
    <3>2. IsFiniteSet(answers)
      <4>1. answers \subseteq {FALSE} \cup {TRUE}
        BY <2>1
      <4> QED BY <3>1, <4>1, FS_Subset
    <3> QED BY <3>2, FS_Singleton
  <2> QED BY <2>2
<1>2. at \notin Clusters
  BY Numbers
<1> DEFINE c == E.cluster
<1>3. c \in Clusters /\ ref[c] = 0
  <2>1. c \in Clusters /\ c # 0
    BY Numbers DEF IInv, Walking
  <2> QED BY <2>1 DEF Alone, IsHead
<1>4. HeadEnds(c)
  BY <1>1, <1>3 DEF PassTwoKeeps, PassFour
<1>5. Len(walked) \in Nat /\ Len(walked) > 0
      /\ walked[Len(walked)] \in Clusters /\ fat[walked[Len(walked)]] = 0
  BY <1>2, LastWalked
<1>6. walked[Len(walked)] \in Chain(fat, c)
  <2>1. NoLoops(fat)
    BY ChainsKnown
  <2>2. walked[Len(walked)] = Along(fat, c, Len(walked) - 1) /\ Len(walked) - 1 \in Nat
    BY <1>5 DEF IInv, Walking
  <2> QED BY <1>5, <2>1, <2>2, InChain
<1>7. fat[c] \notin Clusters
  <2>1. 0 \notin Clusters \cup {FatEof}
    BY Numbers DEF FatEof
  <2> QED BY <1>3, <1>4, <1>5, <1>6, <2>1 DEF HeadEnds
<1>8. Chain(fat, c) = {c}
  <2>1. NoLoops(fat)
    BY ChainsKnown
  <2>2. Chain(fat, c) = {c} \cup Chain(fat, fat[c])
    BY <1>3, <2>1, ChainSteps
  <2> QED BY <1>7, <2>2, ChainEmpty
<1> QED BY <1>8, FS_Singleton DEF ChainHere

LEMMA FileEndsClean ==
  ASSUME IInv, PassTwoKeeps, LongsAreWide, FileEnds,
         NEW D \in SUBSET Places, NEW V \in SUBSET Places, Clean(D, V)
  PROVE  Clean(D, V)'
<1>1. Calm /\ pc = "walk" /\ at \notin Clusters /\ saved' = saved
  BY PassFourCalm DEF StepOfPassFour, FileEnds
<1>2. Alone(D) /\ E \in Entry
  <2>1. Standing(D, V)
    BY DEF Clean
  <2> QED BY <1>1, <2>1, CallHere DEF Clean, Held, Calm, PassFour
<1>3. PICK n \in Nat : n = ChainHere /\ n = Len(walked) /\ n > 0 /\ n < MaxCluster
  <2>1. Len(walked) \in Nat
    BY <1>1, WalkedFew
  <2> QED BY <1>1, <2>1, WalkedAll
<1>4. E.cluster # 0 /\ E.size \in 0 .. SizeLimit - 1 /\ ClusterSize \in Nat \ {0}
      /\ MaxCluster \in Nat
  BY <1>1, <1>2, EntryChanges, Sizes, Numbers DEF IInv, Walking
<1>5. CASE Return(-1) /\ UNCHANGED <<ent, stack>>
  <2>1. pc' = "return" /\ result' # 0
    BY <1>5 DEF Return, Goto
  <2> QED BY <1>1, <1>5, <2>1, FileReturns
<1>6. ASSUME NEW m \in 0 .. MaxCluster, CompareSize(m), m <= n,
             Accepts(E.size, m) => Suits(E.size), Suits(m * ClusterSize)
      PROVE  Clean(D, V)'
  <2>1. FatSize(m) = m * ClusterSize /\ FatSize(m) \in 0 .. SizeLimit - 1
    BY Sizes
  <2>2. /\ pc' = "return"
        /\ \/ result' = 0 /\ UNCHANGED <<ent, stack>> /\ Suits(E.size)
           \/ result' = -1 /\ UNCHANGED <<ent, stack>>
           \/ /\ result' = 0 /\ Change([E EXCEPT !.size = FatSize(m)]) /\ Mark
              /\ Suits(FatSize(m))
    BY <1>6, <2>1 DEF CompareSize, Resize, Return, Goto
  <2>3. CASE result' = -1 /\ UNCHANGED <<ent, stack>>
    BY <1>1, <2>2, <2>3, FileReturns
  <2>4. CASE result' = 0 /\ UNCHANGED <<ent, stack>> /\ Suits(E.size)
    BY <1>1, <2>2, <2>4, FileReturns
  <2>5. CASE result' = 0 /\ Change([E EXCEPT !.size = FatSize(m)]) /\ Mark /\ Suits(FatSize(m))
    <3>1. \E k \in 0 .. SizeLimit - 1 : Change([E EXCEPT !.size = k]) /\ Mark /\ Suits(k)
      BY <2>1, <2>5
    <3> QED BY <1>1, <2>2, <2>5, <3>1, FileReturns
  <2> QED BY <2>2, <2>3, <2>4, <2>5
<1>7. CASE at = FatEof /\ CompareSize(n)
  <2>1. n \in 0 .. MaxCluster
    BY <1>3, <1>4
  <2>2. Suits(n * ClusterSize)
    <3>1. n * ClusterSize <= ClusterSize * n
      BY <1>3, <1>4
    <3> QED BY <1>3, <1>4, <3>1 DEF Suits
  <2>3. Accepts(E.size, n) => Suits(E.size)
    <3> SUFFICES ASSUME Accepts(E.size, n) PROVE Suits(E.size)
      OBVIOUS
    <3>1. /\ E.size <= ClusterSize * n
          /\ n > 0 => E.size = n * ClusterSize \/ E.size \div ClusterSize = n - 1
      BY <1>4, <2>1, Accepted
    <3> QED BY <1>3, <1>4, <3>1 DEF Suits
  <2> QED BY <1>3, <1>6, <1>7, <2>1, <2>2, <2>3
<1>8. CASE at = 0 /\ TRUE \in answers /\ CompareSize(n - 1)
  <2>1. PICK m \in 0 .. MaxCluster : m = n - 1 /\ m <= n
    <3>1. n - 1 \in 0 .. MaxCluster /\ n - 1 <= n
      BY <1>3, <1>4
    <3> QED BY <3>1
  <2>2. Cardinality(answers) = 1 => n = 1 /\ m = 0
    BY <1>1, <1>2, <1>3, <1>8, <2>1, EndsWell
  <2>3. ClusterSize * m <= ClusterSize * n
    <3>1. ClusterSize * n = ClusterSize * m + ClusterSize
      BY <1>3, <1>4, <2>1
    <3>2. ClusterSize * m \in Nat
      BY <1>4, <2>1
    <3> QED BY <1>4, <3>1, <3>2
  <2>4. 0 \div ClusterSize = 0
    BY <1>4, DivisionIs
  <2>5. Suits(m * ClusterSize)
    <3>1. m * ClusterSize <= ClusterSize * n
      BY <1>3, <1>4, <2>1, <2>3
    <3>2. Cardinality(answers) = 1 => m * ClusterSize = 0
      BY <1>4, <2>2
    <3>3. Cardinality(answers) = 1 => (m * ClusterSize) \div ClusterSize = ChainHere - 1
      <4>1. ASSUME Cardinality(answers) = 1
            PROVE  (m * ClusterSize) \div ClusterSize = 0
        BY <2>4, <3>2, <4>1
      <4>2. ASSUME Cardinality(answers) = 1
            PROVE  ChainHere - 1 = 0
        <5>1. ChainHere = 1
          BY <1>3, <2>2, <4>2
        <5> QED BY <5>1
      <4> QED BY <4>1, <4>2
    <3> QED BY <1>3, <1>4, <3>1, <3>3 DEF Suits
  <2>6. Accepts(E.size, m) => Suits(E.size)
    <3> SUFFICES ASSUME Accepts(E.size, m) PROVE Suits(E.size)
      OBVIOUS
    <3>1. E.size <= ClusterSize * m /\ (m = 0 => E.size = 0)
      BY <1>4, Accepted
    <3>2. E.size <= ClusterSize * n
      <4>1. ClusterSize * m \in Nat /\ ClusterSize * n \in Nat
        BY <1>3, <1>4, <2>1
      <4> QED BY <1>4, <2>3, <3>1, <4>1
    <3>3. Cardinality(answers) = 1 => E.size \div ClusterSize = ChainHere - 1
      <4>1. ASSUME Cardinality(answers) = 1
            PROVE  E.size \div ClusterSize = 0
        <5>1. E.size = 0
          BY <2>2, <3>1, <4>1
        <5> QED BY <2>4, <5>1
      <4>2. ASSUME Cardinality(answers) = 1
            PROVE  ChainHere - 1 = 0
        <5>1. ChainHere = 1
          BY <1>3, <2>2, <4>2
        <5> QED BY <5>1
      <4> QED BY <4>1, <4>2
    <3> QED BY <1>3, <1>4, <3>2, <3>3 DEF Suits
  <2> QED BY <1>6, <1>8, <2>1, <2>5, <2>6
<1>9. \/ Return(-1) /\ UNCHANGED <<ent, stack>>
      \/ at = FatEof /\ CompareSize(n)
      \/ at = 0 /\ TRUE \in answers /\ CompareSize(n - 1)
  BY <1>3 DEF FileEnds
<1> QED BY <1>5, <1>7, <1>8, <1>9

LEMMA ConvertToFileClean ==
  ASSUME IInv, ConvertToFile, NEW D \in SUBSET Places, NEW V \in SUBSET Places, Clean(D, V)
  PROVE  Clean(D, V)'
<1>1. Calm /\ pc = "irreparable" /\ saved' = saved
  BY PassFourCalm DEF StepOfPassFour, ConvertToFile
<1>2. Standing(D, V) /\ Alone(D) /\ E \in Entry
  <2>1. Standing(D, V)
    BY DEF Clean
  <2> QED BY <1>1, <2>1, CallHere DEF Clean, Held, Calm, PassFour
<1>3. CASE Return(-1) /\ UNCHANGED <<ent, stack>>
  <2>1. pc' = "return" /\ result' = -1 /\ pc' \in PassFour
    BY <1>3 DEF Return, Goto, PassFour
  <2>2. Standing(D, V)'
    BY <1>1, <1>2, <1>3, <2>1, SamePlaces
  <2> QED BY <2>1, <2>2 DEF Clean, Held, Returning
<1>4. CASE Change([E EXCEPT !.dir = FALSE]) /\ Mark /\ Goto("file")
  <2>1. PICK e \in Entry : e = [E EXCEPT !.dir = FALSE]
    BY <1>2, EntryChanges
  <2>2. e.used = E.used /\ ~e.dir /\ e.cluster = E.cluster
    BY <1>2, <2>1 DEF Entry
  <2>3. Change(e) /\ Mark /\ pc' = "file" /\ pc' \in PassFour
    BY <1>4, <2>1 DEF Goto, PassFour
  <2>4. E' = e
    BY <1>1, <2>3, ChangedHere DEF Calm
  <2>5. Standing(D, V)'
    BY <1>1, <1>2, <2>3, SamePlaces
  <2>6. Alone(D)'
    <3>1. E'.used /\ E'.cluster \in {0, E.cluster}
      BY <1>2, <2>2, <2>4 DEF Alone
    <3> QED BY <1>1, <1>2, <2>3, <3>1, AloneKept
  <2> QED BY <2>2, <2>3, <2>4, <2>5, <2>6 DEF Clean, Held, Returning
<1> QED BY <1>3, <1>4 DEF ConvertToFile

LEMMA AscendClean ==
  ASSUME IInv, Ascend, NEW D \in SUBSET Places, NEW V \in SUBSET Places, Clean(D, V)
  PROVE  Clean(D, V)'
<1>1. Calm /\ pc = "ascend" /\ saved' = saved /\ answers' = answers
  BY PassFourCalm DEF StepOfPassFour, Ascend, given
<1>2. /\ Standing(D, V) /\ Alone(D) /\ E \in Entry /\ E.dir /\ E.cluster # 0
      /\ result = 0 => Chain(fat, E.cluster) \subseteq D
  <2>1. Standing(D, V)
    BY DEF Clean
  <2> QED BY <1>1, <2>1, CallHere DEF Clean, Held, Returning, Calm, PassFour
<1>3. \A c : Chain(fat', c) = Chain(fat, c)
  BY <1>1, CalmKeeps
<1>4. CASE result = -1 /\ Goto("irreparable") /\ UNCHANGED <<ent, stack, result>>
  <2>1. pc' = "irreparable"
    BY <1>4 DEF Goto
  <2> QED BY <1>1, <1>2, <1>4, <2>1, StepsOn
<1>5. CASE Return(result + 1) /\ result >= 0 /\ UNCHANGED <<ent, stack>>
  <2>1. pc' = "return" /\ result' # 0 /\ pc' \in PassFour
    <3>1. result \in Int
      BY DEF IInv, Typed
    <3> QED BY <1>5, <3>1 DEF Return, Goto, PassFour
  <2>2. Standing(D, V)'
    BY <1>1, <1>2, <1>5, <2>1, SamePlaces
  <2> QED BY <2>1, <2>2 DEF Clean, Held, Returning
<1>6. ASSUME Goto("return"), result' = result, NEW e \in Entry, E' = e, e.size = 0,
             e.used = E.used, e.dir = E.dir, e.cluster = E.cluster,
             UNCHANGED <<ent, stack>> \/ (Change(e) /\ Mark)
      PROVE  Clean(D, V)'
  <2>1. pc' = "return" /\ pc' \in PassFour
    BY <1>6 DEF Goto, PassFour
  <2>2. Standing(D, V)'
    BY <1>1, <1>2, <1>6, <2>1, SamePlaces
  <2>3. Alone(D)'
    <3>1. E'.used /\ E'.cluster \in {0, E.cluster}
      BY <1>2, <1>6 DEF Alone
    <3> QED BY <1>1, <1>2, <1>6, <2>1, <3>1, AloneKept
  <2>4. Fit(E)'
    <3>1. e.cluster \in {0} \cup Clusters
      BY <1>1, <1>6 DEF IInv, Entered
    <3>2. Fit(e)
      BY <1>2, <1>6, <3>1 DEF Fit, SizeFits, Alone
    <3>3. Fit(e)'
      BY <1>1, <3>2, CalmKeeps
    <3> QED BY <1>6, <3>3 DEF Fit, IsHead, SizeFits
  <2>5. result' = 0 => Chain(fat', E'.cluster) \subseteq D
    BY <1>2, <1>3, <1>6
  <2> QED BY <2>1, <2>2, <2>3, <2>4, <2>5 DEF Clean, Held, Returning
<1>7. CASE E.size = 0 /\ Goto("return") /\ UNCHANGED <<ent, stack, result>>
  <2>1. E' = E
    BY <1>7 DEF E, Here
  <2> QED BY <1>2, <1>6, <1>7, <2>1
<1>8. CASE Change([E EXCEPT !.size = 0]) /\ Mark /\ Goto("return") /\ UNCHANGED result
  <2>1. PICK e \in Entry : e = [E EXCEPT !.size = 0]
    <3>1. 0 \in 0 .. SizeLimit - 1
      BY Sizes
    <3> QED BY <1>2, <3>1, EntryChanges
  <2>2. e.used = E.used /\ e.dir = E.dir /\ e.cluster = E.cluster /\ e.size = 0
    BY <1>2, <2>1 DEF Entry
  <2>3. Change(e) /\ Mark
    BY <1>8, <2>1
  <2>4. E' = e
    BY <1>1, <2>3, ChangedHere DEF Calm
  <2> QED BY <1>6, <1>8, <2>2, <2>3, <2>4
<1> QED BY <1>4, <1>5, <1>7, <1>8 DEF Ascend

-----------------------------------------------------------------------------
(* Into a directory, on to its next entry, and out of it.                  *)

LEMMA RootApart ==
  RootPlaces \cap Clusters = {} /\ Clusters \subseteq Places /\ RootPlaces \subseteq Places
<1>1. \A r \in 1 .. RootEntries : Bad + r \notin Clusters
  BY FsckAssumption DEF Bad, Clusters
<1> QED BY <1>1 DEF RootPlaces, Places

(* No entry is in two of the directories that are being checked.           *)
LEMMA ListingsApart ==
  ASSUME IInv, pc \in PassFour, NEW D, NEW V, Standing(D, V),
         NEW k \in 1 .. Len(stack), NEW m \in 1 .. Len(stack), k # m
  PROVE  Listing(k) \cap Listing(m) = {}
<1>1. NoLoops(fat) /\ \A c \in Clusters : fat[c] \in Clusters => ref[fat[c]] = c
  BY ChainsKnown DEF PassFour
<1>2. stack[k].dir # stack[m].dir
  BY DEF IInv, Stacked
<1>3. /\ stack[k].dir # 0 => IsHead(stack[k].dir)
      /\ stack[m].dir # 0 => IsHead(stack[m].dir)
  BY DEF Standing, Open
<1>4. CASE stack[k].dir = 0 \/ stack[m].dir = 0
  BY <1>2, <1>4, RootApart DEF Listing, Chain
<1>5. CASE stack[k].dir # 0 /\ stack[m].dir # 0
  <2> SUFFICES ASSUME NEW x, x \in Chain(fat, stack[k].dir), x \in Chain(fat, stack[m].dir)
               PROVE  FALSE
    BY <1>5 DEF Listing
  <2>1. /\ stack[k].dir \in Clusters /\ ref[stack[k].dir] = 0
        /\ stack[m].dir \in Clusters /\ ref[stack[m].dir] = 0
    BY <1>3, <1>5 DEF IsHead
  <2>2. stack[k].dir = stack[m].dir
    BY <1>1, <2>1, HeadsApart
  <2> QED BY <1>2, <2>2
<1> QED BY <1>4, <1>5

(* A directory that is entered has no entries the check has come to.       *)
LEMMA EntersNew ==
  ASSUME IInv, pc = "dir", NEW D, NEW V, Clean(D, V), E.cluster \in Clusters
  PROVE  /\ E.cluster \notin V /\ IsHead(E.cluster)
         /\ Chain(fat, E.cluster) = {E.cluster} \cup Chain(fat, fat[E.cluster])
         /\ Chain(fat, fat[E.cluster]) \cap (V \cup {E.cluster}) = {}
         /\ \A k \in 1 .. Len(stack) : E.cluster \notin Ahead(k)
<1> DEFINE c == E.cluster
<1>1. /\ Standing(D, V) /\ c # 0 /\ IsHead(c) /\ Chain(fat, c) \cap V = {}
      /\ \A k \in 1 .. Len(stack) : stack[k].dir # c
  BY Numbers DEF Clean, Held, Returning, PassFour, Alone
<1>2. NoLoops(fat) /\ \A b \in Clusters : fat[b] \in Clusters => ref[fat[b]] = b
  BY ChainsKnown
<1>3. /\ Chain(fat, c) = {c} \cup Chain(fat, fat[c]) /\ c \in Chain(fat, c)
      /\ c \notin Chain(fat, fat[c])
  BY <1>2, ChainSteps
<1>4. ASSUME NEW k \in 1 .. Len(stack), c \in Ahead(k)
      PROVE  FALSE
  <2>1. c \in Listing(k) /\ (stack[k].dir # 0 => IsHead(stack[k].dir))
    BY <1>1, <1>4 DEF Standing, Open
  <2>2. stack[k].dir # 0 /\ c \in Chain(fat, stack[k].dir)
    BY <2>1, RootApart DEF Listing
  <2>3. PICK d \in Clusters : d = stack[k].dir /\ ref[d] = 0 /\ ref[c] = 0
    BY <1>1, <2>1, <2>2 DEF IsHead
  <2> HIDE DEF c
  <2>4. c = d
    BY <1>2, <1>3, <2>2, <2>3, HeadsApart DEF c
  <2> QED BY <1>1, <2>3, <2>4
<1> HIDE DEF c
<1> QED BY <1>1, <1>3, <1>4 DEF c

LEMMA CheckDirClean ==
  ASSUME IInv, CheckDir, NEW D \in SUBSET Places, NEW V \in SUBSET Places, Clean(D, V)
  PROVE  \E W \in SUBSET Places : Clean(D, W)'
<1>1. Calm /\ pc = "dir" /\ UNCHANGED <<given, volume, tables, result, errors>>
  BY PassFourCalm DEF StepOfPassFour, CheckDir
<1>2. /\ Standing(D, V) /\ Alone(D) /\ E.dir /\ E \in Entry
      /\ stack # <<>> /\ stack \in Seq(Frames) /\ Len(stack) \in Nat /\ Len(stack) >= 1
      /\ 1 \in 1 .. Len(stack) /\ E = ent[stack[1].place] /\ D \subseteq V
  <2>1. Standing(D, V) /\ Alone(D) /\ E.dir
    BY <1>1 DEF Clean, Held, Returning, PassFour
  <2> QED BY <1>1, <2>1, CallHere DEF Calm
<1>3. CASE ~Enterable(E.cluster)
  <2>1. pc' = "irreparable" /\ UNCHANGED <<ent, stack, saved>>
    BY <1>1, <1>3 DEF CheckDir, Goto, volume
  <2>2. Clean(D, V)'
    BY <1>1, <1>2, <2>1, StepsOn
  <2> QED BY <2>2
<1>4. CASE Enterable(E.cluster)
  <2>0. PICK c \in Clusters : c = E.cluster
    BY <1>1, <1>4 DEF Enterable, IInv, Entered
  <2> DEFINE fr == Frame(c, c)
             W == V \cup {c}
  <2>1. /\ c \notin V /\ IsHead(c) /\ Chain(fat, c) = {c} \cup Chain(fat, fat[c])
        /\ Chain(fat, fat[c]) \cap W = {} /\ \A k \in 1 .. Len(stack) : c \notin Ahead(k)
    BY <1>1, <2>0, EntersNew
  <2>2. pc' = "entry" /\ stack' = <<fr>> \o stack
    BY <1>4, <2>0 DEF CheckDir, Goto
  <2>3. fr \in Frames /\ fr.dir = c /\ fr.place = c /\ ~fr.need /\ fr.errors = 0 /\ c # 0
    BY Numbers DEF Frame, Frames, Places
  <2>4. W \in SUBSET Places
    BY RootApart
  <2> HIDE DEF fr
  <2>5. /\ Len(stack') = Len(stack) + 1 /\ stack' # <<>> /\ stack'[1] = fr
        /\ \A k \in 2 .. Len(stack) + 1 : stack'[k] = stack[k - 1]
    BY <1>2, <2>2, <2>3, PushedFrame
  <2>6. \A k \in 1 .. Len(stack') :
          k = 1 \/ (k - 1 \in 1 .. Len(stack) /\ stack'[k] = stack[k - 1])
    BY <1>2, <2>5
  <2>7. UNCHANGED <<fat, ent, saved, ref, start, answers>>
    BY <1>1 DEF volume, tables, given
  <2>8. /\ Listing(1)' = Chain(fat, c) /\ Ahead(1)' = Chain(fat, fat[c])
        /\ \A k \in 1 .. Len(stack') : k # 1 =>
              Listing(k)' = Listing(k - 1) /\ Ahead(k)' = Ahead(k - 1)
    <3>1. Listing(1)' = Chain(fat, c) /\ Ahead(1)' = Chain(fat, fat[c])
      BY <2>3, <2>5, <2>7 DEF Listing, Ahead
    <3>2. ASSUME NEW k \in 1 .. Len(stack'), k # 1
          PROVE  Listing(k)' = Listing(k - 1) /\ Ahead(k)' = Ahead(k - 1)
      <4>1. stack'[k] = stack[k - 1]
        BY <2>6, <3>2
      <4> QED BY <2>7, <4>1 DEF Listing, Ahead
    <3> QED BY <3>1, <3>2
  <2>9. Finished(D)'
    BY <1>1, <1>2, <2>7, FinishedKept DEF Standing
  <2>10. Visited(W)'
    <3>1. \A p \in Places \ W : ent'[p] = saved'[p]
      BY <1>2, <2>7 DEF Standing, Visited
    <3>2. \A d \in W \cap Clusters : \E h \in Clusters : IsHead(h)' /\ d \in Chain(fat', h)
      BY <1>2, <2>1, <2>7 DEF Standing, Visited, IsHead
    <3>3. ASSUME NEW k \in 1 .. Len(stack')
          PROVE  /\ stack'[k].place \in W /\ Ahead(k)' \cap W = {}
                 /\ ~stack'[k].need => ent'[stack'[k].place] = saved'[stack'[k].place]
      <4>1. CASE k = 1
        <5>1. ent[c] = saved[c]
          BY <1>2, <2>1, RootApart DEF Standing, Visited
        <5> QED BY <2>1, <2>3, <2>5, <2>7, <2>8, <4>1, <5>1
      <4>2. CASE k # 1
        <5>1. PICK j \in 1 .. Len(stack) : j = k - 1 /\ stack'[k] = stack[j]
          BY <2>6, <4>2
        <5>2. Ahead(k)' = Ahead(j)
          BY <2>8, <4>2, <5>1
        <5>3. /\ stack[j].place \in V /\ Ahead(j) \cap V = {}
              /\ ~stack[j].need => ent[stack[j].place] = saved[stack[j].place]
          BY <1>2 DEF Standing, Visited
        <5> QED BY <2>1, <2>7, <5>1, <5>2, <5>3
      <4> QED BY <4>1, <4>2
    <3>4. ASSUME NEW k \in 1 .. Len(stack'), NEW m \in 1 .. Len(stack'),
                 stack'[k].place = stack'[m].place
          PROVE  k = m
      <4>1. \A j \in 1 .. Len(stack) : stack[j].place \in V
        BY <1>2 DEF Standing, Visited
      <4>2. CASE k = 1 \/ m = 1
        BY <2>1, <2>3, <2>5, <2>6, <3>4, <4>1, <4>2
      <4>3. CASE k # 1 /\ m # 1
        <5>1. /\ k - 1 \in 1 .. Len(stack) /\ stack'[k] = stack[k - 1]
              /\ m - 1 \in 1 .. Len(stack) /\ stack'[m] = stack[m - 1]
          BY <2>6, <4>3
        <5>2. \A x, y \in 1 .. Len(stack) : stack[x].place = stack[y].place => x = y
          BY <1>2 DEF Standing, Visited
        <5>3. k - 1 = m - 1
          BY <3>4, <5>1, <5>2
        <5> QED BY <5>3
      <4> QED BY <4>2, <4>3
    <3> QED BY <3>1, <3>2, <3>3, <3>4 DEF Visited
  <2>11. Open(D)'
    <3> SUFFICES ASSUME NEW k \in 1 .. Len(stack')
                 PROVE  /\ stack'[k].place \in Listing(k)' \ D /\ Ahead(k)' \subseteq Listing(k)'
                        /\ stack'[k].errors = 0 =>
                             Listing(k)' \subseteq D \cup {stack'[k].place} \cup Ahead(k)'
                        /\ stack'[k].dir # 0 =>
                             /\ IsHead(stack[k].dir)'
                             /\ \A p \in D : Owner(p)' => ent'[p].cluster # stack'[k].dir
                        /\ k > 1 => /\ ent'[stack'[k].place].used /\ ent'[stack'[k].place].dir
                                    /\ ent'[stack'[k].place].cluster = stack'[k - 1].dir
      BY DEF Open
    <3>0. \A p : Owner(p)' <=> Owner(p)
      BY <2>7 DEF Owner
    <3>1. CASE k = 1
      <4>1. c \notin D /\ \A p \in D : Owner(p) => ent[p].cluster # c
        BY <1>2, <2>0, <2>1, <2>3 DEF Alone
      <4>2. IsHead(stack[k].dir)'
        BY <2>1, <2>3, <2>5, <2>7, <3>1 DEF IsHead
      <4> QED BY <2>1, <2>3, <2>5, <2>7, <2>8, <3>0, <3>1, <4>1, <4>2
    <3>2. CASE k # 1
      <4>1. PICK j \in 1 .. Len(stack) : j = k - 1 /\ stack'[k] = stack[j]
        BY <2>6, <3>2
      <4>2. Ahead(k)' = Ahead(j) /\ Listing(k)' = Listing(j)
        BY <2>8, <3>2, <4>1
      <4>3. /\ stack[j].place \in Listing(j) \ D /\ Ahead(j) \subseteq Listing(j)
            /\ stack[j].errors = 0 => Listing(j) \subseteq D \cup {stack[j].place} \cup Ahead(j)
            /\ stack[j].dir # 0 => /\ IsHead(stack[j].dir)
                                   /\ \A p \in D : Owner(p) => ent[p].cluster # stack[j].dir
            /\ j > 1 => /\ ent[stack[j].place].used /\ ent[stack[j].place].dir
                        /\ ent[stack[j].place].cluster = stack[j - 1].dir
        BY <1>2 DEF Standing, Open
      <4>4. stack'[k].dir # 0 => IsHead(stack[k].dir)'
        BY <2>7, <4>1, <4>3 DEF IsHead
      <4>5. /\ ent[stack[j].place].used /\ ent[stack[j].place].dir
            /\ ent[stack[j].place].cluster = stack'[j].dir
        <5>1. CASE j = 1
          BY <1>2, <2>0, <2>3, <2>5, <5>1 DEF Alone
        <5>2. CASE j # 1
          <6>1. stack'[j] = stack[j - 1] /\ j > 1
            BY <1>2, <2>5, <4>1, <5>2
          <6> QED BY <4>3, <6>1
        <5> QED BY <5>1, <5>2
      <4> QED BY <2>7, <3>0, <4>1, <4>2, <4>3, <4>4, <4>5
    <3> QED BY <3>1, <3>2
  <2>12. Standing(D, W)'
    BY <1>2, <2>5, <2>9, <2>10, <2>11 DEF Standing
  <2>13. Clean(D, W)'
    BY <2>2, <2>12 DEF Clean, Held, Returning
  <2> QED BY <2>4, <2>13
<1> QED BY <1>3, <1>4

(* An entry is done with: finished if check_direntry returned 0.           *)
DoneHere(D) == IF result = 0 THEN D \cup {Here.place} ELSE D

LEMMA HereDone ==
  ASSUME IInv, NextEntry, NEW D \in SUBSET Places, NEW V \in SUBSET Places, Clean(D, V),
         NEW T, T = DoneHere(D)
  PROVE  /\ T \in SUBSET Places /\ T \subseteq V /\ D \subseteq T
         /\ \A p \in Places : ent[p] = saved[p] => ent'[p] = saved'[p]
         /\ Finished(T)'
         /\ \A p \in T, k \in 1 .. Len(stack) :
              stack[k].dir # 0 /\ Owner(p) => ent[p].cluster # stack[k].dir
         /\ \A k \in 1 .. Len(stack) : k # 1 => stack[k].place \notin T
<1> DEFINE q == Here.place
<1>1. /\ Calm /\ pc = "return" /\ WriteEntry
      /\ UNCHANGED <<given, fat, ent, tables>>
  BY PassFourCalm DEF StepOfPassFour, NextEntry
<1>2. /\ Standing(D, V) /\ q \in Places /\ q \in V /\ q \notin D /\ D \subseteq V
      /\ E = ent[q] /\ 1 \in 1 .. Len(stack) /\ Here = stack[1]
      /\ \A k \in 1 .. Len(stack) : stack[k].place = q => k = 1
  <2>1. Standing(D, V)
    BY DEF Clean
  <2> QED BY <1>1, <2>1, CallHere DEF Calm
<1>3. result = 0 /\ E.used => /\ Alone(D) /\ Fit(E)
                              /\ E.dir => Chain(fat, E.cluster) \subseteq D
  BY <1>1 DEF Clean, Held, Returning
<1>4. T \in SUBSET Places /\ T \subseteq V /\ D \subseteq T /\ T \subseteq D \cup {q}
      /\ (q \in T => result = 0)
  BY <1>2 DEF DoneHere
<1>5. \A p \in Places : saved'[p] \in {saved[p], ent[p]}
  <2>1. saved \in [Places -> Entry] /\ ent \in [Places -> Entry]
    BY DEF IInv, Typed
  <2> QED BY <1>1, <2>1 DEF WriteEntry
<1>6. \A p \in Places : ent[p] = saved[p] => ent'[p] = saved'[p]
  BY <1>1, <1>5
<1>7. result = 0 => ent'[q] = saved'[q]
  <2> SUFFICES ASSUME result = 0 PROVE ent[q] = saved'[q]
    BY <1>1
  <2>1. CASE Here.need
    BY <1>1, <1>2, <2>1 DEF WriteEntry
  <2>2. CASE ~Here.need
    <3>1. ent[q] = saved[q]
      BY <1>2, <2>2 DEF Standing, Visited
    <3> QED BY <1>2, <1>5, <3>1
  <2> QED BY <2>1, <2>2
<1>8. Finished(D)'
  <2>1. \A p \in D : ent'[p] = ent[p] /\ saved'[p] \in {saved[p], ent[p]}
    BY <1>1, <1>5
  <2> QED BY <1>1, <1>2, <2>1, FinishedKept DEF Standing
<1>9. \A p, k : p \in T /\ k \in 1 .. Len(stack) /\ stack[k].dir # 0 /\ Owner(p)
          => ent[p].cluster # stack[k].dir
  <2> TAKE p, k
  <2> HAVE p \in T /\ k \in 1 .. Len(stack) /\ stack[k].dir # 0 /\ Owner(p)
  <2>1. CASE p \in D
    BY <1>2, <2>1 DEF Standing, Open
  <2>2. CASE p = q
    BY <1>2, <1>3, <1>4, <2>2 DEF Alone, Owner
  <2> QED BY <1>4, <2>1, <2>2
<1>10. ASSUME NEW p \in T, NEW r \in T, Owner(p), Owner(r), ent[p].cluster = ent[r].cluster
       PROVE  p = r
  <2>1. CASE p \in D /\ r \in D
    BY <1>2, <1>10, <2>1 DEF Standing, Finished
  <2>2. CASE p = q /\ r \in D
    BY <1>2, <1>3, <1>4, <1>10, <2>2 DEF Alone, Owner
  <2>3. CASE r = q /\ p \in D
    BY <1>2, <1>3, <1>4, <1>10, <2>3 DEF Alone, Owner
  <2> QED BY <1>4, <2>1, <2>2, <2>3
<1>11. \A p : Owner(p)' <=> Owner(p)
  BY <1>1 DEF Owner
<1>12. ASSUME NEW p \in T
       PROVE  /\ ent'[p] = saved'[p]
              /\ ent'[p].used => Fit(ent[p])'
              /\ ent'[p].used /\ ent'[p].dir => Chain(fat', ent'[p].cluster) \subseteq T
  <2>1. CASE p \in D
    BY <1>4, <1>8, <2>1 DEF Finished
  <2>2. CASE p = q
    <3>1. result = 0 /\ (ent[q].used => Fit(ent[q]))
          /\ (ent[q].used /\ ent[q].dir => Chain(fat, ent[q].cluster) \subseteq D)
      BY <1>2, <1>3, <1>4, <2>2
    <3>2. PICK e : e = ent[q]
      OBVIOUS
    <3>3. e.used => Fit(e)'
      <4>1. e.used => Fit(e)
        BY <3>1, <3>2
      <4> QED BY <1>1, <4>1, CalmKeeps
    <3>4. ent'[p] = e
      BY <1>1, <2>2, <3>2
    <3>5. e.used => Fit(ent[p])'
      BY <3>3, <3>4 DEF Fit, IsHead, SizeFits
    <3> QED BY <1>1, <1>4, <1>7, <2>2, <3>1, <3>2, <3>4, <3>5
  <2> QED BY <1>4, <2>1, <2>2
<1>13. Finished(T)'
  <2>1. \A p, r \in T : Owner(p)' /\ Owner(r)' /\ ent'[p].cluster = ent'[r].cluster => p = r
    BY <1>1, <1>10, <1>11
  <2> QED BY <1>12, <2>1 DEF Finished
<1>14. \A k \in 1 .. Len(stack) : k # 1 => stack[k].place \notin T
  BY <1>2, <1>4 DEF Standing, Open
<1> QED BY <1>4, <1>6, <1>9, <1>13, <1>14

LEMMA ContinueClean ==
  ASSUME IInv, NextEntry, NEW D \in SUBSET Places, NEW V \in SUBSET Places, Clean(D, V),
         NEW p \in Places, Continue(p), p \in Clusters => Here.dir # 0,
         NEW A, Ahead(1) = {p} \cup A, p \notin A, Ahead(1)' = A
  PROVE  \E T, W \in SUBSET Places : Clean(T, W)'
<1>0. PICK T : T = DoneHere(D)
  OBVIOUS
<1> DEFINE W == V \cup {p}
           q == Here.place
           fr == [Here EXCEPT !.place = p, !.need = FALSE, !.errors = Counted]
<1>1. /\ Calm /\ pc = "return" /\ UNCHANGED <<given, fat, ent, tables>>
  BY PassFourCalm DEF StepOfPassFour, NextEntry
<1>2. /\ Standing(D, V) /\ q \in Places /\ q \in V /\ q \notin D /\ D \subseteq V
      /\ 1 \in 1 .. Len(stack) /\ Here = stack[1] /\ Len(stack) \in Nat
      /\ Here \in Frames /\ stack # <<>> /\ stack \in Seq(Frames) /\ Here.errors \in Nat
  <2>1. Standing(D, V)
    BY DEF Clean
  <2> QED BY <1>1, <2>1, CallHere DEF Calm
<1>3. /\ T \in SUBSET Places /\ T \subseteq V /\ D \subseteq T
      /\ \A x \in Places : ent[x] = saved[x] => ent'[x] = saved'[x]
      /\ Finished(T)'
      /\ \A x \in T, k \in 1 .. Len(stack) :
           stack[k].dir # 0 /\ Owner(x) => ent[x].cluster # stack[k].dir
      /\ \A k \in 1 .. Len(stack) : k # 1 => stack[k].place \notin T
  BY <1>0, HereDone
<1>4. /\ pc' = "entry" /\ errors' = errors /\ stack' = <<fr>> \o Tail(stack)
  BY DEF Continue, Goto
<1>5. fr \in Frames /\ fr.dir = stack[1].dir /\ fr.place = p /\ ~fr.need /\ fr.errors = Counted
  <2>1. Counted \in Nat
    BY <1>2 DEF Counted
  <2> QED BY <1>2, <2>1 DEF Frames
<1> HIDE DEF fr
<1>6. /\ Len(stack') = Len(stack) /\ stack' # <<>> /\ stack'[1] = fr
      /\ \A k \in 2 .. Len(stack) : stack'[k] = stack[k]
  BY <1>2, <1>4, <1>5, ReplacedFrame
<1>7. \A k \in 1 .. Len(stack) : /\ k = 1 \/ (k \in 2 .. Len(stack) /\ stack'[k] = stack[k])
                                /\ stack'[k].dir = stack[k].dir
  <2> TAKE k \in 1 .. Len(stack)
  <2>1. CASE k = 1
    BY <1>5, <1>6, <2>1
  <2>2. CASE k # 1
    <3>1. k \in 2 .. Len(stack)
      BY <2>2
    <3> QED BY <1>6, <3>1
  <2> QED BY <2>1, <2>2
<1>8. /\ UNCHANGED <<fat, ent, ref, start, answers>>
      /\ \A x : Owner(x)' <=> Owner(x)
  BY <1>1 DEF tables, given, Owner
<1>9. /\ p \in Listing(1) /\ A \subseteq Listing(1) /\ p \notin V /\ A \cap V = {}
      /\ \A k \in 1 .. Len(stack) : k # 1 => p \notin Ahead(k)
      /\ \A k \in 1 .. Len(stack) : Listing(k)' = Listing(k)
      /\ \A k \in 1 .. Len(stack) : k # 1 => Ahead(k)' = Ahead(k)
  <2>1. Ahead(1) \subseteq Listing(1) /\ Ahead(1) \cap V = {}
    BY <1>2 DEF Standing, Open, Visited
  <2>2. ASSUME NEW k \in 1 .. Len(stack), k # 1
        PROVE  p \notin Ahead(k)
    <3>1. Ahead(k) \subseteq Listing(k)
      BY <1>2 DEF Standing, Open
    <3>2. Listing(k) \cap Listing(1) = {}
      BY <1>1, <1>2, <2>2, ListingsApart DEF Calm
    <3> QED BY <2>1, <3>1, <3>2
  <2>3. \A k \in 1 .. Len(stack) : Listing(k)' = Listing(k)
    BY <1>7, <1>8 DEF Listing
  <2>4. \A k \in 1 .. Len(stack) : k # 1 => Ahead(k)' = Ahead(k)
    BY <1>7, <1>8 DEF Ahead
  <2> QED BY <2>1, <2>2, <2>3, <2>4
<1>10. W \in SUBSET Places
  OBVIOUS
<1>11. Visited(W)'
  <2>1. \A x \in Places \ W : ent'[x] = saved'[x]
    BY <1>2, <1>3 DEF Standing, Visited
  <2>2. ASSUME NEW d \in W \cap Clusters
        PROVE  \E h \in Clusters : IsHead(h)' /\ d \in Chain(fat', h)
    <3>1. CASE d \in V
      BY <1>2, <1>8, <3>1 DEF Standing, Visited, IsHead
    <3>2. CASE d = p
      <4>1. PICK h : h = stack[1].dir
        OBVIOUS
      <4>2. IsHead(h) /\ d \in Chain(fat, h)
        <5>1. h # 0 /\ Listing(1) = Chain(fat, h)
          BY <1>2, <3>2, <4>1 DEF Listing
        <5> QED BY <1>2, <1>9, <3>2, <4>1, <5>1 DEF Standing, Open
      <4> QED BY <1>8, <4>2 DEF IsHead
    <3> QED BY <3>1, <3>2
  <2>3. ASSUME NEW k \in 1 .. Len(stack')
        PROVE  /\ stack'[k].place \in W /\ Ahead(k)' \cap W = {}
               /\ ~stack'[k].need => ent'[stack'[k].place] = saved'[stack'[k].place]
    <3>1. CASE k = 1
      <4>1. ent[p] = saved[p]
        BY <1>2, <1>9 DEF Standing, Visited
      <4>2. ent'[p] = saved'[p]
        BY <1>3, <4>1
      <4>3. Ahead(k)' = A
        BY <3>1
      <4> QED BY <1>5, <1>6, <1>9, <3>1, <4>2, <4>3
    <3>2. CASE k # 1
      <4>1. k \in 1 .. Len(stack) /\ stack'[k] = stack[k] /\ Ahead(k)' = Ahead(k)
            /\ p \notin Ahead(k) /\ stack[k] \in Frames
        BY <1>2, <1>6, <1>7, <1>9, <3>2
      <4>2. /\ stack[k].place \in V /\ Ahead(k) \cap V = {}
            /\ ~stack[k].need => ent[stack[k].place] = saved[stack[k].place]
        BY <1>2, <4>1 DEF Standing, Visited
      <4>3. ~stack[k].need => ent'[stack[k].place] = saved'[stack[k].place]
        BY <1>3, <4>1, <4>2 DEF Frames
      <4> QED BY <4>1, <4>2, <4>3
    <3> QED BY <3>1, <3>2
  <2>4. ASSUME NEW k \in 1 .. Len(stack'), NEW m \in 1 .. Len(stack'),
               stack'[k].place = stack'[m].place
        PROVE  k = m
    <3>1. \A j \in 1 .. Len(stack) : stack[j].place \in V
      BY <1>2 DEF Standing, Visited
    <3>2. k \in 1 .. Len(stack) /\ m \in 1 .. Len(stack)
      BY <1>6
    <3>3. \A x, y \in 1 .. Len(stack) : stack[x].place = stack[y].place => x = y
      BY <1>2 DEF Standing, Visited
    <3>4. CASE k = 1 \/ m = 1
      BY <1>5, <1>6, <1>7, <1>9, <2>4, <3>1, <3>2, <3>4
    <3>5. CASE k # 1 /\ m # 1
      BY <1>7, <2>4, <3>2, <3>3, <3>5
    <3> QED BY <3>4, <3>5
  <2> QED BY <2>1, <2>2, <2>3, <2>4 DEF Visited
<1>12. Open(T)'
  <2> SUFFICES ASSUME NEW k \in 1 .. Len(stack')
               PROVE  /\ stack'[k].place \in Listing(k)' \ T /\ Ahead(k)' \subseteq Listing(k)'
                      /\ stack'[k].errors = 0 =>
                           Listing(k)' \subseteq T \cup {stack'[k].place} \cup Ahead(k)'
                      /\ stack'[k].dir # 0 =>
                           /\ IsHead(stack[k].dir)'
                           /\ \A x \in T : Owner(x)' => ent'[x].cluster # stack'[k].dir
                      /\ k > 1 => /\ ent'[stack'[k].place].used /\ ent'[stack'[k].place].dir
                                  /\ ent'[stack'[k].place].cluster = stack'[k - 1].dir
    BY DEF Open
  <2>1. k \in 1 .. Len(stack) /\ stack'[k].dir = stack[k].dir /\ Listing(k)' = Listing(k)
    BY <1>6, <1>7, <1>9
  <2>2. /\ stack[k].place \in Listing(k) \ D /\ Ahead(k) \subseteq Listing(k)
        /\ stack[k].errors = 0 => Listing(k) \subseteq D \cup {stack[k].place} \cup Ahead(k)
        /\ stack[k].dir # 0 => IsHead(stack[k].dir)
        /\ k > 1 => /\ ent[stack[k].place].used /\ ent[stack[k].place].dir
                    /\ ent[stack[k].place].cluster = stack[k - 1].dir
    BY <1>2, <2>1 DEF Standing, Open
  <2>3. stack'[k].dir # 0 => IsHead(stack[k].dir)'
    <3>1. PICK h : h = stack[k].dir
      OBVIOUS
    <3>2. stack'[k].dir # 0 => IsHead(h)'
      BY <1>8, <2>1, <2>2, <3>1 DEF IsHead
    <3> QED BY <2>1, <3>1, <3>2 DEF IsHead
  <2>4. \A x \in T : stack'[k].dir # 0 /\ Owner(x)' => ent'[x].cluster # stack'[k].dir
    BY <1>3, <1>8, <2>1
  <2>5. CASE k = 1
    <3>1. stack'[k].place = p /\ Ahead(k)' = A /\ p \in Listing(k) /\ A \subseteq Listing(k)
          /\ p \notin T
      BY <1>3, <1>5, <1>6, <1>9, <2>5
    <3>2. stack'[k].errors = 0 => Listing(k) \subseteq T \cup {p} \cup A
      <4> SUFFICES ASSUME stack'[k].errors = 0 PROVE Listing(k) \subseteq T \cup {p} \cup A
        OBVIOUS
      <4>1. Here.errors = 0 /\ result = 0
        <5>1. Counted = 0
          BY <1>5, <1>6, <2>5
        <5> QED BY <1>2, <5>1 DEF Counted
      <4>2. T = D \cup {q}
        BY <1>0, <4>1 DEF DoneHere
      <4> QED BY <1>2, <2>2, <2>5, <4>1, <4>2
    <3> QED BY <2>1, <2>3, <2>4, <2>5, <3>1, <3>2
  <2>6. CASE k # 1
    <3>1. stack'[k] = stack[k] /\ Ahead(k)' = Ahead(k) /\ k > 1 /\ k - 1 \in 1 .. Len(stack)
      BY <1>2, <1>7, <1>9, <2>1, <2>6
    <3>2. stack'[k - 1].dir = stack[k - 1].dir
      BY <1>7, <3>1
    <3> QED BY <1>3, <1>8, <2>1, <2>2, <2>3, <2>4, <2>6, <3>1, <3>2
  <2> QED BY <2>5, <2>6
<1>13. Standing(T, W)'
  BY <1>3, <1>6, <1>11, <1>12 DEF Standing
<1>14. Clean(T, W)'
  BY <1>4, <1>13 DEF Clean, Held, Returning
<1> QED BY <1>3, <1>10, <1>14

LEMMA LeaveClean ==
  ASSUME IInv, NextEntry, NEW D \in SUBSET Places, NEW V \in SUBSET Places, Clean(D, V),
         Here.dir # 0, NEW r, Leave(r),
         r = 0 => Counted = 0 /\ fat[Here.place] \notin Clusters
  PROVE  \E T, W \in SUBSET Places : Clean(T, W)'
<1>0. PICK T : T = DoneHere(D)
  OBVIOUS
<1> DEFINE q == Here.place
           c == Here.dir
<1>1. /\ Calm /\ pc = "return" /\ UNCHANGED <<given, fat, ent, tables>>
  BY PassFourCalm DEF StepOfPassFour, NextEntry
<1>2. /\ Standing(D, V) /\ D \subseteq V
      /\ 1 \in 1 .. Len(stack) /\ Here = stack[1] /\ Len(stack) \in Nat
      /\ stack # <<>> /\ stack \in Seq(Frames) /\ Here.errors \in Nat
  <2>1. Standing(D, V)
    BY DEF Clean
  <2> QED BY <1>1, <2>1, CallHere DEF Calm
<1>3. /\ T \in SUBSET Places /\ T \subseteq V /\ D \subseteq T
      /\ \A x \in Places : ent[x] = saved[x] => ent'[x] = saved'[x]
      /\ Finished(T)'
      /\ \A x \in T, k \in 1 .. Len(stack) :
           stack[k].dir # 0 /\ Owner(x) => ent[x].cluster # stack[k].dir
      /\ \A k \in 1 .. Len(stack) : k # 1 => stack[k].place \notin T
  BY <1>0, HereDone
<1>4. /\ pc' = "ascend" /\ result' = r /\ errors' = errors /\ stack' = Tail(stack)
  BY DEF Leave, Goto
<1>5. Len(stack) > 1
  <2>1. 1 # Len(stack)
    BY <1>2 DEF IInv, Stacked
  <2>2. PICK n \in Nat : n = Len(stack) /\ n >= 1
    BY <1>2
  <2> QED BY <2>1, <2>2
<1>6. /\ Len(stack') = Len(stack) - 1 /\ Len(stack') >= 1 /\ stack' # <<>>
      /\ stack' \in Seq(Frames)
      /\ \A k \in 1 .. Len(stack) - 1 : stack'[k] = stack[k + 1]
  <2>1. /\ stack' \in Seq(Frames) /\ Len(stack') = Len(stack) - 1
        /\ \A k \in 1 .. Len(stack) - 1 : stack'[k] = stack[k + 1]
    BY <1>2, <1>4, PoppedFrame
  <2>2. Len(stack') >= 1
    BY <1>2, <1>5, <2>1
  <2> QED BY <2>1, <2>2
<1>7. \A k \in 1 .. Len(stack') : /\ k + 1 \in 1 .. Len(stack) /\ k + 1 # 1
                                 /\ stack'[k] = stack[k + 1]
  BY <1>2, <1>6
<1>8. /\ UNCHANGED <<fat, ent, ref, start, answers>>
      /\ \A x : Owner(x)' <=> Owner(x)
  BY <1>1 DEF tables, given, Owner
<1>9. \A k \in 1 .. Len(stack') : Listing(k)' = Listing(k + 1) /\ Ahead(k)' = Ahead(k + 1)
  <2> TAKE k \in 1 .. Len(stack')
  <2>1. stack'[k] = stack[k + 1]
    BY <1>7
  <2> QED BY <1>8, <2>1 DEF Listing, Ahead
<1>10. Visited(V)'
  <2>1. \A x \in Places \ V : ent'[x] = saved'[x]
    BY <1>2, <1>3 DEF Standing, Visited
  <2>2. \A d \in V \cap Clusters : \E h \in Clusters : IsHead(h)' /\ d \in Chain(fat', h)
    BY <1>2, <1>8 DEF Standing, Visited, IsHead
  <2>3. ASSUME NEW k \in 1 .. Len(stack')
        PROVE  /\ stack'[k].place \in V /\ Ahead(k)' \cap V = {}
               /\ ~stack'[k].need => ent'[stack'[k].place] = saved'[stack'[k].place]
    <3>1. PICK j \in 1 .. Len(stack) : j = k + 1 /\ stack'[k] = stack[j] /\ stack[j] \in Frames
      BY <1>2, <1>7
    <3>2. Ahead(k)' = Ahead(j)
      BY <1>9, <3>1
    <3>3. /\ stack[j].place \in V /\ Ahead(j) \cap V = {}
          /\ ~stack[j].need => ent[stack[j].place] = saved[stack[j].place]
      BY <1>2 DEF Standing, Visited
    <3>4. ~stack[j].need => ent'[stack[j].place] = saved'[stack[j].place]
      BY <1>3, <3>1, <3>3 DEF Frames
    <3> QED BY <3>1, <3>2, <3>3, <3>4
  <2>4. ASSUME NEW k \in 1 .. Len(stack'), NEW m \in 1 .. Len(stack'),
               stack'[k].place = stack'[m].place
        PROVE  k = m
    <3>1. \A x, y \in 1 .. Len(stack) : stack[x].place = stack[y].place => x = y
      BY <1>2 DEF Standing, Visited
    <3>2. k + 1 = m + 1
      BY <1>7, <2>4, <3>1
    <3> QED BY <3>2
  <2> QED BY <2>1, <2>2, <2>3, <2>4 DEF Visited
<1>11. Open(T)'
  <2> SUFFICES ASSUME NEW k \in 1 .. Len(stack')
               PROVE  /\ stack'[k].place \in Listing(k)' \ T /\ Ahead(k)' \subseteq Listing(k)'
                      /\ stack'[k].errors = 0 =>
                           Listing(k)' \subseteq T \cup {stack'[k].place} \cup Ahead(k)'
                      /\ stack'[k].dir # 0 =>
                           /\ IsHead(stack[k].dir)'
                           /\ \A x \in T : Owner(x)' => ent'[x].cluster # stack'[k].dir
                      /\ k > 1 => /\ ent'[stack'[k].place].used /\ ent'[stack'[k].place].dir
                                  /\ ent'[stack'[k].place].cluster = stack'[k - 1].dir
    BY DEF Open
  <2>1. PICK j \in 1 .. Len(stack) : j = k + 1 /\ j # 1 /\ stack'[k] = stack[j]
    BY <1>7
  <2>2. Ahead(k)' = Ahead(j) /\ Listing(k)' = Listing(j)
    BY <1>9, <2>1
  <2>3. /\ stack[j].place \in Listing(j) \ D /\ Ahead(j) \subseteq Listing(j)
        /\ stack[j].errors = 0 => Listing(j) \subseteq D \cup {stack[j].place} \cup Ahead(j)
        /\ stack[j].dir # 0 => IsHead(stack[j].dir)
        /\ j > 1 => /\ ent[stack[j].place].used /\ ent[stack[j].place].dir
                    /\ ent[stack[j].place].cluster = stack[j - 1].dir
    BY <1>2 DEF Standing, Open
  <2>4. stack'[k].dir # 0 => IsHead(stack[k].dir)'
    BY <1>8, <2>1, <2>3 DEF IsHead
  <2>5. \A x \in T : stack[j].dir # 0 /\ Owner(x)' => ent'[x].cluster # stack[j].dir
    BY <1>3, <1>8
  <2>6. k > 1 => stack'[k - 1] = stack[j - 1] /\ j > 1
    <3> SUFFICES ASSUME k > 1 PROVE stack'[k - 1] = stack[j - 1] /\ j > 1
      OBVIOUS
    <3>1. k - 1 \in 1 .. Len(stack') /\ (k - 1) + 1 = j - 1 /\ j > 1
      BY <1>6, <2>1
    <3> QED BY <1>7, <3>1
  <2> QED BY <1>3, <1>8, <2>1, <2>2, <2>3, <2>4, <2>5, <2>6
<1>12. Standing(T, V)'
  BY <1>3, <1>6, <1>10, <1>11 DEF Standing
<1>13. /\ E'.used /\ E'.dir /\ E'.cluster = c /\ c \in Clusters /\ IsHead(c)
  <2>1. 1 \in 1 .. Len(stack') /\ Here' = stack'[1]
    BY <1>6, TopFrame DEF Here
  <2>2. PICK j \in 1 .. Len(stack) : j = 1 + 1 /\ stack'[1] = stack[j]
    BY <1>7, <2>1
  <2>3. /\ ent[stack[j].place].used /\ ent[stack[j].place].dir
        /\ ent[stack[j].place].cluster = stack[j - 1].dir
    BY <1>2, <2>2 DEF Standing, Open
  <2>4. stack[j - 1].dir = c
    BY <1>2, <2>2
  <2>5. IsHead(c)
    BY <1>2 DEF Standing, Open
  <2> QED BY <1>8, <2>1, <2>2, <2>3, <2>4, <2>5 DEF E, IsHead
<1>14. PICK h \in Clusters : h = c
  BY <1>13
<1>15. Alone(T)'
  <2>1. IsHead(h)'
    BY <1>8, <1>13, <1>14 DEF IsHead
  <2>2. IsHead(E.cluster)'
    BY <1>13, <1>14, <2>1 DEF IsHead
  <2>3. \A x \in T : Owner(x)' => ent'[x].cluster # h
    BY <1>2, <1>3, <1>8, <1>14
  <2>4. \A k \in 1 .. Len(stack') : stack'[k].dir # h
    <3> TAKE k \in 1 .. Len(stack')
    <3>1. PICK j \in 1 .. Len(stack) : j # 1 /\ stack'[k] = stack[j]
      BY <1>7
    <3>2. stack[j].dir # stack[1].dir
      BY <1>2, <3>1 DEF IInv, Stacked
    <3> QED BY <1>2, <1>14, <3>1, <3>2
  <2> QED BY <1>13, <1>14, <2>2, <2>3, <2>4 DEF Alone
<1>16. result' = 0 => Chain(fat', E'.cluster) \subseteq T
  <2> SUFFICES ASSUME r = 0 PROVE Chain(fat, h) \subseteq T
    BY <1>4, <1>8, <1>13, <1>14
  <2>1. Counted = 0 /\ fat[q] \notin Clusters
    OBVIOUS
  <2>2. Here.errors = 0 /\ result = 0
    BY <1>2, <2>1 DEF Counted
  <2>3. T = D \cup {q}
    BY <1>0, <2>2 DEF DoneHere
  <2>4. Ahead(1) = {} /\ Listing(1) = Chain(fat, h)
    <3>1. Chain(fat, fat[q]) = {}
      BY <2>1, ChainEmpty
    <3> QED BY <1>2, <1>14, <3>1 DEF Ahead, Listing
  <2>5. Listing(1) \subseteq D \cup {stack[1].place} \cup Ahead(1)
    BY <1>2, <2>2 DEF Standing, Open
  <2> QED BY <1>2, <2>3, <2>4, <2>5
<1>17. E'.cluster # 0
  BY <1>13, Numbers
<1>18. Clean(T, V)'
  BY <1>4, <1>12, <1>13, <1>15, <1>16, <1>17 DEF Clean, Held, Returning
<1> QED BY <1>3, <1>18

LEMMA NextEntryClean ==
  ASSUME IInv, NextEntry, NEW D \in SUBSET Places, NEW V \in SUBSET Places, Clean(D, V)
  PROVE  \E T, W \in SUBSET Places : Clean(T, W)'
<1> DEFINE q == Here.place
<1>1. /\ Calm /\ pc = "return" /\ UNCHANGED <<given, fat, ent, tables>>
  BY PassFourCalm DEF StepOfPassFour, NextEntry
<1>2. /\ Standing(D, V) /\ D \subseteq V /\ q \in Places
      /\ 1 \in 1 .. Len(stack) /\ Here = stack[1] /\ Here.errors \in Nat
      /\ stack # <<>> /\ stack \in Seq(Frames)
      /\ q \in IF Here.dir = 0 THEN RootPlaces ELSE Clusters
  <2>1. Standing(D, V)
    BY DEF Clean
  <2>2. /\ 1 \in 1 .. Len(stack) /\ Here = stack[1] /\ Here.errors \in Nat
        /\ q \in Places /\ D \subseteq V /\ stack # <<>> /\ stack \in Seq(Frames)
    BY <1>1, <2>1, CallHere DEF Calm
  <2> QED BY <2>1, <2>2 DEF IInv, Stacked
<1>3. \A r \in RootPlaces : r \in Int
  BY FsckAssumption DEF RootPlaces, Bad
<1>4. CASE Here.dir = 0
  <2>1. q \in RootPlaces /\ q \in Int /\ Ahead(1) = {r \in RootPlaces : r > q}
    BY <1>2, <1>3, <1>4 DEF Ahead
  <2>2. CASE q < Bad + RootEntries /\ Continue(q + 1)
    <3>1. PICK p \in RootPlaces : p = q + 1
      <4>1. PICK r \in 1 .. RootEntries : q = Bad + r
        BY <2>1 DEF RootPlaces
      <4>2. RootEntries \in Nat /\ Bad \in Nat
        BY FsckAssumption DEF Bad
      <4>3. r + 1 \in 1 .. RootEntries /\ q + 1 = Bad + (r + 1)
        BY <2>2, <4>1, <4>2
      <4> QED BY <4>3 DEF RootPlaces
    <3> DEFINE A == {r \in RootPlaces : r > p}
    <3>2. Ahead(1) = {p} \cup A /\ p \notin A
      <4>1. \A r \in RootPlaces : r > q <=> r = p \/ r > p
        BY <1>3, <2>1, <3>1
      <4>2. ~(p > p)
        BY <1>3
      <4> QED BY <2>1, <4>1, <4>2
    <3>3. Ahead(1)' = A
      <4>1. stack'[1].dir = 0 /\ stack'[1].place = p
        <5> DEFINE fr == [Here EXCEPT !.place = p, !.need = FALSE, !.errors = Counted]
        <5>1. stack' = <<fr>> \o Tail(stack)
          BY <1>4, <2>2, <3>1 DEF Continue
        <5>2. fr \in Frames /\ fr.dir = 0 /\ fr.place = p
          <6>1. Here \in Frames /\ Counted \in Nat /\ p \in Places
            BY <1>2, TopFrame, RootApart DEF Counted
          <6> QED BY <1>4, <6>1 DEF Frames
        <5> HIDE DEF fr
        <5>3. stack'[1] = fr
          BY <1>2, <5>1, <5>2, ReplacedFrame
        <5> QED BY <5>2, <5>3
      <4> QED BY <4>1 DEF Ahead
    <3>4. p \in Places /\ p \notin Clusters /\ Continue(p)
      BY <2>2, <3>1, RootApart
    <3> HIDE DEF A
    <3> QED BY <3>2, <3>3, <3>4, ContinueClean
  <2>3. CASE /\ q = Bad + RootEntries
             /\ errors' = errors + IF Counted > 0 THEN 1 ELSE 0
             /\ stack' = <<>> /\ Goto("unused")
    <3>1. PICK T : T = DoneHere(D)
      OBVIOUS
    <3>2. /\ T \in SUBSET Places /\ T \subseteq V
          /\ \A x \in Places : ent[x] = saved[x] => ent'[x] = saved'[x]
          /\ Finished(T)'
      BY <3>1, HereDone
    <3>3. Len(stack') = 0 /\ pc' = "unused"
      BY <2>3 DEF Goto
    <3>4. Visited(V)'
      <4>1. \A x \in Places \ V : ent'[x] = saved'[x]
        BY <1>2, <3>2 DEF Standing, Visited
      <4>2. \A d \in V \cap Clusters : \E h \in Clusters : IsHead(h)' /\ d \in Chain(fat', h)
        BY <1>1, <1>2 DEF Standing, Visited, IsHead, tables
      <4> QED BY <3>3, <4>1, <4>2 DEF Visited
    <3>5. Open(T)'
      BY <3>3 DEF Open
    <3>6. errors' = 0 => RootPlaces \subseteq T
      <4> SUFFICES ASSUME errors' = 0 PROVE RootPlaces \subseteq T
        OBVIOUS
      <4>1. Counted = 0
        <5>1. errors \in Nat /\ Counted \in Nat
          BY <1>2 DEF IInv, Typed, Counted
        <5> QED BY <2>3, <5>1
      <4>2. Here.errors = 0 /\ result = 0
        BY <1>2, <4>1 DEF Counted
      <4>3. T = D \cup {q}
        BY <3>1, <4>2 DEF DoneHere
      <4>4. Ahead(1) = {}
        <5>1. \A r \in RootPlaces : ~(r > q)
          BY <2>3, FsckAssumption DEF RootPlaces, Bad
        <5> QED BY <2>1, <5>1
      <4>5. RootPlaces \subseteq D \cup {q} \cup Ahead(1)
        BY <1>2, <1>4, <4>2 DEF Standing, Open, Listing
      <4> QED BY <4>3, <4>4, <4>5
    <3>7. Standing(T, V)'
      BY <3>2, <3>4, <3>5, <3>6 DEF Standing
    <3>8. Clean(T, V)'
      BY <3>3, <3>7 DEF Clean, Held, Returning, PassFour
    <3> QED BY <3>2, <3>8
  <2> QED BY <1>4, <2>2, <2>3 DEF NextEntry
<1>5. CASE Here.dir # 0
  <2> DEFINE next == fat[q]
  <2>0. q \in Clusters /\ NoLoops(fat) /\ Ahead(1) = Chain(fat, next)
    BY <1>1, <1>2, <1>5, ChainsKnown DEF Ahead
  <2>1. CASE next \in Clusters /\ Continue(next)
    <3>1. PICK p \in Clusters : p = next
      BY <2>1
    <3> DEFINE A == Chain(fat, fat[p])
    <3>2. Ahead(1) = {p} \cup A /\ p \notin A
      BY <2>0, <3>1, ChainSteps
    <3>3. Ahead(1)' = A
      <4>1. stack'[1].dir # 0 /\ stack'[1].place = p
        <5> DEFINE fr == [Here EXCEPT !.place = p, !.need = FALSE, !.errors = Counted]
        <5>1. stack' = <<fr>> \o Tail(stack)
          BY <1>5, <2>1, <3>1 DEF Continue
        <5>2. fr \in Frames /\ fr.dir # 0 /\ fr.place = p
          <6>1. Here \in Frames /\ Counted \in Nat /\ p \in Places
            BY <1>2, TopFrame, RootApart DEF Counted
          <6> QED BY <1>5, <6>1 DEF Frames
        <5> HIDE DEF fr
        <5>3. stack'[1] = fr
          BY <1>2, <5>1, <5>2, ReplacedFrame
        <5> QED BY <5>2, <5>3
      <4> QED BY <1>1, <4>1 DEF Ahead
    <3>4. p \in Places /\ Continue(p)
      BY <2>1, <3>1, RootApart
    <3> HIDE DEF A
    <3> QED BY <1>5, <3>2, <3>3, <3>4, ContinueClean
  <2>2. CASE Leave(-1)
    BY <1>5, <2>2, LeaveClean
  <2>3. CASE next \in {FatEof, 0} /\ Leave(Counted)
    <3>1. next \notin Clusters
      BY <2>3, Numbers
    <3> QED BY <1>5, <2>3, <3>1, LeaveClean
  <2>4. CASE Leave(Counted + 1)
    <3>1. Counted + 1 # 0
      BY <1>2 DEF Counted
    <3> QED BY <1>5, <2>4, <3>1, LeaveClean
  <2> QED BY <1>5, <2>1, <2>2, <2>3, <2>4 DEF NextEntry
<1> QED BY <1>4, <1>5

(* Pass 4 starts with the first entry of the root directory; until then no *)
(* entry has been changed.                                                 *)
LEMMA SimpleCheckClean ==
  ASSUME IInv, BeforeAndAfter, SimpleCheck
  PROVE  \E T, W \in SUBSET Places : Clean(T, W)'
<1> DEFINE s == Bad + 1
           T == {}
           W == {s}
<1>1. /\ pc = "simple" /\ pc' = "entry" /\ stack' = <<Frame(0, s)>>
      /\ UNCHANGED <<fat, ent, saved, tables>>
  BY DEF SimpleCheck, Goto
<1>2. ent = saved
  BY <1>1 DEF BeforeAndAfter
<1>3. /\ Len(stack') = 1 /\ stack' # <<>> /\ stack'[1].dir = 0 /\ stack'[1].place = s
      /\ ~stack'[1].need
  BY <1>1 DEF Frame
<1>4. /\ s \in RootPlaces /\ s \in Places /\ s \notin Clusters
      /\ \A r \in RootPlaces : r = s \/ r > s
      /\ ~(s > s)
  <2>1. RootEntries \in Nat /\ RootEntries >= 1 /\ Bad \in Nat
    BY FsckAssumption DEF Bad
  <2>2. 1 \in 1 .. RootEntries
    BY <2>1
  <2>3. s \in RootPlaces
    BY <2>2 DEF RootPlaces
  <2> QED BY <2>1, <2>3, RootApart DEF RootPlaces
<1>5. Listing(1)' = RootPlaces /\ Ahead(1)' = {r \in RootPlaces : r > s}
  BY <1>3 DEF Listing, Ahead
<1>6. \A k \in 1 .. Len(stack') : k = 1
  BY <1>3
<1> HIDE DEF s
<1>7. Finished(T)'
  BY DEF Finished
<1>8. Visited(W)'
  <2>1. \A p \in Places \ W : ent'[p] = saved'[p]
    BY <1>1, <1>2
  <2>2. W \cap Clusters = {}
    BY <1>4
  <2>3. \A k \in 1 .. Len(stack') :
          /\ stack'[k].place \in W /\ Ahead(k)' \cap W = {}
          /\ ~stack'[k].need => ent'[stack'[k].place] = saved'[stack'[k].place]
    <3>1. Ahead(1)' \cap W = {}
      BY <1>4, <1>5
    <3>2. ent'[s] = saved'[s]
      BY <1>1, <1>2
    <3>3. ASSUME NEW k \in 1 .. Len(stack')
          PROVE  /\ stack'[k].place \in W /\ Ahead(k)' \cap W = {}
                 /\ ~stack'[k].need => ent'[stack'[k].place] = saved'[stack'[k].place]
      <4>1. k = 1
        BY <1>6
      <4> QED BY <1>3, <3>1, <3>2, <4>1
    <3> QED BY <3>3
  <2>4. \A k, m \in 1 .. Len(stack') : stack'[k].place = stack'[m].place => k = m
    BY <1>6
  <2> QED BY <2>1, <2>2, <2>3, <2>4 DEF Visited
<1>9. Open(T)'
  <2> SUFFICES ASSUME NEW k \in 1 .. Len(stack')
               PROVE  /\ stack'[k].place \in Listing(k)' \ T /\ Ahead(k)' \subseteq Listing(k)'
                      /\ Listing(k)' \subseteq T \cup {stack'[k].place} \cup Ahead(k)'
                      /\ stack'[k].dir = 0 /\ ~(k > 1)
    BY DEF Open
  <2>1. k = 1
    BY <1>6
  <2>2. s \in Listing(1)' /\ Ahead(1)' \subseteq Listing(1)'
        /\ Listing(1)' \subseteq {s} \cup Ahead(1)'
    BY <1>4, <1>5
  <2> QED BY <1>3, <2>1, <2>2
<1>10. Standing(T, W)'
  BY <1>3, <1>7, <1>8, <1>9 DEF Standing
<1>11. Clean(T, W)'
  BY <1>1, <1>10 DEF Clean, Held, Returning
<1>12. T \in SUBSET Places /\ W \in SUBSET Places
  BY <1>4
<1> QED BY <1>11, <1>12

(* After pass 4 nothing is changed any more.                               *)
LEMMA RestsClean ==
  ASSUME UNCHANGED <<fat, ent, saved, ref, start, answers, stack>>, pc' \notin PassFour,
         errors' = 0 => errors = 0, NEW D, NEW V, Clean(D, V)
  PROVE  Clean(D, V)'
<1>1. Standing(D, V)
  BY DEF Clean
<1>2. \A p : Owner(p)' <=> Owner(p)
  BY DEF Owner
<1>3. Finished(D)'
  BY <1>1 DEF Standing, Finished, Owner, Fit, IsHead, SizeFits
<1>4. Visited(V)'
  BY <1>1 DEF Standing, Visited, Ahead, IsHead
<1>5. Open(D)'
  BY <1>1 DEF Standing, Open, Listing, Ahead, Owner, IsHead
<1>6. Standing(D, V)'
  BY <1>1, <1>3, <1>4, <1>5 DEF Standing
<1> QED BY <1>6 DEF Clean, Held, Returning, PassFour

LEMMA InitClean ==
  Init => PassTwoKeeps /\ BeforeAndAfter /\ CleanIInv
BY DEF Init, PassTwoKeeps, BeforeAndAfter, CleanIInv, PassFour

LEMMA CleanStep ==
  ASSUME LongsAreWide, IInv, PassTwoKeeps, BeforeAndAfter, CleanIInv, Next
  PROVE  CleanIInv'
<1>1. CASE CheckFat \/ CheckFatEnds \/ CheckChains \/ FollowChain
  <2>1. /\ pc \in {"fat", "chains"} /\ pc' \in {"fat", "chains", "simple", "exit"}
        /\ code' = code \/ code' = 4
    BY <1>1 DEF CheckFat, CheckFatEnds, CheckChains, FollowChain, Exit, Goto
  <2>2. code' # 0
    BY <2>1 DEF BeforeAndAfter
  <2> QED BY <2>1, <2>2 DEF CleanIInv, PassFour
<1>2. CASE SimpleCheck
  BY <1>2, SimpleCheckClean DEF CleanIInv
<1>3. CASE StepOfPassFour
  <2>1. Calm
    BY <1>3, PassFourCalm
  <2>2. PICK D, V \in SUBSET Places : Clean(D, V)
    BY <2>1 DEF CleanIInv, Calm
  <2>3. CASE CheckEntry \/ Ascend \/ ConvertToFile \/ CheckFile \/ WalkFile \/ FileEnds
    <3>1. Clean(D, V)'
      BY <2>2, <2>3, CheckEntryClean, AscendClean, ConvertToFileClean, CheckFileClean,
         WalkFileClean, FileEndsClean
    <3> QED BY <3>1 DEF CleanIInv
  <2>4. CASE CheckDir
    <3>1. \E W \in SUBSET Places : Clean(D, W)'
      BY <2>2, <2>4, CheckDirClean
    <3> QED BY <3>1 DEF CleanIInv
  <2>5. CASE NextEntry
    <3>1. \E T, W \in SUBSET Places : Clean(T, W)'
      BY <2>2, <2>5, NextEntryClean
    <3> QED BY <3>1 DEF CleanIInv
  <2> QED BY <1>3, <2>3, <2>4, <2>5 DEF StepOfPassFour
<1>4. CASE CheckUnusedChains
  <2>1. /\ pc = "unused" /\ pc' = "exit"
        /\ UNCHANGED <<fat, ent, saved, ref, start, answers, stack>>
        /\ errors' = errors + IF Unused # {} THEN 1 ELSE 0
    BY <1>4 DEF CheckUnusedChains, Exit, volume, tables, given
  <2>2. PICK D, V \in SUBSET Places : Clean(D, V)
    BY <2>1 DEF CleanIInv
  <2>3. errors' = 0 => errors = 0
    <3>1. errors \in Nat
      BY DEF IInv, Typed
    <3> QED BY <2>1, <3>1
  <2>4. Clean(D, V)'
    BY <2>1, <2>2, <2>3, RestsClean DEF PassFour
  <2> QED BY <2>4 DEF CleanIInv
<1>5. CASE Done
  <2>1. /\ pc = "exit" /\ pc' = "exit" /\ code' = code /\ errors' = errors
        /\ UNCHANGED <<fat, ent, saved, ref, start, answers, stack>>
    BY <1>5 DEF Done, vars
  <2>2. CASE code = 0
    <3>1. PICK D, V \in SUBSET Places : Clean(D, V)
      BY <2>2 DEF CleanIInv
    <3>2. Clean(D, V)'
      BY <2>1, <3>1, RestsClean DEF PassFour
    <3> QED BY <3>2 DEF CleanIInv
  <2>3. CASE code # 0
    BY <2>1, <2>3 DEF CleanIInv, PassFour
  <2> QED BY <2>2, <2>3
<1> QED BY <1>1, <1>2, <1>3, <1>4, <1>5 DEF Next, Work, StepOfPassFour

LEMMA CleanRests ==
  ASSUME PassTwoKeeps, BeforeAndAfter, CleanIInv, UNCHANGED vars
  PROVE  PassTwoKeeps' /\ BeforeAndAfter' /\ CleanIInv'
<1>1. UNCHANGED <<fat, ent, saved, ref, start, answers, pc, i, at, stack, result, errors, code>>
  BY DEF vars
<1>2. PassTwoKeeps' /\ BeforeAndAfter'
  BY <1>1 DEF PassTwoKeeps, HeadEnds, BeforeAndAfter, Linked
<1>3. ASSUME NEW D \in SUBSET Places, NEW V \in SUBSET Places, Clean(D, V)
      PROVE  Clean(D, V)'
  <2>1. Standing(D, V)
    BY <1>3 DEF Clean
  <2>2. Finished(D)'
    BY <1>1, <2>1 DEF Standing, Finished, Owner, Fit, IsHead, SizeFits
  <2>3. Visited(V)'
    BY <1>1, <2>1 DEF Standing, Visited, Ahead, IsHead
  <2>4. Open(D)'
    BY <1>1, <2>1 DEF Standing, Open, Listing, Ahead, Owner, IsHead
  <2>5. Standing(D, V)'
    BY <1>1, <2>1, <2>2, <2>3, <2>4 DEF Standing
  <2>6. E' = E
    BY <1>1 DEF E, Here
  <2>7. Alone(D) => Alone(D)'
    BY <1>1, <2>6 DEF Alone, IsHead, Owner
  <2>8. Held(D)'
    BY <1>1, <1>3, <2>6, <2>7 DEF Clean, Held
  <2>9. Fit(E) => Fit(E)'
    BY <1>1, <2>6 DEF Fit, IsHead, SizeFits
  <2>10. Returning(D, V)'
    BY <1>1, <1>3, <2>6, <2>9 DEF Clean, Returning
  <2> QED BY <2>5, <2>8, <2>10 DEF Clean
<1>4. CleanIInv'
  <2> SUFFICES ASSUME pc' \in PassFour \cup {"unused"} \/ code' = 0
               PROVE  \E D, V \in SUBSET Places : Clean(D, V)'
    BY DEF CleanIInv
  <2>1. PICK D, V \in SUBSET Places : Clean(D, V)
    BY <1>1 DEF CleanIInv
  <2> QED BY <1>3, <2>1
<1> QED BY <1>2, <1>4

LEMMA CleanInvariant ==
  ASSUME LongsAreWide
  PROVE  Spec => [](IInv /\ PassTwoKeeps /\ BeforeAndAfter /\ CleanIInv)
<1> DEFINE I == IInv /\ PassTwoKeeps /\ BeforeAndAfter /\ CleanIInv
<1>1. Init => I
  BY InitKept, InitClean
<1>2. I /\ [Next]_vars => I'
  <2> SUFFICES ASSUME I, [Next]_vars PROVE I'
    OBVIOUS
  <2>1. IInv'
    BY StepKept
  <2>2. CASE Next
    BY <2>1, <2>2, PassTwoKept, BeforeAndAfterKept, CleanStep
  <2>3. CASE UNCHANGED vars
    BY <2>1, <2>3, CleanRests
  <2> QED BY <2>2, <2>3
<1> QED BY <1>1, <1>2, PTL DEF Spec

-----------------------------------------------------------------------------
(* The tree of directories as a recursive function, like the paths above.  *)

IsTree(f, e, n, g) == g = [k \in 0 .. n |-> IF k = 0 THEN RootPlaces ELSE Below(f, e, g[k - 1])]

LEMMA TreeBuilt ==
  ASSUME NEW f, NEW e, NEW n \in Nat, NEW t,
         t[0] = RootPlaces, \A k \in 1 .. n : t[k] = Below(f, e, t[k - 1])
  PROVE  \E g : IsTree(f, e, n, g)
<1> DEFINE g == [k \in 0 .. n |-> t[k]]
<1>1. ASSUME NEW k \in 0 .. n
      PROVE  t[k] = IF k = 0 THEN RootPlaces ELSE Below(f, e, g[k - 1])
  <2>1. CASE k = 0
    BY <2>1
  <2>2. CASE k # 0
    <3>1. k - 1 \in 0 .. n /\ k \in 1 .. n
      BY <2>2
    <3>2. g[k - 1] = t[k - 1]
      BY <3>1
    <3> QED BY <2>2, <3>1, <3>2
  <2> QED BY <2>1, <2>2
<1>2. IsTree(f, e, n, g)
  BY <1>1 DEF IsTree
<1> QED BY <1>2

LEMMA TreeValues ==
  ASSUME NEW f, NEW e, NEW n \in Nat, NEW g, IsTree(f, e, n, g)
  PROVE  g[0] = RootPlaces /\ \A k \in 1 .. n : g[k] = Below(f, e, g[k - 1])
<1> DEFINE h == [k \in 0 .. n |-> IF k = 0 THEN RootPlaces ELSE Below(f, e, g[k - 1])]
<1>1. g = h
  BY DEF IsTree
<1>2. h[0] = RootPlaces /\ \A k \in 1 .. n : h[k] = Below(f, e, g[k - 1])
  OBVIOUS
<1> HIDE DEF h
<1> QED BY <1>1, <1>2

LEMMA TreeExists ==
  ASSUME NEW f, NEW e, NEW n \in Nat
  PROVE  \E g : IsTree(f, e, n, g)
<1> DEFINE S == {m \in Nat : \E g : IsTree(f, e, m, g)}
<1>1. 0 \in S
  <2> DEFINE t == [k \in 0 .. 0 |-> RootPlaces]
  <2>1. t[0] = RootPlaces /\ 0 \in Nat
    OBVIOUS
  <2> HIDE DEF t
  <2>2. \A k \in 1 .. 0 : t[k] = Below(f, e, t[k - 1])
    OBVIOUS
  <2>3. \E g : IsTree(f, e, 0, g)
    BY <2>1, <2>2, TreeBuilt, Zenon
  <2> QED BY <2>1, <2>3
<1>2. ASSUME NEW m \in Nat, m \in S
      PROVE  m + 1 \in S
  <2>1. PICK g : IsTree(f, e, m, g)
    BY <1>2
  <2>2. g[0] = RootPlaces /\ \A k \in 1 .. m : g[k] = Below(f, e, g[k - 1])
    BY <2>1, TreeValues
  <2> DEFINE h == [k \in 0 .. m + 1 |-> IF k = m + 1 THEN Below(f, e, g[m]) ELSE g[k]]
  <2>3. h[0] = RootPlaces
    BY <2>2
  <2>4. \A k \in 1 .. m + 1 : h[k] = Below(f, e, h[k - 1])
    <3> TAKE k \in 1 .. m + 1
    <3>1. h[k - 1] = g[k - 1]
      OBVIOUS
    <3>2. CASE k = m + 1
      BY <3>1, <3>2
    <3>3. CASE k \in 1 .. m
      <4>1. h[k] = g[k]
        BY <3>3
      <4> HIDE DEF h
      <4> QED BY <2>2, <3>1, <3>3, <4>1
    <3> QED BY <3>2, <3>3
  <2> HIDE DEF h
  <2>5. m + 1 \in Nat
    OBVIOUS
  <2>6. \E p : IsTree(f, e, m + 1, p)
    BY <2>3, <2>4, <2>5, TreeBuilt, Zenon
  <2> QED BY <2>5, <2>6
<1> HIDE DEF S
<1>3. n \in S
  BY <1>1, <1>2, AllNaturals
<1> QED BY <1>3 DEF S

(* A set of places with those of the root directory and of every directory *)
(* in it has all that the tree reaches.                                    *)
LEMMA ReachedWithin ==
  ASSUME NEW f, NEW e, NEW D, RootPlaces \subseteq D,
         \A p \in D : e[p].used /\ e[p].dir => Chain(f, e[p].cluster) \subseteq D
  PROVE  Reached(f, e) \subseteq D
<1> DEFINE n == MaxCluster
           g == CHOOSE h : IsTree(f, e, n, h)
<1>1. n \in Nat
  BY Numbers
<1>2. IsTree(f, e, n, g)
  BY <1>1, TreeExists
<1>3. Reached(f, e) = g[n]
  BY DEF Reached, IsTree
<1> HIDE DEF n, g
<1>4. g[0] = RootPlaces /\ \A k \in 1 .. n : g[k] = Below(f, e, g[k - 1])
  BY <1>1, <1>2, TreeValues
<1> DEFINE S == {k \in Nat : k <= n => g[k] \subseteq D}
<1>5. 0 \in S
  BY <1>4
<1>6. ASSUME NEW k \in Nat, k \in S
      PROVE  k + 1 \in S
  <2> SUFFICES ASSUME k + 1 <= n PROVE g[k + 1] \subseteq D
    OBVIOUS
  <2>1. g[k] \subseteq D
    BY <1>1, <1>6
  <2>2. k + 1 \in 1 .. n /\ (k + 1) - 1 = k
    BY <1>1
  <2>3. g[k + 1] = Below(f, e, g[k])
    BY <1>4, <2>2
  <2> QED BY <2>1, <2>3 DEF Below
<1> HIDE DEF S
<1>7. n \in S
  BY <1>1, <1>5, <1>6, AllNaturals
<1> QED BY <1>1, <1>3, <1>7 DEF S

LEMMA CleanExitHolds ==
  ASSUME IInv, BeforeAndAfter, CleanIInv
  PROVE  CleanExit
<1> SUFFICES ASSUME code = 0
             PROVE  /\ Disjoint(fat, ent)
                    /\ \A p \in Reached(fat, ent) : ent[p] = saved[p] /\ Covered(fat, ent[p])
                    /\ Cardinality(answers) = 1 => Sized(fat, ent)
  BY DEF CleanExit
<1>1. PICK D, V \in SUBSET Places : Clean(D, V)
  BY DEF CleanIInv
<1>2. /\ errors = 0 /\ stack = <<>> /\ NoLoops(fat)
      /\ \A c \in Clusters : fat[c] \in Clusters => ref[fat[c]] = c
  BY DEF BeforeAndAfter, NoLoops, Linked
<1>3. RootPlaces \subseteq D /\ Finished(D)
  BY <1>1, <1>2 DEF Clean, Standing
<1>4. Reached(fat, ent) \subseteq D
  BY <1>3, ReachedWithin DEF Finished
<1>5. \A p \in D : /\ ent[p] = saved[p] /\ (ent[p].used => Fit(ent[p]))
                   /\ Owner(p) => ent[p].cluster \in Clusters /\ ref[ent[p].cluster] = 0
  BY <1>3 DEF Finished, Owner, Fit, IsHead
<1>6. Disjoint(fat, ent)
  <2> DEFINE own == Reached(fat, ent) \cap Owners(ent)
  <2>1. \A p \in own : p \in D /\ Owner(p)
    BY <1>4 DEF Owners, Owner
  <2>2. ASSUME NEW p \in own, NEW q \in own, p # q,
               NEW x, x \in Chain(fat, ent[p].cluster), x \in Chain(fat, ent[q].cluster)
        PROVE  FALSE
    <3>1. PICK c \in Clusters, d \in Clusters :
            c = ent[p].cluster /\ d = ent[q].cluster /\ ref[c] = 0 /\ ref[d] = 0
      BY <1>5, <2>1
    <3>2. c = d
      BY <1>2, <2>2, <3>1, HeadsApart
    <3> QED BY <1>3, <2>1, <2>2, <3>1, <3>2 DEF Finished
  <2> QED BY <1>5, <2>1, <2>2 DEF Disjoint
<1>7. \A p \in Reached(fat, ent) : ent[p] = saved[p] /\ Covered(fat, ent[p])
  BY <1>4, <1>5 DEF Covered, Fit
<1>8. Cardinality(answers) = 1 => Sized(fat, ent)
  BY <1>4, <1>5 DEF Sized, Fit
<1> QED BY <1>6, <1>7, <1>8

(* "filesystem has no errors" (main) is the truth wherever unsigned long   *)
(* is wider than the sizes of files, whatever volume dmsdosfsck was given  *)
(* and whatever the user answered: if the exit code is 0, no two entries   *)
(* of the directory tree share a cluster, every file has the clusters its  *)
(* size needs, each entry is on the disk as it was repaired, and with the  *)
(* same answer to all questions (-a, or no option) sizes and chains agree. *)
THEOREM CleanExitIsTrue == LongsAreWide => (Spec => []CleanExit)
<1> SUFFICES ASSUME LongsAreWide PROVE Spec => []CleanExit
  OBVIOUS
<1>1. Spec => [](IInv /\ PassTwoKeeps /\ BeforeAndAfter /\ CleanIInv)
  BY CleanInvariant
<1>2. IInv /\ PassTwoKeeps /\ BeforeAndAfter /\ CleanIInv => CleanExit
  BY CleanExitHolds
<1> QED BY <1>1, <1>2, PTL

-----------------------------------------------------------------------------
(* A volume in order, and how far the tree of its directories is walked.   *)

Tree(f, e) == CHOOSE h : IsTree(f, e, MaxCluster, h)
Level(f, e, n) == Tree(f, e)[n]

(* A directory is one level above what is in it.                           *)
LEMMA Levels ==
  ASSUME NEW f, NEW e
  PROVE  /\ Level(f, e, 0) = RootPlaces
         /\ \A n \in 0 .. MaxCluster : Level(f, e, n) \subseteq Reached(f, e)
         /\ \A n \in 0 .. MaxCluster - 1 : \A p \in Level(f, e, n) :
              e[p].used /\ e[p].dir => Chain(f, e[p].cluster) \subseteq Level(f, e, n + 1)
<1> DEFINE m == MaxCluster
           g == Tree(f, e)
<1>1. m \in Nat
  BY Numbers
<1>2. IsTree(f, e, m, g)
  BY <1>1, TreeExists DEF Tree
<1>3. Reached(f, e) = g[m]
  BY DEF Reached, IsTree, Tree
<1> HIDE DEF m, g
<1>4. g[0] = RootPlaces /\ \A k \in 1 .. m : g[k] = Below(f, e, g[k - 1])
  BY <1>1, <1>2, TreeValues
<1>5. \A n \in 0 .. m - 1 : g[n + 1] = Below(f, e, g[n])
  <2> TAKE n \in 0 .. m - 1
  <2>1. n + 1 \in 1 .. m /\ (n + 1) - 1 = n
    BY <1>1
  <2> QED BY <1>4, <2>1
<1>6. ASSUME NEW n \in 0 .. m
      PROVE  g[n] \subseteq g[m]
  <2> DEFINE S == {k \in Nat : n + k <= m => g[n] \subseteq g[n + k]}
  <2>1. 0 \in S
    BY <1>1
  <2>2. ASSUME NEW k \in Nat, k \in S
        PROVE  k + 1 \in S
    <3> SUFFICES ASSUME n + (k + 1) <= m PROVE g[n] \subseteq g[n + (k + 1)]
      OBVIOUS
    <3>1. PICK j \in 0 .. m - 1 : j = n + k /\ j + 1 = n + (k + 1)
      BY <1>1
    <3>2. g[n] \subseteq g[j]
      BY <1>1, <2>2, <3>1
    <3>3. g[j] \subseteq g[j + 1]
      BY <1>5 DEF Below
    <3> QED BY <3>1, <3>2, <3>3
  <2>3. m - n \in Nat /\ n + (m - n) = m
    BY <1>1
  <2> HIDE DEF S
  <2>4. m - n \in S
    BY <2>1, <2>2, <2>3, AllNaturals
  <2>5. n + (m - n) <= m
    BY <1>1, <2>3
  <2>6. g[n] \subseteq g[n + (m - n)]
    BY <2>4, <2>5 DEF S
  <2> QED BY <2>3, <2>6
<1>7. \A n \in 0 .. m - 1 : \A p \in g[n] :
        e[p].used /\ e[p].dir => Chain(f, e[p].cluster) \subseteq g[n + 1]
  BY <1>5 DEF Below
<1> QED BY <1>3, <1>4, <1>6, <1>7 DEF Level, g, m

(* What has been found of the volume so far is in order.                   *)
Brought ==
  /\ InOrder(fat, ent, dots) /\ mdfat = "sound" /\ saved = ent
  /\ errors = 0 /\ (pc = "exit" => code = 0)
  /\ \A v \in Clusters : ref[v] # 0 => /\ ref[v] \in Clusters /\ fat[ref[v]] = v
                                       /\ pc = "fat" => ref[v] < i
  /\ pc \in {"fat", "chains", "simple"} => \A c \in Clusters : ~start[c]
  /\ pc = "chains" /\ at # 0 => at \in Chain(fat, i) /\ fat[i] \in Clusters

(* The entry whose check has not begun.                                    *)
Fresh(p) == pc = "entry" /\ p = Here.place

(* The directories being read are different ones of the tree, read up to   *)
(* where the calls are.                                                    *)
CallsSound(V) ==
  /\ \A k \in 1 .. Len(stack) :
       /\ stack[k].place \in V \cap Level(fat, ent, Len(stack) - k) \cap Listing(k)
       /\ Ahead(k) \subseteq Listing(k) /\ Ahead(k) \cap V = {}
       /\ Listing(k) \subseteq V \cup Ahead(k)
       /\ stack[k].errors = 0
       /\ k > 1 => /\ ent[stack[k].place].used /\ ent[stack[k].place].dir
                   /\ ent[stack[k].place].cluster = stack[k - 1].dir
  /\ \A k, m \in 1 .. Len(stack) : stack[k].place = stack[m].place => k = m

(* First clusters are marked for the entries that were visited, and what   *)
(* is in a directory is visited after it.                                  *)
VisitsSound(V) ==
  /\ V \subseteq Reached(fat, ent)
  /\ \A c \in Clusters : start[c] => \E p \in V : Owner(p) /\ ent[p].cluster = c /\ ~Fresh(p)
  /\ \A p \in V : Owner(p) => start[ent[p].cluster] \/ Fresh(p)
  /\ \A x \in V \cap Clusters : \E p \in V :
       Owner(p) /\ ent[p].dir /\ x \in Chain(fat, ent[p].cluster) /\ ~Fresh(p)
  /\ \A p \in V : ent[p].used /\ ent[p].dir =>
       \/ Chain(fat, ent[p].cluster) \subseteq V
       \/ pc \in {"entry", "dir"} /\ p = Here.place
       \/ \E k \in 2 .. Len(stack) : p = stack[k].place

(* No part of check_direntry has anything to complain of.                  *)
Pleased(V) ==
  /\ pc # "irreparable"
  /\ pc = "dir" => E.used /\ E.dir /\ Chain(fat, E.cluster) \cap V = {}
  /\ pc \in {"file", "walk"} => E.used /\ ~E.dir
  /\ pc = "ascend" => E.used /\ E.dir /\ result = 0
  /\ pc = "return" => result = 0
  /\ stack = <<>> => RootPlaces \subseteq V

Touring(V) == CallsSound(V) /\ VisitsSound(V) /\ Pleased(V)
HealthyInv ==
  healthy => Brought /\ (pc \in PassFour \cup {"unused"} => \E V \in SUBSET Places : Touring(V))

LEMMA OwnersApart ==
  ASSUME InOrder(fat, ent, dots),
         NEW p \in Places, p \in Reached(fat, ent), Owner(p),
         NEW q \in Places, q \in Reached(fat, ent), Owner(q),
         NEW x, x \in Chain(fat, ent[p].cluster), x \in Chain(fat, ent[q].cluster)
  PROVE  p = q
<1>1. p \in Reached(fat, ent) \cap Owners(ent) /\ q \in Reached(fat, ent) \cap Owners(ent)
  BY DEF Owners, Owner
<1> QED BY <1>1 DEF InOrder, Disjoint

(* A first cluster starts the chain of its entry, nothing leads to it.     *)
LEMMA OwnerIs ==
  ASSUME IInv, Brought, NEW p \in Places, p \in Reached(fat, ent), Owner(p)
  PROVE  LET c == ent[p].cluster
         IN  /\ c \in Clusters /\ ref[c] = 0 /\ c \in Chain(fat, c) /\ NoLoops(fat)
             /\ ChainEnd(fat, c) = {FatEof}
<1> DEFINE c == ent[p].cluster
<1>1. /\ NoLoops(fat) /\ p \in Reached(fat, ent) \cap Owners(ent)
      /\ NothingLost(fat, ent) /\ InOrder(fat, ent, dots)
  BY DEF Brought, InOrder, Owners, Owner
<1>2. c \in Clusters /\ ChainEnd(fat, c) = {FatEof}
  BY <1>1 DEF InOrder, Disjoint, Ended
<1> HIDE DEF c
<1>3. /\ Chain(fat, c) = {c} \cup Chain(fat, fat[c])
      /\ c \in Chain(fat, c) /\ c \notin Chain(fat, fat[c])
  BY <1>1, <1>2, ChainSteps
<1>4. ASSUME ref[c] # 0
      PROVE  FALSE
  <2>1. PICK b \in Clusters : b = ref[c] /\ fat[b] = c
    BY <1>2, <1>4 DEF Brought
  <2>2. PICK q \in Places : q \in Reached(fat, ent) /\ Owner(q) /\ b \in Chain(fat, ent[q].cluster)
    BY <1>1, <1>2, <2>1 DEF NothingLost, Owners, Owner
  <2>3. c \in Chain(fat, ent[q].cluster)
    BY <1>1, <1>3, <2>1, <2>2, SubChain
  <2>4. p = q
    BY <1>1, <1>3, <2>2, <2>3, OwnersApart DEF c
  <2>5. b \in Chain(fat, c)
    BY <2>2, <2>4 DEF c
  <2>6. c \in Chain(fat, fat[c])
    <3>1. CASE b = c
      BY <1>3, <2>1, <3>1
    <3>2. CASE b # c
      <4>1. b \in Chain(fat, fat[c])
        BY <1>3, <2>5, <3>2
      <4>2. Chain(fat, fat[b]) \subseteq Chain(fat, fat[c])
        BY <1>1, <4>1, SubChain
      <4> QED BY <1>3, <2>1, <4>2
    <3> QED BY <3>1, <3>2
  <2> QED BY <1>3, <2>6
<1> QED BY <1>1, <1>2, <1>3, <1>4 DEF c

(* The sizes of a volume in order are accepted.                            *)
LEMMA LastByte ==
  ASSUME NEW n \in 1 .. MaxCluster
  PROVE  ((FatSize(n) - 1) % WORD) \div ClusterSize = n - 1
<1> DEFINE b == ClusterSize
<1>1. /\ b \in Nat \ {0} /\ WORD \in Nat /\ SizeLimit \in Nat /\ SizeLimit <= WORD
      /\ n * b \in 0 .. SizeLimit - 1 /\ FatSize(n) = n * b /\ n \in Nat
  BY Sizes, Numbers
<1>2. PICK k \in Nat : n = k + 1
  <2>1. n - 1 \in Nat /\ n = (n - 1) + 1
    BY <1>1
  <2> QED BY <2>1
<1>3. n * b = b * k + b /\ b * k \in Nat
  BY <1>1, <1>2
<1>4. PICK x \in Nat : x = n * b - 1 /\ x < WORD /\ b * k <= x /\ x < b * k + b
  <2>1. n * b - 1 \in Nat
    BY <1>1, <1>3
  <2> QED BY <1>1, <1>3, <2>1
<1>5. x % WORD = x
  BY <1>1, <1>4
<1>6. x \div b = k
  BY <1>1, <1>4, DivisionIs
<1> QED BY <1>1, <1>2, <1>4, <1>5, <1>6

(* Where the check is, in a volume in order.                               *)
LEMMA HereInOrder ==
  ASSUME IInv, pc \in PassFour, Brought, NEW V, CallsSound(V), VisitsSound(V)
  PROVE  /\ stack # <<>> /\ stack \in Seq(Frames) /\ Len(stack) \in Nat /\ 1 \in 1 .. Len(stack)
         /\ Len(stack) >= 1 /\ Here = stack[1] /\ Here.errors = 0 /\ E = ent[Here.place]
         /\ Here.place \in V /\ Here.place \in Places /\ Here.place \in Reached(fat, ent)
         /\ E.used => SizeFits(fat, E)
         /\ E.used /\ E.cluster # 0 => E.cluster \in Clusters
         /\ E.used /\ E.dir => E.cluster \in Clusters /\ Owner(Here.place)
<1> DEFINE q == Here.place
<1>1. /\ stack # <<>> /\ stack \in Seq(Frames) /\ Len(stack) \in Nat /\ Len(stack) >= 1
      /\ Here = stack[1] /\ q \in Places /\ E = ent[q]
  BY PlaceHere DEF IInv, Typed, E
<1>2. 1 \in 1 .. Len(stack)
  BY <1>1
<1>3. q \in V /\ Here.errors = 0
  BY <1>1, <1>2 DEF CallsSound
<1>4. q \in Reached(fat, ent)
  BY <1>3 DEF VisitsSound
<1>5. Sized(fat, ent) /\ Disjoint(fat, ent) /\ Rooted(fat, ent, dots)
  BY DEF Brought, InOrder
<1> HIDE DEF q
<1>6. E.used => SizeFits(fat, E)
  BY <1>1, <1>4, <1>5 DEF Sized
<1>7. E.used /\ E.cluster # 0 => E.cluster \in Clusters
  BY <1>1, <1>4, <1>5 DEF Disjoint, Owners
<1>8. E.used /\ E.dir => E.cluster \in Clusters /\ Owner(q)
  BY <1>1, <1>4, <1>5, Numbers DEF Rooted, Owner
<1> QED BY <1>1, <1>2, <1>3, <1>4, <1>6, <1>7, <1>8 DEF q

LEMMA BroughtKept ==
  ASSUME Brought, UNCHANGED <<volume, given, ref, errors>>, pc' \in PassFour \cup {"unused"}
  PROVE  Brought'
<1>1. UNCHANGED <<fat, ent, saved, dots, mdfat, ref, errors>>
  BY DEF volume, given
<1>2. pc' \notin {"fat", "chains", "simple", "exit"}
  BY DEF PassFour
<1>3. InOrder(fat', ent', dots')
  BY <1>1 DEF Brought
<1> QED BY <1>1, <1>2, <1>3 DEF Brought

LEMMA SameCalls ==
  ASSUME UNCHANGED <<fat, ent, stack>>, NEW V, CallsSound(V)
  PROVE  CallsSound(V)'
<1>1. \A k \in 1 .. Len(stack) : Listing(k)' = Listing(k) /\ Ahead(k)' = Ahead(k)
  BY DEF Listing, Ahead
<1> QED BY <1>1 DEF CallsSound

(* A step that ends no visit and begins none.                              *)
LEMMA SameTour ==
  ASSUME UNCHANGED <<fat, ent, start, stack>>, NEW V, CallsSound(V), VisitsSound(V),
         pc \notin {"entry", "dir"}, pc' \notin {"entry", "dir"}
  PROVE  CallsSound(V)' /\ VisitsSound(V)'
<1>1. \A p : Owner(p)' = Owner(p) /\ ~Fresh(p) /\ ~Fresh(p)'
  BY DEF Owner, Fresh
<1> QED BY <1>1, SameCalls DEF VisitsSound

(* What each step of pass 4 does to a volume in order.                     *)
Orderly ==
  /\ UNCHANGED <<volume, given, ref, errors>> /\ pc' \in PassFour \cup {"unused"}
  /\ \E W \in SUBSET Places : Touring(W)'

LEMMA CheckFileOrderly ==
  ASSUME IInv, Brought, NEW V \in SUBSET Places, Touring(V), CheckFile
  PROVE  Orderly
<1>1. /\ pc = "file" /\ CallsSound(V) /\ VisitsSound(V) /\ E.used /\ ~E.dir
      /\ stack # <<>> /\ SizeFits(fat, E) /\ E.size \in Int
  <2>1. pc = "file" /\ pc \in PassFour /\ CallsSound(V) /\ VisitsSound(V) /\ E.used /\ ~E.dir
    BY DEF CheckFile, PassFour, Touring, Pleased
  <2>2. E \in Entry
    BY <2>1, PlaceHere DEF IInv
  <2> QED BY <2>1, <2>2, HereInOrder DEF Entry
<1>2. E.cluster = 0 => E.size = 0
  BY <1>1 DEF SizeFits
<1>3. /\ UNCHANGED <<fat, ent, saved, dots, mdfat, answers, healthy, ref, start, stack, errors>>
      /\ pc' = "walk" \/ (pc' = "return" /\ result' = 0)
  BY <1>2 DEF CheckFile, Return, Goto, given, tables
<1>4. CallsSound(V)' /\ VisitsSound(V)'
  BY <1>1, <1>3, SameTour
<1>5. Pleased(V)'
  BY <1>1, <1>3 DEF Pleased, E, Here
<1> QED BY <1>3, <1>4, <1>5 DEF Orderly, Touring, PassFour, volume, given

LEMMA WalkFileOrderly ==
  ASSUME IInv, Brought, NEW V \in SUBSET Places, Touring(V), WalkFile
  PROVE  Orderly
<1>1. /\ pc = "walk" /\ pc' = "walk" /\ CallsSound(V) /\ VisitsSound(V) /\ E.used /\ ~E.dir
      /\ UNCHANGED <<fat, ent, saved, dots, mdfat, answers, healthy, ref, start, stack, errors>>
  BY DEF WalkFile, Touring, Pleased, given, volume, tables
<1>2. stack # <<>>
  BY <1>1 DEF IInv, Stacked, PassFour
<1>3. CallsSound(V)' /\ VisitsSound(V)'
  BY <1>1, SameTour
<1>4. Pleased(V)'
  BY <1>1, <1>2 DEF Pleased, E, Here
<1> QED BY <1>1, <1>3, <1>4 DEF Orderly, Touring, PassFour, volume, given

LEMMA FileEndsOrderly ==
  ASSUME IInv, Brought, NEW V \in SUBSET Places, Touring(V), FileEnds
  PROVE  Orderly
<1> DEFINE n == Len(walked)
           c == E.cluster
           b == walked[n]
<1>1. /\ pc = "walk" /\ at \notin Clusters /\ CallsSound(V) /\ VisitsSound(V)
      /\ E.used /\ ~E.dir /\ c \in Clusters
  BY DEF FileEnds, Touring, Pleased, IInv, Walking
<1>2. /\ stack # <<>> /\ SizeFits(fat, E) /\ E = ent[Here.place]
      /\ Here.place \in Places /\ Here.place \in Reached(fat, ent)
  BY <1>1, HereInOrder DEF PassFour
<1>3. n \in Nat /\ n > 0 /\ n = Cardinality(Chain(fat, c)) /\ n < MaxCluster
  BY <1>1, WalkedAll, WalkedFew DEF ChainHere
<1>4. n \in 1 .. MaxCluster
  BY <1>3, Numbers
<1>5. at = FatEof
  <2>1. b \in Clusters /\ fat[b] = at
    BY <1>1, LastWalked
  <2>2. Owner(Here.place)
    BY <1>1, <1>2, Numbers DEF Owner
  <2>3. NoLoops(fat) /\ ChainEnd(fat, c) = {FatEof}
    BY <1>2, <2>2, OwnerIs
  <2>4. b = Along(fat, c, n - 1) /\ n - 1 \in Nat
    <3>1. n \in 1 .. n
      BY <1>3
    <3> QED BY <1>1, <1>3, <3>1 DEF IInv, Walking
  <2>5. b \in Chain(fat, c)
    BY <2>1, <2>3, <2>4, InChain
  <2>6. at \in ChainEnd(fat, c)
    BY <1>1, <2>1, <2>5 DEF ChainEnd
  <2> QED BY <2>3, <2>6
<1>6. Accepts(E.size, n)
  <2>1. E.size = n * ClusterSize \/ E.size \div ClusterSize = n - 1
    BY <1>1, <1>2, <1>3, Numbers DEF SizeFits
  <2>2. FatSize(n) = n * ClusterSize
    BY <1>4, Sizes
  <2> HIDE DEF n
  <2>3. ((FatSize(n) - 1) % WORD) \div ClusterSize = n - 1
    BY <1>4, LastByte
  <2> QED BY <2>1, <2>2, <2>3 DEF Accepts
<1>7. /\ UNCHANGED <<fat, ent, saved, dots, mdfat, answers, healthy, ref, start, stack, errors>>
      /\ pc' = "return" /\ result' = 0
  <2>1. at # 0 /\ at \notin {1, Bad}
    BY <1>5, Numbers
  <2>2. CompareSize(n) /\ UNCHANGED fat
    BY <2>1 DEF FileEnds
  <2>3. Return(0) /\ UNCHANGED <<ent, stack>>
    BY <1>6, <2>2 DEF CompareSize
  <2> QED BY <2>2, <2>3 DEF FileEnds, Return, Goto, given, tables
<1>8. CallsSound(V)' /\ VisitsSound(V)'
  BY <1>1, <1>7, SameTour
<1>9. Pleased(V)'
  BY <1>2, <1>7 DEF Pleased
<1> QED BY <1>7, <1>8, <1>9 DEF Orderly, Touring, PassFour, volume, given

LEMMA AscendOrderly ==
  ASSUME IInv, Brought, NEW V \in SUBSET Places, Touring(V), Ascend
  PROVE  Orderly
<1>1. /\ pc = "ascend" /\ CallsSound(V) /\ VisitsSound(V) /\ E.used /\ E.dir /\ result = 0
  BY DEF Ascend, Touring, Pleased
<1>2. stack # <<>> /\ E.size = 0
  <2>1. stack # <<>> /\ SizeFits(fat, E)
    BY <1>1, HereInOrder DEF PassFour
  <2> QED BY <1>1, <2>1 DEF SizeFits
<1>3. /\ UNCHANGED <<fat, ent, saved, dots, mdfat, answers, healthy, ref, start, stack, errors>>
      /\ pc' = "return" /\ result' = 0
  BY <1>1, <1>2 DEF Ascend, Goto, given, tables
<1>4. CallsSound(V)' /\ VisitsSound(V)'
  BY <1>1, <1>3, SameTour
<1>5. Pleased(V)'
  BY <1>2, <1>3 DEF Pleased
<1> QED BY <1>3, <1>4, <1>5 DEF Orderly, Touring, PassFour, volume, given

LEMMA CheckEntryOrderly ==
  ASSUME IInv, Brought, NEW V \in SUBSET Places, Touring(V), CheckEntry
  PROVE  Orderly
<1> DEFINE q == Here.place
           c == E.cluster
<1>1. pc = "entry" /\ CallsSound(V) /\ VisitsSound(V)
  BY DEF CheckEntry, Touring
<1>2. /\ stack # <<>> /\ E = ent[q] /\ q \in V /\ q \in Places /\ q \in Reached(fat, ent)
      /\ E.used /\ c # 0 => c \in Clusters
      /\ E.used /\ E.dir => c \in Clusters
  BY <1>1, HereInOrder DEF PassFour
<1>3. \A p : Fresh(p) <=> p = q
  BY <1>1 DEF Fresh
<1>4. \A p \in V : p \in Places /\ p \in Reached(fat, ent)
  BY <1>1 DEF VisitsSound
<1>5. InOrder(fat, ent, dots)
  BY DEF Brought
<1>6. E.used => ~Misplaced(c)
  <2> SUFFICES ASSUME E.used, Misplaced(c) PROVE FALSE
    OBVIOUS
  <2>1. c # 0
    BY Numbers DEF Misplaced, Taken
  <2>2. c \in Clusters /\ Owner(q)
    BY <1>2, <2>1 DEF Owner
  <2>3. ref[c] = 0 /\ c \in Chain(fat, c)
    BY <1>2, <2>2, OwnerIs
  <2>4. start[c]
    BY <2>2, <2>3, Numbers DEF Misplaced, Taken
  <2>5. PICK p \in V : Owner(p) /\ ent[p].cluster = c /\ p # q
    BY <1>1, <1>3, <2>2, <2>4 DEF VisitsSound
  <2> QED BY <1>2, <1>4, <1>5, <2>2, <2>3, <2>5, OwnersApart
<1>7. /\ UNCHANGED <<fat, ent, saved, dots, mdfat, answers, healthy, ref, stack, errors>>
      /\ \/ ~E.used /\ pc' = "return" /\ result' = 0 /\ start' = start
         \/ /\ E.used /\ pc' = IF E.dir THEN "dir" ELSE "file"
            /\ start' = IF c = 0 THEN start ELSE [start EXCEPT ![c] = TRUE]
  BY <1>6 DEF CheckEntry, Return, Goto, given
<1>8. CallsSound(V)'
  BY <1>1, <1>7, SameCalls
<1>9. VisitsSound(V)'
  <2>1. \A p : ~Fresh(p)'
    BY <1>7 DEF Fresh
  <2>2. \A p : Owner(p)' = Owner(p)
    BY <1>7 DEF Owner
  <2>3. /\ \A b \in Clusters : start[b] => start'[b]
        /\ \A b \in Clusters : start'[b] => start[b] \/ (Owner(q) /\ b = c)
        /\ Owner(q) => start'[c]
    BY <1>2, <1>7 DEF Owner, IInv, Typed
  <2>4. \A b \in Clusters : start'[b] => \E p \in V : Owner(p) /\ ent[p].cluster = b
    BY <1>1, <1>2, <2>3 DEF VisitsSound
  <2>5. \A p \in V : Owner(p) => start'[ent[p].cluster]
    <3> TAKE p \in V
    <3> HAVE Owner(p)
    <3>1. p \in Reached(fat, ent) \cap Owners(ent)
      BY <1>4 DEF Owner, Owners
    <3>2. ent[p].cluster \in Clusters
      BY <1>5, <3>1 DEF InOrder, Disjoint
    <3> QED BY <1>1, <1>2, <1>3, <2>3, <3>2 DEF VisitsSound
  <2>6. \A x \in V \cap Clusters : \E p \in V :
          Owner(p) /\ ent[p].dir /\ x \in Chain(fat, ent[p].cluster)
    BY <1>1 DEF VisitsSound
  <2>7. \A p \in V : ent[p].used /\ ent[p].dir =>
          \/ Chain(fat, ent[p].cluster) \subseteq V
          \/ pc' \in {"entry", "dir"} /\ p = q
          \/ \E k \in 2 .. Len(stack) : p = stack[k].place
    BY <1>1, <1>2, <1>7 DEF VisitsSound
  <2>8. V \subseteq Reached(fat, ent)
    BY <1>1 DEF VisitsSound
  <2>9. Here'.place = q
    BY <1>7 DEF Here
  <2> QED BY <1>7, <2>1, <2>2, <2>4, <2>5, <2>6, <2>7, <2>8, <2>9 DEF VisitsSound
<1>10. E.used /\ E.dir => Chain(fat, c) \cap V = {}
  <2> SUFFICES ASSUME E.used, E.dir, NEW x, x \in Chain(fat, c), x \in V PROVE FALSE
    OBVIOUS
  <2>1. Owner(q) /\ x \in Clusters
    BY <1>2, Numbers DEF Owner, Chain
  <2>2. PICK p \in V : Owner(p) /\ x \in Chain(fat, ent[p].cluster) /\ p # q
    BY <1>1, <1>3, <2>1 DEF VisitsSound
  <2> QED BY <1>2, <1>4, <1>5, <2>1, <2>2, OwnersApart
<1>11. Pleased(V)'
  <2>1. E' = E
    BY <1>7 DEF E, Here
  <2> QED BY <1>2, <1>7, <1>10, <2>1 DEF Pleased
<1> QED BY <1>7, <1>8, <1>9, <1>11 DEF Orderly, Touring, PassFour, volume, given

(* The directory whose entries a call reads, and the entry it is in.       *)
LEMMA CallsEntry ==
  ASSUME IInv, Brought, NEW V \in SUBSET Places, CallsSound(V), VisitsSound(V),
         NEW k \in 1 .. Len(stack), stack[k].dir # 0
  PROVE  LET q == stack[k + 1].place
         IN  /\ k + 1 \in 2 .. Len(stack) /\ q \in V /\ q \in Places /\ q \in Reached(fat, ent)
             /\ Owner(q) /\ ent[q].dir /\ ent[q].cluster = stack[k].dir
             /\ stack[k].dir \in Clusters /\ Listing(k) = Chain(fat, ent[q].cluster)
<1>1. /\ stack \in Seq(Frames) /\ Len(stack) \in Nat
      /\ stack[k].dir = 0 <=> k = Len(stack)
  BY DEF IInv, Typed, Stacked
<1>2. PICK m \in 2 .. Len(stack) : m = k + 1 /\ m \in 1 .. Len(stack) /\ m > 1 /\ m - 1 = k
  BY <1>1
<1>3. /\ stack[m].place \in V /\ ent[stack[m].place].used /\ ent[stack[m].place].dir
      /\ ent[stack[m].place].cluster = stack[k].dir
  BY <1>2 DEF CallsSound
<1>4. stack[k].dir \in Clusters
  <2>1. stack[k] \in Frames
    BY <1>1
  <2> QED BY <2>1 DEF Frames
<1> QED BY <1>2, <1>3, <1>4 DEF Owner, VisitsSound, Listing

(* No entry is in two of the directories that are being read.              *)
LEMMA CallsApart ==
  ASSUME IInv, Brought, NEW V \in SUBSET Places, CallsSound(V), VisitsSound(V),
         NEW k \in 1 .. Len(stack), NEW m \in 1 .. Len(stack), k # m
  PROVE  Listing(k) \cap Listing(m) = {}
<1>1. stack[k].dir # stack[m].dir
  BY DEF IInv, Stacked
<1>2. CASE stack[k].dir = 0 \/ stack[m].dir = 0
  BY <1>1, <1>2, RootApart DEF Listing, Chain
<1>3. CASE stack[k].dir # 0 /\ stack[m].dir # 0
  <2> SUFFICES ASSUME NEW x, x \in Listing(k), x \in Listing(m) PROVE FALSE
    OBVIOUS
  <2>1. PICK p \in Places : /\ p \in Reached(fat, ent) /\ Owner(p)
                            /\ ent[p].cluster = stack[k].dir /\ x \in Chain(fat, ent[p].cluster)
    BY <1>3, CallsEntry
  <2>2. PICK q \in Places : /\ q \in Reached(fat, ent) /\ Owner(q)
                            /\ ent[q].cluster = stack[m].dir /\ x \in Chain(fat, ent[q].cluster)
    BY <1>3, CallsEntry
  <2>3. p = q
    BY <2>1, <2>2, OwnersApart DEF Brought
  <2> QED BY <1>1, <2>1, <2>2, <2>3
<1> QED BY <1>2, <1>3

(* A directory of a volume in order can be entered.                        *)
LEMMA EnterableInOrder ==
  ASSUME IInv, Brought, NEW V \in SUBSET Places, Touring(V), pc = "dir"
  PROVE  Enterable(E.cluster)
<1> DEFINE p == Here.place
<1>1. CallsSound(V) /\ VisitsSound(V) /\ E.used /\ E.dir
  BY DEF Touring, Pleased
<1>2. /\ E = ent[p] /\ Here = stack[1] /\ 1 \in 1 .. Len(stack)
      /\ p \in Places /\ p \in Reached(fat, ent) /\ E.cluster \in Clusters
  BY <1>1, HereInOrder DEF PassFour
<1>3. InOrder(fat, ent, dots)
  BY DEF Brought
<1>4. dots[E.cluster] = HeldBy(fat, ent, p)
  BY <1>1, <1>2, <1>3 DEF InOrder, Rooted
<1>5. p \in IF Here.dir = 0 THEN RootPlaces ELSE Clusters
  BY <1>2 DEF IInv, Stacked
<1>6. HeldBy(fat, ent, p) = Here.dir
  <2>1. CASE Here.dir = 0
    BY <1>5, <2>1 DEF HeldBy
  <2>2. CASE Here.dir # 0
    <3> DEFINE T == Reached(fat, ent) \cap Owners(ent)
               H(r) == ent[r].dir /\ p \in Chain(fat, ent[r].cluster)
    <3>1. PICK q \in Places : /\ q \in Reached(fat, ent) /\ Owner(q) /\ ent[q].dir
                              /\ ent[q].cluster = Here.dir /\ p \in Chain(fat, ent[q].cluster)
      <4>1. p \in Listing(1)
        BY <1>1, <1>2 DEF CallsSound
      <4> QED BY <1>1, <1>2, <2>2, <4>1, CallsEntry
    <3>2. q \in T /\ H(q)
      BY <3>1 DEF Owner, Owners
    <3>3. \A r \in T : H(r) => r = q
      <4> TAKE r \in T
      <4> HAVE H(r)
      <4>1. r \in Places /\ r \in Reached(fat, ent) /\ Owner(r)
        BY DEF Owner, Owners
      <4> QED BY <1>3, <3>1, <4>1, OwnersApart
    <3>4. (CHOOSE r \in T : H(r)) = q
      <4>1. (CHOOSE r \in T : H(r)) \in T /\ H(CHOOSE r \in T : H(r))
        BY <3>2
      <4> QED BY <3>3, <4>1
    <3>5. p \notin RootPlaces
      BY <1>5, <2>2, RootApart
    <3> QED BY <3>1, <3>4, <3>5 DEF HeldBy
  <2> QED BY <2>1, <2>2
<1> QED BY <1>2, <1>4, <1>6, Numbers DEF Enterable

LEMMA CheckDirOrderly ==
  ASSUME IInv, Brought, NEW V \in SUBSET Places, Touring(V), CheckDir
  PROVE  Orderly
<1> DEFINE q == Here.place
           c == E.cluster
           n == Len(stack)
<1> PICK W : W = V \cup {c}
  OBVIOUS
<1>1. /\ pc = "dir" /\ CallsSound(V) /\ VisitsSound(V)
      /\ E.used /\ E.dir /\ Chain(fat, c) \cap V = {}
  BY DEF CheckDir, Touring, Pleased
<1>2. /\ stack # <<>> /\ stack \in Seq(Frames) /\ n \in Nat /\ n >= 1 /\ 1 \in 1 .. n
      /\ Here = stack[1] /\ E = ent[q] /\ q \in V /\ q \in Places /\ q \in Reached(fat, ent)
      /\ c \in Clusters /\ Owner(q)
  BY <1>1, HereInOrder DEF PassFour
<1>3. /\ pc' = "entry" /\ stack' = <<Frame(c, c)>> \o stack
      /\ UNCHANGED <<fat, ent, saved, dots, mdfat, answers, healthy, ref, start, errors>>
  <2>1. Enterable(c)
    BY <1>1, EnterableInOrder
  <2> QED BY <2>1 DEF CheckDir, Goto, given, volume, tables
<1>4. /\ c \in Chain(fat, c) /\ NoLoops(fat) /\ c \notin V /\ c # q
  BY <1>1, <1>2, OwnerIs
<1>5. /\ Chain(fat, c) = {c} \cup Chain(fat, fat[c]) /\ c \notin Chain(fat, fat[c])
  BY <1>2, <1>4, ChainSteps
<1>6. Frame(c, c) \in Frames /\ c \in Places
  BY <1>2, RootApart DEF Frame, Frames
<1>7. /\ stack' \in Seq(Frames) /\ Len(stack') = n + 1 /\ stack' # <<>>
      /\ stack'[1] = Frame(c, c)
      /\ \A k \in 1 .. n : stack'[k + 1] = stack[k]
  BY <1>2, <1>3, <1>6, PushedFrame
<1>8. c \in Level(fat, ent, n) /\ c \in Reached(fat, ent)
  <2>1. n <= MaxCluster /\ MaxCluster \in Nat
    BY StackFits, Numbers
  <2>2. PICK m \in 0 .. MaxCluster - 1 : m = n - 1 /\ m + 1 = n
    BY <1>2, <2>1
  <2>3. q \in Level(fat, ent, m)
    BY <1>1, <1>2, <2>2 DEF CallsSound
  <2>4. c \in Level(fat, ent, m + 1)
    BY <1>1, <1>2, <1>4, <2>3, Levels
  <2>5. n \in 0 .. MaxCluster
    BY <1>2, <2>1
  <2> QED BY <2>2, <2>4, <2>5, Levels
<1>9. \A k \in 1 .. n : c \notin Ahead(k)
  <2> SUFFICES ASSUME NEW k \in 1 .. n, c \in Listing(k) PROVE FALSE
    BY <1>1 DEF CallsSound
  <2>1. stack[k].dir # 0
    BY <1>2, RootApart DEF Listing
  <2>2. PICK m \in 2 .. n : /\ stack[m].place \in Places /\ stack[m].place \in Reached(fat, ent)
                            /\ Owner(stack[m].place)
                            /\ c \in Chain(fat, ent[stack[m].place].cluster)
    BY <1>1, <2>1, CallsEntry
  <2>3. stack[m].place = q
    BY <1>2, <1>4, <2>2, OwnersApart DEF Brought
  <2>4. m = 1
    BY <1>1, <1>2, <2>3 DEF CallsSound
  <2> QED BY <2>4
<1>10. /\ \A k \in 1 .. n + 1 : k = 1 \/ \E m \in 1 .. n : k = m + 1
       /\ \A k \in 1 .. n : Listing(k + 1)' = Listing(k) /\ Ahead(k + 1)' = Ahead(k)
       /\ Listing(1)' = Chain(fat, c) /\ Ahead(1)' = Chain(fat, fat[c])
  <2>1. \A k \in 1 .. n + 1 : k = 1 \/ \E m \in 1 .. n : k = m + 1
    <3> TAKE k \in 1 .. n + 1
    <3>1. CASE k # 1
      <4>1. k - 1 \in 1 .. n /\ k = (k - 1) + 1
        BY <1>2, <3>1
      <4> QED BY <4>1
    <3> QED BY <3>1
  <2>2. stack'[1].dir = c /\ stack'[1].place = c /\ c # 0
    BY <1>2, <1>7, Numbers DEF Frame
  <2> QED BY <1>3, <1>7, <2>1, <2>2 DEF Listing, Ahead
<1> HIDE DEF c, n, q
<1>11. CallsSound(W)'
  <2>1. ASSUME NEW k \in 1 .. Len(stack')
        PROVE  /\ stack'[k].place \in W
               /\ stack'[k].place \in Level(fat, ent, Len(stack') - k)
               /\ stack'[k].place \in Listing(k)'
               /\ Ahead(k)' \subseteq Listing(k)' /\ Ahead(k)' \cap W = {}
               /\ Listing(k)' \subseteq W \cup Ahead(k)'
               /\ stack'[k].errors = 0
               /\ k > 1 => /\ ent[stack'[k].place].used /\ ent[stack'[k].place].dir
                           /\ ent[stack'[k].place].cluster = stack'[k - 1].dir
    <3>1. CASE k = 1
      <4>1. stack'[1].place = c /\ stack'[1].errors = 0 /\ Len(stack') - 1 = n
        BY <1>2, <1>7 DEF Frame
      <4>2. Ahead(1)' \cap W = {} /\ Listing(1)' \subseteq W \cup Ahead(1)'
            /\ c \in Listing(1)' /\ Ahead(1)' \subseteq Listing(1)'
        BY <1>1, <1>5, <1>10
      <4> QED BY <1>8, <3>1, <4>1, <4>2
    <3>2. ASSUME NEW m \in 1 .. n, k = m + 1
          PROVE  /\ stack'[k].place \in W
                 /\ stack'[k].place \in Level(fat, ent, Len(stack') - k)
                 /\ stack'[k].place \in Listing(k)'
                 /\ Ahead(k)' \subseteq Listing(k)' /\ Ahead(k)' \cap W = {}
                 /\ Listing(k)' \subseteq W \cup Ahead(k)'
                 /\ stack'[k].errors = 0
                 /\ k > 1 => /\ ent[stack'[k].place].used /\ ent[stack'[k].place].dir
                             /\ ent[stack'[k].place].cluster = stack'[k - 1].dir
      <4>1. /\ stack[m].place \in V /\ stack[m].place \in Level(fat, ent, n - m)
            /\ stack[m].place \in Listing(m)
            /\ Ahead(m) \subseteq Listing(m) /\ Ahead(m) \cap V = {}
            /\ Listing(m) \subseteq V \cup Ahead(m) /\ stack[m].errors = 0
            /\ m > 1 => /\ ent[stack[m].place].used /\ ent[stack[m].place].dir
                        /\ ent[stack[m].place].cluster = stack[m - 1].dir
        BY <1>1 DEF CallsSound, n
      <4>2. /\ stack'[k] = stack[m] /\ Listing(k)' = Listing(m) /\ Ahead(k)' = Ahead(m)
            /\ Len(stack') - k = n - m /\ k - 1 = m
        BY <1>2, <1>7, <1>10, <3>2
      <4>3. c \notin Ahead(m)
        BY <1>9
      <4>4. /\ ent[stack'[k].place].used /\ ent[stack'[k].place].dir
            /\ ent[stack'[k].place].cluster = stack'[k - 1].dir
        <5>1. CASE m = 1
          <6>1. stack'[k - 1].dir = c /\ stack'[k].place = q
            BY <1>2, <1>7, <4>2, <5>1 DEF Frame, q
          <6> QED BY <1>1, <1>2, <6>1 DEF c
        <5>2. CASE m # 1
          <6>1. m - 1 \in 1 .. n /\ (m - 1) + 1 = m /\ m > 1
            BY <1>2, <5>2
          <6>2. stack'[k - 1] = stack[m - 1]
            BY <1>7, <4>2, <6>1
          <6> QED BY <4>1, <4>2, <6>1, <6>2
        <5> QED BY <5>1, <5>2
      <4> QED BY <4>1, <4>2, <4>3, <4>4
    <3> QED BY <1>7, <1>10, <3>1, <3>2
  <2>2. \A k, m \in 1 .. Len(stack') : stack'[k].place = stack'[m].place => k = m
    <3>1. stack'[1].place = c
      BY <1>7 DEF Frame
    <3>2. \A k \in 1 .. n : stack'[k + 1].place = stack[k].place /\ stack[k].place # c
      BY <1>1, <1>4, <1>7 DEF CallsSound, n
    <3>3. \A k, m \in 1 .. n : stack[k].place = stack[m].place => k = m
      BY <1>1 DEF CallsSound, n
    <3> QED BY <1>7, <1>10, <3>1, <3>2, <3>3
  <2> QED BY <1>3, <2>1, <2>2 DEF CallsSound
<1>12. VisitsSound(W)'
  <2>1. /\ \A p : Fresh(p)' <=> p = c
        /\ \A p : ~Fresh(p)
        /\ Here'.place = c
    BY <1>1, <1>3, <1>7 DEF Fresh, Here, Frame
  <2>2. \A p : Owner(p)' = Owner(p)
    BY <1>3 DEF Owner
  <2>3. W \subseteq Reached(fat, ent)
    BY <1>1, <1>8 DEF VisitsSound
  <2>4. \A b \in Clusters : start[b] => \E p \in W : Owner(p) /\ ent[p].cluster = b /\ p # c
    BY <1>1, <1>4 DEF VisitsSound
  <2>5. \A p \in W : Owner(p) => start[ent[p].cluster] \/ p = c
    BY <1>1, <2>1 DEF VisitsSound
  <2>6. \A x \in W \cap Clusters : \E p \in W :
          Owner(p) /\ ent[p].dir /\ x \in Chain(fat, ent[p].cluster) /\ p # c
    <3>1. \A x \in V \cap Clusters : \E p \in W :
            Owner(p) /\ ent[p].dir /\ x \in Chain(fat, ent[p].cluster) /\ p # c
      BY <1>1, <1>4 DEF VisitsSound
    <3>2. q \in W /\ Owner(q) /\ ent[q].dir /\ c \in Chain(fat, ent[q].cluster) /\ q # c
      BY <1>1, <1>2, <1>4 DEF c
    <3> QED BY <3>1, <3>2
  <2>7. \A p \in W : ent[p].used /\ ent[p].dir =>
          \/ Chain(fat, ent[p].cluster) \subseteq W
          \/ p = c
          \/ \E k \in 2 .. Len(stack') : p = stack'[k].place
    <3> TAKE p \in W
    <3> HAVE ent[p].used /\ ent[p].dir /\ p # c
    <3>1. \/ Chain(fat, ent[p].cluster) \subseteq V
          \/ p = q
          \/ \E k \in 2 .. n : p = stack[k].place
      BY <1>1 DEF VisitsSound, q, n
    <3>2. \A k \in 1 .. n : k + 1 \in 2 .. Len(stack') /\ stack'[k + 1].place = stack[k].place
      BY <1>2, <1>7
    <3>3. q = stack[1].place /\ 2 .. n \subseteq 1 .. n
      BY <1>2 DEF q
    <3> QED BY <1>2, <3>1, <3>2, <3>3
  <2> QED BY <1>3, <2>1, <2>2, <2>3, <2>4, <2>5, <2>6, <2>7 DEF VisitsSound
<1>13. Pleased(W)'
  BY <1>3, <1>7 DEF Pleased
<1>14. W \in SUBSET Places
  BY <1>6
<1> QED BY <1>3, <1>11, <1>12, <1>13, <1>14 DEF Orderly, Touring, PassFour, volume, given

(* No entry of a volume in order has to be written again.                  *)
LEMMA NothingWritten ==
  ASSUME IInv, Brought, NEW V \in SUBSET Places, Touring(V), NextEntry
  PROVE  /\ pc = "return" /\ CallsSound(V) /\ VisitsSound(V) /\ result = 0 /\ Counted = 0
         /\ UNCHANGED <<fat, ent, saved, dots, mdfat, answers, healthy, ref, start>>
<1>1. /\ pc = "return" /\ CallsSound(V) /\ VisitsSound(V) /\ result = 0
      /\ UNCHANGED <<fat, ent, dots, mdfat, answers, healthy, ref, start>> /\ WriteEntry
  BY DEF NextEntry, Touring, Pleased, given, tables
<1>2. Here.errors = 0
  BY <1>1, HereInOrder DEF PassFour
<1>3. saved = ent /\ saved \in [Places -> Entry]
  BY DEF Brought, IInv, Typed
<1>4. saved' = saved
  <2>1. CASE result = 0 /\ Here.need
    <3> DEFINE s == [p \in Places |-> IF \/ p = Here.place
                                         \/ Here.dir = 0 /\ p \in RootPlaces
                                      THEN ent[p] ELSE saved[p]]
    <3>1. saved' = s
      BY <1>1, <2>1 DEF WriteEntry
    <3>2. s = saved
      BY <1>3
    <3> QED BY <3>1, <3>2
  <2>2. CASE ~(result = 0 /\ Here.need)
    BY <1>1, <2>2 DEF WriteEntry
  <2> QED BY <2>1, <2>2
<1> QED BY <1>1, <1>2, <1>4 DEF Counted

LEMMA ContinueOrderly ==
  ASSUME IInv, Brought, NEW V \in SUBSET Places, Touring(V), NextEntry,
         NEW p \in Places, Continue(p), p \in Level(fat, ent, Len(stack) - 1),
         NEW A, Ahead(1) = {p} \cup A, p \notin A, Ahead(1)' = A,
         p \in Clusters => Here.dir # 0
  PROVE  Orderly
<1> DEFINE n == Len(stack)
           fr == [Here EXCEPT !.place = p, !.need = FALSE, !.errors = Counted]
<1> PICK W : W = V \cup {p}
  OBVIOUS
<1>1. /\ pc = "return" /\ CallsSound(V) /\ VisitsSound(V) /\ Counted = 0
      /\ UNCHANGED <<fat, ent, saved, dots, mdfat, answers, healthy, ref, start>>
  BY NothingWritten
<1>2. /\ stack # <<>> /\ stack \in Seq(Frames) /\ n \in Nat /\ n >= 1 /\ 1 \in 1 .. n
      /\ Here = stack[1]
  BY <1>1, HereInOrder DEF PassFour
<1>3. pc' = "entry" /\ UNCHANGED errors /\ stack' = <<fr>> \o Tail(stack)
  BY DEF Continue, Goto
<1>4. fr \in Frames /\ fr.dir = Here.dir /\ fr.place = p /\ fr.errors = 0
  <2>1. Here \in Frames
    BY <1>2
  <2> QED BY <1>1, <2>1 DEF Frames
<1> HIDE DEF fr
<1>5. /\ stack' \in Seq(Frames) /\ Len(stack') = n /\ stack' # <<>> /\ stack'[1] = fr
      /\ \A k \in 2 .. n : stack'[k] = stack[k]
  BY <1>2, <1>3, <1>4, ReplacedFrame
<1>6. p \notin V /\ p \in Listing(1) /\ Ahead(1) \cap V = {}
  BY <1>1, <1>2 DEF CallsSound
<1>7. p \in Reached(fat, ent)
  <2>1. n - 1 \in 0 .. MaxCluster
    BY <1>2, StackFits, Numbers
  <2> QED BY <2>1, Levels
<1>8. \A k \in 2 .. n : p \notin Ahead(k)
  <2> TAKE k \in 2 .. n
  <2>1. k \in 1 .. n /\ k # 1
    BY <1>2
  <2>2. Ahead(k) \subseteq Listing(k) /\ Listing(k) \cap Listing(1) = {}
    BY <1>1, <1>2, <2>1, CallsApart DEF CallsSound
  <2> QED BY <1>6, <2>2
<1>9. /\ \A k \in 2 .. n : Listing(k)' = Listing(k) /\ Ahead(k)' = Ahead(k)
      /\ Listing(1)' = Listing(1)
  BY <1>1, <1>2, <1>4, <1>5 DEF Listing, Ahead
<1>10. \A k \in 1 .. n : k = 1 \/ (k \in 2 .. n /\ k > 1)
  BY <1>2
<1> HIDE DEF n
<1>11. CallsSound(W)'
  <2>1. ASSUME NEW k \in 1 .. n
        PROVE  /\ stack'[k].place \in W
               /\ stack'[k].place \in Level(fat, ent, n - k)
               /\ stack'[k].place \in Listing(k)'
               /\ Ahead(k)' \subseteq Listing(k)' /\ Ahead(k)' \cap W = {}
               /\ Listing(k)' \subseteq W \cup Ahead(k)'
               /\ stack'[k].errors = 0
               /\ k > 1 => /\ ent[stack'[k].place].used /\ ent[stack'[k].place].dir
                           /\ ent[stack'[k].place].cluster = stack'[k - 1].dir
    <3>0. /\ stack[k].place \in V /\ stack[k].place \in Level(fat, ent, n - k)
          /\ stack[k].place \in Listing(k)
          /\ Ahead(k) \subseteq Listing(k) /\ Ahead(k) \cap V = {}
          /\ Listing(k) \subseteq V \cup Ahead(k) /\ stack[k].errors = 0
          /\ k > 1 => /\ ent[stack[k].place].used /\ ent[stack[k].place].dir
                      /\ ent[stack[k].place].cluster = stack[k - 1].dir
      BY <1>1 DEF CallsSound, n
    <3>1. CASE k = 1
      <4>1. stack'[1].place = p /\ stack'[1].errors = 0
        BY <1>4, <1>5
      <4>2. Ahead(1)' \cap W = {} /\ Listing(1)' \subseteq W \cup Ahead(1)'
            /\ p \in Listing(1)' /\ Ahead(1)' \subseteq Listing(1)'
        BY <1>6, <1>9, <3>0, <3>1
      <4>3. p \in Level(fat, ent, n - 1)
        BY DEF n
      <4> QED BY <3>1, <4>1, <4>2, <4>3
    <3>2. CASE k \in 2 .. n
      <4>1. /\ stack'[k] = stack[k] /\ Listing(k)' = Listing(k) /\ Ahead(k)' = Ahead(k)
            /\ p \notin Ahead(k)
        BY <1>5, <1>8, <1>9, <3>2
      <4>2. k - 1 \in 1 .. n
        BY <1>2, <3>2
      <4>3. stack'[k - 1].dir = stack[k - 1].dir
        BY <1>2, <1>4, <1>5, <1>10, <4>2
      <4> QED BY <3>0, <4>1, <4>3
    <3> QED BY <1>10, <3>1, <3>2
  <2>2. \A k, m \in 1 .. n : stack'[k].place = stack'[m].place => k = m
    <3>1. stack'[1].place = p
      BY <1>4, <1>5
    <3>2. \A k \in 2 .. n : stack'[k].place = stack[k].place /\ stack[k].place # p
      <4> TAKE k \in 2 .. n
      <4>1. k \in 1 .. n
        BY <1>2
      <4>2. stack[k].place \in V
        BY <1>1, <4>1 DEF CallsSound, n
      <4> QED BY <1>5, <1>6, <4>2
    <3>3. \A k, m \in 1 .. n : stack[k].place = stack[m].place => k = m
      BY <1>1 DEF CallsSound, n
    <3> QED BY <1>10, <3>1, <3>2, <3>3
  <2>3. Len(stack') = n
    BY <1>5
  <2> QED BY <1>1, <2>1, <2>2, <2>3 DEF CallsSound
<1>12. VisitsSound(W)'
  <2>1. /\ \A r : Fresh(r)' <=> r = p
        /\ \A r : ~Fresh(r)
        /\ Here'.place = p
    BY <1>1, <1>3, <1>4, <1>5 DEF Fresh, Here
  <2>2. \A r : Owner(r)' = Owner(r)
    BY <1>1 DEF Owner
  <2>3. W \subseteq Reached(fat, ent)
    BY <1>1, <1>7 DEF VisitsSound
  <2>4. \A b \in Clusters : start[b] => \E r \in W : Owner(r) /\ ent[r].cluster = b /\ r # p
    BY <1>1, <1>6 DEF VisitsSound
  <2>5. \A r \in W : Owner(r) => start[ent[r].cluster] \/ r = p
    BY <1>1, <2>1 DEF VisitsSound
  <2>6. \A x \in W \cap Clusters : \E r \in W :
          Owner(r) /\ ent[r].dir /\ x \in Chain(fat, ent[r].cluster) /\ r # p
    <3>1. \A x \in V \cap Clusters : \E r \in W :
            Owner(r) /\ ent[r].dir /\ x \in Chain(fat, ent[r].cluster) /\ r # p
      BY <1>1, <1>6 DEF VisitsSound
    <3>2. ASSUME p \in Clusters
          PROVE  \E r \in W : Owner(r) /\ ent[r].dir /\ p \in Chain(fat, ent[r].cluster) /\ r # p
      <4>1. PICK r \in V : Owner(r) /\ ent[r].dir /\ Listing(1) = Chain(fat, ent[r].cluster)
        BY <1>1, <1>2, <3>2, CallsEntry DEF n
      <4> QED BY <1>6, <4>1
    <3> QED BY <3>1, <3>2
  <2>7. \A r \in W : ent[r].used /\ ent[r].dir =>
          \/ Chain(fat, ent[r].cluster) \subseteq W
          \/ r = p
          \/ \E k \in 2 .. Len(stack') : r = stack'[k].place
    <3> TAKE r \in W
    <3> HAVE ent[r].used /\ ent[r].dir /\ r # p
    <3>1. \/ Chain(fat, ent[r].cluster) \subseteq V
          \/ \E k \in 2 .. n : r = stack[k].place
      BY <1>1 DEF VisitsSound, n
    <3> QED BY <1>5, <3>1
  <2> QED BY <1>1, <1>3, <2>1, <2>2, <2>3, <2>4, <2>5, <2>6, <2>7 DEF VisitsSound
<1>13. Pleased(W)'
  BY <1>3, <1>5 DEF Pleased
<1> QED BY <1>1, <1>3, <1>11, <1>12, <1>13 DEF Orderly, Touring, PassFour, volume, given

LEMMA LeaveOrderly ==
  ASSUME IInv, Brought, NEW V \in SUBSET Places, Touring(V), NextEntry,
         Here.dir # 0, Leave(0), Ahead(1) = {}
  PROVE  Orderly
<1> DEFINE n == Len(stack)
<1>1. /\ pc = "return" /\ CallsSound(V) /\ VisitsSound(V)
      /\ UNCHANGED <<fat, ent, saved, dots, mdfat, answers, healthy, ref, start>>
  BY NothingWritten
<1>2. /\ stack # <<>> /\ stack \in Seq(Frames) /\ n \in Nat /\ n >= 1 /\ 1 \in 1 .. n
      /\ Here = stack[1]
  BY <1>1, HereInOrder DEF PassFour
<1>3. pc' = "ascend" /\ result' = 0 /\ UNCHANGED errors /\ stack' = Tail(stack)
  BY DEF Leave, Goto
<1>4. /\ stack' \in Seq(Frames) /\ Len(stack') = n - 1
      /\ \A k \in 1 .. n - 1 : stack'[k] = stack[k + 1]
  BY <1>2, <1>3, PoppedFrame
<1> DEFINE d == stack[2].place
<1>5. /\ 2 \in 2 .. n /\ ent[d].used /\ ent[d].dir
      /\ Chain(fat, ent[d].cluster) = Listing(1) /\ Listing(1) \subseteq V
  <2>1. /\ 2 \in 2 .. n /\ Owner(d) /\ ent[d].dir /\ Listing(1) = Chain(fat, ent[d].cluster)
    <3>1. 1 + 1 = 2
      OBVIOUS
    <3> QED BY <1>1, <1>2, <3>1, CallsEntry
  <2>2. Listing(1) \subseteq V
    BY <1>1, <1>2 DEF CallsSound
  <2> QED BY <2>1, <2>2 DEF Owner
<1>6. \A k \in 1 .. n - 1 : /\ k + 1 \in 1 .. n /\ (k + 1) - 1 = k /\ k + 1 > 1
                            /\ Listing(k)' = Listing(k + 1) /\ Ahead(k)' = Ahead(k + 1)
                            /\ n - (k + 1) = (n - 1) - k
                            /\ k > 1 => k - 1 \in 1 .. n - 1 /\ (k - 1) + 1 = k
  <2> TAKE k \in 1 .. n - 1
  <2>1. /\ k + 1 \in 1 .. n /\ (k + 1) - 1 = k /\ k + 1 > 1 /\ n - (k + 1) = (n - 1) - k
        /\ k > 1 => k - 1 \in 1 .. n - 1 /\ (k - 1) + 1 = k
    BY <1>2
  <2>2. stack'[k] = stack[k + 1]
    BY <1>4
  <2>3. Listing(k)' = Listing(k + 1) /\ Ahead(k)' = Ahead(k + 1)
    BY <1>1, <2>2 DEF Listing, Ahead
  <2> QED BY <2>1, <2>3
<1>7. stack' # <<>> /\ Here' = stack[2]
  <2>1. n - 1 # 0 /\ 1 \in 1 .. n - 1 /\ 1 + 1 = 2
    BY <1>2, <1>5
  <2>2. stack' # <<>>
    BY <1>4, <2>1
  <2> QED BY <1>4, <2>1, <2>2 DEF Here
<1> HIDE DEF n, d
<1>8. CallsSound(V)'
  <2>1. ASSUME NEW k \in 1 .. n - 1
        PROVE  /\ stack'[k].place \in V
               /\ stack'[k].place \in Level(fat, ent, (n - 1) - k)
               /\ stack'[k].place \in Listing(k)'
               /\ Ahead(k)' \subseteq Listing(k)' /\ Ahead(k)' \cap V = {}
               /\ Listing(k)' \subseteq V \cup Ahead(k)'
               /\ stack'[k].errors = 0
               /\ k > 1 => /\ ent[stack'[k].place].used /\ ent[stack'[k].place].dir
                           /\ ent[stack'[k].place].cluster = stack'[k - 1].dir
    <3> DEFINE m == k + 1
    <3>1. /\ m \in 1 .. n /\ m - 1 = k /\ m > 1 /\ n - m = (n - 1) - k
          /\ Listing(k)' = Listing(m) /\ Ahead(k)' = Ahead(m) /\ stack'[k] = stack[m]
      BY <1>4, <1>6
    <3>2. k > 1 => stack'[k - 1] = stack[k]
      BY <1>4, <1>6
    <3> HIDE DEF m
    <3>3. /\ stack[m].place \in V /\ stack[m].place \in Level(fat, ent, n - m)
          /\ stack[m].place \in Listing(m)
          /\ Ahead(m) \subseteq Listing(m) /\ Ahead(m) \cap V = {}
          /\ Listing(m) \subseteq V \cup Ahead(m) /\ stack[m].errors = 0
          /\ ent[stack[m].place].used /\ ent[stack[m].place].dir
          /\ ent[stack[m].place].cluster = stack[m - 1].dir
      BY <1>1, <3>1 DEF CallsSound, n
    <3> QED BY <3>1, <3>2, <3>3
  <2>2. \A k, m \in 1 .. n - 1 : stack'[k].place = stack'[m].place => k = m
    <3> TAKE k, m \in 1 .. n - 1
    <3>1. \A a, b \in 1 .. n : stack[a].place = stack[b].place => a = b
      BY <1>1 DEF CallsSound, n
    <3>2. /\ stack'[k] = stack[k + 1] /\ k + 1 \in 1 .. n
          /\ stack'[m] = stack[m + 1] /\ m + 1 \in 1 .. n
      BY <1>4, <1>6
    <3>3. stack'[k].place = stack'[m].place => k + 1 = m + 1
      BY <3>1, <3>2
    <3> QED BY <3>3
  <2>3. Len(stack') = n - 1
    BY <1>4
  <2> QED BY <1>1, <2>1, <2>2, <2>3 DEF CallsSound
<1>9. VisitsSound(V)'
  <2>1. \A r : Owner(r)' = Owner(r) /\ ~Fresh(r) /\ ~Fresh(r)'
    BY <1>1, <1>3 DEF Owner, Fresh
  <2>2. \A r \in V : ent[r].used /\ ent[r].dir =>
          \/ Chain(fat, ent[r].cluster) \subseteq V
          \/ \E k \in 2 .. Len(stack') : r = stack'[k].place
    <3> TAKE r \in V
    <3> HAVE ent[r].used /\ ent[r].dir
    <3>1. CASE r = d
      BY <1>5, <3>1
    <3>2. ASSUME NEW k \in 2 .. n, r = stack[k].place, r # d
          PROVE  \E m \in 2 .. Len(stack') : r = stack'[m].place
      <4>1. k # 2
        BY <3>2 DEF d
      <4>2. k - 1 \in 2 .. n - 1 /\ k - 1 \in 1 .. n - 1 /\ (k - 1) + 1 = k
        BY <1>2, <4>1
      <4>3. stack'[k - 1] = stack[k]
        BY <1>4, <4>2
      <4> QED BY <1>4, <3>2, <4>2, <4>3
    <3>3. \/ Chain(fat, ent[r].cluster) \subseteq V
          \/ \E k \in 2 .. n : r = stack[k].place
      BY <1>1 DEF VisitsSound, n
    <3> QED BY <3>1, <3>2, <3>3
  <2> QED BY <1>1, <1>3, <2>1, <2>2 DEF VisitsSound
<1>10. Pleased(V)'
  <2>1. E' = ent[d]
    BY <1>1, <1>7 DEF E, d
  <2> QED BY <1>3, <1>5, <1>7, <2>1 DEF Pleased
<1> QED BY <1>1, <1>3, <1>8, <1>9, <1>10 DEF Orderly, Touring, PassFour, volume, given

LEMMA NextEntryOrderly ==
  ASSUME IInv, Brought, NEW V \in SUBSET Places, Touring(V), NextEntry
  PROVE  Orderly
<1> DEFINE q == Here.place
           n == Len(stack)
<1>1. /\ pc = "return" /\ CallsSound(V) /\ VisitsSound(V) /\ Counted = 0
      /\ UNCHANGED <<fat, ent, saved, dots, mdfat, answers, healthy, ref, start>>
  BY NothingWritten
<1>2. /\ stack # <<>> /\ stack \in Seq(Frames) /\ n \in Nat /\ n >= 1 /\ 1 \in 1 .. n
      /\ Here = stack[1] /\ q \in V /\ q \in Places
      /\ q \in IF Here.dir = 0 THEN RootPlaces ELSE Clusters
      /\ Here.dir = 0 <=> 1 = n
      /\ Here \in Frames
  <2>1. /\ stack # <<>> /\ stack \in Seq(Frames) /\ n \in Nat /\ n >= 1 /\ 1 \in 1 .. n
        /\ Here = stack[1] /\ q \in V /\ q \in Places
    BY <1>1, HereInOrder DEF PassFour
  <2>2. /\ q \in IF Here.dir = 0 THEN RootPlaces ELSE Clusters
        /\ Here.dir = 0 <=> 1 = n
    BY <2>1 DEF IInv, Stacked
  <2> QED BY <2>1, <2>2
<1>3. \A r \in RootPlaces : r \in Int
  BY FsckAssumption DEF RootPlaces, Bad
<1>4. \A p \in Places : Continue(p) => stack'[1].dir = Here.dir /\ stack'[1].place = p
  <2> TAKE p \in Places
  <2> HAVE Continue(p)
  <2> DEFINE fr == [Here EXCEPT !.place = p, !.need = FALSE, !.errors = Counted]
  <2>1. stack' = <<fr>> \o Tail(stack)
    BY DEF Continue
  <2>2. fr \in Frames /\ fr.dir = Here.dir /\ fr.place = p
    BY <1>1, <1>2 DEF Frames
  <2> HIDE DEF fr
  <2>3. stack'[1] = fr
    BY <1>2, <2>1, <2>2, ReplacedFrame
  <2> QED BY <2>2, <2>3
<1>5. CASE Here.dir = 0
  <2>1. q \in RootPlaces /\ q \in Int /\ Ahead(1) = {r \in RootPlaces : r > q}
    BY <1>2, <1>3, <1>5 DEF Ahead
  <2>2. CASE q < Bad + RootEntries /\ Continue(q + 1)
    <3>1. PICK p \in RootPlaces : p = q + 1
      <4>1. PICK r \in 1 .. RootEntries : q = Bad + r
        BY <2>1 DEF RootPlaces
      <4>2. RootEntries \in Nat /\ Bad \in Nat
        BY FsckAssumption DEF Bad
      <4>3. r + 1 \in 1 .. RootEntries /\ q + 1 = Bad + (r + 1)
        BY <2>2, <4>1, <4>2
      <4> QED BY <4>3 DEF RootPlaces
    <3> DEFINE A == {r \in RootPlaces : r > p}
    <3>2. Ahead(1) = {p} \cup A /\ p \notin A
      <4>1. \A r \in RootPlaces : r > q <=> r = p \/ r > p
        BY <1>3, <2>1, <3>1
      <4>2. ~(p > p)
        BY <1>3
      <4> QED BY <2>1, <4>1, <4>2
    <3>3. p \in Places /\ p \notin Clusters /\ Continue(p)
      BY <2>2, <3>1, RootApart
    <3>4. Ahead(1)' = A
      <4>1. stack'[1].dir = 0 /\ stack'[1].place = p
        BY <1>4, <1>5, <3>3
      <4> QED BY <4>1 DEF Ahead
    <3>5. p \in Level(fat, ent, n - 1)
      <4>1. n - 1 = 0
        BY <1>2, <1>5
      <4> QED BY <3>1, <4>1, Levels
    <3> HIDE DEF A
    <3> QED BY <3>2, <3>3, <3>4, <3>5, ContinueOrderly
  <2>3. CASE /\ q = Bad + RootEntries
             /\ errors' = errors + IF Counted > 0 THEN 1 ELSE 0
             /\ stack' = <<>> /\ Goto("unused")
    <3>1. /\ stack' = <<>> /\ Len(stack') = 0 /\ pc' = "unused" /\ errors' = errors
      BY <1>1, <2>3 DEF Brought, Goto
    <3>2. RootPlaces \subseteq V
      <4>1. Ahead(1) = {}
        <5>1. \A r \in RootPlaces : ~(r > q)
          BY <2>3, FsckAssumption DEF RootPlaces, Bad
        <5> QED BY <2>1, <5>1
      <4>2. Listing(1) \subseteq V \cup Ahead(1)
        BY <1>1, <1>2 DEF CallsSound
      <4> QED BY <1>2, <1>5, <4>1, <4>2 DEF Listing
    <3>3. CallsSound(V)'
      BY <3>1 DEF CallsSound
    <3>4. VisitsSound(V)'
      <4>1. \A r : Owner(r)' = Owner(r) /\ ~Fresh(r) /\ ~Fresh(r)'
        BY <1>1, <3>1 DEF Owner, Fresh
      <4>2. \A r \in V : ent[r].used /\ ent[r].dir => Chain(fat, ent[r].cluster) \subseteq V
        <5>1. \A k \in 2 .. n : FALSE
          <6>1. n = 1
            BY <1>2, <1>5
          <6>2. \A k \in 2 .. 1 : FALSE
            OBVIOUS
          <6> HIDE DEF n
          <6> QED BY <6>1, <6>2
        <5>2. \A r \in V : ent[r].used /\ ent[r].dir =>
                \/ Chain(fat, ent[r].cluster) \subseteq V
                \/ \E k \in 2 .. n : r = stack[k].place
          BY <1>1 DEF VisitsSound
        <5> QED BY <5>1, <5>2
      <4> QED BY <1>1, <3>1, <4>1, <4>2 DEF VisitsSound
    <3>5. Pleased(V)'
      BY <3>1, <3>2 DEF Pleased
    <3> QED BY <1>1, <3>1, <3>3, <3>4, <3>5 DEF Orderly, Touring, volume, given
  <2> QED BY <1>5, <2>2, <2>3 DEF NextEntry
<1>6. CASE Here.dir # 0
  <2> DEFINE next == fat[q]
  <2>1. PICK d \in Places : /\ d \in Reached(fat, ent) /\ Owner(d) /\ ent[d].dir
                            /\ d = stack[2].place /\ 2 \in 2 .. n
                            /\ Listing(1) = Chain(fat, ent[d].cluster)
    <3>1. 1 + 1 = 2
      OBVIOUS
    <3> QED BY <1>1, <1>2, <1>6, <3>1, CallsEntry
  <2>2. /\ q \in Clusters /\ NoLoops(fat) /\ Ahead(1) = Chain(fat, next)
        /\ q \in Chain(fat, ent[d].cluster)
    <3>1. q \in Listing(1)
      BY <1>1, <1>2 DEF CallsSound
    <3> QED BY <1>2, <1>6, <2>1, <3>1 DEF Ahead, Brought, InOrder
  <2>3. CASE next \in Clusters
    <3>1. PICK p \in Clusters : p = next
      BY <2>3
    <3> DEFINE A == Chain(fat, fat[p])
    <3>2. Ahead(1) = {p} \cup A /\ p \notin A
      BY <2>2, <3>1, ChainSteps
    <3>3. p \in Chain(fat, ent[d].cluster)
      <4>1. Chain(fat, fat[q]) \subseteq Chain(fat, ent[d].cluster)
        BY <2>2, SubChain
      <4> QED BY <2>2, <3>1, <3>2, <4>1
    <3>4. Continue(p) /\ p \in Places
      <4>1. dots[p] # Unreadable
        BY <2>1, <3>3 DEF Brought, InOrder, Rooted, Owner
      <4>2. next \notin {FatEof, 0, 1, Bad}
        BY <2>3, Numbers
      <4> QED BY <1>6, <3>1, <4>1, <4>2, RootApart DEF NextEntry
    <3>5. Ahead(1)' = A
      <4>1. stack'[1].dir # 0 /\ stack'[1].place = p
        BY <1>4, <1>6, <3>4
      <4> QED BY <1>1, <4>1 DEF Ahead
    <3>6. p \in Level(fat, ent, n - 1)
      <4>1. n <= MaxCluster /\ MaxCluster \in Nat
        BY StackFits, Numbers
      <4>2. PICK m \in 0 .. MaxCluster - 1 : m = n - 2 /\ m + 1 = n - 1
        BY <1>2, <2>1, <4>1
      <4>3. d \in Level(fat, ent, m)
        <5>1. 2 \in 1 .. n
          BY <2>1
        <5> QED BY <1>1, <2>1, <4>2, <5>1 DEF CallsSound
      <4>4. Chain(fat, ent[d].cluster) \subseteq Level(fat, ent, m + 1)
        BY <2>1, <4>2, <4>3, Levels DEF Owner
      <4> QED BY <3>3, <4>2, <4>4
    <3> HIDE DEF A
    <3> QED BY <1>6, <3>2, <3>4, <3>5, <3>6, ContinueOrderly
  <2>4. CASE next \notin Clusters
    <3>1. next = FatEof
      <4>1. next \in ChainEnd(fat, ent[d].cluster)
        BY <2>2, <2>4 DEF ChainEnd
      <4> QED BY <2>1, <4>1, OwnerIs
    <3>2. Leave(0)
      <4>1. next \notin {1, Bad}
        BY <3>1, Numbers
      <4> QED BY <1>1, <1>6, <2>4, <4>1 DEF NextEntry
    <3>3. Ahead(1) = {}
      BY <2>2, <2>4, ChainEmpty
    <3> QED BY <1>6, <3>2, <3>3, LeaveOrderly
  <2> QED BY <2>3, <2>4
<1> QED BY <1>5, <1>6

(* The other steps, in a volume in order.                                  *)
LEMMA CheckFatOrderly ==
  ASSUME IInv, Brought, CheckFat
  PROVE  Brought' /\ UNCHANGED volume /\ pc' = "fat"
<1> DEFINE val == fat[i]
           crossed == val \in Clusters /\ ref[val] # 0
<1>1. /\ pc = "fat" /\ i \in Clusters /\ i <= MaxCluster /\ fat \in Fats
      /\ ref \in [Clusters -> {0} \cup Clusters] /\ i \in Int /\ Clusters \subseteq Int
  BY DEF CheckFat, IInv, Typed, Clusters
<1>2. /\ InOrder(fat, ent, dots) /\ mdfat = "sound" /\ saved = ent /\ errors = 0
      /\ NoLoops(fat) /\ ~Crosslinked(fat) /\ val # 1
  BY <1>1 DEF Brought, InOrder
<1>3. ~crossed
  <2> SUFFICES ASSUME crossed PROVE FALSE
    OBVIOUS
  <2>1. PICK b \in Clusters : b = ref[val] /\ fat[b] = val /\ b < i
    BY <1>1 DEF Brought
  <2>2. b # i
    BY <1>1, <2>1
  <2> QED BY <1>1, <1>2, <2>1, <2>2, Numbers DEF Crosslinked
<1>4. \A yes \in BOOLEAN : Corrected(fat, yes) = fat
  BY <1>2 DEF Corrected
<1>5. LoopEnds(fat, i) = {}
  BY <1>1, <1>2 DEF NoLoops
<1>6. /\ UNCHANGED <<given, fat, dots, ent, saved, start, errors>> /\ ref' = Referred(val)
      /\ pc' = "fat" /\ i' = i + 1
  <2>1. answers \subseteq BOOLEAN
    BY DEF IInv, Typed
  <2> QED BY <1>2, <1>3, <1>4, <1>5, <2>1 DEF CheckFat, Goto
<1>7. \A v \in Clusters : ref'[v] # 0 => ref'[v] \in Clusters /\ fat[ref'[v]] = v /\ ref'[v] < i'
  <2> TAKE v \in Clusters
  <2> HAVE ref'[v] # 0
  <2>1. CASE ref'[v] = ref[v]
    <3>1. PICK b \in Clusters : b = ref[v] /\ fat[b] = v /\ b < i
      BY <1>1, <2>1 DEF Brought
    <3>2. b \in Int /\ b < i + 1
      BY <1>1, <3>1
    <3> QED BY <1>6, <2>1, <3>1, <3>2
  <2>2. CASE ref'[v] # ref[v]
    <3>1. v = val /\ ref'[v] = i
      BY <1>1, <1>6, <2>2 DEF Referred
    <3> QED BY <1>1, <1>6, <3>1
  <2> QED BY <2>1, <2>2
<1> QED BY <1>1, <1>2, <1>6, <1>7 DEF Brought, given, volume

LEMMA CheckFatEndsOrderly ==
  ASSUME IInv, Brought, CheckFatEnds
  PROVE  Brought' /\ UNCHANGED volume /\ pc' = "chains"
<1>1. pc = "fat" /\ errors = 0 /\ at = 0
  BY DEF CheckFatEnds, Brought, IInv, Following
<1>2. /\ UNCHANGED <<given, volume, tables, walk, errors>> /\ pc' = "chains"
  BY <1>1 DEF CheckFatEnds, Goto
<1> QED BY <1>1, <1>2 DEF Brought, given, volume, tables, walk

LEMMA CheckChainsOrderly ==
  ASSUME IInv, Brought, CheckChains
  PROVE  Brought' /\ UNCHANGED volume /\ pc' \in {"chains", "simple"}
<1>1. /\ pc = "chains" /\ at = 0 /\ i \in 2 .. MaxCluster + 1 /\ MaxCluster \in Nat
      /\ UNCHANGED <<given, volume, tables, errors>>
  BY Numbers DEF CheckChains, IInv, Typed
<1>2. NoLoops(fat)
  BY DEF Brought, InOrder
<1>3. CASE pc' = "simple"
  BY <1>1, <1>3 DEF Brought, given, volume, tables
<1>4. CASE pc' = "chains" /\ at' = 0
  BY <1>1, <1>4 DEF Brought, given, volume, tables
<1>5. CASE /\ pc' = "chains" /\ i' = i /\ at' = fat[i] /\ i \in Clusters /\ fat[i] \in Clusters
  <2>1. fat[i] \in Chain(fat, fat[i])
    BY <1>2, <1>5, ChainSteps
  <2>2. fat[i] \in Chain(fat, i)
    BY <1>2, <1>5, <2>1, ChainSteps
  <2> QED BY <1>1, <1>5, <2>2 DEF Brought, given, volume, tables
<1>6. i <= MaxCluster => i \in Clusters
  BY <1>1 DEF Clusters
<1> QED BY <1>1, <1>3, <1>4, <1>5, <1>6 DEF CheckChains, Goto

LEMMA FollowChainOrderly ==
  ASSUME IInv, Brought, FollowChain
  PROVE  Brought' /\ UNCHANGED volume /\ pc' = "chains"
<1>1. /\ pc = "chains" /\ at # 0 /\ at \in Clusters /\ i \in Clusters
      /\ at \in Chain(fat, i) /\ fat[i] \in Clusters
  BY DEF FollowChain, Brought, IInv, Following
<1>2. NoLoops(fat) /\ NothingLost(fat, ent) /\ Ended(fat, ent)
  BY DEF Brought, InOrder
<1>3. fat[at] \notin Clusters => ~Broken(fat[at])
  <2> SUFFICES ASSUME fat[at] \notin Clusters PROVE fat[at] = FatEof
    BY Numbers DEF Broken
  <2>1. PICK p \in Reached(fat, ent) \cap Owners(ent) : i \in Chain(fat, ent[p].cluster)
    BY <1>1, <1>2 DEF NothingLost
  <2>2. at \in Chain(fat, ent[p].cluster)
    BY <1>1, <1>2, <2>1, SubChain
  <2>3. fat[at] \in ChainEnd(fat, ent[p].cluster)
    BY <2>2 DEF ChainEnd
  <2> QED BY <1>2, <2>1, <2>3 DEF Ended
<1>4. /\ UNCHANGED <<given, fat, dots, ent, saved, tables, pc, errors>>
      /\ \/ fat[at] \in Clusters /\ at' = fat[at] /\ i' = i
         \/ at' = 0
  BY <1>3 DEF FollowChain
<1>5. CASE fat[at] \in Clusters /\ at' = fat[at] /\ i' = i
  <2>1. fat[at] \in Chain(fat, fat[at])
    BY <1>2, <1>5, ChainSteps
  <2>2. fat[at] \in Chain(fat, i)
    BY <1>1, <1>2, <2>1, SubChain
  <2> QED BY <1>1, <1>4, <1>5, <2>2 DEF Brought, given, volume, tables
<1>6. CASE at' = 0
  BY <1>1, <1>4, <1>6 DEF Brought, given, volume, tables
<1> QED BY <1>4, <1>5, <1>6

LEMMA SimpleCheckOrderly ==
  ASSUME IInv, Brought, SimpleCheck
  PROVE  Orderly
<1> DEFINE s == Bad + 1
<1> PICK W : W = {s}
  OBVIOUS
<1>1. Consistent
  BY DEF Brought, InOrder, Consistent, Dead
<1>2. /\ pc = "simple" /\ pc' = "entry" /\ stack' = <<Frame(0, s)>>
      /\ UNCHANGED <<given, fat, ent, saved, dots, errors, tables>>
  BY <1>1 DEF SimpleCheck, Goto
<1>3. /\ Len(stack') = 1 /\ stack' # <<>> /\ stack'[1].dir = 0 /\ stack'[1].place = s
      /\ stack'[1].errors = 0 /\ Here'.place = s
  BY <1>2 DEF Frame, Here
<1>4. /\ s \in RootPlaces /\ s \in Places /\ s \notin Clusters
      /\ \A r \in RootPlaces : r = s \/ r > s
      /\ ~(s > s)
  <2>1. RootEntries \in Nat /\ RootEntries >= 1 /\ Bad \in Nat
    BY FsckAssumption DEF Bad
  <2>2. 1 \in 1 .. RootEntries
    BY <2>1
  <2>3. s \in RootPlaces
    BY <2>2 DEF RootPlaces
  <2> QED BY <2>1, <2>3, RootApart DEF RootPlaces
<1>5. Listing(1)' = RootPlaces /\ Ahead(1)' = {r \in RootPlaces : r > s}
  BY <1>3 DEF Listing, Ahead
<1>6. \A k \in 1 .. Len(stack') : k = 1
  BY <1>3
<1>7. s \in Level(fat, ent, 0) /\ s \in Reached(fat, ent)
  <2>1. 0 \in 0 .. MaxCluster
    BY Numbers
  <2> QED BY <1>4, <2>1, Levels
<1> HIDE DEF s
<1>8. CallsSound(W)'
  <2>1. /\ s \in W /\ s \in Listing(1)' /\ Ahead(1)' \subseteq Listing(1)'
        /\ Ahead(1)' \cap W = {} /\ Listing(1)' \subseteq W \cup Ahead(1)'
    BY <1>4, <1>5
  <2>2. ASSUME NEW k \in 1 .. Len(stack')
        PROVE  /\ stack'[k].place \in W
               /\ stack'[k].place \in Level(fat, ent, Len(stack') - k)
               /\ stack'[k].place \in Listing(k)'
               /\ Ahead(k)' \subseteq Listing(k)' /\ Ahead(k)' \cap W = {}
               /\ Listing(k)' \subseteq W \cup Ahead(k)'
               /\ stack'[k].errors = 0 /\ ~(k > 1)
    <3>1. k = 1 /\ Len(stack') - k = 0
      BY <1>3, <1>6
    <3> QED BY <1>3, <1>7, <2>1, <3>1
  <2> QED BY <1>2, <1>6, <2>2 DEF CallsSound
<1>9. VisitsSound(W)'
  <2>1. /\ \A c \in Clusters : ~start[c]
        /\ Fresh(s)' /\ W \cap Clusters = {} /\ W \subseteq Reached(fat, ent)
    BY <1>2, <1>3, <1>4, <1>7 DEF Brought, Fresh
  <2> QED BY <1>2, <1>3, <2>1 DEF VisitsSound, tables
<1>10. Pleased(W)'
  BY <1>2, <1>3 DEF Pleased
<1>11. W \in SUBSET Places
  BY <1>4
<1> QED BY <1>2, <1>8, <1>9, <1>10, <1>11 DEF Orderly, Touring, PassFour, volume, given, tables

LEMMA CheckUnusedChainsOrderly ==
  ASSUME IInv, Brought, NEW V \in SUBSET Places, Touring(V), CheckUnusedChains
  PROVE  Brought' /\ UNCHANGED volume /\ pc' = "exit"
<1>1. /\ pc = "unused" /\ stack = <<>> /\ UNCHANGED <<given, volume, tables>>
      /\ CallsSound(V) /\ VisitsSound(V)
  BY DEF CheckUnusedChains, IInv, Stacked, PassFour, Touring
<1>2. RootPlaces \subseteq V
  BY <1>1 DEF Touring, Pleased
<1>3. \A p \in V : ent[p].used /\ ent[p].dir => Chain(fat, ent[p].cluster) \subseteq V
  BY <1>1 DEF VisitsSound
<1>4. Reached(fat, ent) \subseteq V
  BY <1>2, <1>3, ReachedWithin
<1>5. /\ NoLoops(fat) /\ NothingLost(fat, ent)
      /\ \A c \in Clusters : fat[c] \in Clusters => ref[fat[c]] = c
  BY <1>1, ChainsKnown DEF Brought, InOrder
<1>6. ASSUME NEW c \in Unused
      PROVE  FALSE
  <2>1. c \in Clusters /\ fat[c] \in Clusters /\ ref[c] = 0 /\ ~start[c]
    BY DEF Unused
  <2>2. PICK p \in Reached(fat, ent) \cap Owners(ent) : c \in Chain(fat, ent[p].cluster)
    BY <1>5, <2>1 DEF NothingLost
  <2>3. p \in V /\ Owner(p) /\ p \in Places /\ p \in Reached(fat, ent)
    BY <1>4, <2>2 DEF Owners, Owner
  <2>4. ent[p].cluster \in Clusters /\ ref[ent[p].cluster] = 0
        /\ ent[p].cluster \in Chain(fat, ent[p].cluster)
    BY <2>3, OwnerIs
  <2>5. start[ent[p].cluster]
    BY <1>1, <2>3 DEF VisitsSound, Fresh
  <2>6. c \in Chain(fat, c)
    BY <1>5, <2>1, ChainSteps
  <2>7. ent[p].cluster = c
    BY <1>5, <2>1, <2>2, <2>4, <2>6, HeadsApart
  <2> QED BY <2>1, <2>5, <2>7
<1>7. Unused = {}
  BY <1>6
<1>8. errors' = 0 /\ pc' = "exit" /\ code' = 0
  BY <1>7 DEF CheckUnusedChains, Exit, Brought
<1> QED BY <1>1, <1>8 DEF Brought, given, volume, tables

LEMMA HealthyStays ==
  ASSUME [Next]_vars
  PROVE  healthy' = healthy
<1>1. CASE Work
  <2>1. UNCHANGED given
    BY <1>1 DEF Work, CheckFat, CheckFatEnds, CheckChains, FollowChain, SimpleCheck, CheckEntry,
       CheckDir, NextEntry, Ascend, ConvertToFile, CheckFile, WalkFile, FileEnds,
       CheckUnusedChains
  <2> QED BY <2>1 DEF given
<1>2. CASE UNCHANGED vars
  BY <1>2 DEF vars
<1> QED BY <1>1, <1>2 DEF Next, Done

LEMMA InitOrderly ==
  Init => HealthyInv
<1> SUFFICES ASSUME Init, healthy PROVE HealthyInv
  BY DEF HealthyInv
<1>1. /\ InOrder(fat, ent, dots) /\ mdfat = "sound" /\ saved = ent /\ errors = 0
      /\ pc = "fat"
      /\ \A c \in Clusters : ref[c] = 0 /\ start[c] = FALSE
  BY DEF Init
<1>2. Brought
  BY <1>1 DEF Brought
<1>3. pc \notin PassFour \cup {"unused"}
  BY <1>1 DEF PassFour
<1> QED BY <1>2, <1>3 DEF HealthyInv

(* What is in order stays so, and nothing is written.                      *)
LEMMA StepOrderly ==
  ASSUME IInv, HealthyInv, [Next]_vars, healthy
  PROVE  HealthyInv' /\ UNCHANGED volume /\ (pc' = "exit" => code' = 0)
<1>1. Brought
  BY DEF HealthyInv
<1>2. ASSUME pc \in PassFour \cup {"unused"}
      PROVE  \E V \in SUBSET Places : Touring(V)
  BY <1>2 DEF HealthyInv
<1>3. ASSUME Orderly
      PROVE  HealthyInv' /\ UNCHANGED volume /\ (pc' = "exit" => code' = 0)
  <2>1. Brought' /\ pc' # "exit"
    BY <1>1, <1>3, BroughtKept DEF Orderly, PassFour
  <2> QED BY <1>3, <2>1 DEF Orderly, HealthyInv
<1>4. ASSUME Brought', UNCHANGED volume, pc' \notin PassFour \cup {"unused"}
      PROVE  HealthyInv' /\ UNCHANGED volume /\ (pc' = "exit" => code' = 0)
  BY <1>4 DEF HealthyInv, Brought
<1>5. CASE CheckFat
  BY <1>1, <1>4, <1>5, CheckFatOrderly DEF PassFour
<1>6. CASE CheckFatEnds
  BY <1>1, <1>4, <1>6, CheckFatEndsOrderly DEF PassFour
<1>7. CASE CheckChains
  BY <1>1, <1>4, <1>7, CheckChainsOrderly DEF PassFour
<1>8. CASE FollowChain
  BY <1>1, <1>4, <1>8, FollowChainOrderly DEF PassFour
<1>9. CASE SimpleCheck
  BY <1>1, <1>3, <1>9, SimpleCheckOrderly
<1>10. CASE StepOfPassFour
  <2>1. PICK V \in SUBSET Places : Touring(V)
    <3>1. pc \in PassFour
      BY <1>10, PassFourCalm DEF Calm
    <3> QED BY <1>2, <3>1
  <2>2. ~ConvertToFile
    BY <2>1 DEF ConvertToFile, Touring, Pleased
  <2>3. Orderly
    BY <1>1, <1>10, <2>1, <2>2, CheckEntryOrderly, CheckDirOrderly, NextEntryOrderly,
       AscendOrderly, CheckFileOrderly, WalkFileOrderly, FileEndsOrderly DEF StepOfPassFour
  <2> QED BY <1>3, <2>3
<1>11. CASE CheckUnusedChains
  <2>1. PICK V \in SUBSET Places : Touring(V)
    BY <1>2, <1>11 DEF CheckUnusedChains
  <2> QED BY <1>1, <1>4, <1>11, <2>1, CheckUnusedChainsOrderly DEF PassFour
<1>12. CASE UNCHANGED vars
  <2>1. /\ UNCHANGED <<fat, ent, saved, dots, mdfat, answers, healthy, ref, start, stack,
                       errors, pc, i, at, result, code>>
    BY <1>12 DEF vars
  <2>2. Brought'
    BY <1>1, <2>1 DEF Brought
  <2>3. ASSUME NEW V, Touring(V)
        PROVE  Touring(V)'
    <3>1. CallsSound(V)'
      BY <2>1, <2>3, SameCalls DEF Touring
    <3>2. \A p : Owner(p)' = Owner(p) /\ Fresh(p)' = Fresh(p)
      BY <2>1 DEF Owner, Fresh, Here
    <3>3. VisitsSound(V)'
      BY <2>1, <2>3, <3>2 DEF Touring, VisitsSound, Here
    <3>4. Pleased(V)'
      BY <2>1, <2>3 DEF Touring, Pleased, E, Here
    <3> QED BY <3>1, <3>3, <3>4 DEF Touring
  <2> QED BY <1>1, <1>2, <2>1, <2>2, <2>3 DEF HealthyInv, volume, Brought
<1>13. Done => UNCHANGED vars
  BY DEF Done
<1> QED BY <1>5, <1>6, <1>7, <1>8, <1>9, <1>10, <1>11, <1>12, <1>13
        DEF Next, Work, StepOfPassFour

(* A volume in order passes the check and is left alone, for every size of *)
(* the FAT, of the clusters and of the root directory, every tree of       *)
(* directories and every answer: no entry of the FAT, of a directory or on *)
(* the disk changes, and when the program exits, it does so with 0.        *)
THEOREM HealthyVolumesPass == Spec => HealthyPasses
<1>1. Init => IInv /\ HealthyInv
  BY InitKept, InitOrderly
<1>2. IInv /\ HealthyInv /\ [Next]_vars => (IInv /\ HealthyInv)'
  <2> SUFFICES ASSUME IInv, HealthyInv, [Next]_vars PROVE IInv' /\ HealthyInv'
    OBVIOUS
  <2>1. IInv'
    BY StepKept
  <2>2. CASE healthy
    BY <2>1, <2>2, StepOrderly
  <2>3. CASE ~healthy
    <3>1. healthy' = healthy
      BY HealthyStays
    <3> QED BY <2>1, <2>3, <3>1 DEF HealthyInv
  <2> QED BY <2>2, <2>3
<1>3. IInv /\ HealthyInv /\ [Next]_vars =>
        [healthy => UNCHANGED volume /\ (pc' = "exit" => code' = 0)]_vars
  BY StepOrderly
<1> QED BY <1>1, <1>2, <1>3, PTL DEF Spec, HealthyPasses
=============================================================================
