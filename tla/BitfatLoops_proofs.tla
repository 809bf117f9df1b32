------------------------- MODULE BitfatLoops_proofs -------------------------
(***************************************************************************)
(* The search of BitfatSearch is what the scan loops compute, and what its *)
(* callers rely on holds, for volumes of every size, every position that   *)
(* earlier searches left and every setting of dmsdos_speedup.              *)
(***************************************************************************)
EXTENDS BitfatLoops, BitfatSearch_proofs, FiniteSetTheorems

LEMMA LowestOf ==
  ASSUME NEW S, NEW a \in Int, NEW b \in Int, S \subseteq a .. b, S # {}
  PROVE  Lowest(S) \in S /\ \A y \in S : Lowest(S) <= y
<1>1. S \in SUBSET (a .. b)
  OBVIOUS
<1> QED BY <1>1, LowestIsMember, Zenon

LEMMA HighestOf ==
  ASSUME NEW S, NEW a \in Int, NEW b \in Int, S \subseteq a .. b, S # {}
  PROVE  Highest(S) \in S /\ \A y \in S : Highest(S) >= y
<1>1. S \in SUBSET (a .. b)
  OBVIOUS
<1> QED BY <1>1, HighestIsMember, Zenon

-----------------------------------------------------------------------------
(* The counting loop: it ends at the first sector that is not free, or at  *)
(* the size it counts to.                                                  *)
Stops(s, dir, cap, i, k) ==
  /\ k \in i .. cap
  /\ \A j \in i .. k - 1 : IsFree(bitfat, s + dir * j)
  /\ k < cap => ~IsFree(bitfat, s + dir * k)
IsRun(s, dir, cap, g) ==
  g = [i \in Nat |-> IF i < cap /\ IsFree(bitfat, s + dir * i) THEN g[i + 1] ELSE i]

LEMMA RunExists ==
  ASSUME NEW s \in Int, NEW dir \in {1, -1}, NEW cap \in Nat \ {0}
  PROVE  \E g : IsRun(s, dir, cap, g)
<1> DEFINE stops(i) == {j \in i .. cap : j = cap \/ ~IsFree(bitfat, s + dir * j)}
           g == [i \in Nat |-> IF i >= cap THEN i ELSE Lowest(stops(i))]
<1>1. ASSUME NEW i \in Nat, i <= cap
      PROVE  Lowest(stops(i)) \in stops(i) /\ \A y \in stops(i) : Lowest(stops(i)) <= y
  <2>1. stops(i) \subseteq i .. cap /\ cap \in stops(i)
    BY <1>1
  <2>2. stops(i) # {} /\ i \in Int /\ cap \in Int
    BY <2>1
  <2> HIDE DEF stops
  <2> QED BY <2>1, <2>2, LowestOf, Zenon
<1>2. ASSUME NEW i \in Nat
      PROVE  g[i] = IF i < cap /\ IsFree(bitfat, s + dir * i) THEN g[i + 1] ELSE i
  <2>1. CASE i >= cap
    BY <2>1
  <2>2. CASE i < cap /\ ~IsFree(bitfat, s + dir * i)
    <3>1. i \in stops(i) /\ \A y \in stops(i) : i <= y
      BY <2>2
    <3>2. Lowest(stops(i)) = i
      <4> HIDE DEF stops
      <4>1. Lowest(stops(i)) \in stops(i) /\ Lowest(stops(i)) <= i
        BY <1>1, <2>2, <3>1
      <4>2. i <= Lowest(stops(i))
        BY <3>1, <4>1
      <4>3. Lowest(stops(i)) \in Int
        BY <4>1 DEF stops
      <4> QED BY <4>1, <4>2, <4>3
    <3> QED BY <2>2, <3>2
  <2>3. CASE i < cap /\ IsFree(bitfat, s + dir * i)
    <3>1. stops(i) = stops(i + 1)
      BY <2>3
    <3>2. CASE i + 1 < cap
      BY <2>3, <3>1, <3>2
    <3>3. CASE i + 1 = cap
      <4>1. Lowest(stops(i + 1)) \in stops(i + 1)
        BY <1>1, <3>3
      <4>2. Lowest(stops(i + 1)) = cap
        BY <3>3, <4>1
      <4> QED BY <2>3, <3>1, <3>3, <4>2
    <3> QED BY <2>3, <3>2, <3>3
  <2> QED BY <2>1, <2>2, <2>3
<1>3. g = [i \in Nat |-> IF i < cap /\ IsFree(bitfat, s + dir * i) THEN g[i + 1] ELSE i]
  <2> DEFINE h == [i \in Nat |-> IF i < cap /\ IsFree(bitfat, s + dir * i) THEN g[i + 1] ELSE i]
  <2>1. \A i \in Nat : g[i] = h[i]
    <3> HIDE DEF g
    <3> QED BY <1>2
  <2> QED BY <2>1
<1> HIDE DEF g
<1> QED BY <1>3 DEF IsRun

LEMMA RunStops ==
  ASSUME NEW s \in Int, NEW dir \in {1, -1}, NEW cap \in Nat \ {0}
  PROVE  Stops(s, dir, cap, 1, RunLength(s, dir, cap))
<1> DEFINE g == CHOOSE g : IsRun(s, dir, cap, g)
           bad == {i \in 1 .. cap : ~Stops(s, dir, cap, i, g[i])}
<1>1. IsRun(s, dir, cap, g)
  BY RunExists
<1>2. RunLength(s, dir, cap) = g[1]
  BY DEF RunLength, IsRun
<1>3. \A i \in Nat : g[i] = IF i < cap /\ IsFree(bitfat, s + dir * i) THEN g[i + 1] ELSE i
  <2> HIDE DEF g
  <2> DEFINE h == [i \in Nat |-> IF i < cap /\ IsFree(bitfat, s + dir * i) THEN g[i + 1] ELSE i]
  <2>1. g = h
    BY <1>1 DEF IsRun
  <2>2. \A i \in Nat : h[i] = IF i < cap /\ IsFree(bitfat, s + dir * i) THEN g[i + 1] ELSE i
    OBVIOUS
  <2> HIDE DEF h
  <2> QED BY <2>1, <2>2
<1> HIDE DEF g
<1>4. bad = {}
  <2> SUFFICES ASSUME bad # {} PROVE FALSE
    OBVIOUS
  <2>1. bad \subseteq 1 .. cap /\ 1 \in Int /\ cap \in Int
    OBVIOUS
  <2>2. PICK h : h = Highest(bad) /\ h \in bad /\ \A y \in bad : h >= y
    <3> HIDE DEF bad
    <3> QED BY <2>1, HighestOf, Zenon
  <2>3. h \in 1 .. cap /\ ~Stops(s, dir, cap, h, g[h])
    BY <2>2
  <2>4. CASE h < cap /\ IsFree(bitfat, s + dir * h)
    <3>1. g[h] = g[h + 1] /\ h + 1 \in 1 .. cap
      BY <1>3, <2>3, <2>4
    <3>2. Stops(s, dir, cap, h + 1, g[h + 1])
      <4>1. h + 1 \notin bad
        <5> HIDE DEF bad
        <5>1. ~(h >= h + 1)
          BY <2>3
        <5> QED BY <2>2, <5>1
      <4> QED BY <3>1, <4>1
    <3> HIDE DEF bad
    <3>3. g[h + 1] \in h + 1 .. cap
      BY <3>2 DEF Stops
    <3>4. \A j \in h .. g[h] - 1 : j = h \/ j \in h + 1 .. g[h + 1] - 1
      BY <2>3, <3>1, <3>3
    <3>5. \A j \in h .. g[h] - 1 : IsFree(bitfat, s + dir * j)
      BY <2>4, <3>2, <3>4 DEF Stops
    <3>6. g[h] \in h .. cap
      BY <2>3, <3>1, <3>3
    <3>7. Stops(s, dir, cap, h, g[h])
      BY <3>1, <3>2, <3>5, <3>6 DEF Stops
    <3> QED BY <2>3, <3>7
  <2>5. CASE ~(h < cap /\ IsFree(bitfat, s + dir * h))
    <3>1. g[h] = h
      BY <1>3, <2>3, <2>5
    <3>2. Stops(s, dir, cap, h, h)
      BY <2>3, <2>5 DEF Stops
    <3> QED BY <2>3, <3>1, <3>2
  <2> QED BY <2>4, <2>5
<1> QED BY <1>2, <1>4

LEMMA RunsUp ==
  ASSUME NEW t \in Int, NEW cap \in Nat \ {0}
  PROVE  \E i \in 1 .. cap : /\ i = RunLength(t, 1, cap)
                             /\ \A j \in 1 .. i - 1 : IsFree(bitfat, t + j)
                             /\ i < cap => ~IsFree(bitfat, t + i)
<1>1. PICK i \in 1 .. cap : i = RunLength(t, 1, cap) /\ Stops(t, 1, cap, 1, i)
  BY RunStops DEF Stops
<1>2. \A j \in Int : t + 1 * j = t + j
  OBVIOUS
<1>3. \A j \in 1 .. i - 1 : j \in Int
  OBVIOUS
<1> QED BY <1>1, <1>2, <1>3 DEF Stops

LEMMA RunsDown ==
  ASSUME NEW t \in Int, NEW cap \in Nat \ {0}
  PROVE  \E i \in 1 .. cap : /\ i = RunLength(t, -1, cap)
                             /\ \A j \in 1 .. i - 1 : IsFree(bitfat, t - j)
                             /\ i < cap => ~IsFree(bitfat, t - i)
<1>1. PICK i \in 1 .. cap : i = RunLength(t, -1, cap) /\ Stops(t, -1, cap, 1, i)
  BY RunStops DEF Stops
<1>2. \A j \in Int : t + (-1) * j = t - j
  OBVIOUS
<1>3. \A j \in 1 .. i - 1 : j \in Int
  OBVIOUS
<1> QED BY <1>1, <1>2, <1>3 DEF Stops

-----------------------------------------------------------------------------
(* The scans.  H[t] is what a scan from t on is to find, described so that *)
(* each step of the loop keeps it.                                         *)
UpStep(last, cap, n, none, t, g) ==
  IF t > last THEN none
  ELSE IF ~IsFree(bitfat, t) THEN g[t + 1]
  ELSE LET i == RunLength(t, 1, cap) IN IF i = n THEN t ELSE g[t + i]
IsUp(last, cap, n, none, g) ==
  g = [testsek \in Int |->
        IF testsek > last THEN none
        ELSE IF ~IsFree(bitfat, testsek) THEN g[testsek + 1]
        ELSE LET i == RunLength(testsek, 1, cap)
             IN  IF i = n THEN testsek ELSE g[testsek + i]]

LEMMA IsUpSteps ==
  ASSUME NEW last, NEW cap, NEW n, NEW none, NEW g
  PROVE  IsUp(last, cap, n, none, g) <=>
           g = [t \in Int |-> UpStep(last, cap, n, none, t, g)]
BY DEF IsUp, UpStep

FoundUp(last, cap, n, H) ==
  \A t \in Int :
    /\ H[t] \subseteq t .. last
    /\ t <= last /\ ~IsFree(bitfat, t) => H[t] = H[t + 1]
    /\ t <= last /\ IsFree(bitfat, t) =>
         IF RunLength(t, 1, cap) = n THEN t \in H[t]
         ELSE H[t] = H[t + RunLength(t, 1, cap)]
FirstOr(none, S) == IF S = {} THEN none ELSE Lowest(S)

LEMMA UpExists ==
  ASSUME NEW last \in Int, NEW cap \in Nat \ {0}, NEW n, NEW none, NEW H,
         FoundUp(last, cap, n, H)
  PROVE  IsUp(last, cap, n, none, [t \in Int |-> FirstOr(none, H[t])])
<1> DEFINE g == [t \in Int |-> FirstOr(none, H[t])]
<1>1. ASSUME NEW t \in Int
      PROVE  g[t] = UpStep(last, cap, n, none, t, g)
  <2>1. g[t] = FirstOr(none, H[t]) /\ t + 1 \in Int
    OBVIOUS
  <2>2. H[t] \subseteq t .. last
    BY DEF FoundUp
  <2>3. CASE t > last
    <3>1. H[t] = {}
      BY <2>2, <2>3
    <3> QED BY <2>1, <2>3, <3>1 DEF FirstOr, UpStep
  <2>4. CASE t <= last /\ ~IsFree(bitfat, t)
    <3>1. g[t + 1] = FirstOr(none, H[t + 1]) /\ H[t] = H[t + 1]
      BY <2>1, <2>4 DEF FoundUp
    <3> HIDE DEF g
    <3> QED BY <2>1, <2>4, <3>1 DEF UpStep
  <2>5. CASE t <= last /\ IsFree(bitfat, t)
    <3>1. RunLength(t, 1, cap) \in 1 .. cap
      BY RunStops DEF Stops
    <3>2. CASE RunLength(t, 1, cap) = n
      <4>1. t \in H[t] /\ H[t] # {}
        BY <2>5, <3>2 DEF FoundUp
      <4>2. Lowest(H[t]) \in H[t] /\ Lowest(H[t]) <= t
        BY <2>2, <4>1, LowestOf
      <4>3. Lowest(H[t]) = t
        BY <2>2, <4>2
      <4> HIDE DEF g
      <4> QED BY <2>1, <2>5, <3>2, <4>1, <4>3 DEF FirstOr, UpStep
    <3>3. CASE RunLength(t, 1, cap) # n
      <4>1. H[t] = H[t + RunLength(t, 1, cap)] /\ t + RunLength(t, 1, cap) \in Int
        BY <2>5, <3>1, <3>3 DEF FoundUp
      <4>2. g[t + RunLength(t, 1, cap)] = FirstOr(none, H[t + RunLength(t, 1, cap)])
        BY <4>1
      <4> HIDE DEF g
      <4> QED BY <2>1, <2>5, <3>3, <4>1, <4>2 DEF UpStep
    <3> QED BY <3>2, <3>3
  <2> QED BY <2>3, <2>4, <2>5
<1>2. g = [t \in Int |-> UpStep(last, cap, n, none, t, g)]
  <2> DEFINE h == [t \in Int |-> UpStep(last, cap, n, none, t, g)]
  <2>1. \A t \in Int : g[t] = h[t]
    <3> HIDE DEF g
    <3> QED BY <1>1
  <2> QED BY <2>1
<1> HIDE DEF g
<1>3. IsUp(last, cap, n, none, g)
  BY <1>2, IsUpSteps
<1> QED BY <1>3 DEF g

LEMMA ScanUpFinds ==
  ASSUME NEW from \in Int, NEW last \in Int, NEW cap \in Nat \ {0}, NEW n, NEW none,
         NEW H, FoundUp(last, cap, n, H)
  PROVE  ScanUp(from, last, cap, n, none) = FirstOr(none, H[from])
<1> DEFINE g == CHOOSE g : IsUp(last, cap, n, none, g)
           bad == {t \in from .. last : g[t] # FirstOr(none, H[t])}
<1>1. IsUp(last, cap, n, none, g)
  BY UpExists
<1>2. ScanUp(from, last, cap, n, none) = g[from]
  BY DEF ScanUp, IsUp
<1>3. \A t \in Int : g[t] = UpStep(last, cap, n, none, t, g)
  <2> HIDE DEF g
  <2> DEFINE h == [t \in Int |-> UpStep(last, cap, n, none, t, g)]
  <2>1. g = h
    BY <1>1, IsUpSteps
  <2>2. \A t \in Int : h[t] = UpStep(last, cap, n, none, t, g)
    OBVIOUS
  <2> HIDE DEF h
  <2> QED BY <2>1, <2>2
<1> HIDE DEF g
<1>4. ASSUME NEW t \in Int, t > last
      PROVE  g[t] = FirstOr(none, H[t])
  <2>1. H[t] = {}
    <3>1. H[t] \subseteq t .. last
      BY DEF FoundUp
    <3> QED BY <1>4, <3>1
  <2> QED BY <1>3, <1>4, <2>1 DEF UpStep, FirstOr
<1>5. bad = {}
  <2> SUFFICES ASSUME bad # {} PROVE FALSE
    OBVIOUS
  <2>1. bad \subseteq from .. last
    OBVIOUS
  <2>2. PICK h : h = Highest(bad) /\ h \in bad /\ \A y \in bad : h >= y
    <3> HIDE DEF bad
    <3> QED BY <2>1, HighestOf, Zenon
  <2>3. h \in from .. last /\ g[h] # FirstOr(none, H[h]) /\ h \in Int
    BY <2>2
  <2>4. ASSUME NEW d \in Nat \ {0}
        PROVE  g[h + d] = FirstOr(none, H[h + d])
    <3>1. CASE h + d > last
      BY <1>4, <2>3, <3>1
    <3>2. CASE h + d <= last
      <4>1. h + d \notin bad
        <5> HIDE DEF bad
        <5>1. ~(h >= h + d)
          BY <2>3
        <5> QED BY <2>2, <5>1
      <4>2. h + d \in from .. last
        BY <2>3, <3>2
      <4> QED BY <4>1, <4>2
    <3> QED BY <2>3, <3>1, <3>2
  <2> HIDE DEF bad
  <2>5. CASE ~IsFree(bitfat, h)
    <3>1. g[h] = g[h + 1] /\ H[h] = H[h + 1]
      BY <1>3, <2>3, <2>5 DEF UpStep, FoundUp
    <3>2. g[h + 1] = FirstOr(none, H[h + 1])
      BY <2>4
    <3> QED BY <2>3, <3>1, <3>2
  <2>6. CASE IsFree(bitfat, h)
    <3>1. RunLength(h, 1, cap) \in 1 .. cap
      BY <2>3, RunStops DEF Stops
    <3>2. CASE RunLength(h, 1, cap) = n
      <4>1. h \in H[h] /\ H[h] # {} /\ H[h] \subseteq h .. last
        BY <2>3, <2>6, <3>2 DEF FoundUp
      <4>2. Lowest(H[h]) \in H[h] /\ Lowest(H[h]) <= h
        BY <2>3, <4>1, LowestOf
      <4>3. Lowest(H[h]) = h
        BY <2>3, <4>1, <4>2
      <4>4. g[h] = h
        BY <1>3, <2>3, <2>6, <3>2 DEF UpStep
      <4> QED BY <2>3, <4>1, <4>3, <4>4 DEF FirstOr
    <3>3. CASE RunLength(h, 1, cap) # n
      <4>1. g[h] = g[h + RunLength(h, 1, cap)] /\ H[h] = H[h + RunLength(h, 1, cap)]
        BY <1>3, <2>3, <2>6, <3>3 DEF UpStep, FoundUp
      <4>2. g[h + RunLength(h, 1, cap)] = FirstOr(none, H[h + RunLength(h, 1, cap)])
        BY <2>4, <3>1
      <4> QED BY <2>3, <4>1, <4>2
    <3> QED BY <3>2, <3>3
  <2> QED BY <2>5, <2>6
<1>6. g[from] = FirstOr(none, H[from])
  BY <1>4, <1>5
<1> QED BY <1>2, <1>6

(* The same downwards.                                                    *)
DownStep(first, cap, n, none, t, g) ==
  IF t < first THEN none
  ELSE IF ~IsFree(bitfat, t) THEN g[t - 1]
  ELSE LET i == RunLength(t, -1, cap) IN IF i = n THEN t - i + 1 ELSE g[t - i]
IsDown(first, cap, n, none, g) ==
  g = [testsek \in Int |->
        IF testsek < first THEN none
        ELSE IF ~IsFree(bitfat, testsek) THEN g[testsek - 1]
        ELSE LET i == RunLength(testsek, -1, cap)
             IN  IF i = n THEN testsek - i + 1 ELSE g[testsek - i]]

LEMMA IsDownSteps ==
  ASSUME NEW first, NEW cap, NEW n, NEW none, NEW g
  PROVE  IsDown(first, cap, n, none, g) <=>
           g = [t \in Int |-> DownStep(first, cap, n, none, t, g)]
BY DEF IsDown, DownStep

FoundDown(first, cap, n, H) ==
  \A t \in Int :
    /\ H[t] \subseteq first .. t
    /\ t >= first /\ ~IsFree(bitfat, t) => H[t] = H[t - 1]
    /\ t >= first /\ IsFree(bitfat, t) =>
         IF RunLength(t, -1, cap) = n THEN t \in H[t]
         ELSE H[t] = H[t - RunLength(t, -1, cap)]
LastOr(none, n, S) == IF S = {} THEN none ELSE Highest(S) - n + 1

LEMMA DownExists ==
  ASSUME NEW first \in Int, NEW cap \in Nat \ {0}, NEW n \in Int, NEW none, NEW H,
         FoundDown(first, cap, n, H)
  PROVE  IsDown(first, cap, n, none, [t \in Int |-> LastOr(none, n, H[t])])
<1> DEFINE g == [t \in Int |-> LastOr(none, n, H[t])]
<1>1. ASSUME NEW t \in Int
      PROVE  g[t] = DownStep(first, cap, n, none, t, g)
  <2>1. g[t] = LastOr(none, n, H[t]) /\ t - 1 \in Int
    OBVIOUS
  <2>2. H[t] \subseteq first .. t
    BY DEF FoundDown
  <2>3. CASE t < first
    <3>1. H[t] = {}
      BY <2>2, <2>3
    <3> QED BY <2>1, <2>3, <3>1 DEF LastOr, DownStep
  <2>4. CASE t >= first /\ ~IsFree(bitfat, t)
    <3>1. g[t - 1] = LastOr(none, n, H[t - 1]) /\ H[t] = H[t - 1]
      BY <2>1, <2>4 DEF FoundDown
    <3> HIDE DEF g
    <3> QED BY <2>1, <2>4, <3>1 DEF DownStep
  <2>5. CASE t >= first /\ IsFree(bitfat, t)
    <3>1. RunLength(t, -1, cap) \in 1 .. cap
      BY RunStops DEF Stops
    <3>2. CASE RunLength(t, -1, cap) = n
      <4>1. t \in H[t] /\ H[t] # {}
        BY <2>5, <3>2 DEF FoundDown
      <4>2. Highest(H[t]) \in H[t] /\ Highest(H[t]) >= t
        BY <2>2, <4>1, HighestOf
      <4>3. Highest(H[t]) = t
        BY <2>2, <4>2
      <4> HIDE DEF g
      <4> QED BY <2>1, <2>5, <3>2, <4>1, <4>3 DEF LastOr, DownStep
    <3>3. CASE RunLength(t, -1, cap) # n
      <4>1. H[t] = H[t - RunLength(t, -1, cap)] /\ t - RunLength(t, -1, cap) \in Int
        BY <2>5, <3>1, <3>3 DEF FoundDown
      <4>2. g[t - RunLength(t, -1, cap)] = LastOr(none, n, H[t - RunLength(t, -1, cap)])
        BY <4>1
      <4> HIDE DEF g
      <4> QED BY <2>1, <2>5, <3>3, <4>1, <4>2 DEF DownStep
    <3> QED BY <3>2, <3>3
  <2> QED BY <2>3, <2>4, <2>5
<1>2. g = [t \in Int |-> DownStep(first, cap, n, none, t, g)]
  <2> DEFINE h == [t \in Int |-> DownStep(first, cap, n, none, t, g)]
  <2>1. \A t \in Int : g[t] = h[t]
    <3> HIDE DEF g
    <3> QED BY <1>1
  <2> QED BY <2>1
<1> HIDE DEF g
<1>3. IsDown(first, cap, n, none, g)
  BY <1>2, IsDownSteps
<1> QED BY <1>3 DEF g

LEMMA ScanDownFinds ==
  ASSUME NEW from \in Int, NEW first \in Int, NEW cap \in Nat \ {0}, NEW n \in Int, NEW none,
         NEW H, FoundDown(first, cap, n, H)
  PROVE  ScanDown(from, first, cap, n, none) = LastOr(none, n, H[from])
<1> DEFINE g == CHOOSE g : IsDown(first, cap, n, none, g)
           bad == {t \in first .. from : g[t] # LastOr(none, n, H[t])}
<1>1. IsDown(first, cap, n, none, g)
  BY DownExists
<1>2. ScanDown(from, first, cap, n, none) = g[from]
  BY DEF ScanDown, IsDown
<1>3. \A t \in Int : g[t] = DownStep(first, cap, n, none, t, g)
  <2> HIDE DEF g
  <2> DEFINE h == [t \in Int |-> DownStep(first, cap, n, none, t, g)]
  <2>1. g = h
    BY <1>1, IsDownSteps
  <2>2. \A t \in Int : h[t] = DownStep(first, cap, n, none, t, g)
    OBVIOUS
  <2> HIDE DEF h
  <2> QED BY <2>1, <2>2
<1> HIDE DEF g
<1>4. ASSUME NEW t \in Int, t < first
      PROVE  g[t] = LastOr(none, n, H[t])
  <2>1. H[t] = {}
    <3>1. H[t] \subseteq first .. t
      BY DEF FoundDown
    <3> QED BY <1>4, <3>1
  <2> QED BY <1>3, <1>4, <2>1 DEF DownStep, LastOr
<1>5. bad = {}
  <2> SUFFICES ASSUME bad # {} PROVE FALSE
    OBVIOUS
  <2>1. bad \subseteq first .. from
    OBVIOUS
  <2>2. PICK h : h = Lowest(bad) /\ h \in bad /\ \A y \in bad : h <= y
    <3> HIDE DEF bad
    <3> QED BY <2>1, LowestOf, Zenon
  <2>3. h \in first .. from /\ g[h] # LastOr(none, n, H[h]) /\ h \in Int
    BY <2>2
  <2>4. ASSUME NEW d \in Nat \ {0}
        PROVE  g[h - d] = LastOr(none, n, H[h - d])
    <3>1. CASE h - d < first
      BY <1>4, <2>3, <3>1
    <3>2. CASE h - d >= first
      <4>1. h - d \notin bad
        <5> HIDE DEF bad
        <5>1. ~(h <= h - d)
          BY <2>3
        <5> QED BY <2>2, <5>1
      <4>2. h - d \in first .. from
        BY <2>3, <3>2
      <4> QED BY <4>1, <4>2
    <3> QED BY <2>3, <3>1, <3>2
  <2> HIDE DEF bad
  <2>5. CASE ~IsFree(bitfat, h)
    <3>1. g[h] = g[h - 1] /\ H[h] = H[h - 1]
      BY <1>3, <2>3, <2>5 DEF DownStep, FoundDown
    <3>2. g[h - 1] = LastOr(none, n, H[h - 1])
      BY <2>4
    <3> QED BY <2>3, <3>1, <3>2
  <2>6. CASE IsFree(bitfat, h)
    <3>1. RunLength(h, -1, cap) \in 1 .. cap
      BY <2>3, RunStops DEF Stops
    <3>2. CASE RunLength(h, -1, cap) = n
      <4>1. h \in H[h] /\ H[h] # {} /\ H[h] \subseteq first .. h
        BY <2>3, <2>6, <3>2 DEF FoundDown
      <4>2. Highest(H[h]) \in H[h] /\ Highest(H[h]) >= h
        BY <2>3, <4>1, HighestOf
      <4>3. Highest(H[h]) = h
        BY <2>3, <4>1, <4>2
      <4>4. g[h] = h - n + 1
        BY <1>3, <2>3, <2>6, <3>2 DEF DownStep
      <4> QED BY <2>3, <4>1, <4>3, <4>4 DEF LastOr
    <3>3. CASE RunLength(h, -1, cap) # n
      <4>1. g[h] = g[h - RunLength(h, -1, cap)] /\ H[h] = H[h - RunLength(h, -1, cap)]
        BY <1>3, <2>3, <2>6, <3>3 DEF DownStep, FoundDown
      <4>2. g[h - RunLength(h, -1, cap)] = LastOr(none, n, H[h - RunLength(h, -1, cap)])
        BY <2>4, <3>1
      <4> QED BY <2>3, <4>1, <4>2
    <3> QED BY <3>2, <3>3
  <2> QED BY <2>5, <2>6
<1>6. g[from] = LastOr(none, n, H[from])
  BY <1>4, <1>5
<1> QED BY <1>2, <1>6

-----------------------------------------------------------------------------
(* What BitfatSearch says the loops find is kept by their steps.           *)
LEMMA FittingFound ==
  ASSUME NEW last \in Int, NEW n \in Nat \ {0}
  PROVE  FoundUp(last, n, n, [t \in Int |-> FittingHoles(bitfat, t, last, n)])
<1> DEFINE F(t) == FittingHoles(bitfat, t, last, n)
<1>0. \A t \in Int : RunLength(t, 1, n) \in 1 .. n
  BY RunStops DEF Stops
<1> SUFFICES ASSUME NEW t \in Int
             PROVE  /\ F(t) \subseteq t .. last
                    /\ t <= last /\ ~IsFree(bitfat, t) => F(t) = F(t + 1)
                    /\ t <= last /\ IsFree(bitfat, t) =>
                         IF RunLength(t, 1, n) = n THEN t \in F(t)
                         ELSE F(t) = F(t + RunLength(t, 1, n))
  BY <1>0 DEF FoundUp
<1>1. F(t) \subseteq t .. last
  BY DEF FittingHoles
<1>2. ASSUME t <= last, ~IsFree(bitfat, t)
      PROVE  F(t) = F(t + 1)
  <2>1. ~Hole(bitfat, t, n)
    BY <1>2 DEF Hole
  <2> QED BY <1>2, <2>1 DEF FittingHoles
<1>3. ASSUME t <= last, IsFree(bitfat, t)
      PROVE  IF RunLength(t, 1, n) = n THEN t \in F(t)
             ELSE F(t) = F(t + RunLength(t, 1, n))
  <2>1. PICK i \in 1 .. n : /\ i = RunLength(t, 1, n)
                            /\ \A j \in 1 .. i - 1 : IsFree(bitfat, t + j)
                            /\ i < n => ~IsFree(bitfat, t + i)
    BY RunsUp
  <2>2. CASE i = n
    <3>1. \A s \in t .. t + n - 1 : s = t \/ s - t \in 1 .. i - 1
      BY <2>2
    <3>2. Hole(bitfat, t, n)
      BY <1>3, <2>1, <3>1 DEF Hole
    <3> QED BY <1>3, <2>1, <2>2, <3>2 DEF FittingHoles
  <2>3. CASE i # n
    <3>1. \A s \in t .. t + i : t + i \in s .. s + n - 1
      BY <2>1, <2>3
    <3>2. \A s \in t .. t + i : ~Hole(bitfat, s, n)
      BY <2>1, <2>3, <3>1 DEF Hole
    <3>3. F(t) = F(t + i)
      BY <3>2 DEF FittingHoles
    <3> QED BY <2>1, <2>3, <3>3
  <2> QED BY <2>2, <2>3
<1> QED BY <1>1, <1>2, <1>3

(* An element is found by the scan that cuts the hole from its entry on.   *)
Entered(t, s, n) ==
  \E entry \in t .. s :
    /\ Hole(bitfat, entry, s - entry)
    /\ entry = t \/ ~IsFree(bitfat, entry - 1)
    /\ (s - entry) % (n + 1) = 0

LEMMA DivMod ==
  ASSUME NEW a \in Nat, NEW b \in Nat, b > 0
  PROVE  a \div b \in Nat /\ a % b \in 0 .. b - 1 /\ a = b * (a \div b) + (a % b)
BY SMT

LEMMA Remainder ==
  ASSUME NEW x \in Nat, NEW m \in Nat \ {0}
  PROVE  /\ (x + m) % m = 0 <=> x % m = 0
         /\ x % m = 0 => x = 0 \/ x >= m
<1>1. m > 0 /\ x + m \in Nat
  OBVIOUS
<1>2. PICK q \in Nat, r \in 0 .. m - 1 : x % m = r /\ x = m * q + r
  BY <1>1, DivMod
<1>3. PICK p \in Nat, z \in 0 .. m - 1 : (x + m) % m = z /\ x + m = m * p + z
  BY <1>1, DivMod
<1>4. m * p + z = m * q + r + m
  BY <1>2, <1>3
<1>5. CASE p >= q + 2
  <2>1. m * (p - q - 2) >= 0
    BY <1>5
  <2>2. m * (p - q - 2) = m * p - m * q - m - m
    OBVIOUS
  <2> QED BY <1>4, <2>1, <2>2
<1>6. CASE p = q + 1
  <2>1. m * (q + 1) = m * q + m
    OBVIOUS
  <2>2. z = r
    BY <1>4, <1>6, <2>1
  <2>3. q = 0 => x = r
    BY <1>2
  <2>4. q >= 1 => m * q >= m
    <3>1. q >= 1 => m * (q - 1) >= 0
      OBVIOUS
    <3>2. m * (q - 1) = m * q - m
      OBVIOUS
    <3> QED BY <3>1, <3>2
  <2> QED BY <1>2, <1>3, <2>2, <2>3, <2>4
<1>7. CASE p <= q
  <2>1. m * (q - p) >= 0
    BY <1>7
  <2>2. m * (q - p) = m * q - m * p
    OBVIOUS
  <2> QED BY <1>4, <2>1, <2>2
<1> QED BY <1>5, <1>6, <1>7

(* The steps of a scan that counts to n+1.                                 *)
LEMMA ExactFound ==
  ASSUME NEW last \in Int, NEW n \in Nat \ {0}
  PROVE  FoundUp(last, n + 1, n, [t \in Int |-> ExactHolesAbove(bitfat, t, last, n)])
<1> DEFINE F(t) == ExactHolesAbove(bitfat, t, last, n)
<1>0. \A t \in Int : RunLength(t, 1, n + 1) \in 1 .. n + 1
  BY RunStops DEF Stops
<1> SUFFICES ASSUME NEW t \in Int
             PROVE  /\ F(t) \subseteq t .. last
                    /\ t <= last /\ ~IsFree(bitfat, t) => F(t) = F(t + 1)
                    /\ t <= last /\ IsFree(bitfat, t) =>
                         IF RunLength(t, 1, n + 1) = n THEN t \in F(t)
                         ELSE F(t) = F(t + RunLength(t, 1, n + 1))
  BY <1>0 DEF FoundUp
<1>1. \A u, s \in Int : s \in F(u) <=>
        /\ s \in u .. last /\ Hole(bitfat, s, n) /\ ~IsFree(bitfat, s + n)
        /\ Entered(u, s, n)
  BY DEF ExactHolesAbove, Entered
<1>2. F(t) \subseteq t .. last /\ \A u \in Int : F(u) \subseteq Int
  BY DEF ExactHolesAbove
<1> HIDE DEF F
\* A scan that has come to a used sector starts anew behind it.
<1>3. ASSUME NEW w \in Int, NEW u \in w .. w + n - 1, ~IsFree(bitfat, u)
      PROVE  F(w) = F(u + 1)
  <2>1. ASSUME NEW s \in Int, s \in F(w) PROVE s \in F(u + 1)
    <3>1. /\ s \in w .. last /\ Hole(bitfat, s, n) /\ ~IsFree(bitfat, s + n)
          /\ Entered(w, s, n)
      BY <1>1, <2>1
    <3>2. s > u
      <4>1. s <= u => u \in s .. s + n - 1
        BY <1>3, <3>1
      <4> QED BY <1>3, <3>1, <4>1 DEF Hole
    <3>3. PICK entry \in w .. s : /\ Hole(bitfat, entry, s - entry)
                                  /\ entry = w \/ ~IsFree(bitfat, entry - 1)
                                  /\ (s - entry) % (n + 1) = 0
      BY <3>1 DEF Entered
    <3>4. entry > u
      <4>1. entry <= u => u \in entry .. entry + (s - entry) - 1
        BY <1>3, <3>2, <3>3
      <4> QED BY <1>3, <3>3, <4>1 DEF Hole
    <3>5. entry \in u + 1 .. s /\ entry # w
      BY <1>3, <3>3, <3>4
    <3>6. Entered(u + 1, s, n)
      BY <3>3, <3>5 DEF Entered
    <3> QED BY <1>1, <1>3, <3>1, <3>2, <3>6
  <2>2. ASSUME NEW s \in Int, s \in F(u + 1) PROVE s \in F(w)
    <3>1. /\ s \in u + 1 .. last /\ Hole(bitfat, s, n) /\ ~IsFree(bitfat, s + n)
          /\ Entered(u + 1, s, n)
      BY <1>1, <2>2
    <3>2. PICK entry \in u + 1 .. s : /\ Hole(bitfat, entry, s - entry)
                                      /\ entry = u + 1 \/ ~IsFree(bitfat, entry - 1)
                                      /\ (s - entry) % (n + 1) = 0
      BY <3>1 DEF Entered
    <3>3. entry \in w .. s /\ ~IsFree(bitfat, entry - 1)
      <4>1. (u + 1) - 1 = u
        OBVIOUS
      <4> QED BY <1>3, <3>1, <3>2, <4>1
    <3>4. Entered(w, s, n)
      BY <3>2, <3>3 DEF Entered
    <3>5. s \in w .. last
      BY <1>3, <3>1
    <3> QED BY <1>1, <3>1, <3>4, <3>5
  <2>3. F(w) \subseteq Int /\ F(u + 1) \subseteq Int
    BY <1>2
  <2> QED BY <2>1, <2>2, <2>3
<1>4. ASSUME t <= last, ~IsFree(bitfat, t)
      PROVE  F(t) = F(t + 1)
  BY <1>3, <1>4
<1>5. ASSUME t <= last, IsFree(bitfat, t)
      PROVE  IF RunLength(t, 1, n + 1) = n THEN t \in F(t)
             ELSE F(t) = F(t + RunLength(t, 1, n + 1))
  <2>1. PICK i \in 1 .. n + 1 : /\ i = RunLength(t, 1, n + 1)
                                /\ \A j \in 1 .. i - 1 : IsFree(bitfat, t + j)
                                /\ i < n + 1 => ~IsFree(bitfat, t + i)
    <3>1. n + 1 \in Nat \ {0}
      OBVIOUS
    <3> QED BY <3>1, RunsUp
  <2>2. \A s \in t .. t + i - 1 : IsFree(bitfat, s)
    <3>1. \A s \in t .. t + i - 1 : s = t \/ (s - t \in 1 .. i - 1 /\ t + (s - t) = s)
      BY <2>1
    <3> QED BY <1>5, <2>1, <3>1
  <2>3. CASE i = n
    <3>1. Hole(bitfat, t, n) /\ ~IsFree(bitfat, t + n)
      BY <2>1, <2>2, <2>3 DEF Hole
    <3>2. t \in t .. t /\ Hole(bitfat, t, t - t)
      BY DEF Hole
    <3>3. (t - t) % (n + 1) = 0
      OBVIOUS
    <3>4. Entered(t, t, n)
      BY <3>2, <3>3 DEF Entered
    <3> QED BY <1>1, <1>5, <2>1, <2>3, <3>1, <3>4
  <2>4. CASE i < n
    <3>1. t + i \in Int /\ t + i \in t .. t + n - 1 /\ t + i \in t + i .. t + i + n - 1
      BY <2>4
    <3>2. F(t) = F(t + i + 1) /\ F(t + i) = F(t + i + 1)
      BY <1>3, <2>1, <2>4, <3>1
    <3> QED BY <2>1, <2>4, <3>2
  <2>5. CASE i = n + 1
    <3>1. ASSUME NEW s \in Int, s \in F(t) PROVE s \in F(t + n + 1)
      <4>1. /\ s \in t .. last /\ Hole(bitfat, s, n) /\ ~IsFree(bitfat, s + n)
            /\ Entered(t, s, n)
        BY <1>1, <3>1
      <4>2. PICK entry \in t .. s : /\ Hole(bitfat, entry, s - entry)
                                    /\ entry = t \/ ~IsFree(bitfat, entry - 1)
                                    /\ (s - entry) % (n + 1) = 0
        BY <4>1 DEF Entered
      <4>3. CASE entry = t
        <5>1. s # t
          BY <2>2, <2>5, <4>1
        <5>2. s - t >= n + 1
          <6>1. s - t \in Nat /\ n + 1 \in Nat \ {0}
            BY <4>1
          <6> QED BY <4>2, <4>3, <5>1, <6>1, Remainder
        <5>3. (s - (t + n + 1)) % (n + 1) = 0
          <6>1. s - (t + n + 1) \in Nat /\ n + 1 \in Nat \ {0}
                /\ (s - (t + n + 1)) + (n + 1) = s - t
            BY <4>1, <5>2
          <6> QED BY <4>2, <4>3, <6>1, Remainder
        <5>4. Hole(bitfat, t + n + 1, s - (t + n + 1))
          BY <4>2, <4>3, <5>2 DEF Hole
        <5>5. t + n + 1 \in t + n + 1 .. s /\ s \in t + n + 1 .. last
          BY <4>1, <5>2
        <5>6. Entered(t + n + 1, s, n)
          BY <5>3, <5>4, <5>5 DEF Entered
        <5> QED BY <1>1, <4>1, <5>5, <5>6
      <4>4. CASE entry # t
        <5>1. ~IsFree(bitfat, entry - 1)
          BY <4>2, <4>4
        <5>2. entry - 1 \notin t .. t + i - 1
          BY <2>2, <5>1
        <5>3. entry \in t + n + 1 .. s /\ s \in t + n + 1 .. last
          BY <2>5, <4>1, <4>2, <4>4, <5>2
        <5>4. Entered(t + n + 1, s, n)
          BY <4>2, <5>1, <5>3 DEF Entered
        <5> QED BY <1>1, <4>1, <5>3, <5>4
      <4> QED BY <4>3, <4>4
    <3>2. ASSUME NEW s \in Int, s \in F(t + n + 1) PROVE s \in F(t)
      <4>1. /\ s \in t + n + 1 .. last /\ Hole(bitfat, s, n) /\ ~IsFree(bitfat, s + n)
            /\ Entered(t + n + 1, s, n)
        BY <1>1, <3>2
      <4>2. PICK entry \in t + n + 1 .. s : /\ Hole(bitfat, entry, s - entry)
                                            /\ entry = t + n + 1 \/ ~IsFree(bitfat, entry - 1)
                                            /\ (s - entry) % (n + 1) = 0
        BY <4>1 DEF Entered
      <4>3. CASE entry = t + n + 1
        <5>1. (s - t) % (n + 1) = 0
          <6>1. s - (t + n + 1) \in Nat /\ n + 1 \in Nat \ {0}
                /\ (s - (t + n + 1)) + (n + 1) = s - t
            BY <4>1
          <6> QED BY <4>2, <4>3, <6>1, Remainder
        <5>2. Hole(bitfat, t, s - t)
          <6>1. \A v \in t .. s - 1 : v \in t .. t + i - 1 \/ v \in entry .. entry + (s - entry) - 1
            BY <2>5, <4>1, <4>3
          <6>2. \A v \in t .. s - 1 : IsFree(bitfat, v)
            BY <2>2, <4>2, <6>1 DEF Hole
          <6>3. t + (s - t) - 1 = s - 1
            BY <4>1
          <6> QED BY <6>2, <6>3 DEF Hole
        <5>3. t \in t .. s
          BY <4>1
        <5>4. Entered(t, s, n)
          BY <5>1, <5>2, <5>3 DEF Entered
        <5>5. s \in t .. last
          BY <4>1
        <5> QED BY <1>1, <4>1, <5>4, <5>5
      <4>4. CASE entry # t + n + 1
        <5>1. entry \in t .. s /\ s \in t .. last
          BY <4>1, <4>2
        <5>2. Entered(t, s, n)
          BY <4>2, <4>4, <5>1 DEF Entered
        <5> QED BY <1>1, <4>1, <5>1, <5>2
      <4> QED BY <4>3, <4>4
    <3>3. F(t) \subseteq Int /\ F(t + n + 1) \subseteq Int /\ t + i = t + n + 1
      BY <1>2, <2>5
    <3> QED BY <2>1, <2>5, <3>1, <3>2, <3>3
  <2> QED BY <2>1, <2>3, <2>4, <2>5
<1> QED BY <1>2, <1>4, <1>5

(* The same downwards: the elements are the last sectors of holes.         *)
EnteredBelow(t, s, n) ==
  \E entry \in s .. t :
    /\ Hole(bitfat, s + 1, entry - s)
    /\ entry = t \/ ~IsFree(bitfat, entry + 1)
    /\ (entry - s) % (n + 1) = 0

LEMMA ExactBelowFound ==
  ASSUME NEW first \in Int, NEW n \in Nat \ {0}
  PROVE  FoundDown(first, n + 1, n, [t \in Int |-> ExactHolesBelow(bitfat, t, first, n)])
<1> DEFINE F(t) == ExactHolesBelow(bitfat, t, first, n)
<1>0. \A t \in Int : RunLength(t, -1, n + 1) \in 1 .. n + 1
  BY RunStops DEF Stops
<1> SUFFICES ASSUME NEW t \in Int
             PROVE  /\ F(t) \subseteq first .. t
                    /\ t >= first /\ ~IsFree(bitfat, t) => F(t) = F(t - 1)
                    /\ t >= first /\ IsFree(bitfat, t) =>
                         IF RunLength(t, -1, n + 1) = n THEN t \in F(t)
                         ELSE F(t) = F(t - RunLength(t, -1, n + 1))
  BY <1>0 DEF FoundDown
<1>1. \A u, s \in Int : s \in F(u) <=>
        /\ s \in first .. u /\ Hole(bitfat, s - n + 1, n) /\ ~IsFree(bitfat, s - n)
        /\ EnteredBelow(u, s, n)
  BY DEF ExactHolesBelow, EnteredBelow
<1>2. F(t) \subseteq first .. t /\ \A u \in Int : F(u) \subseteq Int
  BY DEF ExactHolesBelow
<1> HIDE DEF F
<1>3. ASSUME NEW w \in Int, NEW u \in w - n + 1 .. w, ~IsFree(bitfat, u)
      PROVE  F(w) = F(u - 1)
  <2>1. ASSUME NEW s \in Int, s \in F(w) PROVE s \in F(u - 1)
    <3>1. /\ s \in first .. w /\ Hole(bitfat, s - n + 1, n) /\ ~IsFree(bitfat, s - n)
          /\ EnteredBelow(w, s, n)
      BY <1>1, <2>1
    <3>2. s < u
      <4>1. s >= u => u \in s - n + 1 .. (s - n + 1) + n - 1
        BY <1>3, <3>1
      <4> QED BY <1>3, <3>1, <4>1 DEF Hole
    <3>3. PICK entry \in s .. w : /\ Hole(bitfat, s + 1, entry - s)
                                  /\ entry = w \/ ~IsFree(bitfat, entry + 1)
                                  /\ (entry - s) % (n + 1) = 0
      BY <3>1 DEF EnteredBelow
    <3>4. entry < u
      <4>1. entry >= u => u \in s + 1 .. (s + 1) + (entry - s) - 1
        BY <1>3, <3>2, <3>3
      <4> QED BY <1>3, <3>3, <4>1 DEF Hole
    <3>5. entry \in s .. u - 1 /\ entry # w
      BY <1>3, <3>3, <3>4
    <3>6. EnteredBelow(u - 1, s, n)
      BY <3>3, <3>5 DEF EnteredBelow
    <3> QED BY <1>1, <1>3, <3>1, <3>2, <3>6
  <2>2. ASSUME NEW s \in Int, s \in F(u - 1) PROVE s \in F(w)
    <3>1. /\ s \in first .. u - 1 /\ Hole(bitfat, s - n + 1, n) /\ ~IsFree(bitfat, s - n)
          /\ EnteredBelow(u - 1, s, n)
      BY <1>1, <2>2
    <3>2. PICK entry \in s .. u - 1 : /\ Hole(bitfat, s + 1, entry - s)
                                      /\ entry = u - 1 \/ ~IsFree(bitfat, entry + 1)
                                      /\ (entry - s) % (n + 1) = 0
      BY <3>1 DEF EnteredBelow
    <3>3. entry \in s .. w /\ ~IsFree(bitfat, entry + 1)
      <4>1. (u - 1) + 1 = u
        OBVIOUS
      <4> QED BY <1>3, <3>1, <3>2, <4>1
    <3>4. EnteredBelow(w, s, n)
      BY <3>2, <3>3 DEF EnteredBelow
    <3>5. s \in first .. w
      BY <1>3, <3>1
    <3> QED BY <1>1, <3>1, <3>4, <3>5
  <2>3. F(w) \subseteq Int /\ F(u - 1) \subseteq Int
    BY <1>2
  <2> QED BY <2>1, <2>2, <2>3
<1>4. ASSUME t >= first, ~IsFree(bitfat, t)
      PROVE  F(t) = F(t - 1)
  BY <1>3, <1>4
<1>5. ASSUME t >= first, IsFree(bitfat, t)
      PROVE  IF RunLength(t, -1, n + 1) = n THEN t \in F(t)
             ELSE F(t) = F(t - RunLength(t, -1, n + 1))
  <2>1. PICK i \in 1 .. n + 1 : /\ i = RunLength(t, -1, n + 1)
                                /\ \A j \in 1 .. i - 1 : IsFree(bitfat, t - j)
                                /\ i < n + 1 => ~IsFree(bitfat, t - i)
    <3>1. n + 1 \in Nat \ {0}
      OBVIOUS
    <3> QED BY <3>1, RunsDown
  <2>2. \A s \in t - i + 1 .. t : IsFree(bitfat, s)
    <3>1. \A s \in t - i + 1 .. t : s = t \/ (t - s \in 1 .. i - 1 /\ t - (t - s) = s)
      BY <2>1
    <3> QED BY <1>5, <2>1, <3>1
  <2>3. CASE i = n
    <3>1. Hole(bitfat, t - n + 1, n) /\ ~IsFree(bitfat, t - n)
      BY <2>1, <2>2, <2>3 DEF Hole
    <3>2. t \in t .. t /\ Hole(bitfat, t + 1, t - t)
      BY DEF Hole
    <3>3. (t - t) % (n + 1) = 0
      OBVIOUS
    <3>4. EnteredBelow(t, t, n)
      BY <3>2, <3>3 DEF EnteredBelow
    <3> QED BY <1>1, <1>5, <2>1, <2>3, <3>1, <3>4
  <2>4. CASE i < n
    <3>1. t - i \in Int /\ t - i \in t - n + 1 .. t /\ t - i \in t - i - n + 1 .. t - i
      BY <2>4
    <3>2. F(t) = F(t - i - 1) /\ F(t - i) = F(t - i - 1)
      BY <1>3, <2>1, <2>4, <3>1
    <3> QED BY <2>1, <2>4, <3>2
  <2>5. CASE i = n + 1
    <3> DEFINE u == t - n - 1
    <3>0. u \in Int /\ u = t - i
      BY <2>5
    <3>1. ASSUME NEW s \in Int, s \in F(t) PROVE s \in F(u)
      <4>1. /\ s \in first .. t /\ Hole(bitfat, s - n + 1, n) /\ ~IsFree(bitfat, s - n)
            /\ EnteredBelow(t, s, n)
        BY <1>1, <3>1
      <4>2. PICK entry \in s .. t : /\ Hole(bitfat, s + 1, entry - s)
                                    /\ entry = t \/ ~IsFree(bitfat, entry + 1)
                                    /\ (entry - s) % (n + 1) = 0
        BY <4>1 DEF EnteredBelow
      <4>3. CASE entry = t
        <5>1. s # t
          BY <2>2, <2>5, <4>1
        <5>2. t - s >= n + 1
          <6>1. t - s \in Nat /\ n + 1 \in Nat \ {0}
            BY <4>1
          <6> QED BY <4>2, <4>3, <5>1, <6>1, Remainder
        <5>3. (u - s) % (n + 1) = 0
          <6>1. u - s \in Nat /\ n + 1 \in Nat \ {0} /\ (u - s) + (n + 1) = t - s
            BY <4>1, <5>2
          <6> HIDE DEF u
          <6> QED BY <4>2, <4>3, <6>1, Remainder
        <5>4. Hole(bitfat, s + 1, u - s)
          BY <4>2, <4>3, <5>2 DEF Hole
        <5>5. u \in s .. u /\ s \in first .. u
          BY <4>1, <5>2
        <5> HIDE DEF u
        <5>6. EnteredBelow(u, s, n)
          BY <5>3, <5>4, <5>5 DEF EnteredBelow
        <5> QED BY <1>1, <3>0, <4>1, <5>5, <5>6
      <4>4. CASE entry # t
        <5>1. ~IsFree(bitfat, entry + 1)
          BY <4>2, <4>4
        <5>2. entry + 1 \notin t - i + 1 .. t
          BY <2>2, <5>1
        <5>3. entry \in s .. u /\ s \in first .. u
          BY <2>5, <4>1, <4>2, <4>4, <5>2
        <5> HIDE DEF u
        <5>4. EnteredBelow(u, s, n)
          BY <4>2, <5>1, <5>3 DEF EnteredBelow
        <5> QED BY <1>1, <3>0, <4>1, <5>3, <5>4
      <4> QED BY <4>3, <4>4
    <3>2. ASSUME NEW s \in Int, s \in F(u) PROVE s \in F(t)
      <4>1. /\ s \in first .. u /\ Hole(bitfat, s - n + 1, n) /\ ~IsFree(bitfat, s - n)
            /\ EnteredBelow(u, s, n)
        BY <1>1, <3>0, <3>2
      <4>2. PICK entry \in s .. u : /\ Hole(bitfat, s + 1, entry - s)
                                    /\ entry = u \/ ~IsFree(bitfat, entry + 1)
                                    /\ (entry - s) % (n + 1) = 0
        BY <4>1 DEF EnteredBelow
      <4>3. CASE entry = u
        <5>1. (t - s) % (n + 1) = 0
          <6>1. u - s \in Nat /\ n + 1 \in Nat \ {0} /\ (u - s) + (n + 1) = t - s
            BY <4>1
          <6> HIDE DEF u
          <6> QED BY <4>2, <4>3, <6>1, Remainder
        <5>2. Hole(bitfat, s + 1, t - s)
          <6>1. \A v \in s + 1 .. t : v \in t - i + 1 .. t \/ v \in s + 1 .. (s + 1) + (entry - s) - 1
            BY <2>5, <4>1, <4>3
          <6>2. \A v \in s + 1 .. t : IsFree(bitfat, v)
            BY <2>2, <4>2, <6>1 DEF Hole
          <6>3. (s + 1) + (t - s) - 1 = t
            BY <4>1
          <6> QED BY <6>2, <6>3 DEF Hole
        <5>3. t \in s .. t
          BY <4>1
        <5>4. EnteredBelow(t, s, n)
          BY <5>1, <5>2, <5>3 DEF EnteredBelow
        <5>5. s \in first .. t
          BY <4>1
        <5> QED BY <1>1, <4>1, <5>4, <5>5
      <4>4. CASE entry # u
        <5>1. entry \in s .. t /\ s \in first .. t
          BY <4>1, <4>2
        <5>2. EnteredBelow(t, s, n)
          BY <4>2, <4>4, <5>1 DEF EnteredBelow
        <5> QED BY <1>1, <4>1, <5>1, <5>2
      <4> QED BY <4>3, <4>4
    <3> HIDE DEF u
    <3>3. F(t) \subseteq Int /\ F(u) \subseteq Int
      BY <1>2, <3>0
    <3> QED BY <2>1, <2>5, <3>0, <3>1, <3>2, <3>3
  <2> QED BY <2>1, <2>3, <2>4, <2>5
<1> QED BY <1>2, <1>4, <1>5

-----------------------------------------------------------------------------
(* Every scan of find_free_bitfat.                                         *)
LEMMA ScansFind ==
  ASSUME NEW from \in Int, NEW last \in Int, NEW n \in Nat \ {0}, NEW none
  PROVE  /\ ScanUp(from, last, n, n, none) = FirstOr(none, FittingHoles(bitfat, from, last, n))
         /\ ScanUp(from, last, n + 1, n, none)
              = FirstOr(none, ExactHolesAbove(bitfat, from, last, n))
         /\ ScanDown(from, last, n + 1, n, none)
              = LastOr(none, n, ExactHolesBelow(bitfat, from, last, n))
<1> DEFINE F == [t \in Int |-> FittingHoles(bitfat, t, last, n)]
           E == [t \in Int |-> ExactHolesAbove(bitfat, t, last, n)]
           D == [t \in Int |-> ExactHolesBelow(bitfat, t, last, n)]
<1>1. /\ F[from] = FittingHoles(bitfat, from, last, n)
      /\ E[from] = ExactHolesAbove(bitfat, from, last, n)
      /\ D[from] = ExactHolesBelow(bitfat, from, last, n)
  OBVIOUS
<1>2. FoundUp(last, n, n, F) /\ FoundUp(last, n + 1, n, E) /\ FoundDown(last, n + 1, n, D)
  BY FittingFound, ExactFound, ExactBelowFound, Zenon
<1>3. n + 1 \in Nat \ {0} /\ n \in Int
  OBVIOUS
<1> HIDE DEF F, E, D
<1>4. /\ ScanUp(from, last, n, n, none) = FirstOr(none, F[from])
      /\ ScanUp(from, last, n + 1, n, none) = FirstOr(none, E[from])
  BY <1>2, <1>3, ScanUpFinds
<1>5. ScanDown(from, last, n + 1, n, none) = LastOr(none, n, D[from])
  BY <1>2, <1>3, ScanDownFinds
<1> QED BY <1>1, <1>4, <1>5

LEMMA SearchesLoop ==
  ASSUME sb \in Superblock, NEW near0 \in Nat, NEW n \in 1 .. SectPerClust,
         NEW fastAlloc \in BOOLEAN, NEW noExact \in BOOLEAN
  PROVE  FindWith(fastAlloc, noExact, bitfat, sb, near0, n).sector
           = LoopResult(near0, n, fastAlloc, noExact)
<1> DEFINE last == DataEnd - n
           InReach(s) == s \in DataStart .. last
           Resume(s) == IF InReach(s) THEN s ELSE DataStart
           near == IF near0 = 0 THEN sb.lastnear ELSE near0
           Fast == FittingHoles(bitfat, Resume(sb.lastnear), last, n)
           Above == ExactHolesAbove(bitfat, near, near + NearArea - 1, n)
           Below == ExactHolesBelow(bitfat, near, near - NearArea + 1, n)
           Big == FittingHoles(bitfat, Resume(sb.lastbig), last, BigHole)
           Exact == ExactHolesAbove(bitfat, DataStart, last, n)
           Any == FittingHoles(bitfat, DataStart, last, n)
           any == ScanUp(DataStart, last, n, n, NotFound)
           exact == IF noExact THEN any ELSE ScanUp(DataStart, last, n + 1, n, any)
           big == IF sb.lastbig = -1 THEN exact
                  ELSE ScanUp(Resume(sb.lastbig), last, BigHole, BigHole, exact)
           below == ScanDown(near, near - NearArea + 1, n + 1, n, big)
           above == ScanUp(near, near + NearArea - 1, n + 1, n, below)
           fast == ScanUp(Resume(sb.lastnear), last, n, n, any)
<1>1. /\ last \in Int /\ near \in Int /\ DataStart \in Int /\ n \in Nat \ {0}
      /\ near + NearArea - 1 \in Int /\ near - NearArea + 1 \in Int
      /\ Resume(sb.lastnear) \in Int /\ Resume(sb.lastbig) \in Int
      /\ BigHole \in Nat \ {0}
  BY GeometryAssumption DEF Superblock, BigHole
<1>2. LoopResult(near0, n, fastAlloc, noExact)
        = IF sb.free < n THEN ENOSPC
          ELSE IF fastAlloc THEN fast
          ELSE IF InReach(near) THEN above
          ELSE big
  BY DEF LoopResult
<1>3. FindWith(fastAlloc, noExact, bitfat, sb, near0, n).sector
        = IF sb.free < n THEN ENOSPC
          ELSE IF fastAlloc /\ Fast # {} THEN Lowest(Fast)
          ELSE IF ~fastAlloc /\ InReach(near) /\ Above # {} THEN Lowest(Above)
          ELSE IF ~fastAlloc /\ InReach(near) /\ Below # {} THEN Highest(Below) - n + 1
          ELSE IF ~fastAlloc /\ sb.lastbig # -1 /\ Big # {} THEN Lowest(Big)
          ELSE IF ~fastAlloc /\ ~noExact /\ Exact # {} THEN Lowest(Exact)
          ELSE IF Any # {} THEN Lowest(Any)
          ELSE NotFound
  <2> HIDE DEF Fast, Above, Below, Big, Exact, Any
  <2> QED BY DEF FindWith, Fast, Above, Below, Big, Exact, Any
<1> HIDE DEF last, near, Resume, InReach
<1>4. any = IF Any = {} THEN NotFound ELSE Lowest(Any)
  BY <1>1, ScansFind DEF FirstOr
<1>5. fast = IF Fast = {} THEN any ELSE Lowest(Fast)
  BY <1>1, ScansFind DEF FirstOr
<1>6. exact = IF noExact \/ Exact = {} THEN any ELSE Lowest(Exact)
  <2> HIDE DEF any
  <2>1. ScanUp(DataStart, last, n + 1, n, any) = FirstOr(any, Exact)
    BY <1>1, ScansFind
  <2> HIDE DEF Exact
  <2> QED BY <2>1 DEF FirstOr
<1>7. big = IF sb.lastbig = -1 \/ Big = {} THEN exact ELSE Lowest(Big)
  BY <1>1, ScansFind DEF FirstOr
<1>8. below = IF Below = {} THEN big ELSE Highest(Below) - n + 1
  <2> HIDE DEF big
  <2>1. below = LastOr(big, n, Below)
    BY <1>1, ScansFind
  <2> HIDE DEF Below
  <2> QED BY <2>1 DEF LastOr
<1>9. above = IF Above = {} THEN below ELSE Lowest(Above)
  <2> HIDE DEF below
  <2>1. above = FirstOr(below, Above)
    BY <1>1, ScansFind
  <2> HIDE DEF Above
  <2> QED BY <2>1 DEF FirstOr
<1> HIDE DEF any, exact, big, below, above, fast, Fast, Above, Below, Big, Exact, Any
<1> QED BY <1>2, <1>3, <1>4, <1>5, <1>6, <1>7, <1>8, <1>9

-----------------------------------------------------------------------------
(* Sectors in pieces: the first n free ones from a sector on.              *)
FreeFrom(b, from) == {s \in from .. DataEnd : IsFree(b, s)}

LEMMA SectorsFinite ==
  /\ IsFiniteSet(Sectors)
  /\ \A S : S \subseteq Sectors => IsFiniteSet(S) /\ Cardinality(S) \in Nat
<1>1. IsFiniteSet(Sectors)
  BY GeometryAssumption, FS_Interval DEF Sectors
<1> QED BY <1>1, FS_Subset, FS_CardinalityType

LEMMA Counts ==
  ASSUME NEW b, NEW from \in Int, NEW n \in Nat
  PROVE  /\ FirstFree(b, from, n) \subseteq FreeFrom(b, from)
         /\ FreeFrom(b, from) \subseteq Sectors \ b
         /\ IsFiniteSet(FreeFrom(b, from)) /\ IsFiniteSet(FirstFree(b, from, n))
         /\ Cardinality(FreeFrom(b, from)) \in Nat /\ Cardinality(FirstFree(b, from, n)) \in Nat
<1>1. FirstFree(b, from, n) \subseteq FreeFrom(b, from)
  BY DEF FirstFree, FreeFrom
<1>2. FreeFrom(b, from) \subseteq Sectors \ b
  BY DEF FreeFrom, IsFree
<1>3. FreeFrom(b, from) \subseteq Sectors /\ FirstFree(b, from, n) \subseteq Sectors
  BY <1>1, <1>2
<1> QED BY <1>1, <1>2, <1>3, SectorsFinite

\* No more than n, and fewer only where there are no more.
LEMMA FirstFreeCounts ==
  ASSUME NEW b, NEW from \in Int, NEW n \in Nat
  PROVE  /\ Cardinality(FirstFree(b, from, n)) <= n
         /\ Cardinality(FirstFree(b, from, n)) < n =>
              FirstFree(b, from, n) = FreeFrom(b, from)
<1> DEFINE F == FirstFree(b, from, n)
           upTo(s) == {t \in from .. s : IsFree(b, t)}
<1>0. DataEnd \in Int
  BY GeometryAssumption
<1>1. \A s \in Int : s \in F <=> s \in from .. DataEnd /\ IsFree(b, s) /\ Cardinality(upTo(s)) <= n
  BY DEF FirstFree
<1>2. F \subseteq from .. DataEnd
  BY DEF FirstFree
<1>3. IsFiniteSet(F) /\ Cardinality(F) \in Nat
  BY Counts
<1>4. \A s \in Int : IsFiniteSet(upTo(s)) /\ Cardinality(upTo(s)) \in Nat
  <2> TAKE s \in Int
  <2>1. upTo(s) \subseteq Sectors
    BY DEF IsFree
  <2> HIDE DEF upTo
  <2> QED BY <2>1, SectorsFinite
<1>5. Cardinality(F) <= n
  <2>1. CASE F = {}
    BY <2>1, FS_EmptySet
  <2>2. CASE F # {}
    <3>1. PICK h : h \in F /\ \A y \in F : h >= y
      <4> HIDE DEF F
      <4> QED BY <1>0, <1>2, <2>2, HighestOf
    <3>2. h \in Int /\ Cardinality(upTo(h)) <= n
      <4>1. h \in Int
        BY <1>0, <1>2, <3>1
      <4> HIDE DEF F, upTo
      <4> QED BY <1>1, <3>1, <4>1
    <3>3. F \subseteq upTo(h)
      <4> SUFFICES ASSUME NEW y \in F PROVE y \in upTo(h)
        OBVIOUS
      <4>1. y \in from .. DataEnd /\ IsFree(b, y)
        BY DEF FirstFree
      <4>2. h >= y
        <5> HIDE DEF F
        <5> QED BY <3>1
      <4> QED BY <1>0, <3>2, <4>1, <4>2
    <3>4. Cardinality(F) <= Cardinality(upTo(h))
      <4> HIDE DEF F, upTo
      <4> QED BY <1>4, <3>2, <3>3, FS_Subset
    <3> HIDE DEF F, upTo
    <3> QED BY <1>3, <1>4, <3>2, <3>4
  <2> QED BY <2>1, <2>2
<1>6. ASSUME Cardinality(F) < n
      PROVE  F = FreeFrom(b, from)
  <2> DEFINE missed == FreeFrom(b, from) \ F
  <2> SUFFICES ASSUME missed # {} PROVE FALSE
    BY Counts
  <2>1. missed \subseteq from .. DataEnd
    BY DEF FreeFrom
  <2>2. PICK s : s \in missed /\ \A y \in missed : s <= y
    <3> HIDE DEF missed
    <3> QED BY <1>0, <2>1, LowestOf
  <2>3. s \in from .. DataEnd /\ IsFree(b, s) /\ s \notin F /\ s \in Int
    BY <1>0, <2>2 DEF FreeFrom
  <2>4. upTo(s) \subseteq F \cup {s}
    <3> SUFFICES ASSUME NEW t \in upTo(s), t # s PROVE t \in F
      OBVIOUS
    <3>1. t \in from .. DataEnd /\ IsFree(b, t) /\ t < s
      BY <1>0, <2>3
    <3>2. t \notin missed
      <4> HIDE DEF missed
      <4>1. ~(s <= t)
        BY <2>3, <3>1, <1>0
      <4> QED BY <2>2, <4>1
    <3> QED BY <3>1, <3>2 DEF FreeFrom
  <2>5. IsFiniteSet(F \cup {s}) /\ Cardinality(F \cup {s}) = Cardinality(F) + 1
    <3> HIDE DEF F
    <3> QED BY <1>3, <2>3, FS_AddElement
  <2>6. Cardinality(upTo(s)) <= Cardinality(F \cup {s})
    <3> HIDE DEF F, upTo
    <3> QED BY <2>4, <2>5, FS_Subset
  <2>7. Cardinality(upTo(s)) <= n
    <3> HIDE DEF F, upTo
    <3> QED BY <1>3, <1>4, <1>6, <2>3, <2>5, <2>6
  <2> HIDE DEF F, upTo, missed
  <2> QED BY <1>1, <2>3, <2>7
<1> QED BY <1>5, <1>6

\* A set of free sectors that is one fragment is a hole for all of them.
LEMMA OneFragment ==
  ASSUME NEW b, NEW L, L \subseteq Sectors \ b, L # {}, NEW x, {s \in L : s - 1 \notin L} = {x}
  PROVE  \E s \in Sectors : /\ s + Cardinality(L) - 1 <= DataEnd
                            /\ \A t \in s .. s + Cardinality(L) - 1 : IsFree(b, t)
<1>0. DataStart \in Int /\ DataEnd \in Int /\ L \subseteq DataStart .. DataEnd
  BY GeometryAssumption DEF Sectors
<1>1. PICK a : a \in L /\ \A y \in L : a <= y
  BY <1>0, LowestOf
<1>2. PICK h : h \in L /\ \A y \in L : h >= y
  BY <1>0, HighestOf
<1>3. a \in Int /\ h \in Int /\ a <= h
  BY <1>0, <1>1, <1>2
<1>4. L = a .. h
  <2>0. \A y \in L : y \in a .. h
    BY <1>0, <1>1, <1>2
  <2> SUFFICES ASSUME NEW t \in a .. h, t \notin L PROVE FALSE
    BY <2>0
  <2> DEFINE later == {y \in L : y > t}
  <2>1. later \subseteq DataStart .. DataEnd /\ h \in later
    <3>1. t # h /\ t <= h /\ t \in Int
      BY <1>2, <1>3
    <3>2. h > t
      BY <1>3, <3>1
    <3>3. later \subseteq L
      OBVIOUS
    <3>4. h \in later
      BY <1>2, <3>2
    <3> HIDE DEF later
    <3> QED BY <1>0, <3>3, <3>4
  <2>2. PICK z : z \in later /\ \A y \in later : z <= y
    <3> HIDE DEF later
    <3> QED BY <1>0, <2>1, LowestOf
  <2>3. z \in L /\ z > t /\ z \in Int
    BY <1>0, <2>2
  <2>4. z - 1 \notin L
    <3>1. CASE z - 1 = t
      BY <3>1
    <3>2. CASE z - 1 > t
      <4>1. ~(z <= z - 1)
        BY <2>3
      <4>2. z - 1 \notin later
        <5> HIDE DEF later
        <5> QED BY <2>2, <4>1
      <4> QED BY <3>2, <4>2
    <3> QED BY <2>3, <3>1, <3>2
  <2>5. a - 1 \notin L
    <3>1. ~(a <= a - 1)
      BY <1>3
    <3> QED BY <1>1, <3>1
  <2>6. a = x /\ z = x
    BY <1>1, <2>3, <2>4, <2>5
  <2> QED BY <1>3, <2>3, <2>6
<1>5. Cardinality(L) = h - a + 1
  BY <1>3, <1>4, FS_Interval
<1>6. a \in Sectors /\ a + (h - a + 1) - 1 = h /\ h <= DataEnd
  BY <1>0, <1>1, <1>2, <1>3
<1>7. \A t \in a .. h : IsFree(b, t)
  BY <1>4 DEF IsFree
<1> QED BY <1>5, <1>6, <1>7

LEMMA FragmentCounts ==
  ASSUME NEW b, NEW L, L \subseteq Sectors \ b, NEW n \in Nat \ {0}, Cardinality(L) = n + 1,
         \A s \in Sectors : s + n <= DataEnd => ~Hole(b, s, n)
  PROVE  Fragments(L) \in 2 .. n + 1
<1> DEFINE S == {s \in L : s - 1 \notin L}
<1>0. DataStart \in Int /\ DataEnd \in Int /\ L \subseteq DataStart .. DataEnd
  BY GeometryAssumption DEF Sectors
<1>1. IsFiniteSet(L)
  BY SectorsFinite
<1>2. S \subseteq L
  OBVIOUS
<1>3. IsFiniteSet(S) /\ Cardinality(S) \in Nat /\ Cardinality(S) <= n + 1
  <2> HIDE DEF S
  <2> QED BY <1>1, <1>2, FS_Subset, FS_CardinalityType
<1>4. L # {}
  BY FS_EmptySet
<1>5. S # {}
  <2>1. PICK a : a \in L /\ \A y \in L : a <= y
    BY <1>0, <1>4, LowestOf
  <2>2. ~(a <= a - 1)
    BY <1>0, <2>1
  <2>3. a - 1 \notin L
    BY <2>1, <2>2
  <2> QED BY <2>1, <2>3
<1>6. Cardinality(S) # 0
  <2> HIDE DEF S
  <2> QED BY <1>3, <1>5, FS_EmptySet
<1>7. Cardinality(S) # 1
  <2> SUFFICES ASSUME Cardinality(S) = 1 PROVE FALSE
    OBVIOUS
  <2>1. PICK x : S = {x}
    <3> HIDE DEF S
    <3> QED BY <1>3, FS_Singleton
  <2>2. PICK s \in Sectors : /\ s + (n + 1) - 1 <= DataEnd
                             /\ \A t \in s .. s + (n + 1) - 1 : IsFree(b, t)
    BY <1>4, <2>1, OneFragment
  <2>3. s \in Int /\ s + n <= DataEnd
    BY <1>0, <2>2 DEF Sectors
  <2>4. Hole(b, s, n)
    <3>1. \A t \in s .. s + n - 1 : t \in s .. s + (n + 1) - 1
      BY <2>3
    <3> QED BY <2>2, <3>1 DEF Hole
  <2> QED BY <2>3, <2>4
<1>8. Fragments(L) = Cardinality(S)
  BY DEF Fragments
<1> HIDE DEF S
<1> QED BY <1>3, <1>6, <1>7, <1>8

\* What try_fragmented returns.
(* What try_fragmented(n) hands back on the BITFAT b from the superblock m. *)
PiecesSound(pieces, b, m, n) ==
  /\ pieces.list \subseteq Sectors \ b
  /\ pieces.sb \in Superblock /\ pieces.sb.free = m.free
  /\ Cardinality(Sectors \ b) = m.free =>
       \E L \in SUBSET (Sectors \ b) :
         IF m.free < n
           THEN pieces.error = ENOSPC
           ELSE /\ Cardinality(L) = n
                /\ IF Fragments(L) \in 2 .. SectPerClust + 1
                     THEN pieces.error = 0 /\ pieces.list = L
                     ELSE pieces.error = EIO

LEMMA PiecesAre ==
  ASSUME NEW b, NEW m \in Superblock, NEW anear \in Nat, NEW n \in Nat \ {0}
  PROVE  PiecesSound(TryFragmented(b, m, anear, n), b, m, n)
<1> DEFINE near == IF anear = 0 THEN m.lastnear ELSE anear
           from == IF near \in Sectors THEN near ELSE DataStart
           upward == FirstFree(b, from, n)
           L == IF Cardinality(upward) < n THEN FirstFree(b, DataStart, n) ELSE upward
           pieces == TryFragmented(b, m, anear, n)
<1>1. DataStart \in Int /\ from \in Int /\ m.free \in Int /\ DataEnd \in Int
  BY GeometryAssumption DEF Superblock, Sectors
<1>2. pieces = IF m.free < n \/ Cardinality(L) < n
                 THEN [error |-> ENOSPC, list |-> {}, sb |-> [m EXCEPT !.full = 2]]
               ELSE IF Fragments(L) \notin 2 .. (SectPerClust + 1)
                 THEN [error |-> EIO, list |-> {}, sb |-> m]
               ELSE [error |-> 0, list |-> L,
                     sb |-> [m EXCEPT !.full = 1, !.lastnear = Highest(L) + 2]]
  BY DEF TryFragmented
<1>3. L \subseteq Sectors \ b /\ IsFiniteSet(L) /\ Cardinality(L) \in Nat
  <2> HIDE DEF from
  <2> QED BY <1>1, Counts
<1>4. Cardinality(L) <= n
  <2> HIDE DEF from
  <2> QED BY <1>1, FirstFreeCounts
<1>5. Cardinality(L) < n => L = Sectors \ b
  <2>1. FreeFrom(b, DataStart) = Sectors \ b
    BY DEF FreeFrom, IsFree, Sectors
  <2>2. Cardinality(L) < n => L = FirstFree(b, DataStart, n)
    OBVIOUS
  <2> HIDE DEF L
  <2>3. Cardinality(FirstFree(b, DataStart, n)) < n => FirstFree(b, DataStart, n) = FreeFrom(b, DataStart)
    BY <1>1, FirstFreeCounts
  <2> QED BY <2>1, <2>2, <2>3
<1> HIDE DEF L, pieces
<1>6. ~(m.free < n \/ Cardinality(L) < n) => Highest(L) \in Int
  <2> SUFFICES ASSUME ~(Cardinality(L) < n) PROVE Highest(L) \in Int
    OBVIOUS
  <2>1. L # {}
    BY <1>3, FS_EmptySet
  <2>2. L \subseteq DataStart .. DataEnd /\ L \subseteq Int
    BY <1>1, <1>3 DEF Sectors
  <2>3. Highest(L) \in L
    BY <1>1, <2>1, <2>2, HighestOf
  <2> QED BY <2>2, <2>3, Zenon
<1>7. pieces.list \subseteq Sectors \ b
  BY <1>2, <1>3
<1>8. pieces.sb \in Superblock /\ pieces.sb.free = m.free
  <2>1. [m EXCEPT !.full = 2] \in Superblock /\ [m EXCEPT !.full = 2].free = m.free
    BY DEF Superblock
  <2>2. ASSUME NEW z \in Int
        PROVE  /\ [m EXCEPT !.full = 1, !.lastnear = z] \in Superblock
               /\ [m EXCEPT !.full = 1, !.lastnear = z].free = m.free
    <3>1. [m EXCEPT !.full = 1, !.lastnear = z] = [[m EXCEPT !.full = 1] EXCEPT !.lastnear = z]
      BY DEF Superblock
    <3>2. [m EXCEPT !.full = 1] \in Superblock /\ [m EXCEPT !.full = 1].free = m.free
      BY DEF Superblock
    <3>3. \A k \in Superblock : /\ [k EXCEPT !.lastnear = z] \in Superblock
                                /\ [k EXCEPT !.lastnear = z].free = k.free
      BY DEF Superblock
    <3> QED BY <3>1, <3>2, <3>3, Zenon
  <2>3. CASE m.free < n \/ Cardinality(L) < n
    BY <1>2, <2>1, <2>3
  <2>4. CASE ~(m.free < n \/ Cardinality(L) < n) /\ Fragments(L) \notin 2 .. (SectPerClust + 1)
    BY <1>2, <2>4
  <2>5. CASE ~(m.free < n \/ Cardinality(L) < n) /\ Fragments(L) \in 2 .. (SectPerClust + 1)
    <3>1. Highest(L) + 2 \in Int
      BY <1>6, <2>5
    <3>2. pieces.sb = [m EXCEPT !.full = 1, !.lastnear = Highest(L) + 2]
      BY <1>2, <2>5
    <3> QED BY <2>2, <3>1, <3>2, Zenon
  <2> QED BY <2>3, <2>4, <2>5
<1>9. Cardinality(Sectors \ b) = m.free /\ ~(m.free < n) => Cardinality(L) = n
  BY <1>1, <1>3, <1>4, <1>5
<1>10. Cardinality(Sectors \ b) = m.free =>
          IF m.free < n
            THEN pieces.error = ENOSPC
            ELSE /\ Cardinality(L) = n
                 /\ IF Fragments(L) \in 2 .. SectPerClust + 1
                      THEN pieces.error = 0 /\ pieces.list = L
                      ELSE pieces.error = EIO
  BY <1>2, <1>9
<1>11. PiecesSound(pieces, b, m, n)
  BY <1>3, <1>7, <1>8, <1>10 DEF PiecesSound
<1> QED BY <1>11 DEF pieces

-----------------------------------------------------------------------------
(* The allocator: s_free_sectors is the number of free sectors.            *)
Counted ==
  /\ bitfat \subseteq Sectors
  /\ sb \in Superblock
  /\ sb.free = Cardinality(Sectors \ bitfat)

LEMMA FreeChanged ==
  ASSUME NEW m \in Superblock, NEW x \in Int
  PROVE  /\ [m EXCEPT !.free = x] \in Superblock /\ [m EXCEPT !.free = x].free = x
         /\ [m EXCEPT !.free = x, !.full = 0] \in Superblock
         /\ [m EXCEPT !.free = x, !.full = 0].free = x
<1>1. [m EXCEPT !.free = x] \in Superblock /\ [m EXCEPT !.free = x].free = x
  BY DEF Superblock
<1>2. [m EXCEPT !.free = x, !.full = 0] = [[m EXCEPT !.free = x] EXCEPT !.full = 0]
  BY DEF Superblock
<1>3. \A k \in Superblock : /\ [k EXCEPT !.full = 0] \in Superblock
                            /\ [k EXCEPT !.full = 0].free = k.free
  BY DEF Superblock
<1> QED BY <1>1, <1>2, <1>3, Zenon

LEMMA CountAfterTake ==
  ASSUME Counted, NEW X, X \subseteq Sectors
  PROVE  /\ bitfat \cup X \subseteq Sectors
         /\ Cardinality(X \ bitfat) \in Nat
         /\ sb.free - Cardinality(X \ bitfat) = Cardinality(Sectors \ (bitfat \cup X))
<1>1. IsFiniteSet(Sectors \ bitfat) /\ X \ bitfat \subseteq Sectors
  BY SectorsFinite
<1>2. /\ Sectors \ (bitfat \cup X) = (Sectors \ bitfat) \ (X \ bitfat)
      /\ (Sectors \ bitfat) \cap (X \ bitfat) = X \ bitfat
  OBVIOUS
<1>3. Cardinality((Sectors \ bitfat) \ (X \ bitfat))
        = Cardinality(Sectors \ bitfat) - Cardinality((Sectors \ bitfat) \cap (X \ bitfat))
  BY <1>1, FS_Difference
<1> QED BY <1>1, <1>2, <1>3, SectorsFinite DEF Counted

LEMMA CountAfterRelease ==
  ASSUME Counted, NEW X, X \subseteq bitfat
  PROVE  /\ bitfat \ X \subseteq Sectors
         /\ sb.free + Cardinality(X) = Cardinality(Sectors \ (bitfat \ X))
<1>1. X \subseteq Sectors /\ Sectors \ bitfat \subseteq Sectors
  BY DEF Counted
<1>2. Sectors \ (bitfat \ X) = (Sectors \ bitfat) \cup X /\ (Sectors \ bitfat) \cap X = {}
  BY <1>1
<1>3. IsFiniteSet(X) /\ Cardinality(X) \in Nat
      /\ IsFiniteSet(Sectors \ bitfat) /\ Cardinality(Sectors \ bitfat) \in Nat
  BY <1>1, SectorsFinite
<1>4. Cardinality((Sectors \ bitfat) \cup X)
        = Cardinality(Sectors \ bitfat) + Cardinality(X) - Cardinality((Sectors \ bitfat) \cap X)
  BY <1>3, FS_Union
<1>5. Cardinality((Sectors \ bitfat) \cap X) = 0
  BY <1>2, FS_EmptySet
<1>6. sb.free = Cardinality(Sectors \ bitfat) /\ bitfat \ X \subseteq Sectors
  BY DEF Counted
<1>7. Cardinality(Sectors \ (bitfat \ X)) = Cardinality(Sectors \ bitfat) + Cardinality(X) - 0
  BY <1>2, <1>4, <1>5
<1> HIDE DEF Counted
<1> QED BY <1>3, <1>6, <1>7

LEMMA PiecesAreFree ==
  ASSUME NEW b, NEW m \in Superblock, NEW anear \in Nat, NEW n \in Nat \ {0}
  PROVE  /\ TryFragmented(b, m, anear, n).list \subseteq Sectors \ b
         /\ TryFragmented(b, m, anear, n).sb \in Superblock
         /\ TryFragmented(b, m, anear, n).sb.free = m.free
<1>1. PiecesSound(TryFragmented(b, m, anear, n), b, m, n)
  BY PiecesAre
<1> QED BY <1>1 DEF PiecesSound

LEMMA SearchesSound ==
  ASSUME Counted, NEW near \in NearHints, NEW n \in Sizes, NEW found \in Searches(near, n)
  PROVE  FoundSound(found, bitfat, sb, n)
<1>1. PICK fastAlloc \in BOOLEAN, noExact \in BOOLEAN :
        found = FindWith(fastAlloc, noExact, bitfat, sb, near, n)
  BY DEF Searches
<1>2. near \in Nat /\ n \in 1 .. SectPerClust /\ sb \in Superblock
  BY HintAssumption DEF Sizes, Counted
<1>3. FoundSound(FindWith(fastAlloc, noExact, bitfat, sb, near, n), bitfat, sb, n)
  BY <1>2, FindIsSound
<1> QED BY <1>1, <1>3

LEMMA HolesAreFree ==
  ASSUME NEW b, NEW s \in Int, NEW n \in Int, Hole(b, s, n)
  PROVE  s .. s + n - 1 \subseteq Sectors \ b
BY DEF Hole, IsFree

LEMMA SizesAre == \A n \in Sizes : n \in Nat \ {0} /\ n <= SectPerClust
BY GeometryAssumption DEF Sizes

LEMMA InitCounted == Init => Counted
<1> SUFFICES ASSUME Init PROVE Counted
  OBVIOUS
<1>1. bitfat = {} /\ sb = [free |-> Cardinality(Sectors), full |-> 0, lastnear |-> 0, lastbig |-> 0]
  BY DEF Init
<1>2. Cardinality(Sectors) \in Int
  BY SectorsFinite
<1>3. sb \in Superblock
  BY <1>1, <1>2 DEF Superblock
<1>4. Sectors \ bitfat = Sectors
  BY <1>1
<1> QED BY <1>1, <1>3, <1>4 DEF Counted

LEMMA TakeCounted ==
  ASSUME Counted, NEW near \in NearHints, NEW n \in Sizes, Take(near, n)
  PROVE  Counted'
<1>1. PICK found \in Searches(near, n) :
        /\ found.sector > 0
        /\ bitfat' = bitfat \union (found.sector .. (found.sector + n - 1))
        /\ sb' = [found.sb EXCEPT !.free =
                    @ - Cardinality((found.sector .. (found.sector + n - 1)) \ bitfat)]
  BY DEF Take
<1>2. FoundSound(found, bitfat, sb, n)
  BY SearchesSound
<1> DEFINE taken == found.sector .. (found.sector + n - 1)
<1>3. taken \subseteq Sectors
  BY <1>1, <1>2, SizesAre, HolesAreFree DEF FoundSound
<1>4. found.sb \in Superblock /\ found.sb.free = sb.free /\ sb.free \in Int
  BY <1>2 DEF FoundSound, Counted, Superblock
<1> HIDE DEF taken
<1>5. /\ bitfat \cup taken \subseteq Sectors
      /\ Cardinality(taken \ bitfat) \in Nat
      /\ sb.free - Cardinality(taken \ bitfat) = Cardinality(Sectors \ (bitfat \cup taken))
  BY <1>3, CountAfterTake
<1>6. sb' = [found.sb EXCEPT !.free = found.sb.free - Cardinality(taken \ bitfat)]
      /\ bitfat' = bitfat \cup taken
  BY <1>1 DEF taken
<1>7. found.sb.free - Cardinality(taken \ bitfat) \in Int
  BY <1>4, <1>5
<1>8. sb' \in Superblock /\ sb'.free = found.sb.free - Cardinality(taken \ bitfat)
  BY <1>4, <1>6, <1>7, FreeChanged
<1>9. bitfat' \subseteq Sectors /\ sb'.free = Cardinality(Sectors \ bitfat')
  BY <1>4, <1>5, <1>6, <1>8
<1> QED BY <1>8, <1>9 DEF Counted

LEMMA TakePiecesCounted ==
  ASSUME Counted, NEW near \in NearHints, NEW n \in Sizes, TakePieces(near, n)
  PROVE  Counted'
<1>1. PICK found \in Searches(near, n) :
        LET pieces == TryFragmented(bitfat, found.sb, near, n + 1)
        IN  /\ bitfat' = bitfat \union pieces.list
            /\ sb' = [pieces.sb EXCEPT !.free = @ - Cardinality(pieces.list \ bitfat)]
  BY DEF TakePieces
<1> DEFINE pieces == TryFragmented(bitfat, found.sb, near, n + 1)
<1> HIDE DEF pieces
<1>2. found.sb \in Superblock /\ found.sb.free = sb.free /\ sb.free \in Int
  BY SearchesSound DEF FoundSound, Counted, Superblock
<1>3. near \in Nat /\ n + 1 \in Nat \ {0}
  BY HintAssumption, SizesAre
<1>4. /\ pieces.list \subseteq Sectors
      /\ pieces.sb \in Superblock /\ pieces.sb.free = found.sb.free
  <2>1. PiecesSound(pieces, bitfat, found.sb, n + 1)
    BY <1>2, <1>3, PiecesAre, Zenon DEF pieces
  <2> QED BY <2>1 DEF PiecesSound
<1>5. bitfat' = bitfat \union pieces.list
      /\ sb' = [pieces.sb EXCEPT !.free = pieces.sb.free - Cardinality(pieces.list \ bitfat)]
  BY <1>1 DEF pieces
<1>6. /\ bitfat \cup pieces.list \subseteq Sectors
      /\ Cardinality(pieces.list \ bitfat) \in Nat
      /\ sb.free - Cardinality(pieces.list \ bitfat)
           = Cardinality(Sectors \ (bitfat \cup pieces.list))
  BY <1>4, CountAfterTake
<1>7. pieces.sb.free - Cardinality(pieces.list \ bitfat) \in Int
  BY <1>2, <1>4, <1>6
<1>8. sb' \in Superblock /\ sb'.free = pieces.sb.free - Cardinality(pieces.list \ bitfat)
  BY <1>4, <1>5, <1>7, FreeChanged
<1>9. bitfat' \subseteq Sectors /\ sb'.free = Cardinality(Sectors \ bitfat')
  BY <1>2, <1>4, <1>5, <1>6, <1>8
<1> QED BY <1>8, <1>9 DEF Counted

LEMMA ReleaseCounted ==
  ASSUME Counted, NEW first \in Sectors, NEW n \in Sizes, Release(first, n)
  PROVE  Counted'
<1> DEFINE X == first .. (first + n - 1)
<1>1. /\ X \subseteq bitfat /\ bitfat' = bitfat \ X
      /\ sb' = [sb EXCEPT !.free = sb.free + n, !.full = 0]
  BY DEF Release
<1>2. Cardinality(X) = n /\ n \in Nat
  <2>1. first \in Int /\ first + n - 1 \in Int /\ n \in Nat \ {0}
    BY GeometryAssumption, SizesAre DEF Sectors
  <2> QED BY <2>1, FS_Interval
<1>3. sb \in Superblock /\ sb.free \in Int
  BY DEF Counted, Superblock
<1>4. sb' \in Superblock /\ sb'.free = sb.free + n
  <2>1. sb.free + n \in Int
    BY <1>2, <1>3
  <2> QED BY <1>1, <1>3, <2>1, FreeChanged
<1> HIDE DEF X
<1>5. /\ bitfat \ X \subseteq Sectors
      /\ sb.free + Cardinality(X) = Cardinality(Sectors \ (bitfat \ X))
  BY <1>1, CountAfterRelease
<1> QED BY <1>1, <1>2, <1>4, <1>5 DEF Counted

LEMMA NextCounted == Counted /\ [Next]_vars => Counted'
<1> SUFFICES ASSUME Counted, [Next]_vars PROVE Counted'
  OBVIOUS
<1>1. ASSUME NEW near \in NearHints, NEW n \in Sizes, Refused(near, n) PROVE Counted'
  <2>1. PICK found \in Searches(near, n) : sb' = found.sb /\ bitfat' = bitfat
    BY <1>1 DEF Refused
  <2>2. found.sb \in Superblock /\ found.sb.free = sb.free
    BY SearchesSound DEF FoundSound
  <2> QED BY <2>1, <2>2 DEF Counted
<1>2. CASE UNCHANGED vars
  BY <1>2 DEF vars, Counted
<1> QED BY <1>1, <1>2, TakeCounted, TakePiecesCounted, ReleaseCounted DEF Next

LEMMA AlwaysCounted == Spec => []Counted
<1>1. Init => Counted
  BY InitCounted
<1>2. Counted /\ [Next]_vars => Counted'
  BY NextCounted
<1> QED BY <1>1, <1>2, PTL DEF Spec

LEMMA NothingFits ==
  ASSUME Counted, NEW n \in Sizes, NEW found, FoundSound(found, bitfat, sb, n), found.sector <= 0
  PROVE  \A s \in Sectors : s + n <= DataEnd => ~Hole(bitfat, s, n)
<1> SUFFICES ASSUME NEW s \in Sectors, s + n <= DataEnd, Hole(bitfat, s, n)
             PROVE  FALSE
  OBVIOUS
<1>1. n \in Nat \ {0} /\ s \in Int /\ DataStart \in Int /\ DataEnd \in Int /\ s >= DataStart
  BY SizesAre, GeometryAssumption DEF Sectors
<1>2. CASE sb.free < n
  <2>1. s .. s + n - 1 \subseteq Sectors \ bitfat
    BY <1>1, HolesAreFree
  <2>2. Cardinality(s .. s + n - 1) = n
    BY <1>1, FS_Interval
  <2>3. IsFiniteSet(Sectors \ bitfat) /\ Cardinality(Sectors \ bitfat) \in Nat
    BY SectorsFinite
  <2>4. Cardinality(s .. s + n - 1) <= Cardinality(Sectors \ bitfat)
    BY <2>1, <2>3, FS_Subset
  <2> QED BY <1>1, <1>2, <2>2, <2>3, <2>4 DEF Counted
<1>3. CASE FittingHoles(bitfat, DataStart, DataEnd - n, n) = {}
  BY <1>1, <1>3 DEF FittingHoles
<1> QED BY <1>2, <1>3 DEF FoundSound

-----------------------------------------------------------------------------
(* find_free_bitfat (src/src/dblspace_alloc.c), written as one scan after  *)
(* the other, returns the sector that BitfatSearch describes, so that what *)
(* is proved of the description is proved of the loops.                    *)
THEOREM LoopsAreTheSearch == Spec => []SearchIsTheLoops
<1>1. Counted => SearchIsTheLoops
  <2> SUFFICES ASSUME Counted, NEW near \in NearHints, NEW n \in Sizes,
                      NEW fastAlloc \in BOOLEAN, NEW noExact \in BOOLEAN
               PROVE  FindWith(fastAlloc, noExact, bitfat, sb, near, n).sector
                        = LoopResult(near, n, fastAlloc, noExact)
    BY DEF SearchIsTheLoops
  <2>1. sb \in Superblock /\ near \in Nat /\ n \in 1 .. SectPerClust
    BY HintAssumption DEF Counted, Sizes
  <2> QED BY <2>1, SearchesLoop
<1> QED BY <1>1, AlwaysCounted, PTL

(* The panics of dbl_replace_existing_cluster on sectors that are not free *)
(* are dead: neither search returns one, in whatever order sectors were    *)
(* taken and released before.                                              *)
THEOREM NoUsedSectors == Spec => []NeverHandsOutUsedSectors
<1>1. Counted => NeverHandsOutUsedSectors
  <2> SUFFICES ASSUME Counted, NEW near \in NearHints, NEW n \in Sizes,
                      NEW found \in Searches(near, n)
               PROVE  /\ found.sector > 0 => Hole(bitfat, found.sector, n)
                      /\ \A s \in TryFragmented(bitfat, found.sb, near, n + 1).list :
                           IsFree(bitfat, s)
    BY DEF NeverHandsOutUsedSectors
  <2>1. FoundSound(found, bitfat, sb, n)
    BY SearchesSound
  <2>2. near \in Nat /\ n + 1 \in Nat \ {0} /\ found.sb \in Superblock
    BY <2>1, HintAssumption, SizesAre DEF FoundSound
  <2>3. TryFragmented(bitfat, found.sb, near, n + 1).list \subseteq Sectors \ bitfat
    BY <2>2, PiecesAreFree
  <2> QED BY <2>1, <2>3 DEF FoundSound, IsFree
<1> QED BY <1>1, AlwaysCounted, PTL

(* A write is refused or fragmented only where no hole is large enough:    *)
(* s_free_sectors never drifts from the BITFAT, and the last scan starts   *)
(* from the first sector.                                                  *)
THEOREM WhatFitsIsFound == Spec => []FindsWhatFits
<1>1. Counted => FindsWhatFits
  <2> SUFFICES ASSUME Counted, NEW near \in NearHints, NEW n \in Sizes,
                      NEW found \in Searches(near, n), found.sector <= 0,
                      NEW s \in Sectors, s + n <= DataEnd
               PROVE  ~Hole(bitfat, s, n)
    BY DEF FindsWhatFits
  <2>1. FoundSound(found, bitfat, sb, n)
    BY SearchesSound
  <2> QED BY <2>1, NothingFits
<1> QED BY <1>1, AlwaysCounted, PTL

(* try_fragmented fails only for want of sectors: the branches that say    *)
(* "cannot happen" cannot, because one fragment would have been a hole.    *)
THEOREM EverySectorIsUsed == Spec => []FragmentsUseEverySector
<1>1. Counted => FragmentsUseEverySector
  <2> SUFFICES ASSUME Counted, NEW near \in NearHints, NEW n \in Sizes,
                      NEW found \in Searches(near, n), found.sector <= 0
               PROVE  LET pieces == TryFragmented(bitfat, found.sb, near, n + 1)
                      IN  /\ pieces.error \in {0, ENOSPC}
                          /\ pieces.error = 0 <=> Cardinality(Sectors \ bitfat) > n
                          /\ pieces.error = 0 => Cardinality(pieces.list) = n + 1
    BY DEF FragmentsUseEverySector
  <2> DEFINE pieces == TryFragmented(bitfat, found.sb, near, n + 1)
  <2>1. FoundSound(found, bitfat, sb, n)
    BY SearchesSound
  <2>2. /\ near \in Nat /\ n + 1 \in Nat \ {0} /\ n \in Nat \ {0} /\ n <= SectPerClust
        /\ found.sb \in Superblock /\ found.sb.free = sb.free
        /\ sb.free = Cardinality(Sectors \ bitfat) /\ sb.free \in Int /\ SectPerClust \in Nat
    BY <2>1, HintAssumption, GeometryAssumption, SizesAre DEF FoundSound, Counted, Superblock
  <2>3. PICK L \in SUBSET (Sectors \ bitfat) :
          IF sb.free < n + 1
            THEN pieces.error = ENOSPC
            ELSE /\ Cardinality(L) = n + 1
                 /\ IF Fragments(L) \in 2 .. SectPerClust + 1
                      THEN pieces.error = 0 /\ pieces.list = L
                      ELSE pieces.error = EIO
    <3> HIDE DEF pieces
    <3>1. Cardinality(Sectors \ bitfat) = found.sb.free
      BY <2>2
    <3>2. PiecesSound(pieces, bitfat, found.sb, n + 1)
      BY <2>2, PiecesAre, Zenon DEF pieces
    <3> QED BY <2>2, <3>1, <3>2 DEF PiecesSound
  <2> HIDE DEF pieces
  <2>4. CASE sb.free < n + 1
    <3>1. pieces.error = ENOSPC /\ ENOSPC # 0
      BY <2>3, <2>4 DEF ENOSPC
    <3> QED BY <2>2, <2>4, <3>1 DEF pieces
  <2>5. CASE ~(sb.free < n + 1)
    <3>1. Cardinality(L) = n + 1
      BY <2>3, <2>5
    <3>2. Fragments(L) \in 2 .. n + 1
      BY <2>1, <2>2, <3>1, NothingFits, FragmentCounts
    <3>3. Fragments(L) \in 2 .. SectPerClust + 1
      BY <2>2, <3>2
    <3>4. pieces.error = 0 /\ pieces.list = L
      BY <2>3, <2>5, <3>3
    <3> QED BY <2>2, <2>5, <3>1, <3>4 DEF pieces
  <2> QED BY <2>4, <2>5
<1> QED BY <1>1, AlwaysCounted, PTL
=============================================================================
