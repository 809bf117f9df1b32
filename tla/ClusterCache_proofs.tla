------------------------ MODULE ClusterCache_proofs ------------------------
(***************************************************************************)
(* The counts of the cluster cache are exact for any number of processes,  *)
(* slots and clusters, as long as get_ch cannot choose a slot in use: if   *)
(* no write is ever delayed, or if there are as many slots as processes.   *)
(* If besides no write is ever delayed or no two processes work on the     *)
(* same cluster, then a cluster is in one slot and no stored data is lost. *)
(***************************************************************************)
EXTENDS ClusterCache, FiniteSetTheorems, WellFoundedInduction, TLAPS

Ops == {"none", "read", "write_part", "write_full", "entry", "sync", "free_idle"}
Nexts == {"none", "check", "discard", "dirty", "insist", "sync"}
Using == Places \ {"idle", "get_ch", "fullwait", "scan", "scan_idle"}
Holding == {"write_oldest", "read_cluster", "copying", "simulate", "write_through",
            "write_dirty"}

SlotState == [flag : Flags, count : Nat, nr : Clusters \cup {NoCluster},
              errors : 0 .. MaxErrors + 1, data : 0 .. MaxVersion]
ProcState == [pc : Places, op : Ops, nr : Clusters \cup {NoCluster}, at : Slots \cup {NoSlot},
              next : Nexts, free : Slots \cup {NoSlot}, oldest : Slots \cup {NoSlot},
              tries : 0 .. MaxRetries + 1, image : 0 .. MaxVersion]

TypedCache ==
  /\ slot \in [Slots -> SlotState]
  /\ holder \in [Slots -> Procs \cup {Nobody}]
  /\ proc \in [Procs -> ProcState]
TypedVolume ==
  /\ setup \in Setups
  /\ readonly \in BOOLEAN
  /\ version \in 0 .. MaxVersion
  /\ disk \in [Clusters -> 0 .. MaxVersion]
  /\ promised \in [Clusters -> SUBSET (0 .. MaxVersion)]

\* A slot's semaphore is held by the process that is at a holding place there.
Placed ==
  \A p \in Procs :
    /\ proc[p].pc \in Using => proc[p].at # NoSlot
    /\ \A s \in Slots : holder[s] = p <=> proc[p].pc \in Holding /\ proc[p].at = s

\* What the operation says of the place.
OpsPlaced ==
  \A p \in Procs :
    /\ proc[p].pc # "idle" => proc[p].op # "none" /\ setup.calls[p] # {}
    /\ proc[p].op = "sync" => /\ proc[p].pc \in {"scan", "lock_ch", "write_dirty", "drop"}
                              /\ proc[p].pc = "lock_ch" => proc[p].next = "sync"
    /\ proc[p].op = "free_idle" => proc[p].pc \in {"scan_idle", "write_dirty", "drop"}
    /\ proc[p].op = "entry" => \E c \in setup.calls[p] : c.op = "entry"
    /\ proc[p].op \notin {"none", "sync", "free_idle"} => proc[p].nr \in Clusters
    /\ proc[p].pc = "copying" => proc[p].op \in {"write_part", "write_full"}

\* A slot is given up after too many errors, and not written any more.
SlotsKept ==
  \A s \in Slots :
    /\ slot[s].flag = "FREE" => slot[s].count = 0
    /\ slot[s].flag # "DELETED" => slot[s].errors <= MaxErrors

\* Who reads or writes a slot's data has seen what the slot is, and holds its lock.
HoldersKnow ==
  \A p \in Procs :
    /\ proc[p].pc \in {"write_oldest", "write_dirty"} => slot[proc[p].at].flag = "DIRTY"
    /\ proc[p].pc = "simulate" => slot[proc[p].at].flag \in Loaded
    /\ proc[p].pc = "read_cluster" => slot[proc[p].at].flag = "INVALID"

\* get_ch never goes on with a pointer to a free slot, and where nothing is
\* delayed not with one to a slot to discard.
PointersSound ==
  /\ \A p \in Procs : proc[p].free = NoSlot
  /\ WritesThrough(setup) =>
       /\ \A s \in Slots : slot[s].flag \notin {"DIRTY", "DELETED"}
       /\ \A p \in Procs : /\ proc[p].oldest = NoSlot
                           /\ proc[p].pc # "simulate" /\ proc[p].next # "insist"

\* A process that will change data but has not yet.
Unmade(q) == /\ q.op \in Changes
             /\ q.pc \notin {"idle", "simulate", "write_through", "ch_free"}
             /\ ~(q.pc = "lock_ch" /\ q.next \in {"dirty", "insist"})
VersionsLeft == version + Cardinality({p \in Procs : Unmade(proc[p])}) <= MaxVersion

CacheInv == /\ TypedCache /\ Placed /\ OpsPlaced /\ SlotsKept /\ HoldersKnow
            /\ PointersSound /\ CountIsUsers
IInv == CacheInv /\ TypedVolume /\ VersionsLeft

-----------------------------------------------------------------------------
(* Counting the users of a slot with one process set apart.                *)

Others(p, s) == {x \in Procs \ {p} : Uses(proc[x], s)}

\* c_count, seen by one process: the others and, if it uses the slot, itself.
LEMMA CountOthers ==
  ASSUME CountIsUsers, NEW p \in Procs, NEW s \in Slots
  PROVE  /\ Cardinality(Others(p, s)) \in Nat
         /\ slot[s].count = Cardinality(Others(p, s)) + (IF Uses(proc[p], s) THEN 1 ELSE 0)
<1> DEFINE U == {x \in Procs : Uses(proc[x], s)}
<1>1. IsFiniteSet(U)
  BY FS_Subset, CacheAssumption DEF CacheAssumption
<1>2. Others(p, s) = U \ {p}
  BY DEF Others
<1>3. Cardinality(U \ {p}) = IF p \in U THEN Cardinality(U) - 1 ELSE Cardinality(U)
  BY <1>1, FS_RemoveElement
<1>4. Cardinality(U) \in Nat /\ Cardinality(U \ {p}) \in Nat
  BY <1>1, FS_RemoveElement, FS_CardinalityType
<1>5. slot[s].count = Cardinality(U)
  BY DEF CountIsUsers
<1>6. QED
  BY <1>2, <1>3, <1>4, <1>5

\* The counts after a step of one process, when the others use what they did.
LEMMA CountAfter ==
  ASSUME NEW p \in Procs, Slots' = Slots,
         \A x \in Procs \ {p} : \A s \in Slots : Uses(proc'[x], s) <=> Uses(proc[x], s),
         \A s \in Slots : slot'[s].count =
            Cardinality(Others(p, s)) + (IF Uses(proc'[p], s) THEN 1 ELSE 0)
  PROVE  CountIsUsers'
<1> SUFFICES ASSUME NEW s \in Slots
             PROVE  slot'[s].count = Cardinality({x \in Procs : Uses(proc'[x], s)})
  BY DEF CountIsUsers, Uses
<1> DEFINE O == Others(p, s)
<1> DEFINE U == {x \in Procs : Uses(proc'[x], s)}
<1>1. IsFiniteSet(O)
  BY FS_Subset, CacheAssumption DEF CacheAssumption, Others
<1>2. O = {x \in Procs \ {p} : Uses(proc'[x], s)}
  BY DEF Others
<1>3. U = IF Uses(proc'[p], s) THEN O \cup {p} ELSE O
  BY <1>2
<1>4. Cardinality(O \cup {p}) = Cardinality(O) + 1 /\ Cardinality(O) \in Nat
  BY <1>1, FS_AddElement, FS_CardinalityType DEF Others
<1>5. slot'[s].count = Cardinality(U)
  <2>1. CASE Uses(proc'[p], s)
    <3>1. slot'[s].count = Cardinality(O) + 1
      BY <2>1
    <3>2. U = O \cup {p}
      BY <2>1, <1>3
    <3> QED BY <3>1, <3>2, <1>4
  <2>2. CASE ~Uses(proc'[p], s)
    <3>1. slot'[s].count = Cardinality(O)
      BY <2>2, <1>4
    <3>2. U = O
      BY <2>2, <1>3
    <3> QED BY <3>1, <3>2
  <2> QED BY <2>1, <2>2
<1>6. QED
  BY <1>5

\* The same for the processes that will change data: the changes to come fit
\* as long as no process begins one and each change that is made is one less.
LEMMA VersionsAfter ==
  ASSUME VersionsLeft, NEW p \in Procs, version \in Nat,
         \A x \in Procs \ {p} : Unmade(proc'[x]) => Unmade(proc[x]),
         \/ version' = version /\ (Unmade(proc'[p]) => Unmade(proc[p]))
         \/ version' = version + 1 /\ Unmade(proc[p]) /\ ~Unmade(proc'[p])
  PROVE  VersionsLeft' /\ version' \in 0 .. MaxVersion
<1> DEFINE P == {x \in Procs : Unmade(proc[x])}
<1> DEFINE Q == {x \in Procs : Unmade(proc'[x])}
<1>1. /\ IsFiniteSet(P) /\ Cardinality(P) \in Nat
      /\ IsFiniteSet(Q) /\ Cardinality(Q) \in Nat
      /\ IsFiniteSet(P \ {p})
  BY FS_Subset, FS_CardinalityType, CacheAssumption DEF CacheAssumption
<1>2. version + Cardinality(P) <= MaxVersion /\ MaxVersion \in Nat
  BY CacheAssumption DEF VersionsLeft, CacheAssumption
<1>3. version' + Cardinality(Q) <= MaxVersion /\ version' \in Nat
  <2>1. CASE version' = version /\ (Unmade(proc'[p]) => Unmade(proc[p]))
    <3>1. Q \in SUBSET P
      BY <2>1
    <3>2. Cardinality(Q) <= Cardinality(P)
      BY <3>1, <1>1, FS_Subset
    <3> QED BY <3>2, <2>1, <1>1, <1>2
  <2>2. CASE version' = version + 1 /\ Unmade(proc[p]) /\ ~Unmade(proc'[p])
    <3>1. Q \in SUBSET (P \ {p}) /\ p \in P
      BY <2>2
    <3>2. Cardinality(Q) <= Cardinality(P \ {p}) /\ Cardinality(P \ {p}) = Cardinality(P) - 1
      BY <3>1, <1>1, FS_Subset, FS_RemoveElement
    <3>3. Cardinality(P \ {p}) \in Nat
      BY <1>1, FS_CardinalityType
    <3> QED BY <3>2, <3>3, <2>2, <1>1, <1>2
  <2> QED BY <2>1, <2>2
<1>4. VersionsLeft' <=> version' + Cardinality(Q) <= MaxVersion
  BY DEF VersionsLeft, Unmade
<1>5. QED
  BY <1>1, <1>2, <1>3, <1>4

-----------------------------------------------------------------------------
(* One step of a process p inside, or at the door of, the slot q.at.  sl   *)
(* is the array and q the process when the step begins; sl differs from    *)
(* the array before it in that slot only, and p is counted in it.          *)

AtDoor(p, q, sl) ==
  /\ q \in ProcState /\ q.at \in Slots
  /\ sl \in [Slots -> SlotState]
  /\ \A t \in Slots \ {q.at} : sl[t] = slot[t]
  /\ proc[p].pc # "idle" /\ q.op = proc[p].op /\ q.nr = proc[p].nr
  /\ proc[p].pc \in Using => proc[p].at = q.at
  /\ sl[q.at].count = Cardinality(Others(p, q.at)) + 1
  /\ sl[q.at].flag # "FREE"
  /\ sl[q.at].flag # "DELETED" => sl[q.at].errors <= MaxErrors
  /\ WritesThrough(setup) => sl[q.at].flag \notin {"DIRTY", "DELETED"}

\* get_ch's pointers are not in use.
NoPointers(q) == q.free = NoSlot /\ (WritesThrough(setup) => q.oldest = NoSlot)

\* A slot gets another cluster only under a single user.
Alone(sl) ==
  \A s \in Slots : slot'[s].nr \in {sl[s].nr, NoCluster} \/ slot'[s].count = 1

\* What a step of p leaves behind.
Result(p, q, sl) ==
  /\ CacheInv'
  /\ proc' = [proc EXCEPT ![p] = proc'[p]] /\ proc'[p].op = q.op
  /\ Alone(sl) /\ \A s \in Slots : slot'[s].count = sl[s].count

\* The process ends its step inside the slot, outside it, or at its door.
LEMMA StepKeeps ==
  ASSUME CacheInv, UNCHANGED setup, NEW p \in Procs, NEW q \in ProcState, NEW sl,
         NEW pc, NEW next, AtDoor(p, q, sl), NoPointers(q),
         pc \in Using, next \in Nexts,
         q.op = "sync" => /\ pc \in {"lock_ch", "write_dirty", "drop"}
                          /\ pc = "lock_ch" => next = "sync",
         q.op = "free_idle" => pc \in {"write_dirty", "drop"},
         pc = "copying" => q.op \in {"write_part", "write_full"},
         pc \in {"write_oldest", "write_dirty"} => sl[q.at].flag = "DIRTY",
         pc = "simulate" => sl[q.at].flag \in Loaded,
         pc = "read_cluster" => sl[q.at].flag = "INVALID",
         WritesThrough(setup) => pc # "simulate" /\ next # "insist",
         \/ holder[q.at] \in {Nobody, p}
         \/ pc \notin Holding /\ sl[q.at].flag = slot[q.at].flag,
         slot' = sl,
         holder' \in [Slots -> Procs \cup {Nobody}],
         \A s \in Slots : holder'[s] = IF s = q.at /\ pc \in Holding THEN p
                                       ELSE IF holder[s] = p THEN Nobody ELSE holder[s],
         proc' = [proc EXCEPT ![p] = [q EXCEPT !.pc = pc, !.next = next]]
  PROVE  Result(p, q, sl)
<1> DEFINE r == [q EXCEPT !.pc = pc, !.next = next]
<1>1. proc \in [Procs -> ProcState] /\ Slots' = Slots
  BY DEF CacheInv, TypedCache, Slots
<1>2. r \in ProcState /\ proc'[p] = r /\ \A x \in Procs \ {p} : proc'[x] = proc[x]
  BY <1>1 DEF ProcState, Using
<1>3. TypedCache'
  BY <1>1, <1>2 DEF AtDoor, TypedCache, SlotState, ProcState
<1>4. r.pc = pc /\ r.next = next /\ r.at = q.at /\ r.op = q.op /\ r.nr = q.nr
      /\ r.free = q.free /\ r.oldest = q.oldest
  BY <1>1 DEF ProcState
<1>5. Placed'
  <2> SUFFICES ASSUME NEW x \in Procs
               PROVE  /\ proc'[x].pc \in Using => proc'[x].at # NoSlot
                      /\ \A s \in Slots :
                            holder'[s] = x <=> proc'[x].pc \in Holding /\ proc'[x].at = s
    BY <1>1 DEF Placed
  <2>1. Nobody \notin Procs /\ Holding \subseteq Using /\ NoSlot \notin Slots
    BY CacheAssumption DEF CacheAssumption, Holding, Using, Places, NoSlot, Slots
  <2>2. CASE x = p
    <3>1. proc'[x].pc = pc /\ proc'[x].at = q.at /\ q.at \in Slots
      BY <2>2, <1>2, <1>4 DEF AtDoor
    <3>2. \A s \in Slots : holder'[s] = p <=> pc \in Holding /\ q.at = s
      BY <2>1
    <3> QED BY <3>1, <3>2, <2>1, <2>2
  <2>3. CASE x # p
    BY <2>1, <2>3, <1>2 DEF AtDoor, CacheInv, Placed
  <2> QED BY <2>2, <2>3
<1>6. OpsPlaced'
  BY <1>2, <1>4 DEF CacheInv, OpsPlaced, AtDoor, Using
<1>7. SlotsKept'
  BY <1>1 DEF CacheInv, SlotsKept, AtDoor
<1>8. HoldersKnow'
  <2> DEFINE Knows(pc0, flag) ==
        /\ pc0 \in {"write_oldest", "write_dirty"} => flag = "DIRTY"
        /\ pc0 = "simulate" => flag \in Loaded
        /\ pc0 = "read_cluster" => flag = "INVALID"
  <2> SUFFICES ASSUME NEW x \in Procs
               PROVE  Knows(proc'[x].pc, slot'[proc'[x].at].flag)
    BY DEF HoldersKnow
  <2>1. CASE x = p
    <3>1. proc'[x].pc = pc /\ proc'[x].at = q.at
      BY <2>1, <1>2, <1>4
    <3> QED BY <3>1
  <2>2. CASE x # p
    <3> DEFINE s == proc[x].at
    <3>1. proc'[x] = proc[x] /\ Knows(proc[x].pc, slot[s].flag)
      BY <2>2, <1>2 DEF CacheInv, HoldersKnow
    <3>2. CASE proc[x].pc \in Holding
      <4>1. s \in Slots /\ holder[s] = x /\ x # Nobody
        BY <3>2, <1>1, CacheAssumption
           DEF CacheInv, Placed, ProcState, CacheAssumption, Holding, Using, Places
      <4>2. slot'[s].flag = slot[s].flag
        BY <4>1, <2>2 DEF AtDoor
      <4> QED BY <3>1, <4>2
    <3>3. CASE proc[x].pc \notin Holding
      BY <3>1, <3>3 DEF Holding
    <3> QED BY <3>2, <3>3
  <2> QED BY <2>1, <2>2
<1>9. PointersSound'
  BY <1>1, <1>2, <1>4 DEF CacheInv, PointersSound, AtDoor, NoPointers
<1>10. CountIsUsers'
  <2>1. \A s \in Slots \ {q.at} : ~Uses(proc'[p], s) /\ ~Uses(proc[p], s)
    BY <1>2, <1>4 DEF Uses, AtDoor, Using, CacheInv, TypedCache, ProcState
  <2>2. Uses(proc'[p], q.at)
    BY <1>2, <1>4 DEF Uses, Using
  <2>3. \A s \in Slots : slot'[s].count =
           Cardinality(Others(p, s)) + (IF Uses(proc'[p], s) THEN 1 ELSE 0)
    BY <2>1, <2>2, CountOthers DEF AtDoor, CacheInv
  <2> QED BY <2>3, <1>1, <1>2, CountAfter
<1>11. QED
  BY <1>2, <1>3, <1>4, <1>5, <1>6, <1>7, <1>8, <1>9, <1>10 DEF Result, CacheInv, Alone

\* Stops, as StepKeeps has it.
LEMMA StopsKeeps ==
  ASSUME CacheInv, UNCHANGED setup, NEW p \in Procs, NEW q \in ProcState, NEW sl,
         NEW pc \in Using \ {"lock_ch"}, NEW holds \in BOOLEAN,
         AtDoor(p, q, sl), NoPointers(q), holder[q.at] \in {Nobody, p},
         holds <=> pc \in Holding,
         q.op \in {"sync", "free_idle"} => pc \in {"write_dirty", "drop"},
         pc = "copying" => q.op \in {"write_part", "write_full"},
         pc \in {"write_oldest", "write_dirty"} => sl[q.at].flag = "DIRTY",
         pc = "simulate" => sl[q.at].flag \in Loaded,
         pc = "read_cluster" => sl[q.at].flag = "INVALID",
         WritesThrough(setup) => pc # "simulate",
         Stops(p, q, sl, pc, holds)
  PROVE  Result(p, q, sl) /\ proc'[p].pc = pc
<1>1. /\ slot' = sl /\ holder' = [holder EXCEPT ![q.at] = IF holds THEN p ELSE Nobody]
      /\ proc' = [proc EXCEPT ![p] = [q EXCEPT !.pc = pc, !.next = "none"]]
  BY DEF Stops
<1>2. holder \in [Slots -> Procs \cup {Nobody}] /\ proc \in [Procs -> ProcState]
  BY DEF CacheInv, TypedCache
<1>3. \A s \in Slots \ {q.at} : holder[s] # p
  BY DEF CacheInv, Placed, AtDoor, Holding, Using, Places
<1>4. /\ holder' \in [Slots -> Procs \cup {Nobody}]
      /\ \A s \in Slots : holder'[s] = IF s = q.at /\ pc \in Holding THEN p
                                      ELSE IF holder[s] = p THEN Nobody ELSE holder[s]
  BY <1>1, <1>2, <1>3 DEF AtDoor
<1>5. proc'[p].pc = pc
  BY <1>1, <1>2 DEF ProcState
<1>6. Result(p, q, sl)
  BY <1>1, <1>4, StepKeeps DEF Nexts
<1>7. QED
  BY <1>5, <1>6

\* What a step makes of an array that has the same counts as sl and differs in
\* the cluster of one slot at most, which has one user then.
LEMMA ResultOf ==
  ASSUME NEW p, NEW q, NEW r, NEW sl, NEW a, Result(p, r, a), r.op = q.op, Slots' = Slots,
         \A s \in Slots : a[s].count = sl[s].count,
         \A s \in Slots : a[s].nr = sl[s].nr \/ a[s].count = 1
  PROVE  Result(p, q, sl)
BY DEF Result, Alone

LEMMA HasDataKeeps ==
  ASSUME CacheInv, UNCHANGED setup, NEW p \in Procs, NEW q \in ProcState, NEW sl,
         AtDoor(p, q, sl), NoPointers(q), holder[q.at] \in {Nobody, p},
         q.op \notin {"sync", "free_idle"},
         HasData(p, q, sl)
  PROVE  Result(p, q, sl)
<1>1. CASE q.op \in {"read", "entry"}
  BY <1>1, StopsKeeps DEF HasData, Leaves, Using, Places, Holding
<1>2. CASE q.op \notin {"read", "entry"}
  <2>1. q.op \in {"write_part", "write_full"}
    BY <1>2 DEF AtDoor, ProcState, Ops, CacheInv, OpsPlaced
  <2> QED BY <1>2, <2>1, StopsKeeps DEF HasData, Keeps, Using, Places, Holding
<1> QED BY <1>1, <1>2

\* get_ch has returned: whatever it pointed at is forgotten.
LEMMA GrantedKeeps ==
  ASSUME CacheInv, UNCHANGED setup, NEW p \in Procs, NEW q \in ProcState, NEW sl,
         AtDoor(p, q, sl), holder[q.at] \in {Nobody, p}, q.op \notin {"sync", "free_idle"},
         Granted(p, q, sl)
  PROVE  Result(p, q, sl)
<1> DEFINE r == GotCh(q)
<1> DEFINE s == q.at
<1>1. Slots' = Slots
  BY DEF Slots
<1>2. r \in ProcState /\ r.at = s /\ r.op = q.op /\ r.nr = q.nr /\ NoPointers(r)
  <2>1. 0 \in 0 .. MaxRetries + 1
    BY CacheAssumption DEF CacheAssumption
  <2>2. r = [q EXCEPT !.free = NoSlot, !.oldest = NoSlot, !.tries = 0]
    BY DEF GotCh
  <2>3. r \in ProcState
    BY <2>1, <2>2 DEF ProcState
  <2>4. r.at = s /\ r.op = q.op /\ r.nr = q.nr /\ r.free = NoSlot /\ r.oldest = NoSlot
    BY <2>2 DEF ProcState
  <2> QED BY <2>3, <2>4 DEF NoPointers
<1>3. AtDoor(p, r, sl)
  BY <1>2 DEF AtDoor
<1>4. Leaves(p, r, sl, "ch_free") => Result(p, q, sl)
  <2>1. Leaves(p, r, sl, "ch_free") => Result(p, r, sl)
    BY <1>2, <1>3, StopsKeeps DEF Leaves, Using, Places, Holding
  <2> QED BY <2>1, <1>1, <1>2, ResultOf
<1>5. CASE /\ sl[s].flag \in {"NOT_MALLOCD", "INVALID"} /\ q.op = "write_full"
           /\ HasData(p, r, [sl EXCEPT ![s].flag = "VALID"])
  <2> DEFINE a == [sl EXCEPT ![s].flag = "VALID"]
  <2>1. AtDoor(p, r, a)
    BY <1>2, <1>3, <1>5 DEF AtDoor, SlotState, Flags, Loaded
  <2>2. \A t \in Slots : a[t].count = sl[t].count /\ a[t].nr = sl[t].nr
    BY DEF AtDoor, SlotState
  <2> HIDE DEF a, r
  <2>3. HasData(p, r, a)
    BY <1>5 DEF a
  <2>4. Result(p, r, a)
    BY <1>2, <2>1, <2>3, HasDataKeeps
  <2> QED BY <2>2, <2>4, <1>1, <1>2, ResultOf
<1>6. CASE /\ sl[s].flag \in {"NOT_MALLOCD", "INVALID"}
           /\ Keeps(p, r, [sl EXCEPT ![s].flag = "INVALID"], "read_cluster")
  <2> DEFINE a == [sl EXCEPT ![s].flag = "INVALID"]
  <2>1. AtDoor(p, r, a)
    BY <1>2, <1>3, <1>6 DEF AtDoor, SlotState, Flags, Loaded
  <2>2. /\ a[s].flag = "INVALID"
        /\ \A t \in Slots : a[t].count = sl[t].count /\ a[t].nr = sl[t].nr
    BY DEF AtDoor, SlotState
  <2> HIDE DEF a, r
  <2>3. Stops(p, r, a, "read_cluster", TRUE)
    BY <1>6 DEF a, Keeps
  <2>4. Result(p, r, a)
    BY <1>2, <2>1, <2>2, <2>3, StopsKeeps DEF Using, Places, Holding
  <2> QED BY <2>2, <2>4, <1>1, <1>2, ResultOf
<1>7. CASE HasData(p, r, sl)
  <2>1. Result(p, r, sl)
    BY <1>2, <1>3, <1>7, HasDataKeeps
  <2> QED BY <2>1, <1>1, <1>2, ResultOf
<1>8. QED
  BY <1>2, <1>4, <1>5, <1>6, <1>7 DEF Granted

\* The slot to discard is given to another cluster, or left as it is.
LEMMA DiscardKeeps ==
  ASSUME CacheInv, UNCHANGED setup, NEW p \in Procs, NEW q \in ProcState, NEW sl,
         AtDoor(p, q, sl), holder[q.at] \in {Nobody, p}, q.op \notin {"sync", "free_idle"},
         \/ NoPointers(q)
         \/ sl[q.at].flag \in {"VALID", "INVALID", "NOT_MALLOCD"} /\ sl[q.at].count <= 1,
         Discard(p, q, sl)
  PROVE  Result(p, q, sl)
<1> DEFINE s == q.at
<1>1. CASE sl[s].flag \in {"VALID", "INVALID", "NOT_MALLOCD"} /\ sl[s].count <= 1
  <2> DEFINE a == [sl EXCEPT ![s].flag = "NOT_MALLOCD", ![s].nr = q.nr, ![s].errors = 0,
                             ![s].data = 0]
  <2>1. Cardinality(Others(p, s)) \in Nat
    BY CountOthers DEF CacheInv, AtDoor
  <2>2. sl[s].count = 1
    BY <1>1, <2>1 DEF AtDoor
  <2>3. AtDoor(p, q, a)
    <3> DEFINE b == [sl[s] EXCEPT !.flag = "NOT_MALLOCD", !.nr = q.nr, !.errors = 0, !.data = 0]
    <3>1. sl[s] \in SlotState /\ s \in Slots
      BY DEF AtDoor
    <3>2. 0 \in 0 .. MaxErrors + 1 /\ 0 \in 0 .. MaxVersion /\ MaxErrors \in Nat
      BY CacheAssumption DEF CacheAssumption
    <3>3. b \in SlotState
      BY <3>1, <3>2 DEF SlotState, ProcState, Flags, Loaded
    <3>4. b.count = sl[s].count /\ b.errors = 0 /\ b.flag = "NOT_MALLOCD"
      BY <3>1 DEF SlotState
    <3>5. a = [sl EXCEPT ![s] = b]
      BY <3>1 DEF AtDoor
    <3> HIDE DEF a, b
    <3> QED BY <3>2, <3>3, <3>4, <3>5 DEF AtDoor
  <2>4. Granted(p, q, a)
    BY <1>1 DEF Discard
  <2>5. \A t \in Slots : a[t].count = sl[t].count /\ (a[t].nr = sl[t].nr \/ a[t].count = 1)
    BY <2>2 DEF AtDoor, SlotState
  <2> HIDE DEF a
  <2>6. Result(p, q, a)
    BY <2>3, <2>4, GrantedKeeps
  <2> QED BY <2>5, <2>6, ResultOf DEF Slots
<1>2. CASE ~(sl[s].flag \in {"VALID", "INVALID", "NOT_MALLOCD"} /\ sl[s].count <= 1)
  BY <1>2, StopsKeeps DEF Discard, Leaves, Using, Places, Holding
<1> QED BY <1>1, <1>2

\* ch_dirty_locked and the last resort of ch_dirty_retry_until_success.
LEMMA DirtyKeeps ==
  ASSUME CacheInv, UNCHANGED setup, NEW p \in Procs, NEW q \in ProcState, NEW sl,
         AtDoor(p, q, sl), NoPointers(q), holder[q.at] \in {Nobody, p},
         q.op \notin {"sync", "free_idle"},
         \/ DirtyLocked(p, q, sl)
         \/ ~WritesThrough(setup) /\ Insist(p, q, sl)
  PROVE  Result(p, q, sl) /\ ~Unmade(proc'[p])
<1>1. CASE DirtyLocked(p, q, sl)
  <2>1. \E pc \in {"ch_free", "simulate", "write_through"} :
           /\ pc = "simulate" => setup.writeBack /\ sl[q.at].flag \in Loaded
           /\ Stops(p, q, sl, pc, pc # "ch_free")
    BY <1>1 DEF DirtyLocked, Leaves, Keeps
  <2>2. PICK pc \in {"ch_free", "simulate", "write_through"} :
           /\ pc = "simulate" => setup.writeBack /\ sl[q.at].flag \in Loaded
           /\ Stops(p, q, sl, pc, pc # "ch_free")
    BY <2>1
  <2>3. Result(p, q, sl) /\ proc'[p].pc = pc
    BY <2>2, StopsKeeps DEF Using, Places, Holding, WritesThrough
  <2> QED BY <2>3 DEF Unmade
<1>2. CASE ~WritesThrough(setup) /\ Insist(p, q, sl)
  <2> DEFINE a == [sl EXCEPT ![q.at].flag = IF @ \in Loaded THEN "DIRTY" ELSE @]
  <2>1. AtDoor(p, q, a)
    BY <1>2 DEF AtDoor, SlotState, Flags, Loaded
  <2>2. \A t \in Slots : a[t].count = sl[t].count /\ a[t].nr = sl[t].nr
    BY DEF AtDoor, SlotState
  <2>3. Stops(p, q, a, "ch_free", FALSE)
    BY <1>2 DEF Insist, Leaves
  <2> HIDE DEF a
  <2>4. Result(p, q, a) /\ proc'[p].pc = "ch_free"
    BY <2>1, <2>3, StopsKeeps DEF Using, Places, Holding
  <2>5. Result(p, q, sl)
    BY <2>2, <2>4, ResultOf DEF Slots
  <2> QED BY <2>4, <2>5 DEF Unmade
<1> QED BY <1>1, <1>2

LEMMA WriteOutKeeps ==
  ASSUME CacheInv, UNCHANGED setup, NEW p \in Procs, NEW q \in ProcState, NEW sl,
         NEW pc \in {"write_oldest", "write_dirty"},
         AtDoor(p, q, sl), NoPointers(q), holder[q.at] \in {Nobody, p},
         q.op \in {"sync", "free_idle"} => pc = "write_dirty", sl[q.at].flag = "DIRTY",
         WriteOut(p, q, sl, pc)
  PROVE  Result(p, q, sl)
<1> DEFINE r == [q EXCEPT !.image = sl[q.at].data]
<1>1. /\ r \in ProcState /\ r.at = q.at /\ r.op = q.op /\ r.nr = q.nr
      /\ r.free = q.free /\ r.oldest = q.oldest
  BY DEF AtDoor, ProcState, SlotState
<1>2. Stops(p, r, sl, pc, TRUE)
  BY DEF WriteOut, Keeps
<1> HIDE DEF r
<1>3. AtDoor(p, r, sl) /\ NoPointers(r)
  BY <1>1 DEF AtDoor, NoPointers
<1>4. Result(p, r, sl)
  BY <1>1, <1>2, <1>3, StopsKeeps DEF Using, Places, Holding
<1> QED BY <1>1, <1>4, ResultOf DEF Slots

\* A pointer that get_ch has set is forgotten in the same step: the slot it has
\* chosen is its own at once.
ChosenAtOnce(q, sl) ==
  \/ q.next = "check" /\ sl[q.at].nr = q.nr
  \/ /\ q.next = "discard" /\ sl[q.at].flag \in {"VALID", "INVALID", "NOT_MALLOCD"}
     /\ sl[q.at].count <= 1

LEMMA InsideKeeps ==
  ASSUME CacheInv, UNCHANGED setup, NEW p \in Procs, NEW q \in ProcState, NEW sl,
         AtDoor(p, q, sl), holder[q.at] \in {Nobody, p},
         NoPointers(q) \/ ChosenAtOnce(q, sl),
         q.op = "sync" => q.next = "sync", q.op # "free_idle",
         q.next = "insist" => ~WritesThrough(setup),
         Inside(p, q, sl)
  PROVE  Result(p, q, sl) /\ (q.next \in {"dirty", "insist"} => ~Unmade(proc'[p]))
<1>1. CASE q.next = "check" /\ Check(p, q, sl)
  <2>1. CASE sl[q.at].nr = q.nr
    BY <1>1, <2>1, GrantedKeeps DEF Check
  <2>2. CASE sl[q.at].nr # q.nr
    BY <1>1, <2>2, StopsKeeps DEF Check, Leaves, ChosenAtOnce, Using, Places, Holding
  <2> QED BY <2>1, <2>2, <1>1
<1>2. CASE q.next = "discard" /\ sl[q.at].flag = "DIRTY" /\ WriteOut(p, q, sl, "write_oldest")
  BY <1>2, WriteOutKeeps DEF ChosenAtOnce
<1>3. CASE q.next = "discard" /\ Discard(p, q, sl)
  BY <1>3, DiscardKeeps DEF ChosenAtOnce
<1>4. CASE q.next = "dirty" /\ DirtyLocked(p, q, sl)
  BY <1>4, DirtyKeeps DEF ChosenAtOnce
<1>5. CASE q.next = "insist" /\ Insist(p, q, sl)
  BY <1>5, DirtyKeeps DEF ChosenAtOnce
<1>6. CASE q.next = "sync" /\ sl[q.at].flag = "DIRTY" /\ WriteOut(p, q, sl, "write_dirty")
  BY <1>6, WriteOutKeeps DEF ChosenAtOnce
<1>7. CASE q.next = "sync" /\ Leaves(p, q, sl, "drop")
  BY <1>7, StopsKeeps DEF Leaves, ChosenAtOnce, Using, Places, Holding
<1>8. QED
  BY <1>1, <1>2, <1>3, <1>4, <1>5, <1>6, <1>7 DEF Inside

LEMMA LockChKeeps ==
  ASSUME CacheInv, UNCHANGED setup, NEW p \in Procs, NEW q \in ProcState, NEW sl,
         AtDoor(p, q, sl), \A s \in Slots : holder[s] # p,
         NoPointers(q) \/ (holder[q.at] = Nobody /\ ChosenAtOnce(q, sl)),
         holder[q.at] = Nobody \/ sl[q.at].flag = slot[q.at].flag,
         q.op = "sync" => q.next = "sync", q.op # "free_idle",
         q.next = "insist" => ~WritesThrough(setup),
         LockCh(p, q, sl)
  PROVE  Result(p, q, sl) /\ (q.next \in {"dirty", "insist"} => ~Unmade(proc'[p]))
<1>1. CASE holder[q.at] = Nobody
  BY <1>1, InsideKeeps DEF LockCh
<1>2. CASE holder[q.at] # Nobody
  <2>1. /\ slot' = sl /\ UNCHANGED holder
        /\ proc' = [proc EXCEPT ![p] = [q EXCEPT !.pc = "lock_ch"]]
    BY <1>2 DEF LockCh
  <2>2. [q EXCEPT !.pc = "lock_ch"] = [q EXCEPT !.pc = "lock_ch", !.next = q.next]
        /\ q.next \in Nexts /\ proc \in [Procs -> ProcState]
        /\ holder \in [Slots -> Procs \cup {Nobody}]
    BY DEF ProcState, CacheInv, TypedCache
  <2>3. "lock_ch" \in Using /\ "lock_ch" \notin Holding
    BY DEF Using, Places, Holding
  <2>4. proc' = [proc EXCEPT ![p] = [q EXCEPT !.pc = "lock_ch", !.next = q.next]]
    BY <2>1, <2>2
  <2>5. /\ holder' \in [Slots -> Procs \cup {Nobody}]
        /\ \A s \in Slots : holder'[s] = IF s = q.at /\ "lock_ch" \in Holding THEN p
                                        ELSE IF holder[s] = p THEN Nobody ELSE holder[s]
    BY <2>1, <2>2, <2>3
  <2>6. Result(p, q, sl)
    BY <1>2, <2>1, <2>2, <2>3, <2>4, <2>5, StepKeeps
  <2>7. proc'[p].pc = "lock_ch" /\ proc'[p].next = q.next
    BY <2>2, <2>4 DEF ProcState
  <2> QED BY <2>6, <2>7 DEF Unmade
<1> QED BY <1>1, <1>2

-----------------------------------------------------------------------------
(* The steps, one lemma each.                                              *)

\* What every step does.
Kept == IInv' /\ Alone(slot)

\* A process that uses a slot, seen at the beginning of its step.
LEMMA UserAtDoor ==
  ASSUME CacheInv, NEW p \in Procs, proc[p].pc \in Using
  PROVE  /\ proc[p] \in ProcState /\ proc[p].at \in Slots
         /\ AtDoor(p, proc[p], slot) /\ NoPointers(proc[p])
         /\ proc[p].pc \in Holding => holder[proc[p].at] = p
         /\ proc[p].pc \notin Holding => \A s \in Slots : holder[s] # p
         /\ Uses(proc[p], proc[p].at)
<1> DEFINE s == proc[p].at
<1>1. proc[p] \in ProcState /\ s \in Slots
  BY DEF CacheInv, TypedCache, Placed, ProcState
<1>2. Uses(proc[p], s) /\ proc[p].pc # "idle"
  BY DEF Uses, Using, Places
<1>3. slot[s].count = Cardinality(Others(p, s)) + 1 /\ Cardinality(Others(p, s)) \in Nat
  BY <1>1, <1>2, CountOthers DEF CacheInv
<1>4. slot[s].flag # "FREE"
  BY <1>1, <1>3 DEF CacheInv, SlotsKept
<1>5. AtDoor(p, proc[p], slot)
  BY <1>1, <1>2, <1>3, <1>4 DEF AtDoor, CacheInv, TypedCache, SlotsKept, PointersSound
<1>6. NoPointers(proc[p])
  BY DEF CacheInv, PointersSound, NoPointers
<1>7. QED
  BY <1>1, <1>2, <1>5, <1>6 DEF CacheInv, Placed

\* There is room for the data of a process that will change some.
LEMMA RoomForOne ==
  ASSUME TypedVolume, VersionsLeft, NEW p \in Procs, Unmade(proc[p])
  PROVE  version + 1 \in 0 .. MaxVersion
<1> DEFINE P == {x \in Procs : Unmade(proc[x])}
<1>1. IsFiniteSet(P) /\ p \in P
  BY FS_Subset, CacheAssumption DEF CacheAssumption
<1>2. Cardinality(P) \in Nat /\ Cardinality(P) # 0
  BY <1>1, FS_CardinalityType, FS_EmptySet
<1>3. version + Cardinality(P) <= MaxVersion /\ MaxVersion \in Nat
  BY CacheAssumption DEF VersionsLeft, CacheAssumption
<1> HIDE DEF P
<1> QED BY <1>2, <1>3 DEF TypedVolume

\* A step that leaves a Result behind and keeps the volume typed.
LEMMA ResultKept ==
  ASSUME IInv, NEW p \in Procs, NEW q, NEW sl, Result(p, q, sl), q.op = proc[p].op,
         UNCHANGED setup,
         \A s \in Slots : sl[s].nr \in {slot[s].nr, NoCluster} \/ sl[s].count = 1,
         TypedVolume',
         \/ version' = version /\ (Unmade(proc'[p]) => Unmade(proc[p]))
         \/ version' = version + 1 /\ Unmade(proc[p]) /\ ~Unmade(proc'[p])
  PROVE  Kept
<1>1. proc' = [proc EXCEPT ![p] = proc'[p]] /\ proc \in [Procs -> ProcState]
  BY DEF Result, IInv, CacheInv, TypedCache
<1>2. \A x \in Procs \ {p} : Unmade(proc'[x]) => Unmade(proc[x])
  BY <1>1
<1>3. VersionsLeft'
  BY <1>2, VersionsAfter DEF IInv, TypedVolume
<1>4. IInv'
  BY <1>3 DEF IInv, Result
<1>5. Alone(slot)
  BY DEF Alone, Result, Slots
<1> QED BY <1>4, <1>5 DEF Kept

\* The process stays at a place outside all slots, or goes from one to another.
LEMMA AsideKeeps ==
  ASSUME CacheInv, UNCHANGED <<setup, slot, holder>>, NEW p \in Procs, NEW r \in ProcState,
         proc' = [proc EXCEPT ![p] = r],
         proc[p].pc \notin Using, r.pc \notin Using, NoPointers(r),
         WritesThrough(setup) => r.next # "insist",
         r.pc # "idle" => r.op # "none" /\ setup.calls[p] # {},
         r.op = "sync" => r.pc = "scan", r.op = "free_idle" => r.pc = "scan_idle",
         r.op = "entry" => \E c \in setup.calls[p] : c.op = "entry",
         r.op \notin {"none", "sync", "free_idle"} => r.nr \in Clusters
  PROVE  CacheInv' /\ Alone(slot)
<1>1. proc \in [Procs -> ProcState] /\ Slots' = Slots
  BY DEF CacheInv, TypedCache, Slots
<1>2. proc'[p] = r /\ \A x \in Procs \ {p} : proc'[x] = proc[x]
  BY <1>1
<1>3. TypedCache'
  BY <1>1 DEF CacheInv, TypedCache, ProcState, SlotState
<1>4. Placed'
  BY <1>1, <1>2 DEF CacheInv, Placed, Holding, Using, Places
<1>5. OpsPlaced' /\ SlotsKept'
  BY <1>1, <1>2 DEF CacheInv, OpsPlaced, SlotsKept, Using, Places
<1>6. HoldersKnow' /\ PointersSound'
  BY <1>1, <1>2 DEF CacheInv, HoldersKnow, PointersSound, NoPointers, Using, Places
<1>7. CountIsUsers'
  <2>1. \A s \in Slots : ~Uses(proc'[p], s) /\ ~Uses(proc[p], s)
    BY <1>1, <1>2 DEF Uses, Using, ProcState
  <2>2. \A s \in Slots : slot'[s].count =
           Cardinality(Others(p, s)) + (IF Uses(proc'[p], s) THEN 1 ELSE 0)
    BY <2>1, CountOthers DEF CacheInv
  <2> QED BY <1>1, <1>2, <2>2, CountAfter
<1>8. QED
  BY <1>3, <1>4, <1>5, <1>6, <1>7 DEF CacheInv, Alone

\* Where an operation begins.
LEMMA RoundPlaces ==
  ASSUME NEW op
  PROVE  /\ Round(op) \in {"scan", "scan_idle", "get_ch"}
         /\ op = "sync" => Round(op) = "scan"
         /\ op = "free_idle" => Round(op) = "scan_idle"
BY DEF Round

LEMMA CallKeeps ==
  ASSUME IInv, NEW p \in Procs, Call(p)
  PROVE  Kept
<1>1. PICK c \in setup.calls[p] :
        /\ c.op \in Changes =>
             version + Cardinality({r \in Procs : proc[r].op \in Changes}) < MaxVersion
        /\ proc' = [proc EXCEPT ![p] = [Outside EXCEPT !.op = c.op, !.nr = c.nr,
                                       !.pc = Round(c.op)]]
  BY DEF Call
<1> DEFINE r == [Outside EXCEPT !.op = c.op, !.nr = c.nr,
                              !.pc = Round(c.op)]
<1>2. setup \in Setups /\ c \in Calls
  BY CacheAssumption DEF CacheAssumption, IInv, TypedVolume
<1>3. /\ r.pc = Round(c.op) /\ r.op = c.op /\ r.nr = c.nr
      /\ r.next = "none" /\ r.free = NoSlot /\ r.oldest = NoSlot
  BY DEF Outside
<1>4. r \in ProcState
  <2>1. Outside \in ProcState
    BY CacheAssumption DEF CacheAssumption, Outside, ProcState, Places, Ops, Nexts
  <2>2. c.op \in Ops /\ c.nr \in Clusters \cup {NoCluster}
    BY <1>2 DEF Calls, Ops
  <2>3. Round(c.op) \in Places
    BY RoundPlaces DEF Places
  <2> QED BY <2>1, <2>2, <2>3 DEF ProcState
<1>5. c.op \in {"read", "write_part", "write_full", "entry", "sync", "free_idle"}
      /\ (c.op \notin {"sync", "free_idle"} => c.nr \in Clusters) /\ setup.calls[p] # {}
  BY <1>2 DEF Calls
<1> HIDE DEF r
<1>6. CacheInv' /\ Alone(slot)
  <2>1. proc[p].pc \notin Using /\ r.pc \notin Using
    BY <1>3, RoundPlaces DEF Call, Using
  <2>2. /\ r.op = "sync" => r.pc = "scan"
        /\ r.op = "free_idle" => r.pc = "scan_idle"
    BY <1>3, RoundPlaces
  <2> QED BY <1>1, <1>3, <1>4, <1>5, <2>1, <2>2, AsideKeeps DEF r, IInv, Call, NoPointers
<1>7. VersionsLeft'
  <2> DEFINE P == {x \in Procs : Unmade(proc[x])}
             Q == {x \in Procs : Unmade(proc'[x])}
             R == {x \in Procs : proc[x].op \in Changes}
  <2>1. IsFiniteSet(P) /\ IsFiniteSet(Q) /\ IsFiniteSet(R)
    BY FS_Subset, CacheAssumption DEF CacheAssumption
  <2>2. Cardinality(P) \in Nat /\ Cardinality(Q) \in Nat /\ Cardinality(R) \in Nat
    BY <2>1, FS_CardinalityType
  <2>3. proc'[p].op = c.op /\ \A x \in Procs \ {p} : proc'[x] = proc[x]
    BY <1>1, <1>3 DEF r, IInv, CacheInv, TypedCache
  <2>4. version \in Nat /\ MaxVersion \in Nat /\ version' = version
    BY CacheAssumption DEF CacheAssumption, IInv, TypedVolume, Call
  <2>5. version + Cardinality(Q) <= MaxVersion
    <3>1. CASE c.op \in Changes
      <4>1. Q \in SUBSET (R \cup {p})
        BY <2>3 DEF Unmade
      <4>2. IsFiniteSet(R \cup {p}) /\ Cardinality(R \cup {p}) <= Cardinality(R) + 1
        <5> HIDE DEF R
        <5>1. /\ IsFiniteSet(R \cup {p})
              /\ Cardinality(R \cup {p}) = IF p \in R THEN Cardinality(R) ELSE Cardinality(R) + 1
          BY <2>1, FS_AddElement
        <5> QED BY <5>1, <2>2
      <4>3. Cardinality(Q) <= Cardinality(R \cup {p}) /\ Cardinality(R \cup {p}) \in Nat
        BY <4>1, <4>2, FS_Subset, FS_CardinalityType
      <4>4. version + Cardinality(R) < MaxVersion
        BY <3>1, <1>1
      <4> HIDE DEF Q, R
      <4> QED BY <4>2, <4>3, <4>4, <2>2, <2>4
    <3>2. CASE c.op \notin Changes
      <4>1. Q \in SUBSET P
        BY <3>2, <2>3 DEF Unmade
      <4>2. Cardinality(Q) <= Cardinality(P)
        BY <4>1, <2>1, FS_Subset
      <4>3. version + Cardinality(P) <= MaxVersion
        BY DEF IInv, VersionsLeft
      <4> HIDE DEF P, Q
      <4> QED BY <4>2, <4>3, <2>2, <2>4
    <3> QED BY <3>1, <3>2
  <2> QED BY <2>4, <2>5 DEF VersionsLeft, Unmade
<1>8. TypedVolume'
  BY DEF Call, IInv, TypedVolume
<1> QED BY <1>6, <1>7, <1>8 DEF Kept, IInv

\* A process that is not at work leaves the counts and the volume as they are.
LEMMA AsideKept ==
  ASSUME IInv, NEW p \in Procs, NEW r, proc' = [proc EXCEPT ![p] = r],
         Unmade(r) => Unmade(proc[p]), CacheInv', Alone(slot),
         UNCHANGED <<setup, readonly, disk, version, promised>>
  PROVE  Kept
<1>1. proc'[p] = r /\ \A x \in Procs \ {p} : proc'[x] = proc[x]
  BY DEF IInv, CacheInv, TypedCache
<1>2. VersionsLeft'
  BY <1>1, VersionsAfter DEF IInv, TypedVolume
<1>3. TypedVolume'
  BY DEF IInv, TypedVolume
<1> QED BY <1>2, <1>3 DEF Kept, IInv

\* A call returns from a place outside all slots.
LEMMA ReturnsKeeps ==
  ASSUME IInv, NEW p \in Procs, proc[p].pc \notin Using, Returns(p),
         UNCHANGED <<setup, slot, holder, readonly, disk, version, promised>>
  PROVE  Kept
<1>1. Outside \in ProcState
  BY CacheAssumption DEF CacheAssumption, Outside, ProcState, Places, Ops, Nexts
<1>2. /\ Outside.pc = "idle" /\ Outside.op = "none" /\ Outside.next = "none"
      /\ Outside.free = NoSlot /\ Outside.oldest = NoSlot /\ "idle" \notin Using
  BY DEF Outside, Using
<1>3. CacheInv' /\ Alone(slot)
  BY <1>1, <1>2, AsideKeeps DEF IInv, Returns, NoPointers
<1> QED BY <1>2, <1>3, AsideKept DEF Returns, Unmade

LEMMA GetChGivesUpKeeps ==
  ASSUME IInv, NEW p \in Procs, GetChGivesUp(p)
  PROVE  Kept
BY ReturnsKeeps DEF GetChGivesUp, Using

LEMMA AcquireKeeps ==
  ASSUME IInv, NEW p \in Procs, Acquire(p)
  PROVE  Kept
<1>1. proc[p].pc = "lock_ch" /\ holder[proc[p].at] = Nobody /\ Inside(p, proc[p], slot)
      /\ UNCHANGED <<setup, readonly, disk, version, promised>>
  BY DEF Acquire
<1>2. CacheInv /\ proc[p].pc \in Using
  BY <1>1 DEF IInv, Using, Places
<1>3. /\ proc[p].op = "sync" => proc[p].next = "sync"
      /\ proc[p].op # "free_idle"
      /\ proc[p].next = "insist" => ~WritesThrough(setup)
  BY <1>1, <1>2 DEF CacheInv, OpsPlaced, PointersSound
<1>4. /\ Result(p, proc[p], slot)
      /\ proc[p].next \in {"dirty", "insist"} => ~Unmade(proc'[p])
  BY <1>1, <1>2, <1>3, UserAtDoor, InsideKeeps
<1>5. Unmade(proc'[p]) => Unmade(proc[p])
  BY <1>1, <1>4 DEF Unmade, Result
<1>6. TypedVolume'
  BY <1>1 DEF IInv, TypedVolume
<1> QED BY <1>1, <1>4, <1>5, <1>6, ResultKept

LEMMA DoneReadingKeeps ==
  ASSUME IInv, NEW p \in Procs, DoneReading(p)
  PROVE  Kept
<1> DEFINE q == proc[p]
<1>1. CacheInv /\ q.pc \in Using \ Holding /\ q.op = "read"
      /\ UNCHANGED <<setup, slot, holder, readonly, disk, version, promised>>
  BY DEF IInv, DoneReading, Using, Places, Holding
<1>2. /\ q \in ProcState /\ AtDoor(p, q, slot) /\ NoPointers(q)
      /\ \A s \in Slots : holder[s] # p
  BY <1>1, UserAtDoor
<1>3. proc' = [proc EXCEPT ![p] = [q EXCEPT !.pc = "ch_free", !.next = q.next]]
  BY <1>2 DEF DoneReading, ProcState
<1>4. /\ q.next \in Nexts /\ holder' \in [Slots -> Procs \cup {Nobody}]
      /\ WritesThrough(setup) => q.next # "insist"
  BY <1>1, <1>2 DEF ProcState, CacheInv, TypedCache, PointersSound
<1>5. Result(p, q, slot)
  <2>1. "ch_free" \in Using /\ "ch_free" \notin Holding
    BY DEF Using, Places, Holding
  <2> HIDE DEF q
  <2> QED BY <1>1, <1>2, <1>3, <1>4, <2>1, StepKeeps
<1>6. ~Unmade(proc'[p]) /\ TypedVolume'
  BY <1>1, <1>5 DEF Unmade, Result, IInv, TypedVolume, Changes
<1> QED BY <1>1, <1>5, <1>6, ResultKept

\* The end of a write of a slot: the disk has a version, or there is an error.
LEMMA WrittenOutTyped ==
  ASSUME IInv, NEW p \in Procs, proc[p].pc \in Using, NEW ok, WrittenOut(p, ok),
         UNCHANGED <<setup, version, promised>>
  PROVE  TypedVolume'
<1> DEFINE s == proc[p].at
<1>1. s \in Slots /\ proc[p] \in ProcState /\ slot[s] \in SlotState
  BY UserAtDoor DEF IInv, CacheInv, TypedCache
<1>2. disk' \in [Clusters -> 0 .. MaxVersion]
  BY <1>1 DEF WrittenOut, IInv, TypedVolume, ProcState, SlotState
<1>3. readonly' \in BOOLEAN
  BY DEF WrittenOut, IInv, TypedVolume
<1> QED BY <1>2, <1>3 DEF IInv, TypedVolume

\* A dirty slot of which p knows that it is dirty: whether it has been written
\* or not, p is at the door of what is made of it.
LEMMA WrittenAtDoor ==
  ASSUME IInv, NEW p \in Procs, proc[p].pc \in {"write_oldest", "write_dirty"},
         NEW q, q = [proc[p] EXCEPT !.image = 0],
         NEW s, s = proc[p].at, NEW a, a = AfterError(WithError(slot, s), s),
         NEW b, b = Clean(s)
  PROVE  /\ q \in ProcState /\ q.at = s /\ q.op = proc[p].op /\ NoPointers(q)
         /\ holder[s] = p /\ ~WritesThrough(setup)
         /\ AtDoor(p, q, a) /\ \A t \in Slots : a[t].nr \in {slot[t].nr, NoCluster}
         /\ AtDoor(p, q, b) /\ \A t \in Slots : b[t].nr = slot[t].nr
<1>1. proc[p].pc \in Using /\ proc[p].pc \in Holding /\ CacheInv
  BY DEF Using, Places, Holding, IInv
<1>2. /\ proc[p] \in ProcState /\ s \in Slots /\ AtDoor(p, proc[p], slot)
      /\ NoPointers(proc[p]) /\ holder[s] = p
  BY <1>1, UserAtDoor
<1>3. /\ q \in ProcState /\ q.at = s /\ q.op = proc[p].op /\ q.nr = proc[p].nr
      /\ NoPointers(q)
  BY <1>2, CacheAssumption DEF ProcState, NoPointers, CacheAssumption
<1>4. slot[s].flag = "DIRTY" /\ ~WritesThrough(setup)
  BY <1>1, <1>2 DEF CacheInv, HoldersKnow, PointersSound
<1>5. slot \in [Slots -> SlotState] /\ slot[s].errors <= MaxErrors /\ MaxErrors \in Nat
  BY <1>1, <1>2, <1>4, CacheAssumption DEF CacheInv, TypedCache, SlotsKept, CacheAssumption
<1>6. AtDoor(p, q, b) /\ \A t \in Slots : b[t].nr = slot[t].nr
  <2>1. /\ b \in [Slots -> SlotState] /\ b[s].flag = "VALID" /\ b[s].errors = 0
        /\ b[s].count = slot[s].count /\ b[s].nr = slot[s].nr
        /\ \A t \in Slots \ {s} : b[t] = slot[t]
    BY <1>2, <1>5 DEF Clean, SlotState, Flags, Loaded
  <2> QED BY <1>2, <1>3, <1>4, <1>5, <2>1 DEF AtDoor
<1>7. AtDoor(p, q, a) /\ \A t \in Slots : a[t].nr \in {slot[t].nr, NoCluster}
  <2> DEFINE w == WithError(slot, s)
  <2>1. /\ w \in [Slots -> SlotState] /\ w[s].flag = "DIRTY" /\ w[s].count = slot[s].count
        /\ w[s].nr = slot[s].nr /\ w[s].errors = slot[s].errors + 1
        /\ \A t \in Slots \ {s} : w[t] = slot[t]
    BY <1>2, <1>4, <1>5 DEF WithError, SlotState
  <2> HIDE DEF w
  <2>2. CASE GivesUp(w, s)
    <3>1. a = [w EXCEPT ![s].flag = "DELETED", ![s].nr = NoCluster]
      BY <2>2 DEF AfterError, w
    <3> DEFINE v == [w EXCEPT ![s].flag = "DELETED"]
    <3>2. /\ v \in [Slots -> SlotState] /\ v[s].flag = "DELETED" /\ v[s].count = w[s].count
          /\ \A t \in Slots \ {s} : v[t] = w[t]
      BY <1>2, <2>1 DEF SlotState, Flags, Loaded
    <3>3. a = [v EXCEPT ![s].nr = NoCluster]
      BY <3>1
    <3> HIDE DEF v
    <3>4. /\ a \in [Slots -> SlotState] /\ a[s].flag = "DELETED" /\ a[s].count = w[s].count
          /\ a[s].nr = NoCluster /\ \A t \in Slots \ {s} : a[t] = w[t]
      BY <1>2, <3>2, <3>3 DEF SlotState
    <3> QED BY <1>2, <1>3, <1>4, <2>1, <3>4 DEF AtDoor
  <2>3. CASE ~GivesUp(w, s)
    <3>1. a = w
      BY <2>3 DEF AfterError, w
    <3>2. w[s].errors <= MaxErrors
      BY <2>1, <2>3, <1>2, <1>5 DEF GivesUp, SlotState
    <3> QED BY <1>2, <1>3, <1>4, <2>1, <3>1, <3>2 DEF AtDoor
  <2> QED BY <2>2, <2>3
<1> QED BY <1>2, <1>3, <1>4, <1>6, <1>7

LEMMA WriteOldestKeeps ==
  ASSUME IInv, NEW p \in Procs, WriteOldest(p)
  PROVE  Kept
<1> DEFINE s == proc[p].at
           q == [proc[p] EXCEPT !.image = 0]
           a == AfterError(WithError(slot, s), s)
<1>1. PICK ok \in Outcomes :
        /\ WrittenOut(p, ok)
        /\ IF ok THEN Discard(p, q, Clean(s)) ELSE Leaves(p, q, a, "drop")
  BY DEF WriteOldest
<1>2. /\ proc[p].pc = "write_oldest" /\ UNCHANGED <<setup, version, promised>>
      /\ CacheInv /\ proc[p].pc \in Using
  BY DEF WriteOldest, IInv, Using, Places
<1>3. /\ q \in ProcState /\ q.at = s /\ q.op = proc[p].op /\ NoPointers(q)
      /\ holder[s] = p
      /\ AtDoor(p, q, a) /\ \A t \in Slots : a[t].nr \in {slot[t].nr, NoCluster}
      /\ AtDoor(p, q, Clean(s)) /\ \A t \in Slots : Clean(s)[t].nr = slot[t].nr
  BY <1>2, WrittenAtDoor
<1>4. Unmade(proc'[p]) /\ proc'[p].op = q.op => Unmade(proc[p])
  BY <1>2, <1>3 DEF Unmade
<1>5. TypedVolume'
  BY <1>1, <1>2, WrittenOutTyped
<1>6. q.op \notin {"sync", "free_idle"}
  BY <1>2, <1>3 DEF CacheInv, OpsPlaced
<1> HIDE DEF q, s, a
<1>7. CASE ok
  <2>1. Result(p, q, Clean(s))
    BY <1>1, <1>2, <1>3, <1>6, <1>7, DiscardKeeps
  <2> QED BY <2>1, <1>2, <1>3, <1>4, <1>5, <1>6, ResultKept DEF Result
<1>8. CASE ~ok
  <2>1. Result(p, q, a)
    BY <1>1, <1>2, <1>3, <1>6, <1>8, StopsKeeps DEF Leaves, Using, Places, Holding
  <2> QED BY <2>1, <1>2, <1>3, <1>4, <1>5, <1>6, ResultKept DEF Result
<1> QED BY <1>7, <1>8

LEMMA WriteDirtyKeeps ==
  ASSUME IInv, NEW p \in Procs, WriteDirty(p)
  PROVE  Kept
<1> DEFINE s == proc[p].at
           q == [proc[p] EXCEPT !.image = 0]
           a == AfterError(WithError(slot, s), s)
<1>1. PICK ok \in Outcomes :
        /\ WrittenOut(p, ok)
        /\ Leaves(p, q, IF ok THEN Clean(s) ELSE a, "drop")
  BY DEF WriteDirty
<1>2. /\ proc[p].pc = "write_dirty" /\ UNCHANGED <<setup, version, promised>>
      /\ CacheInv /\ proc[p].pc \in Using
  BY DEF WriteDirty, IInv, Using, Places
<1>3. /\ q \in ProcState /\ q.at = s /\ q.op = proc[p].op /\ NoPointers(q)
      /\ holder[s] = p
      /\ AtDoor(p, q, a) /\ \A t \in Slots : a[t].nr \in {slot[t].nr, NoCluster}
      /\ AtDoor(p, q, Clean(s)) /\ \A t \in Slots : Clean(s)[t].nr = slot[t].nr
  BY <1>2, WrittenAtDoor
<1>4. Unmade(proc'[p]) /\ proc'[p].op = q.op => Unmade(proc[p])
  BY <1>2, <1>3 DEF Unmade
<1>5. TypedVolume'
  BY <1>1, <1>2, WrittenOutTyped
<1> HIDE DEF q, s, a
<1>6. PICK sl \in {Clean(s), a} : Leaves(p, q, sl, "drop")
  BY <1>1
<1>7. Result(p, q, sl)
  BY <1>2, <1>3, <1>6, StopsKeeps DEF Leaves, Using, Places, Holding
<1> QED BY <1>2, <1>3, <1>4, <1>5, <1>6, <1>7, ResultKept DEF Result

LEMMA ReadClusterKeeps ==
  ASSUME IInv, NEW p \in Procs, ReadCluster(p)
  PROVE  Kept
<1> DEFINE q == proc[p]
           s == q.at
           a == [slot EXCEPT ![s].flag = "VALID", ![s].data = disk[q.nr]]
<1>1. \/ HasData(p, q, a)
      \/ Leaves(p, q, slot, "ch_free")
  BY DEF ReadCluster
<1>2. /\ q.pc = "read_cluster" /\ UNCHANGED <<setup, readonly, disk, version, promised>>
      /\ CacheInv /\ q.pc \in Using /\ q.pc \in Holding
  BY DEF ReadCluster, IInv, Using, Places, Holding
<1>3. /\ q \in ProcState /\ s \in Slots /\ AtDoor(p, q, slot) /\ NoPointers(q)
      /\ holder[s] = p
  BY <1>2, UserAtDoor
<1>4. q.op \notin {"none", "sync", "free_idle"} /\ disk[q.nr] \in 0 .. MaxVersion
  BY <1>2 DEF CacheInv, OpsPlaced, IInv, TypedVolume
<1>5. /\ a \in [Slots -> SlotState] /\ a[s].flag = "VALID" /\ a[s].count = slot[s].count
      /\ a[s].errors = slot[s].errors /\ \A t \in Slots : a[t].nr = slot[t].nr
      /\ \A t \in Slots \ {s} : a[t] = slot[t]
  <2> DEFINE v == [slot EXCEPT ![s].flag = "VALID"]
  <2>1. /\ v \in [Slots -> SlotState] /\ v[s].flag = "VALID" /\ v[s].count = slot[s].count
        /\ v[s].errors = slot[s].errors /\ \A t \in Slots : v[t].nr = slot[t].nr
        /\ \A t \in Slots \ {s} : v[t] = slot[t]
    BY <1>2, <1>3 DEF CacheInv, TypedCache, SlotState, Flags, Loaded
  <2>2. a = [v EXCEPT ![s].data = disk[q.nr]]
    OBVIOUS
  <2> DEFINE d == disk[q.nr]
  <2> HIDE DEF v, d, q, s, a
  <2> QED BY <1>3, <1>4, <2>1, <2>2 DEF SlotState, d
<1>6. slot[s].errors <= MaxErrors
  <2>1. slot[s].flag = "INVALID"
    BY <1>2 DEF CacheInv, HoldersKnow
  <2> QED BY <1>3, <2>1 DEF AtDoor
<1>7. AtDoor(p, q, a)
  BY <1>3, <1>5, <1>6 DEF AtDoor
<1>8. Result(p, q, a) \/ Result(p, q, slot)
  <2> HIDE DEF a, q, s
  <2> QED BY <1>1, <1>2, <1>3, <1>4, <1>7, HasDataKeeps, StopsKeeps
          DEF Leaves, Using, Places, Holding, s
<1>9. TypedVolume' /\ version' = version
  BY <1>2 DEF IInv, TypedVolume
<1>10. Unmade(proc'[p]) /\ proc'[p].op = q.op => Unmade(proc[p])
  BY <1>2 DEF Unmade
<1> QED BY <1>2, <1>5, <1>8, <1>9, <1>10, ResultKept DEF Result

\* A slot whose data have been changed by one of its users.
LEMMA ChangedAtDoor ==
  ASSUME CacheInv, NEW p \in Procs, NEW q \in ProcState, AtDoor(p, q, slot),
         NEW a, a = WithData(q.at), version' \in 0 .. MaxVersion
  PROVE  /\ AtDoor(p, q, a) /\ \A t \in Slots : a[t].nr = slot[t].nr
         /\ a[q.at].flag = slot[q.at].flag
<1>1. /\ a \in [Slots -> SlotState] /\ a[q.at].flag = slot[q.at].flag
      /\ a[q.at].count = slot[q.at].count /\ a[q.at].errors = slot[q.at].errors
      /\ \A t \in Slots : a[t].nr = slot[t].nr
      /\ \A t \in Slots \ {q.at} : a[t] = slot[t]
  BY DEF AtDoor, WithData, SlotState
<1> QED BY <1>1 DEF AtDoor

\* A process that has the data of its change, with the version it gives them.
LEMMA NewDataTyped ==
  ASSUME IInv, NEW p \in Procs, Unmade(proc[p]), NewData(p), UNCHANGED <<setup, readonly, disk>>
  PROVE  TypedVolume' /\ version' = version + 1
<1>1. version' = version + 1 /\ version' \in 0 .. MaxVersion
  BY RoomForOne DEF IInv, NewData
<1>2. promised' \in [Clusters -> SUBSET (0 .. MaxVersion)]
  BY <1>1 DEF NewData, IInv, TypedVolume
<1> QED BY <1>1, <1>2 DEF IInv, TypedVolume

LEMMA ChangeEntryKeeps ==
  ASSUME IInv, NEW p \in Procs, ChangeEntry(p)
  PROVE  Kept
<1> DEFINE s == proc[p].at
<1>1. /\ proc[p].pc = "in_use" /\ proc[p].op = "entry" /\ NewData(p)
      /\ UNCHANGED <<setup, readonly, disk>>
      /\ CacheInv /\ proc[p].pc \in Using /\ proc[p].pc \notin Holding
  BY DEF ChangeEntry, IInv, Using, Places, Holding
<1>2. Unmade(proc[p])
  BY <1>1 DEF Unmade, Changes
<1>3. TypedVolume' /\ version' = version + 1 /\ version' \in 0 .. MaxVersion
  BY <1>1, <1>2, NewDataTyped DEF TypedVolume
<1>4. /\ proc[p] \in ProcState /\ s \in Slots /\ AtDoor(p, proc[p], slot)
      /\ NoPointers(proc[p]) /\ \A t \in Slots : holder[t] # p
  BY <1>1, UserAtDoor
<1>5. CASE /\ slot' = WithData(s) /\ UNCHANGED holder
           /\ proc' = [proc EXCEPT ![p].pc = "ch_free"]
  <2> DEFINE q == proc[p]
  <2>1. /\ AtDoor(p, q, slot') /\ \A t \in Slots : slot'[t].nr = slot[t].nr
        /\ slot'[s].flag = slot[s].flag
    BY <1>1, <1>3, <1>4, <1>5, ChangedAtDoor
  <2>2. proc' = [proc EXCEPT ![p] = [q EXCEPT !.pc = "ch_free", !.next = q.next]]
    BY <1>4, <1>5 DEF ProcState
  <2>3. /\ q.next \in Nexts /\ holder' \in [Slots -> Procs \cup {Nobody}]
        /\ WritesThrough(setup) => q.next # "insist"
    BY <1>1, <1>4, <1>5 DEF ProcState, CacheInv, TypedCache, PointersSound
  <2>4. "ch_free" \in Using /\ "ch_free" \notin Holding
    BY DEF Using, Places, Holding
  <2>5. proc'[p].pc = "ch_free"
    BY <1>1, <1>5 DEF CacheInv, TypedCache, ProcState
  <2> HIDE DEF q
  <2>6. Result(p, q, slot')
    BY <1>1, <1>4, <1>5, <2>1, <2>2, <2>3, <2>4, StepKeeps DEF q
  <2> QED BY <1>1, <1>2, <1>3, <2>1, <2>5, <2>6, ResultKept DEF q, Unmade
<1>6. CASE LockCh(p, [proc[p] EXCEPT !.next = "dirty"], WithData(s))
  <2> DEFINE q == [proc[p] EXCEPT !.next = "dirty"]
             a == WithData(s)
  <2>1. /\ q \in ProcState /\ q.at = s /\ q.op = proc[p].op /\ q.nr = proc[p].nr
        /\ q.next = "dirty" /\ q.free = proc[p].free /\ q.oldest = proc[p].oldest
    BY <1>4 DEF ProcState, Nexts
  <2> HIDE DEF q
  <2>2. NoPointers(q) /\ AtDoor(p, q, slot)
    BY <1>4, <2>1 DEF NoPointers, AtDoor
  <2>3. /\ AtDoor(p, q, a) /\ \A t \in Slots : a[t].nr = slot[t].nr
        /\ a[s].flag = slot[s].flag
    BY <1>1, <1>3, <2>1, <2>2, ChangedAtDoor
  <2>4. LockCh(p, q, a)
    BY <1>6 DEF q
  <2> HIDE DEF a
  <2>5. Result(p, q, a) /\ ~Unmade(proc'[p])
    BY <1>1, <1>4, <2>1, <2>2, <2>3, <2>4, LockChKeeps
  <2> QED BY <1>1, <1>2, <1>3, <2>1, <2>3, <2>5, ResultKept
<1> QED BY <1>5, <1>6 DEF ChangeEntry

LEMMA CopyDataKeeps ==
  ASSUME IInv, NEW p \in Procs, CopyData(p)
  PROVE  Kept
<1> DEFINE q == proc[p]
           a == WithData(q.at)
<1>1. /\ q.pc = "copying" /\ NewData(p) /\ DirtyLocked(p, q, a)
      /\ UNCHANGED <<setup, readonly, disk>>
      /\ CacheInv /\ q.pc \in Using /\ q.pc \in Holding
  BY DEF CopyData, IInv, Using, Places, Holding
<1>2. q.op \in {"write_part", "write_full"} /\ Unmade(q)
  BY <1>1 DEF CacheInv, OpsPlaced, Unmade, Changes
<1>3. TypedVolume' /\ version' = version + 1 /\ version' \in 0 .. MaxVersion
  BY <1>1, <1>2, NewDataTyped DEF TypedVolume
<1>4. /\ q \in ProcState /\ AtDoor(p, q, slot) /\ NoPointers(q) /\ holder[q.at] = p
  BY <1>1, UserAtDoor
<1>5. AtDoor(p, q, a) /\ \A t \in Slots : a[t].nr = slot[t].nr
  BY <1>1, <1>3, <1>4, ChangedAtDoor
<1> HIDE DEF a
<1>6. Result(p, q, a) /\ ~Unmade(proc'[p])
  BY <1>1, <1>2, <1>4, <1>5, DirtyKeeps
<1> QED BY <1>1, <1>2, <1>3, <1>5, <1>6, ResultKept

LEMMA PromiseTyped ==
  ASSUME IInv, NEW s \in Slots, Promise(s)
  PROVE  promised' \in [Clusters -> SUBSET (0 .. MaxVersion)]
<1>1. slot[s].data \in 0 .. MaxVersion
  BY DEF IInv, CacheInv, TypedCache, SlotState
<1> QED BY <1>1 DEF Promise, IInv, TypedVolume

LEMMA SimulateKeeps ==
  ASSUME IInv, NEW p \in Procs, Simulate(p)
  PROVE  Kept
<1> DEFINE q == proc[p]
           s == q.at
           a == [slot EXCEPT ![s].flag = "DIRTY"]
<1>1. /\ q.pc = "simulate" /\ UNCHANGED <<setup, readonly, disk, version>>
      /\ CacheInv /\ q.pc \in Using /\ q.pc \in Holding
  BY DEF Simulate, IInv, Using, Places, Holding
<1>2. \/ Leaves(p, q, a, "ch_free") /\ Promise(s)
      \/ Keeps(p, q, slot, "write_through") /\ UNCHANGED promised
  BY DEF Simulate
<1>3. /\ q \in ProcState /\ s \in Slots /\ AtDoor(p, q, slot) /\ NoPointers(q)
      /\ holder[s] = p
  BY <1>1, UserAtDoor
<1>4. slot[s].flag \in Loaded /\ ~WritesThrough(setup) /\ q.op \notin {"sync", "free_idle"}
  BY <1>1, <1>3 DEF CacheInv, HoldersKnow, PointersSound, OpsPlaced
<1>5. AtDoor(p, q, a) /\ \A t \in Slots : a[t].nr = slot[t].nr
  <2>1. /\ a \in [Slots -> SlotState] /\ a[s].flag = "DIRTY" /\ a[s].count = slot[s].count
        /\ a[s].errors = slot[s].errors /\ \A t \in Slots : a[t].nr = slot[t].nr
        /\ \A t \in Slots \ {s} : a[t] = slot[t]
    BY <1>1, <1>3 DEF CacheInv, TypedCache, SlotState, Flags, Loaded
  <2>2. slot[s].errors <= MaxErrors
    BY <1>3, <1>4 DEF AtDoor, Loaded
  <2> QED BY <1>3, <1>4, <2>1, <2>2 DEF AtDoor
<1>6. TypedVolume'
  BY <1>1, <1>2, <1>3, PromiseTyped DEF IInv, TypedVolume
<1> HIDE DEF a
<1>7. CASE Leaves(p, q, a, "ch_free")
  <2>1. "ch_free" \in Using \ {"lock_ch"} /\ "ch_free" \notin Holding
    BY DEF Using, Places, Holding
  <2>2. Stops(p, q, a, "ch_free", FALSE)
    BY <1>7 DEF Leaves
  <2>3. holder[q.at] \in {Nobody, p}
    BY <1>3
  <2>4. Result(p, q, a) /\ proc'[p].pc = "ch_free"
    <3> HIDE DEF q, s
    <3> QED BY <1>1, <1>3, <1>4, <1>5, <2>1, <2>2, <2>3, StopsKeeps
  <2> QED BY <1>1, <1>5, <1>6, <2>4, ResultKept DEF Unmade
<1>8. CASE Keeps(p, q, slot, "write_through")
  <2>1. Result(p, q, slot) /\ proc'[p].pc = "write_through"
    BY <1>1, <1>3, <1>4, <1>8, StopsKeeps DEF Keeps, Using, Places, Holding
  <2> QED BY <1>1, <1>6, <2>1, ResultKept DEF Unmade
<1> QED BY <1>2, <1>7, <1>8

LEMMA WriteThroughKeeps ==
  ASSUME IInv, NEW p \in Procs, WriteThrough(p)
  PROVE  Kept
<1> DEFINE q == proc[p]
           s == q.at
<1>1. /\ q.pc = "write_through" /\ UNCHANGED <<setup, readonly, version>>
      /\ CacheInv /\ q.pc \in Using /\ q.pc \in Holding
  BY DEF WriteThrough, IInv, Using, Places, Holding
<1>2. PICK ok \in Outcomes :
        IF ok THEN /\ disk' = [disk EXCEPT ![slot[s].nr] = slot[s].data]
                   /\ Promise(s)
                   /\ Leaves(p, q, slot, "ch_free")
              ELSE /\ UNCHANGED <<disk, promised>>
                   /\ IF q.op = "entry" THEN Relock(p, q, "insist")
                                        ELSE Leaves(p, q, slot, "ch_free")
  BY DEF WriteThrough
<1>3. /\ q \in ProcState /\ s \in Slots /\ AtDoor(p, q, slot) /\ NoPointers(q)
      /\ holder[s] = p
  BY <1>1, UserAtDoor
<1>4. q.op \notin {"sync", "free_idle"}
  BY <1>1 DEF CacheInv, OpsPlaced
<1>5. TypedVolume'
  <2>1. slot[s].data \in 0 .. MaxVersion
    BY <1>1, <1>3 DEF CacheInv, TypedCache, SlotState
  <2> QED BY <1>1, <1>2, <1>3, <2>1, PromiseTyped DEF IInv, TypedVolume
<1>6. CASE Leaves(p, q, slot, "ch_free")
  <2>1. Result(p, q, slot) /\ proc'[p].pc = "ch_free"
    BY <1>1, <1>3, <1>4, <1>6, StopsKeeps DEF Leaves, Using, Places, Holding
  <2> QED BY <1>1, <1>5, <2>1, ResultKept DEF Unmade
<1>7. CASE ~ok /\ q.op = "entry" /\ Relock(p, q, "insist")
  <2>1. ~WritesThrough(setup)
    <3>1. setup.faults /\ \E c \in setup.calls[p] : c.op = "entry"
      BY <1>1, <1>7 DEF Outcomes, CacheInv, OpsPlaced
    <3> QED BY <3>1 DEF WritesThrough
  <2>2. /\ slot' = slot
        /\ proc' = [proc EXCEPT ![p] = [q EXCEPT !.pc = "lock_ch", !.next = "insist"]]
        /\ holder' = [holder EXCEPT ![s] = Nobody]
    BY <1>7 DEF Relock
  <2>3. "lock_ch" \in Using /\ "lock_ch" \notin Holding /\ "insist" \in Nexts
    BY DEF Using, Places, Holding, Nexts
  <2>4. /\ holder' \in [Slots -> Procs \cup {Nobody}]
        /\ \A t \in Slots : holder'[t] = IF t = s /\ "lock_ch" \in Holding THEN p
                                        ELSE IF holder[t] = p THEN Nobody ELSE holder[t]
    <3>1. \A t \in Slots \ {s} : holder[t] # p
      BY <1>1 DEF CacheInv, Placed
    <3> QED BY <1>1, <1>3, <2>2, <2>3, <3>1 DEF CacheInv, TypedCache
  <2>5. Result(p, q, slot)
    <3> HIDE DEF q
    <3> QED BY <1>1, <1>3, <1>4, <2>1, <2>2, <2>3, <2>4, StepKeeps
  <2>6. proc'[p].pc = "lock_ch" /\ proc'[p].next = "insist"
    BY <1>1, <1>3, <2>2 DEF CacheInv, TypedCache, ProcState
  <2> QED BY <1>1, <1>5, <2>5, <2>6, ResultKept DEF Unmade
<1> QED BY <1>2, <1>6, <1>7

\* A process that lets go of its slot is not counted any more.
LEMMA LetGoCounts ==
  ASSUME CacheInv, UNCHANGED setup, NEW p \in Procs, proc[p].pc \in Using,
         \A x \in Procs \ {p} : proc'[x].at = proc[x].at
                               /\ (proc'[x].pc \in Using <=> proc[x].pc \in Using),
         proc' \in [Procs -> ProcState], proc'[p].pc \notin Using,
         \A s \in Slots : slot'[s].count = IF s = proc[p].at THEN slot[s].count - 1
                                                           ELSE slot[s].count
  PROVE  CountIsUsers'
<1>1. Slots' = Slots /\ proc \in [Procs -> ProcState]
  BY DEF Slots, CacheInv, TypedCache
<1>2. \A x \in Procs \ {p} : \A s \in Slots : Uses(proc'[x], s) <=> Uses(proc[x], s)
  BY <1>1 DEF Uses, Using, ProcState
<1>3. \A s \in Slots : ~Uses(proc'[p], s) /\ (Uses(proc[p], s) <=> s = proc[p].at)
  BY <1>1 DEF Uses, Using, ProcState
<1>4. \A s \in Slots : slot'[s].count =
         Cardinality(Others(p, s)) + (IF Uses(proc'[p], s) THEN 1 ELSE 0)
  <2> SUFFICES ASSUME NEW s \in Slots
               PROVE  slot'[s].count = Cardinality(Others(p, s)) + 0
    BY <1>3
  <2>1. CASE s = proc[p].at
    <3>1. slot[s].count = Cardinality(Others(p, s)) + 1 /\ Cardinality(Others(p, s)) \in Nat
      BY <1>3, <2>1, CountOthers DEF CacheInv
    <3> QED BY <2>1, <3>1
  <2>2. CASE s # proc[p].at
    BY <1>3, <2>2, CountOthers DEF CacheInv
  <2> QED BY <2>1, <2>2
<1> QED BY <1>1, <1>2, <1>4, CountAfter

\* Those who wait for the cache to become less full may be woken.
WakesAtMost(p) ==
  \A x \in Procs \ {p} :
     \/ proc'[x] = proc[x]
     \/ proc[x].pc = "fullwait" /\ proc'[x] = [proc[x] EXCEPT !.pc = "get_ch"]

\* A process leaves its slot, uncounted; it may throw the slot away if it was
\* its last user.
LEMMA LetGoKeeps ==
  ASSUME IInv, UNCHANGED <<setup, holder, readonly, disk, version, promised>>,
         NEW p \in Procs, proc[p].pc \in {"drop", "ch_free"},
         NEW r \in ProcState, proc'[p] = r, r.pc \in {"scan", "scan_idle", "get_ch", "idle"},
         NoPointers(r), WritesThrough(setup) => r.next # "insist",
         Unmade(r) => Unmade(proc[p]),
         r.pc # "idle" => r.op = proc[p].op /\ r.nr = proc[p].nr,
         r.op = "sync" => r.pc = "scan", r.op = "free_idle" => r.pc = "scan_idle",
         r.op = "none" \/ r.pc # "idle",
         proc' \in [Procs -> ProcState], WakesAtMost(p),
         NEW v \in SlotState, slot' = [slot EXCEPT ![proc[p].at] = v],
         \/ v = [slot[proc[p].at] EXCEPT !.count = @ - 1]
         \/ slot[proc[p].at].count = 1 /\ v = FreeSlot
  PROVE  Kept
<1> DEFINE s == proc[p].at
<1>1. /\ CacheInv /\ proc[p].pc \in Using /\ proc[p].pc \notin Holding
      /\ proc \in [Procs -> ProcState] /\ slot \in [Slots -> SlotState] /\ Slots' = Slots
  BY DEF IInv, CacheInv, TypedCache, Using, Places, Holding, Slots
<1>2. s \in Slots /\ AtDoor(p, proc[p], slot) /\ \A t \in Slots : holder[t] # p
  BY <1>1, UserAtDoor
<1>3. /\ slot' \in [Slots -> SlotState] /\ slot'[s] = v
      /\ \A t \in Slots \ {s} : slot'[t] = slot[t]
  BY <1>1, <1>2
<1>4. v.count = slot[s].count - 1 /\ slot[s].count \in Nat
  BY <1>1, <1>2 DEF SlotState, FreeSlot
<1>5. \/ v.flag = slot[s].flag /\ v.nr = slot[s].nr /\ v.errors = slot[s].errors
      \/ slot[s].count = 1 /\ v.flag = "FREE" /\ v.nr = NoCluster /\ v.errors = 0 /\ v.count = 0
  BY <1>1, <1>2 DEF SlotState, FreeSlot
<1>6. \A x \in Procs \ {p} :
        /\ proc'[x].at = proc[x].at /\ proc'[x].op = proc[x].op /\ proc'[x].nr = proc[x].nr
        /\ proc'[x].next = proc[x].next
        /\ proc'[x].free = proc[x].free /\ proc'[x].oldest = proc[x].oldest
        /\ \/ proc'[x].pc = proc[x].pc
           \/ proc[x].pc = "fullwait" /\ proc'[x].pc = "get_ch"
  BY <1>1 DEF WakesAtMost, ProcState
<1>7. TypedCache'
  BY <1>1, <1>3 DEF CacheInv, TypedCache, SlotState, ProcState
<1>8. Placed'
  <2> SUFFICES ASSUME NEW x \in Procs
               PROVE  /\ proc'[x].pc \in Using => proc'[x].at # NoSlot
                      /\ \A t \in Slots :
                            holder[t] = x <=> proc'[x].pc \in Holding /\ proc'[x].at = t
    BY <1>1 DEF Placed
  <2>1. CASE x = p
    BY <1>2, <2>1 DEF Holding, Using
  <2>2. CASE x # p
    BY <1>1, <1>6, <2>2 DEF CacheInv, Placed, Holding, Using
  <2> QED BY <2>1, <2>2
<1>9. OpsPlaced'
  <2> SUFFICES ASSUME NEW x \in Procs
               PROVE  /\ proc'[x].pc # "idle" => proc'[x].op # "none" /\ setup.calls[x] # {}
                      /\ proc'[x].op = "sync" =>
                            /\ proc'[x].pc \in {"scan", "lock_ch", "write_dirty", "drop"}
                            /\ proc'[x].pc = "lock_ch" => proc'[x].next = "sync"
                      /\ proc'[x].op = "free_idle" =>
                            proc'[x].pc \in {"scan_idle", "write_dirty", "drop"}
                      /\ proc'[x].op = "entry" => \E c \in setup.calls[x] : c.op = "entry"
                      /\ proc'[x].op \notin {"none", "sync", "free_idle"} =>
                            proc'[x].nr \in Clusters
                      /\ proc'[x].pc = "copying" => proc'[x].op \in {"write_part", "write_full"}
    BY DEF OpsPlaced
  <2>1. CASE x = p
    BY <1>1, <2>1 DEF CacheInv, OpsPlaced
  <2>2. CASE x # p
    BY <1>1, <1>6, <2>2 DEF CacheInv, OpsPlaced
  <2> QED BY <2>1, <2>2
<1>10. SlotsKept'
  <2>1. v.flag = "FREE" => v.count = 0
    BY <1>2, <1>5 DEF AtDoor
  <2>2. v.flag # "DELETED" => v.errors <= MaxErrors
    BY <1>2, <1>5, CacheAssumption DEF AtDoor, CacheAssumption
  <2> QED BY <1>1, <1>3, <2>1, <2>2 DEF CacheInv, SlotsKept
<1>11. HoldersKnow'
  <2> SUFFICES ASSUME NEW x \in Procs, proc'[x].pc \in Holding
               PROVE  proc'[x] = proc[x] /\ slot'[proc[x].at].flag = slot[proc[x].at].flag
    BY <1>1 DEF CacheInv, HoldersKnow, Holding
  <2>1. x # p
    BY DEF Holding
  <2>2. proc'[x] = proc[x]
    BY <1>1, <2>1 DEF WakesAtMost, Holding, ProcState
  <2>3. proc[x].at \in Slots
    BY <1>1, <2>2, UserAtDoor DEF Holding, Using, Places
  <2>4. ~(proc[x].at = s /\ slot[s].count = 1)
    <3> SUFFICES ASSUME proc[x].at = s, slot[s].count = 1
                 PROVE  FALSE
      OBVIOUS
    <3>1. x \in Others(p, s)
      BY <2>1, <2>2 DEF Others, Uses, Holding
    <3>2. IsFiniteSet(Others(p, s))
      BY FS_Subset, CacheAssumption DEF CacheAssumption, Others
    <3>3. Cardinality(Others(p, s)) = 0
      BY <1>1, <1>2, CountOthers DEF AtDoor, CacheInv
    <3> QED BY <3>1, <3>2, <3>3, FS_EmptySet
  <2> QED BY <1>3, <1>5, <2>2, <2>3, <2>4
<1>12. PointersSound'
  BY <1>1, <1>2, <1>3, <1>5, <1>6 DEF CacheInv, PointersSound, NoPointers
<1>13. CountIsUsers'
  <2>1. proc'[p].pc \notin Using
    BY DEF Using
  <2>2. \A x \in Procs \ {p} : proc'[x].pc \in Using <=> proc[x].pc \in Using
    BY <1>6 DEF Using
  <2>3. \A t \in Slots : slot'[t].count = IF t = proc[p].at THEN slot[t].count - 1
                                                           ELSE slot[t].count
    BY <1>3, <1>4
  <2> QED BY <1>1, <1>6, <2>1, <2>2, <2>3, LetGoCounts
<1>14. TypedVolume' /\ VersionsLeft'
  <2>1. TypedVolume'
    BY DEF IInv, TypedVolume
  <2>2. \A x \in Procs \ {p} : Unmade(proc'[x]) => Unmade(proc[x])
    BY <1>6 DEF Unmade
  <2> QED BY <2>1, <2>2, VersionsAfter DEF IInv, TypedVolume
<1>15. Alone(slot)
  BY <1>3, <1>5 DEF Alone
<1> QED BY <1>7, <1>8, <1>9, <1>10, <1>11, <1>12, <1>13, <1>14, <1>15
        DEF Kept, IInv, CacheInv

LEMMA DropKeeps ==
  ASSUME IInv, NEW p \in Procs, Drop(p)
  PROVE  Kept
<1> DEFINE q == proc[p]
           s == q.at
           v == [slot[s] EXCEPT !.count = @ - 1]
           r == [q EXCEPT !.pc = Round(q.op), !.at = IF q.op = "sync" THEN s ELSE NoSlot]
<1>1. /\ q.pc = "drop" /\ slot' = [slot EXCEPT ![s].count = @ - 1]
      /\ proc' = [proc EXCEPT ![p] = r]
      /\ UNCHANGED <<setup, holder, readonly, disk, version, promised>>
  BY DEF Drop
<1>2. /\ CacheInv /\ proc \in [Procs -> ProcState] /\ slot \in [Slots -> SlotState]
      /\ q.pc \in Using
  BY <1>1 DEF IInv, CacheInv, TypedCache, Using, Places
<1>3. /\ q \in ProcState /\ s \in Slots /\ AtDoor(p, q, slot) /\ NoPointers(q)
  BY <1>2, UserAtDoor
<1>4. /\ r \in ProcState /\ r.pc = Round(q.op)
      /\ r.op = q.op /\ r.nr = q.nr /\ r.next = q.next /\ NoPointers(r)
  <2>1. Round(q.op) \in Places
    BY RoundPlaces DEF Places
  <2> QED BY <1>3, <2>1 DEF ProcState, NoPointers
<1>5. v \in SlotState
  <2>1. slot[s].count - 1 \in Nat
    BY <1>2, <1>3, CountOthers DEF AtDoor, CacheInv
  <2> QED BY <1>2, <1>3, <2>1 DEF SlotState
<1>6. slot' = [slot EXCEPT ![s] = v]
  BY <1>1
<1>7. proc'[p] = r /\ WakesAtMost(p) /\ proc' \in [Procs -> ProcState]
  <2> HIDE DEF r, q
  <2>1. proc' = [proc EXCEPT ![p] = r] /\ proc \in [Procs -> ProcState] /\ r \in ProcState
    BY <1>1, <1>2, <1>4
  <2>2. proc'[p] = r /\ \A x \in Procs \ {p} : proc'[x] = proc[x]
    BY <2>1
  <2>3. proc' \in [Procs -> ProcState]
    BY <2>1
  <2> QED BY <2>2, <2>3 DEF WakesAtMost
<1>8. (WritesThrough(setup) => r.next # "insist") /\ (Unmade(r) => Unmade(q))
  BY <1>1, <1>2, <1>4 DEF CacheInv, PointersSound, Unmade
<1> HIDE DEF r, v
<1>9. /\ r.pc \in {"scan", "scan_idle", "get_ch", "idle"}
      /\ r.op = "sync" => r.pc = "scan"
      /\ r.op = "free_idle" => r.pc = "scan_idle"
      /\ r.op = "none" \/ r.pc # "idle"
  BY <1>4, RoundPlaces
<1> QED
  BY <1>1, <1>4, <1>5, <1>6, <1>7, <1>8, <1>9, LetGoKeeps DEF v

LEMMA OutsideTyped ==
  Outside \in ProcState /\ Outside.pc = "idle" /\ Outside.op = "none"
  /\ Outside.next = "none" /\ NoPointers(Outside) /\ ~Unmade(Outside)
<1>1. Outside \in ProcState
  BY CacheAssumption DEF CacheAssumption, Outside, ProcState, Places, Ops, Nexts
<1> QED BY <1>1 DEF Outside, NoPointers, Unmade

LEMMA ChFreeKeeps ==
  ASSUME IInv, NEW p \in Procs, ChFree(p)
  PROVE  Kept
<1> DEFINE q == proc[p]
           s == q.at
           last == slot[s].count = 1
           back == [proc EXCEPT ![p] = Outside]
           v == IF last /\ slot[s].flag \in {"DELETED", "NOT_MALLOCD"}
                THEN FreeSlot ELSE [slot[s] EXCEPT !.count = @ - 1]
<1>1. /\ q.pc = "ch_free" /\ slot' = [slot EXCEPT ![s] = v]
      /\ proc' = IF last THEN Woken(back) ELSE back
      /\ UNCHANGED <<setup, holder, readonly, disk, version, promised>>
  <2>1. slot' = [slot EXCEPT ![s] = v]
    BY DEF ChFree
  <2>2. proc' = IF last THEN Woken(back) ELSE back
    BY DEF ChFree
  <2> QED BY <2>1, <2>2 DEF ChFree
<1>2. /\ CacheInv /\ proc \in [Procs -> ProcState] /\ slot \in [Slots -> SlotState]
      /\ q.pc \in Using
  BY <1>1 DEF IInv, CacheInv, TypedCache, Using, Places
<1>3. /\ q \in ProcState /\ s \in Slots /\ AtDoor(p, q, slot)
  BY <1>2, UserAtDoor
<1>4. /\ back \in [Procs -> ProcState] /\ back[p] = Outside
      /\ \A x \in Procs \ {p} : back[x] = proc[x]
  BY <1>2, OutsideTyped
<1>5. v \in SlotState
  <2>1. slot[s].count - 1 \in Nat
    BY <1>2, <1>3, CountOthers DEF AtDoor, CacheInv
  <2>2. FreeSlot \in SlotState
    BY CacheAssumption DEF CacheAssumption, FreeSlot, SlotState, Flags
  <2> QED BY <1>2, <1>3, <2>1, <2>2 DEF SlotState
<1>6. proc'[p] = Outside /\ WakesAtMost(p) /\ proc' \in [Procs -> ProcState]
  <2> HIDE DEF back, last
  <2>1. CASE proc' = back
    BY <1>4, <2>1 DEF WakesAtMost
  <2>2. CASE proc' = Woken(back)
    <3>1. \A x \in Procs : proc'[x] = IF back[x].pc = "fullwait"
                                     THEN [back[x] EXCEPT !.pc = "get_ch"] ELSE back[x]
      BY <2>2 DEF Woken
    <3>2. \A x \in Procs : [back[x] EXCEPT !.pc = "get_ch"] \in ProcState
      BY <1>4 DEF ProcState, Places
    <3>3. proc' \in [Procs -> ProcState]
      BY <1>4, <2>2, <3>2 DEF Woken
    <3>4. proc'[p] = Outside
      BY <1>4, <3>1, OutsideTyped
    <3>5. WakesAtMost(p)
      BY <1>4, <3>1 DEF WakesAtMost
    <3> QED BY <3>3, <3>4, <3>5
  <2> QED BY <1>1, <2>1, <2>2
<1>7. \/ v = [slot[s] EXCEPT !.count = @ - 1]
      \/ slot[s].count = 1 /\ v = FreeSlot
  OBVIOUS
<1> HIDE DEF v, back, last
<1> QED
  BY <1>1, <1>5, <1>6, <1>7, OutsideTyped, LetGoKeeps DEF v

LEMMA LessThanRelation ==
  \A x, y \in Nat : x < y => <<x, y>> \in OpToRel(<, Nat)
BY DEF OpToRel

\* The next dirty slot is one of the dirty slots.
LEMMA SmallestIsMember ==
  ASSUME NEW S \in SUBSET Nat, S # {}
  PROVE  (CHOOSE s \in S : \A t \in S : s <= t) \in S
<1>1. PICK m \in S : \A y \in S : ~(<<y, m>> \in OpToRel(<, Nat))
  BY NatLessThanWellFounded, WFMin
<1>2. \A y \in S : ~(y < m)
  BY <1>1, LessThanRelation, Zenon
<1>3. \A y \in S : m <= y
  BY <1>2, SMT
<1> QED BY <1>3

\* A process that comes to a slot is counted as one of its users.
Counted(s) == [slot EXCEPT ![s].count = @ + 1]

LEMMA EnteredAtDoor ==
  ASSUME CacheInv, NEW p \in Procs, proc[p].pc \in {"get_ch", "scan"},
         NEW q \in ProcState, q.at \in Slots, q.op = proc[p].op, q.nr = proc[p].nr,
         slot[q.at].flag # "FREE",
         NEW a, a = Counted(q.at)
  PROVE  /\ AtDoor(p, q, a) /\ \A t \in Slots : a[t].nr = slot[t].nr
         /\ a[q.at].flag = slot[q.at].flag /\ \A t \in Slots : holder[t] # p
<1>1. slot \in [Slots -> SlotState] /\ proc[p] \in ProcState
  BY DEF CacheInv, TypedCache
<1>2. ~Uses(proc[p], q.at) /\ proc[p].pc \notin Using /\ proc[p].pc \notin Holding
  BY DEF Uses, Using, Holding
<1>3. slot[q.at].count = Cardinality(Others(p, q.at))
  BY <1>2, CountOthers DEF CacheInv
<1>4. /\ a \in [Slots -> SlotState] /\ a[q.at].flag = slot[q.at].flag
      /\ a[q.at].count = slot[q.at].count + 1 /\ a[q.at].errors = slot[q.at].errors
      /\ \A t \in Slots : a[t].nr = slot[t].nr
      /\ \A t \in Slots \ {q.at} : a[t] = slot[t]
  BY <1>1 DEF Counted, SlotState
<1>5. \A t \in Slots : holder[t] # p
  BY <1>2 DEF CacheInv, Placed
<1> QED BY <1>2, <1>3, <1>4, <1>5 DEF AtDoor, CacheInv, SlotsKept, PointersSound

LEMMA SyncScanKeeps ==
  ASSUME IInv, NEW p \in Procs, SyncScan(p)
  PROVE  Kept
<1> DEFINE left == {s \in Slots : s > proc[p].at /\ slot[s].flag = "DIRTY"}
           s == CHOOSE s \in left : \A t \in left : s <= t
           q == [proc[p] EXCEPT !.at = s, !.next = "sync"]
           a == [slot EXCEPT ![s].count = @ + 1]
<1>1. /\ proc[p].pc = "scan" /\ UNCHANGED <<setup, readonly, disk, version, promised>>
      /\ CacheInv /\ proc[p].pc \notin Using
  BY DEF SyncScan, IInv, Using
<1>2. CASE left = {}
  BY <1>1, <1>2, ReturnsKeeps DEF SyncScan
<1>3. CASE left # {}
  <2>1. LockCh(p, q, a)
    BY <1>3 DEF SyncScan
  <2>2. s \in left
    <3> HIDE DEF left
    <3>1. left \in SUBSET Nat
      BY DEF left, Slots
    <3> QED BY <1>3, <3>1, SmallestIsMember
  <2>3. s \in Slots /\ slot[s].flag = "DIRTY"
    BY <2>2
  <2> HIDE DEF left, s
  <2>4. /\ q \in ProcState /\ q.at = s /\ q.op = proc[p].op /\ q.nr = proc[p].nr
        /\ q.next = "sync" /\ q.free = proc[p].free /\ q.oldest = proc[p].oldest
    BY <1>1, <2>3 DEF CacheInv, TypedCache, ProcState, Nexts
  <2> HIDE DEF q
  <2>5. NoPointers(q)
    BY <1>1, <2>4 DEF CacheInv, PointersSound, NoPointers
  <2>10. a = Counted(q.at)
    BY <2>4 DEF Counted
  <2> HIDE DEF a
  <2>6. /\ AtDoor(p, q, a) /\ \A t \in Slots : a[t].nr = slot[t].nr
        /\ a[s].flag = slot[s].flag /\ \A t \in Slots : holder[t] # p
    <3>1. q.at \in Slots /\ slot[q.at].flag # "FREE" /\ proc[p].pc \in {"get_ch", "scan"}
      BY <1>1, <2>3, <2>4
    <3>2. /\ AtDoor(p, q, a) /\ \A t \in Slots : a[t].nr = slot[t].nr
          /\ a[q.at].flag = slot[q.at].flag /\ \A t \in Slots : holder[t] # p
      BY <1>1, <2>4, <2>10, <3>1, EnteredAtDoor
    <3> QED BY <2>4, <3>2
  <2>11. q.op # "free_idle"
    BY <1>1, <2>4 DEF CacheInv, OpsPlaced
  <2>7. Result(p, q, a)
    BY <1>1, <2>1, <2>4, <2>5, <2>6, <2>11, LockChKeeps
  <2>8. Unmade(proc'[p]) => Unmade(proc[p])
    BY <1>1, <2>4, <2>7 DEF Unmade, Result
  <2>9. TypedVolume'
    BY <1>1 DEF IInv, TypedVolume
  <2> QED BY <1>1, <2>4, <2>6, <2>7, <2>8, <2>9, ResultKept
<1> QED BY <1>2, <1>3

\* Nobody uses a slot whose count is zero, and nobody is inside its semaphore.
LEMMA CountZero ==
  ASSUME CacheInv, NEW s \in Slots, slot[s].count = 0
  PROVE  holder[s] = Nobody /\ \A p \in Procs : ~Uses(proc[p], s) /\ Cardinality(Others(p, s)) = 0
<1>1. \A p \in Procs : Cardinality(Others(p, s)) = 0 /\ ~Uses(proc[p], s)
  <2> TAKE p \in Procs
  <2>1. /\ Cardinality(Others(p, s)) \in Nat
        /\ 0 = Cardinality(Others(p, s)) + (IF Uses(proc[p], s) THEN 1 ELSE 0)
    BY CountOthers DEF CacheInv
  <2>2. CASE Uses(proc[p], s)
    <3>1. 0 = Cardinality(Others(p, s)) + 1
      BY <2>1, <2>2
    <3> QED BY <2>1, <3>1
  <2> QED BY <2>1, <2>2
<1>2. \A p \in Procs : holder[s] # p
  BY <1>1 DEF CacheInv, Placed, Uses, Holding
<1>3. holder[s] \in Procs \cup {Nobody}
  BY DEF CacheInv, TypedCache
<1> QED BY <1>1, <1>2, <1>3

\* What free_idle_ccache leaves behind: the slots in gone are free, and either
\* it has returned or it holds a dirty slot, the only one in kept, that nobody
\* used.  Those who wait for the cache to become less full may be woken.
FreedIdle(p, gone, kept) ==
  /\ \A t \in gone : slot[t].flag # "DIRTY" /\ slot[t].count = 0
  /\ \A t \in kept : slot[t].flag = "DIRTY" /\ slot[t].count = 0
  /\ slot' \in [Slots -> SlotState]
  /\ \A t \in Slots : slot'[t] = IF t \in gone THEN FreeSlot
                                 ELSE IF t \in kept THEN [slot[t] EXCEPT !.count = 1]
                                 ELSE slot[t]
  /\ holder' \in [Slots -> Procs \cup {Nobody}]
  /\ \A t \in Slots : holder'[t] = IF t \in kept THEN p ELSE holder[t]
  /\ proc' \in [Procs -> ProcState] /\ WakesAtMost(p)
  /\ \/ proc'[p] = Outside /\ kept = {}
     \/ \E s \in Slots :
          /\ kept = {s}
          /\ proc'[p] = [proc[p] EXCEPT !.pc = "write_dirty", !.at = s, !.image = slot[s].data]

LEMMA WokenWakes ==
  ASSUME NEW p \in Procs, NEW r \in ProcState, r.pc # "fullwait", proc \in [Procs -> ProcState],
         NEW pr, pr = [proc EXCEPT ![p] = r], proc' = pr \/ proc' = Woken(pr)
  PROVE  proc'[p] = r /\ WakesAtMost(p) /\ proc' \in [Procs -> ProcState]
<1>1. /\ pr \in [Procs -> ProcState] /\ pr[p] = r
      /\ \A x \in Procs \ {p} : pr[x] = proc[x]
  OBVIOUS
<1>2. CASE proc' = pr
  BY <1>1, <1>2 DEF WakesAtMost
<1>3. CASE proc' = Woken(pr)
  <2>1. \A x \in Procs : proc'[x] = IF pr[x].pc = "fullwait"
                                   THEN [pr[x] EXCEPT !.pc = "get_ch"] ELSE pr[x]
    BY <1>3 DEF Woken
  <2>2. \A x \in Procs : [pr[x] EXCEPT !.pc = "get_ch"] \in ProcState
    BY <1>1 DEF ProcState, Places
  <2>3. proc' \in [Procs -> ProcState]
    BY <1>1, <1>3, <2>2 DEF Woken
  <2>4. proc'[p] = r
    BY <1>1, <2>1
  <2>5. WakesAtMost(p)
    BY <1>1, <2>1 DEF WakesAtMost
  <2> QED BY <2>3, <2>4, <2>5
<1> QED BY <1>2, <1>3

LEMMA FreeIdleStep ==
  ASSUME TypedCache, UNCHANGED setup, NEW p \in Procs, FreeIdle(p)
  PROVE  \E gone, kept \in SUBSET Slots : FreedIdle(p, gone, kept)
<1>1. /\ proc \in [Procs -> ProcState] /\ slot \in [Slots -> SlotState]
      /\ holder \in [Slots -> Procs \cup {Nobody}]
  BY DEF TypedCache
<1>2. PICK old \in SUBSET IdleSlots :
        LET dirty == {s \in old : slot[s].flag = "DIRTY"} IN
        \/ /\ dirty = {}
           /\ slot' = ThrownAway(old)
           /\ proc' = Woken([proc EXCEPT ![p] = Outside])
           /\ UNCHANGED holder
        \/ \E s \in dirty :
           LET gone == {t \in old : t < s}
               writing == [proc EXCEPT ![p].pc = "write_dirty", ![p].at = s,
                                       ![p].image = slot[s].data] IN
           /\ gone \cap dirty = {}
           /\ slot' = [ThrownAway(gone) EXCEPT ![s].count = 1]
           /\ holder' = [holder EXCEPT ![s] = p]
           /\ proc' = IF gone = {} THEN writing ELSE Woken(writing)
  BY DEF FreeIdle
<1>3. old \in SUBSET Slots /\ \A s \in old : slot[s].count = 0
  BY DEF IdleSlots
<1>4. FreeSlot \in SlotState
  BY CacheAssumption DEF CacheAssumption, FreeSlot, SlotState, Flags
<1>5. CASE /\ \A s \in old : slot[s].flag # "DIRTY"
           /\ slot' = ThrownAway(old)
           /\ proc' = Woken([proc EXCEPT ![p] = Outside])
           /\ UNCHANGED holder
  <2>1. /\ slot' \in [Slots -> SlotState]
        /\ \A t \in Slots : slot'[t] = IF t \in old THEN FreeSlot ELSE slot[t]
    BY <1>1, <1>4, <1>5 DEF ThrownAway
  <2>2. proc'[p] = Outside /\ WakesAtMost(p) /\ proc' \in [Procs -> ProcState]
    BY <1>1, <1>5, OutsideTyped, WokenWakes
  <2>3. FreedIdle(p, old, {})
    BY <1>1, <1>3, <1>5, <2>1, <2>2 DEF FreedIdle
  <2> QED BY <1>3, <2>3
<1>6. ASSUME NEW s \in old, slot[s].flag = "DIRTY",
             \A t \in old : t < s => slot[t].flag # "DIRTY",
             slot' = [ThrownAway({t \in old : t < s}) EXCEPT ![s].count = 1],
             holder' = [holder EXCEPT ![s] = p],
             NEW writing, writing = [proc EXCEPT ![p].pc = "write_dirty", ![p].at = s,
                                                ![p].image = slot[s].data],
             proc' = writing \/ proc' = Woken(writing)
      PROVE  \E gone, kept \in SUBSET Slots : FreedIdle(p, gone, kept)
  <2> DEFINE gone == {t \in old : t < s}
             r == [proc[p] EXCEPT !.pc = "write_dirty", !.at = s, !.image = slot[s].data]
  <2>1. s \in Slots /\ s \in Nat /\ slot[s] \in SlotState
    BY <1>1, <1>3 DEF Slots
  <2>2. s \notin gone /\ gone \in SUBSET Slots
        /\ \A t \in gone : slot[t].flag # "DIRTY" /\ slot[t].count = 0
    BY <1>3, <1>6, <2>1
  <2>3. /\ r \in ProcState /\ r.pc # "fullwait"
        /\ writing = [proc EXCEPT ![p] = r]
    <3>1. slot[s].data \in 0 .. MaxVersion /\ proc[p] \in ProcState
      BY <1>1, <2>1 DEF SlotState
    <3>2. r \in ProcState /\ r.pc # "fullwait"
      BY <2>1, <3>1 DEF ProcState, Places
    <3>3. writing = [proc EXCEPT ![p] = r]
      BY <1>1, <1>6
    <3> QED BY <3>2, <3>3
  <2> HIDE DEF r
  <2>4. proc'[p] = r /\ WakesAtMost(p) /\ proc' \in [Procs -> ProcState]
    BY <1>1, <1>6, <2>3, WokenWakes
  <2> HIDE DEF gone
  <2>5. /\ ThrownAway(gone) \in [Slots -> SlotState] /\ ThrownAway(gone)[s] = slot[s]
        /\ \A t \in Slots : ThrownAway(gone)[t] = IF t \in gone THEN FreeSlot ELSE slot[t]
    BY <1>1, <1>4, <2>1, <2>2 DEF ThrownAway
  <2>6. [slot[s] EXCEPT !.count = 1] \in SlotState
    BY <2>1 DEF SlotState
  <2>7. slot' = [ThrownAway(gone) EXCEPT ![s] = [slot[s] EXCEPT !.count = 1]]
    BY <1>6, <2>1, <2>5 DEF gone
  <2> HIDE DEF ThrownAway
  <2>8. /\ slot' \in [Slots -> SlotState]
        /\ \A t \in Slots : slot'[t] = IF t \in gone THEN FreeSlot
                                       ELSE IF t \in {s} THEN [slot[t] EXCEPT !.count = 1]
                                       ELSE slot[t]
    BY <2>1, <2>2, <2>5, <2>6, <2>7
  <2>9. /\ holder' \in [Slots -> Procs \cup {Nobody}]
        /\ \A t \in Slots : holder'[t] = IF t \in {s} THEN p ELSE holder[t]
    BY <1>1, <1>6, <2>1
  <2>10. FreedIdle(p, gone, {s})
    BY <1>3, <1>6, <2>1, <2>2, <2>4, <2>8, <2>9 DEF FreedIdle, r
  <2> QED BY <2>1, <2>2, <2>10
<1>7. \/ /\ \A s \in old : slot[s].flag # "DIRTY"
         /\ slot' = ThrownAway(old)
         /\ proc' = Woken([proc EXCEPT ![p] = Outside])
         /\ UNCHANGED holder
      \/ \E s \in old :
           /\ slot[s].flag = "DIRTY"
           /\ \A t \in old : t < s => slot[t].flag # "DIRTY"
           /\ slot' = [ThrownAway({t \in old : t < s}) EXCEPT ![s].count = 1]
           /\ holder' = [holder EXCEPT ![s] = p]
           /\ LET writing == [proc EXCEPT ![p].pc = "write_dirty", ![p].at = s,
                                          ![p].image = slot[s].data]
              IN  proc' = writing \/ proc' = Woken(writing)
  BY <1>2
<1> QED BY <1>5, <1>6, <1>7

LEMMA FreeIdleKeeps ==
  ASSUME IInv, NEW p \in Procs, FreeIdle(p)
  PROVE  Kept
<1>1. /\ CacheInv /\ proc[p].pc = "scan_idle"
      /\ UNCHANGED <<setup, readonly, disk, version, promised>> /\ Slots' = Slots
  BY DEF IInv, FreeIdle, Slots
<1>2. /\ proc \in [Procs -> ProcState] /\ slot \in [Slots -> SlotState]
      /\ holder \in [Slots -> Procs \cup {Nobody}] /\ Nobody \notin Procs
  BY <1>1, CacheAssumption DEF CacheInv, TypedCache, CacheAssumption
<1>3. PICK gone, kept \in SUBSET Slots : FreedIdle(p, gone, kept)
  BY <1>1, FreeIdleStep DEF CacheInv
<1>4. \A t \in gone \cup kept :
        holder[t] = Nobody /\ \A x \in Procs : ~Uses(proc[x], t) /\ Cardinality(Others(x, t)) = 0
  BY <1>1, <1>3, CountZero DEF FreedIdle
<1> DEFINE q == proc[p]
<1>5. /\ q \in ProcState /\ q.pc \notin Using /\ setup.calls[p] # {} /\ q.op # "none"
      /\ q.op # "sync" /\ NoPointers(q) /\ (WritesThrough(setup) => q.next # "insist")
  BY <1>1, <1>2 DEF CacheInv, OpsPlaced, PointersSound, NoPointers, Using
<1>6. \/ proc'[p] = Outside /\ kept = {}
      \/ /\ kept = {proc'[p].at} /\ proc'[p].at \in Slots /\ proc'[p].pc = "write_dirty"
         /\ proc'[p].op = q.op /\ proc'[p].nr = q.nr /\ proc'[p].next = q.next
         /\ proc'[p].free = q.free /\ proc'[p].oldest = q.oldest
  BY <1>3, <1>5 DEF FreedIdle, ProcState
<1>7. \A x \in Procs \ {p} :
        /\ proc'[x].at = proc[x].at /\ proc'[x].op = proc[x].op /\ proc'[x].nr = proc[x].nr
        /\ proc'[x].next = proc[x].next
        /\ proc'[x].free = proc[x].free /\ proc'[x].oldest = proc[x].oldest
        /\ \/ proc'[x] = proc[x]
           \/ proc[x].pc = "fullwait" /\ proc'[x].pc = "get_ch"
  <2>1. WakesAtMost(p)
    BY <1>3 DEF FreedIdle
  <2> TAKE x \in Procs \ {p}
  <2>2. CASE proc'[x] = proc[x]
    BY <2>2
  <2>3. CASE proc[x].pc = "fullwait" /\ proc'[x] = [proc[x] EXCEPT !.pc = "get_ch"]
    BY <1>2, <2>3 DEF ProcState
  <2> QED BY <2>1, <2>2, <2>3 DEF WakesAtMost
<1>17. \A t \in Slots :
         LET v == slot'[t]
             w == slot[t] IN
         /\ t \in gone => v.flag = "FREE" /\ v.count = 0 /\ v.nr = NoCluster /\ v.errors = 0
         /\ t \notin gone => /\ v.flag = w.flag /\ v.nr = w.nr /\ v.errors = w.errors
                            /\ v.count = IF t \in kept THEN 1 ELSE w.count
  <2> TAKE t \in Slots
  <2>1. /\ slot[t] \in SlotState
        /\ slot'[t] = IF t \in gone THEN FreeSlot
                      ELSE IF t \in kept THEN [slot[t] EXCEPT !.count = 1] ELSE slot[t]
    BY <1>2, <1>3 DEF FreedIdle
  <2> QED BY <2>1 DEF FreeSlot, SlotState
<1>8. TypedCache'
  BY <1>1, <1>3 DEF FreedIdle, TypedCache, SlotState, ProcState
<1>9. Placed'
  <2> SUFFICES ASSUME NEW x \in Procs
               PROVE  /\ proc'[x].pc \in Using => proc'[x].at # NoSlot
                      /\ \A t \in Slots :
                            holder'[t] = x <=> proc'[x].pc \in Holding /\ proc'[x].at = t
    BY <1>1 DEF Placed
  <2>1. \A t \in Slots : holder'[t] = IF t \in kept THEN p ELSE holder[t]
    BY <1>3 DEF FreedIdle
  <2>2. CASE x = p
    <3>1. \A t \in Slots : holder[t] # p
      BY <1>1, <1>5 DEF CacheInv, Placed, Holding, Using
    <3> QED BY <1>6, <2>1, <2>2, <3>1 DEF Outside, Holding, Using, Slots, NoSlot
  <2>3. CASE x # p
    BY <1>1, <1>2, <1>4, <1>7, <2>1, <2>3 DEF CacheInv, Placed, Holding, Using
  <2> QED BY <2>2, <2>3
<1>10. OpsPlaced'
  <2>1. /\ Outside.pc = "idle" /\ Outside.op = "none"
    BY DEF Outside
  <2> QED BY <1>1, <1>5, <1>6, <1>7, <2>1 DEF CacheInv, OpsPlaced
<1>11. SlotsKept'
  <2> SUFFICES ASSUME NEW t \in Slots
               PROVE  /\ slot'[t].flag = "FREE" => slot'[t].count = 0
                      /\ slot'[t].flag # "DELETED" => slot'[t].errors <= MaxErrors
    BY <1>1 DEF SlotsKept
  <2>1. slot[t] \in SlotState /\ MaxErrors \in Nat
    BY <1>2, CacheAssumption DEF CacheAssumption
  <2>2. t \in kept => slot[t].flag = "DIRTY"
    BY <1>3 DEF FreedIdle
  <2> QED BY <1>1, <1>17, <2>1, <2>2 DEF CacheInv, SlotsKept
<1>12. HoldersKnow'
  <2> SUFFICES ASSUME NEW x \in Procs, proc'[x].pc \in Holding
               PROVE  /\ proc'[x].pc \in {"write_oldest", "write_dirty"} =>
                            slot'[proc'[x].at].flag = "DIRTY"
                      /\ proc'[x].pc = "simulate" => slot'[proc'[x].at].flag \in Loaded
                      /\ proc'[x].pc = "read_cluster" => slot'[proc'[x].at].flag = "INVALID"
    BY DEF HoldersKnow, Holding
  <2>1. CASE x = p
    <3>1. kept = {proc'[p].at} /\ proc'[p].at \in Slots /\ proc'[p].pc = "write_dirty"
      BY <1>6, <2>1 DEF Outside, Holding
    <3>2. slot[proc'[p].at] \in SlotState /\ slot[proc'[p].at].flag = "DIRTY"
          /\ proc'[p].at \notin gone
      BY <1>2, <1>3, <3>1 DEF FreedIdle
    <3>3. slot'[proc'[p].at].flag = "DIRTY"
      BY <1>3, <3>1, <3>2 DEF FreedIdle, SlotState
    <3> QED BY <2>1, <3>1, <3>3
  <2>2. CASE x # p
    <3>1. proc'[x] = proc[x]
      BY <1>7, <2>2 DEF Holding
    <3>2. proc[x].at \in Slots /\ Uses(proc[x], proc[x].at)
      BY <1>1, <3>1, UserAtDoor DEF Holding, Using, Places
    <3>3. slot'[proc[x].at] = slot[proc[x].at]
      BY <1>3, <1>4, <3>2 DEF FreedIdle
    <3> QED BY <1>1, <3>1, <3>3 DEF CacheInv, HoldersKnow
  <2> QED BY <2>1, <2>2
<1>13. PointersSound'
  <2>1. \A t \in Slots : slot'[t].flag \in {"FREE", slot[t].flag}
    BY <1>17
  <2>2. \A x \in Procs : /\ proc'[x].free = NoSlot
                         /\ WritesThrough(setup) =>
                              /\ proc'[x].oldest = NoSlot
                              /\ proc'[x].pc # "simulate" /\ proc'[x].next # "insist"
    <3> SUFFICES ASSUME NEW x \in Procs
                 PROVE  /\ proc'[x].free = NoSlot
                        /\ WritesThrough(setup) =>
                              /\ proc'[x].oldest = NoSlot
                              /\ proc'[x].pc # "simulate" /\ proc'[x].next # "insist"
      OBVIOUS
    <3>1. CASE x = p
      BY <1>5, <1>6, <3>1 DEF Outside, NoPointers
    <3>2. CASE x # p
      BY <1>1, <1>7, <3>2 DEF CacheInv, PointersSound
    <3> QED BY <3>1, <3>2
  <2> QED BY <1>1, <2>1, <2>2 DEF CacheInv, PointersSound
<1>14. CountIsUsers'
  <2>1. \A x \in Procs \ {p} : \A t \in Slots : Uses(proc'[x], t) <=> Uses(proc[x], t)
    BY <1>7 DEF Uses
  <2>2. \A t \in Slots : slot'[t].count =
           Cardinality(Others(p, t)) + (IF Uses(proc'[p], t) THEN 1 ELSE 0)
    <3> SUFFICES ASSUME NEW t \in Slots
                 PROVE  slot'[t].count =
                          Cardinality(Others(p, t)) + (IF Uses(proc'[p], t) THEN 1 ELSE 0)
      OBVIOUS
    <3>1. Uses(proc'[p], t) <=> t \in kept
      BY <1>6 DEF Uses, Outside
    <3>2. ~Uses(proc[p], t)
      BY <1>1 DEF Uses
    <3>3. slot[t].count = Cardinality(Others(p, t)) /\ Cardinality(Others(p, t)) \in Nat
      BY <1>1, <3>2, CountOthers DEF CacheInv
    <3>4. slot'[t].count = IF t \in gone THEN 0 ELSE IF t \in kept THEN 1 ELSE slot[t].count
      BY <1>17
    <3>5. t \in gone \cup kept => Cardinality(Others(p, t)) = 0
      BY <1>4
    <3>6. t \in gone => t \notin kept
      BY <1>3 DEF FreedIdle
    <3> QED BY <3>1, <3>3, <3>4, <3>5, <3>6
  <2> QED BY <1>1, <2>1, <2>2, CountAfter
<1>15. TypedVolume' /\ VersionsLeft'
  <2>1. TypedVolume'
    BY <1>1 DEF IInv, TypedVolume
  <2>2. \A x \in Procs \ {p} : Unmade(proc'[x]) => Unmade(proc[x])
    BY <1>7 DEF Unmade
  <2>3. Unmade(proc'[p]) => Unmade(proc[p])
    BY <1>1, <1>6 DEF Unmade, Outside
  <2> QED BY <1>1, <2>1, <2>2, <2>3, VersionsAfter DEF IInv, TypedVolume
<1>16. Alone(slot)
  <2>1. \A t \in Slots : slot'[t].nr \in {slot[t].nr, NoCluster}
    BY <1>17
  <2> QED BY <1>1, <2>1 DEF Alone
<1> QED BY <1>8, <1>9, <1>10, <1>11, <1>12, <1>13, <1>14, <1>15, <1>16 DEF Kept, IInv, CacheInv

\* If every slot that is not free has users then there is a free one: the
\* process that looks for a slot uses none, and there are enough for the others.
LEMMA SomeSlotIdle ==
  ASSUME IInv, Roomy(setup), NEW p \in Procs, proc[p].pc = "get_ch",
         FreeSlots = {}, IdleSlots = {}
  PROVE  FALSE
<1> DEFINE C == Callers(setup)
           f == [s \in Slots |-> CHOOSE x \in Procs : Uses(proc[x], s)]
<1>1. /\ CacheInv /\ setup \in Setups /\ setup.size \in Nat \ {0}
      /\ slot \in [Slots -> SlotState]
  BY CacheAssumption DEF IInv, CacheInv, TypedCache, TypedVolume, CacheAssumption
<1>2. IsFiniteSet(C) /\ p \in C
  BY <1>1, FS_Subset, CacheAssumption DEF CacheAssumption, Callers, CacheInv, OpsPlaced
<1>3. IsFiniteSet(C \ {p}) /\ Cardinality(C \ {p}) = Cardinality(C) - 1
      /\ Cardinality(C) \in Nat
  BY <1>2, FS_RemoveElement, FS_CardinalityType
<1>4. IsFiniteSet(Slots) /\ Cardinality(Slots) = setup.size
  BY <1>1, FS_Interval DEF Slots
<1>5. \A s \in Slots : slot[s].count # 0
  BY DEF FreeSlots, IdleSlots
<1>6. \A s \in Slots : \E x \in Procs : Uses(proc[x], s)
  <2> SUFFICES ASSUME NEW s \in Slots, \A x \in Procs : ~Uses(proc[x], s)
               PROVE  FALSE
    OBVIOUS
  <2>1. {x \in Procs : Uses(proc[x], s)} = {}
    OBVIOUS
  <2>2. slot[s].count = 0
    BY <1>1, <2>1, FS_EmptySet DEF CacheInv, CountIsUsers
  <2> QED BY <1>5, <2>2
<1>7. \A s \in Slots : f[s] \in Procs /\ Uses(proc[f[s]], s)
  BY <1>6
<1> HIDE DEF f
<1>8. \A s \in Slots : f[s] \in C \ {p} /\ proc[f[s]].at = s
  BY <1>1, <1>7 DEF Uses, Callers, CacheInv, OpsPlaced
<1>9. f \in [Slots -> C \ {p}]
  BY <1>8 DEF f
<1>10. Cardinality(C \ {p}) < Cardinality(Slots)
  BY <1>1, <1>3, <1>4 DEF Roomy
<1>11. \E s, t \in Slots : s # t /\ f[s] = f[t]
  <2> HIDE DEF C
  <2> QED BY <1>3, <1>4, <1>9, <1>10, FS_PigeonHole
<1> QED BY <1>8, <1>11

\* What get_ch chooses from is what find_in_ccache has found: there are no old
\* pointers to a free slot, and none to a slot to discard where it matters.
LEMMA ChoiceIsFresh ==
  ASSUME IInv, Sheltered, NEW p \in Procs, proc[p].pc = "get_ch"
  PROVE  Free(p) = FreeSlots /\ (Free(p) = {} => Oldest(p) = IdleSlots)
<1>1. proc[p].free = NoSlot /\ (WritesThrough(setup) => proc[p].oldest = NoSlot)
  BY DEF IInv, CacheInv, PointersSound
<1>2. Free(p) = FreeSlots
  BY <1>1 DEF Free
<1>3. CASE WritesThrough(setup)
  BY <1>1, <1>2, <1>3 DEF Oldest
<1>4. CASE Roomy(setup)
  BY <1>2, <1>4, SomeSlotIdle DEF Oldest
<1> QED BY <1>2, <1>3, <1>4 DEF Sheltered

\* A free or idle slot that get_ch takes is its own from then on.
TakenAs(s, v) == [slot EXCEPT ![s] = v]

LEMMA TakenAtDoor ==
  ASSUME CacheInv, NEW p \in Procs, proc[p].pc = "get_ch",
         NEW q \in ProcState, q.at \in Slots, q.op = proc[p].op, q.nr = proc[p].nr,
         slot[q.at].count = 0,
         NEW v \in SlotState, v.count = 1, v.flag # "FREE",
         v.flag # "DELETED" => v.errors <= MaxErrors,
         WritesThrough(setup) => v.flag \notin {"DIRTY", "DELETED"},
         NEW a, a = TakenAs(q.at, v)
  PROVE  /\ AtDoor(p, q, a) /\ \A t \in Slots : a[t].nr = slot[t].nr \/ a[t].count = 1
         /\ a[q.at] = v /\ holder[q.at] = Nobody /\ \A t \in Slots : holder[t] # p
<1>1. slot \in [Slots -> SlotState] /\ proc[p].pc \notin Using /\ proc[p].pc \notin Holding
  BY DEF CacheInv, TypedCache, Using, Holding
<1>2. holder[q.at] = Nobody /\ Cardinality(Others(p, q.at)) = 0
  BY CountZero
<1>3. /\ a \in [Slots -> SlotState] /\ a[q.at] = v
      /\ \A t \in Slots \ {q.at} : a[t] = slot[t]
  BY <1>1 DEF TakenAs
<1>4. \A t \in Slots : holder[t] # p
  BY <1>1 DEF CacheInv, Placed
<1> QED BY <1>1, <1>2, <1>3, <1>4 DEF AtDoor

LEMMA GetChKeeps ==
  ASSUME IInv, Sheltered, NEW p \in Procs, GetCh(p)
  PROVE  Kept
<1> DEFINE q == [proc[p] EXCEPT !.tries = @ + 1]
           Take(s, next) == [q EXCEPT !.at = s, !.next = next]
<1>1. /\ proc[p].pc = "get_ch" /\ q.tries <= MaxRetries + 1
      /\ UNCHANGED <<setup, readonly, disk, version, promised>> /\ CacheInv
      /\ proc[p].pc \notin Using
  BY DEF GetCh, IInv, Using
<1>2. /\ proc[p] \in ProcState /\ slot \in [Slots -> SlotState] /\ NoPointers(proc[p])
      /\ proc[p].op \notin {"sync", "free_idle"}
  BY <1>1 DEF CacheInv, TypedCache, PointersSound, NoPointers, OpsPlaced
<1>3. /\ q \in ProcState /\ q.op = proc[p].op /\ q.nr = proc[p].nr /\ q.at = proc[p].at
      /\ q.next = proc[p].next /\ q.free = proc[p].free /\ q.oldest = proc[p].oldest
      /\ q.pc = proc[p].pc
  BY <1>1, <1>2, CacheAssumption DEF ProcState, CacheAssumption
<1>4. Free(p) = FreeSlots /\ (Free(p) = {} => Oldest(p) = IdleSlots)
  BY <1>1, ChoiceIsFresh
<1>5. proc[p].op \notin {"none", "sync", "free_idle"} /\ q.nr \in Clusters /\ q.nr # NoCluster
  BY <1>1, <1>2, <1>3, CacheAssumption DEF CacheInv, OpsPlaced, CacheAssumption
<1>6. TypedVolume'
  BY <1>1 DEF IInv, TypedVolume
<1>7. Unmade(proc'[p]) /\ proc'[p].op = proc[p].op => Unmade(proc[p])
  BY <1>1 DEF Unmade
<1> HIDE DEF q
<1>8. CASE \E s \in Found(q.nr) : LockCh(p, Take(s, "check"), [slot EXCEPT ![s].count = @ + 1])
  <2>1. PICK s \in Found(q.nr) : LockCh(p, Take(s, "check"), [slot EXCEPT ![s].count = @ + 1])
    BY <1>8
  <2> DEFINE r == Take(s, "check")
             a == [slot EXCEPT ![s].count = @ + 1]
  <2>2. s \in Slots /\ slot[s].flag # "FREE"
    BY DEF Found
  <2>3. /\ r \in ProcState /\ r.at = s /\ r.op = proc[p].op /\ r.nr = proc[p].nr
        /\ r.next = "check" /\ r.free = proc[p].free /\ r.oldest = proc[p].oldest
    BY <1>3, <2>2 DEF ProcState, Nexts
  <2>4. LockCh(p, r, a)
    BY <2>1
  <2> HIDE DEF r
  <2>5. a = Counted(r.at)
    BY <2>3 DEF Counted
  <2> HIDE DEF a
  <2>6. /\ AtDoor(p, r, a) /\ \A t \in Slots : a[t].nr = slot[t].nr
        /\ a[r.at].flag = slot[r.at].flag /\ \A t \in Slots : holder[t] # p
    BY <1>1, <2>2, <2>3, <2>5, EnteredAtDoor
  <2>7. NoPointers(r)
    BY <1>2, <2>3 DEF NoPointers
  <2>8. Result(p, r, a)
    BY <1>1, <1>2, <2>3, <2>4, <2>6, <2>7, LockChKeeps
  <2> QED BY <1>1, <1>6, <1>7, <2>3, <2>6, <2>8, ResultKept DEF Result
<1>9. CASE \E s \in Free(p), o \in IdleSlots \cup {q.oldest} :
             LockCh(p, [Take(s, "check") EXCEPT !.free = s, !.oldest = o],
                    [slot EXCEPT ![s].count = 1, ![s].flag = "NOT_MALLOCD",
                                 ![s].nr = q.nr, ![s].errors = 0])
  <2>1. PICK s \in Free(p), o \in IdleSlots \cup {q.oldest} :
             LockCh(p, [Take(s, "check") EXCEPT !.free = s, !.oldest = o],
                    [slot EXCEPT ![s].count = 1, ![s].flag = "NOT_MALLOCD",
                                 ![s].nr = q.nr, ![s].errors = 0])
    BY <1>9
  <2> DEFINE r == [Take(s, "check") EXCEPT !.free = s, !.oldest = o]
             v == [slot[s] EXCEPT !.count = 1, !.flag = "NOT_MALLOCD", !.nr = q.nr, !.errors = 0]
             a == [slot EXCEPT ![s] = v]
  <2>2. s \in Slots /\ slot[s].count = 0 /\ o \in Slots \cup {NoSlot}
    BY <1>1, <1>2, <1>3, <1>4 DEF FreeSlots, IdleSlots, CacheInv, SlotsKept, ProcState
  <2>3. /\ r \in ProcState /\ r.at = s /\ r.op = proc[p].op /\ r.nr = proc[p].nr
        /\ r.next = "check"
    BY <1>3, <2>2 DEF ProcState, Nexts
  <2>4. v \in SlotState /\ v.count = 1 /\ v.flag = "NOT_MALLOCD" /\ v.errors = 0 /\ v.nr = q.nr
    <3>1. slot[s] \in SlotState /\ 0 \in 0 .. MaxErrors + 1 /\ q.nr \in Clusters \cup {NoCluster}
      BY <1>2, <1>5, <2>2, CacheAssumption DEF CacheAssumption
    <3> QED BY <3>1 DEF SlotState, Flags
  <2>5. LockCh(p, r, a)
    <3>1. a = [slot EXCEPT ![s].count = 1, ![s].flag = "NOT_MALLOCD",
                           ![s].nr = q.nr, ![s].errors = 0]
      BY <1>2, <2>2
    <3> HIDE DEF a
    <3> QED BY <2>1, <3>1
  <2> HIDE DEF r, v
  <2>6. a = TakenAs(r.at, v)
    BY <2>3 DEF TakenAs
  <2> HIDE DEF a
  <2>7. /\ AtDoor(p, r, a) /\ \A t \in Slots : a[t].nr = slot[t].nr \/ a[t].count = 1
        /\ a[s] = v /\ holder[s] = Nobody /\ \A t \in Slots : holder[t] # p
    <3>1. v.errors <= MaxErrors
      BY <2>4, CacheAssumption DEF CacheAssumption
    <3> QED BY <1>1, <2>2, <2>3, <2>4, <2>6, <3>1, TakenAtDoor
  <2>8. ChosenAtOnce(r, a)
    BY <1>3, <2>3, <2>4, <2>7 DEF ChosenAtOnce
  <2>9. Result(p, r, a)
    BY <1>1, <1>2, <2>3, <2>5, <2>7, <2>8, LockChKeeps
  <2> QED BY <1>1, <1>6, <1>7, <2>3, <2>7, <2>9, ResultKept DEF Result
<1>10. CASE /\ Free(p) = {}
            /\ \E s \in Oldest(p) :
                 LockCh(p, [Take(s, "discard") EXCEPT !.oldest = s], [slot EXCEPT ![s].count = 1])
  <2>1. PICK s \in IdleSlots :
          LockCh(p, [Take(s, "discard") EXCEPT !.oldest = s], [slot EXCEPT ![s].count = 1])
    BY <1>4, <1>10
  <2> DEFINE r == [Take(s, "discard") EXCEPT !.oldest = s]
             v == [slot[s] EXCEPT !.count = 1]
             a == [slot EXCEPT ![s] = v]
  <2>2. s \in Slots /\ slot[s].count = 0 /\ slot[s].flag # "FREE"
    BY DEF IdleSlots
  <2>3. /\ r \in ProcState /\ r.at = s /\ r.op = proc[p].op /\ r.nr = proc[p].nr
        /\ r.next = "discard" /\ r.free = NoSlot
    BY <1>2, <1>3, <2>2 DEF ProcState, Nexts, NoPointers
  <2>4. /\ v \in SlotState /\ v.count = 1 /\ v.flag = slot[s].flag
        /\ v.errors = slot[s].errors /\ v.nr = slot[s].nr
    BY <1>2, <2>2 DEF SlotState
  <2>5. LockCh(p, r, a)
    <3>1. a = [slot EXCEPT ![s].count = 1]
      OBVIOUS
    <3> HIDE DEF a
    <3> QED BY <2>1, <3>1
  <2> HIDE DEF r, v
  <2>6. a = TakenAs(r.at, v)
    BY <2>3 DEF TakenAs
  <2> HIDE DEF a
  <2>7. /\ v.flag # "DELETED" => v.errors <= MaxErrors
        /\ WritesThrough(setup) => v.flag \notin {"DIRTY", "DELETED"}
    BY <1>1, <2>2, <2>4 DEF CacheInv, SlotsKept, PointersSound
  <2>8. /\ AtDoor(p, r, a) /\ \A t \in Slots : a[t].nr = slot[t].nr \/ a[t].count = 1
        /\ a[s] = v /\ holder[s] = Nobody /\ \A t \in Slots : holder[t] # p
    BY <1>1, <2>2, <2>3, <2>4, <2>6, <2>7, TakenAtDoor
  <2>9. NoPointers(r) \/ ChosenAtOnce(r, a)
    <3>1. CASE WritesThrough(setup)
      <4>1. v.flag \in {"VALID", "INVALID", "NOT_MALLOCD"}
        BY <2>2, <2>4, <2>7, <3>1 DEF SlotState, Flags, Loaded
      <4> QED BY <2>3, <2>4, <2>8, <4>1 DEF ChosenAtOnce
    <3>2. CASE ~WritesThrough(setup)
      BY <2>3, <3>2 DEF NoPointers
    <3> QED BY <3>1, <3>2
  <2>10. Result(p, r, a)
    BY <1>1, <1>2, <2>3, <2>5, <2>8, <2>9, LockChKeeps
  <2> QED BY <1>1, <1>6, <1>7, <2>3, <2>8, <2>10, ResultKept DEF Result
<1>11. CASE /\ proc' = [proc EXCEPT ![p] = [q EXCEPT !.pc = "fullwait"]]
            /\ UNCHANGED <<slot, holder>>
  <2> DEFINE r == [q EXCEPT !.pc = "fullwait"]
  <2>1. /\ r \in ProcState /\ r.pc = "fullwait" /\ r.op = q.op /\ r.nr = q.nr
        /\ r.next = q.next /\ r.free = q.free /\ r.oldest = q.oldest /\ r.pc \notin Using
    BY <1>3 DEF ProcState, Places, Using
  <2>2. proc' = [proc EXCEPT ![p] = r]
    BY <1>11
  <2> HIDE DEF r
  <2>3. /\ NoPointers(r) /\ setup.calls[p] # {}
        /\ WritesThrough(setup) => r.next # "insist"
        /\ r.op = "entry" => \E c \in setup.calls[p] : c.op = "entry"
    BY <1>1, <1>2, <1>3, <2>1 DEF NoPointers, CacheInv, PointersSound, OpsPlaced
  <2>4. CacheInv' /\ Alone(slot)
    BY <1>1, <1>3, <1>5, <1>11, <2>1, <2>2, <2>3, AsideKeeps
  <2>5. Unmade(r) => Unmade(proc[p])
    BY <1>1, <1>3, <2>1 DEF Unmade
  <2> QED BY <1>1, <2>2, <2>4, <2>5, AsideKept
<1> QED BY <1>8, <1>9, <1>10, <1>11 DEF GetCh, q

-----------------------------------------------------------------------------
(* The theorems about the counts.                                          *)

LEMMA InitKeeps == Init => IInv
<1> SUFFICES ASSUME Init
             PROVE  IInv
  OBVIOUS
<1>1. /\ FreeSlot \in SlotState /\ FreeSlot.flag = "FREE" /\ FreeSlot.count = 0
      /\ FreeSlot.errors = 0 /\ MaxErrors \in Nat /\ MaxVersion \in Nat
  BY CacheAssumption DEF CacheAssumption, FreeSlot, SlotState, Flags
<1>2. /\ slot = [s \in Slots |-> FreeSlot] /\ holder = [s \in Slots |-> Nobody]
      /\ proc = [p \in Procs |-> Outside] /\ setup \in Setups
  BY DEF Init
<1>3. TypedCache
  BY <1>1, <1>2, OutsideTyped DEF TypedCache
<1>4. Placed /\ OpsPlaced /\ HoldersKnow
  BY <1>2, OutsideTyped, CacheAssumption
     DEF Placed, OpsPlaced, HoldersKnow, Using, Holding, CacheAssumption, Outside
<1>5. SlotsKept /\ PointersSound
  BY <1>1, <1>2, OutsideTyped DEF SlotsKept, PointersSound, NoPointers, Outside
<1>6. CountIsUsers
  <2>1. \A s \in Slots : {p \in Procs : Uses(proc[p], s)} = {}
    BY <1>2, OutsideTyped DEF Uses
  <2>2. \A s \in Slots : slot[s].count = 0
    BY <1>1, <1>2
  <2> QED BY <2>1, <2>2, FS_EmptySet DEF CountIsUsers
<1>7. TypedVolume
  <2>1. 0 \in 0 .. MaxVersion /\ {0} \in SUBSET (0 .. MaxVersion)
    BY <1>1
  <2> QED BY <2>1 DEF Init, TypedVolume
<1>8. VersionsLeft
  <2>1. {p \in Procs : Unmade(proc[p])} = {}
    BY <1>2, OutsideTyped
  <2> QED BY <1>1, <2>1, FS_EmptySet DEF VersionsLeft, Init
<1> QED BY <1>3, <1>4, <1>5, <1>6, <1>7, <1>8 DEF IInv, CacheInv

LEMMA NextKeeps ==
  ASSUME IInv, Sheltered, Next
  PROVE  Kept
<1>1. PICK p \in Procs : Call(p) \/ Step(p)
  BY DEF Next
<1> QED BY <1>1, CallKeeps, GetChKeeps, GetChGivesUpKeeps, AcquireKeeps, WriteOldestKeeps,
           ReadClusterKeeps, DoneReadingKeeps, ChangeEntryKeeps, CopyDataKeeps,
           SimulateKeeps, WriteThroughKeeps, DropKeeps, ChFreeKeeps, SyncScanKeeps,
           FreeIdleKeeps, WriteDirtyKeeps DEF Step

LEMMA StutterKeeps ==
  ASSUME IInv, UNCHANGED vars
  PROVE  IInv'
<1>1. /\ UNCHANGED setup /\ UNCHANGED slot /\ UNCHANGED holder /\ UNCHANGED proc
      /\ UNCHANGED <<readonly, disk, version, promised>>
  BY DEF vars
<1>2. TypedCache' /\ TypedVolume'
  BY <1>1 DEF IInv, CacheInv, TypedCache, TypedVolume, SlotState, ProcState, Slots
<1>3. Placed' /\ OpsPlaced' /\ SlotsKept' /\ HoldersKnow' /\ PointersSound'
  BY <1>1 DEF IInv, CacheInv, Placed, OpsPlaced, SlotsKept, HoldersKnow, PointersSound, Slots
<1>4. CountIsUsers' /\ VersionsLeft'
  BY <1>1 DEF IInv, CacheInv, CountIsUsers, VersionsLeft, Slots
<1> QED BY <1>2, <1>3, <1>4 DEF IInv, CacheInv

\* The setup stays as it is, and with it what it allows.
LEMMA SetupKept ==
  ASSUME [Next]_vars
  PROVE  /\ UNCHANGED setup
         /\ Sheltered' = Sheltered /\ Undisturbed' = Undisturbed
<1>1. UNCHANGED setup
  BY DEF Next, vars, Step, Call, GetCh, GetChGivesUp, Acquire, WriteOldest, ReadCluster,
     DoneReading, ChangeEntry, CopyData, Simulate, WriteThrough, Drop, ChFree, SyncScan,
     FreeIdle, WriteDirty
<1> QED BY <1>1 DEF Sheltered, Undisturbed, WritesThrough, Roomy, Callers, Apart, Nrs

\* The invariant that the counts need: who is where, what the slots are under
\* them, which of get_ch's pointers are set, and the room for changes to come.
THEOREM CacheStaysSound == Spec => [](Sheltered => IInv)
<1> DEFINE I == Sheltered => IInv
<1>1. Init => I
  BY InitKeeps
<1>2. I /\ [Next]_vars => I'
  BY NextKeeps, StutterKeeps, SetupKept DEF Kept
<1> QED BY <1>1, <1>2, PTL DEF Spec

\* c_count is the number of users of a slot, after every round of get_ch, every
\* failure, every retry and every sync, however many processes and slots there
\* are and whoever is waiting for whom.
THEOREM SlotsAlwaysSound == Spec => []SlotsSound
<1>1. (Sheltered => IInv) => SlotsSound
  <2> SUFFICES ASSUME IInv
               PROVE  TypeOK /\ CountIsUsers
    BY DEF SlotsSound
  <2>1. CountIsUsers /\ TypedCache /\ TypedVolume
    BY DEF IInv, CacheInv
  <2>2. \A s \in Slots : slot[s].count \in 0 .. Cardinality(Procs)
    <3> TAKE s \in Slots
    <3> DEFINE U == {p \in Procs : Uses(proc[p], s)}
    <3>1. IsFiniteSet(Procs) /\ U \in SUBSET Procs
      BY CacheAssumption DEF CacheAssumption
    <3>2. slot[s].count = Cardinality(U)
      BY <2>1 DEF CountIsUsers
    <3> HIDE DEF U
    <3>3. Cardinality(U) <= Cardinality(Procs) /\ Cardinality(U) \in Nat
          /\ Cardinality(Procs) \in Nat
      BY <3>1, FS_Subset, FS_CardinalityType
    <3> QED BY <3>2, <3>3
  <2>3. slot \in [Slots -> [flag : Flags, count : 0 .. Cardinality(Procs),
                            nr : Clusters \cup {NoCluster}, errors : 0 .. MaxErrors + 1,
                            data : 0 .. MaxVersion]]
    BY <2>1, <2>2 DEF TypedCache, SlotState
  <2>4. \A p \in Procs : /\ proc[p].pc \in Places
                         /\ proc[p].at \in Slots \cup {NoSlot}
                         /\ proc[p].tries \in 0 .. MaxRetries + 1
    BY <2>1 DEF TypedCache, ProcState
  <2>5. \A s \in Slots : holder[s] # Nobody => Uses(proc[holder[s]], s)
    BY <2>1 DEF IInv, CacheInv, TypedCache, Placed, Uses, Holding
  <2> QED BY <2>1, <2>3, <2>4, <2>5 DEF TypeOK, TypedCache, TypedVolume
<1> QED BY <1>1, CacheStaysSound, PTL

\* get_ch gives a slot to another cluster only while it is the slot's only user.
THEOREM OldestAlwaysUnused == Spec => OldestUnused
<1> DEFINE A == Sheltered =>
                  \A s \in Slots : slot'[s].nr # slot[s].nr /\ slot'[s].nr # NoCluster
                   => Cardinality({p \in Procs : Uses(proc'[p], s)}) = 1
<1>1. (Sheltered => IInv) /\ [Next]_vars => [A]_vars
  <2> SUFFICES ASSUME Sheltered, IInv, Next
               PROVE  A
    OBVIOUS
  <2>1. Alone(slot) /\ CountIsUsers' /\ UNCHANGED setup
    BY NextKeeps DEF Kept, IInv, CacheInv, Next, Step, Call, GetCh, GetChGivesUp, Acquire,
       WriteOldest, ReadCluster, DoneReading, ChangeEntry, CopyData, Simulate, WriteThrough,
       Drop, ChFree, SyncScan, FreeIdle, WriteDirty
  <2> QED BY <2>1 DEF Alone, CountIsUsers, Slots, Uses
<1> QED BY <1>1, CacheStaysSound, PTL DEF Spec, OldestUnused

-----------------------------------------------------------------------------
(* The data.  With CacheStaysSound known, each step is about the slot of   *)
(* the process that makes it, its cluster, and what a reader is promised.  *)

OneCopy == \A s, t \in Slots : slot[s].nr = slot[t].nr /\ slot[s].nr # NoCluster => s = t

OwnCalls ==
  \A p \in Procs : proc[p].op \notin {"none", "sync", "free_idle"} => proc[p].nr \in Nrs(setup, p)

\* Who wants to discard a slot has not found its cluster, and it is in none still.
Seeking(q) == q.pc = "write_oldest" \/ (q.pc = "lock_ch" /\ q.next = "discard")
Sought(sl, nr) == ~WritesThrough(setup) /\ \A s \in Slots : sl[s].nr # nr
SeekersFind == \A p \in Procs : Seeking(proc[p]) => Sought(slot, proc[p].nr)

\* Who has a slot's data works on his cluster, unless it was given up under him.
AtWork(q) == \/ q.pc \in {"in_use", "copying", "simulate", "write_through", "read_cluster"}
             \/ q.pc = "lock_ch" /\ q.next \in {"dirty", "insist"}
WorkersKnow ==
  \A p \in Procs :
    /\ AtWork(proc[p]) => slot[proc[p].at].nr \in {proc[p].nr, NoCluster}
    /\ proc[p].pc \in {"copying", "simulate", "write_through"} => slot[proc[p].at].flag \in Loaded

\* A slot that was not read because it will be overwritten.
Filling(q) == q.pc = "copying" /\ q.op = "write_full"
FilledBy(P, s) == \E p \in P : Filling(proc[p]) /\ proc[p].at = s

\* The data of a slot, and those on the disk if it is not to be written, are
\* what a reader of its cluster may be given.
Fits(v, filled, ro, dk, pm) ==
  /\ v.nr = NoCluster <=> v.flag \in {"FREE", "DELETED"}
  /\ \/ ro
     \/ /\ v.flag \in Loaded => filled \/ v.data \in pm[v.nr]
        /\ v.nr # NoCluster /\ v.flag # "DIRTY" => dk[v.nr] \in pm[v.nr]
SlotsFit == \A s \in Slots : Fits(slot[s], FilledBy(Procs, s), readonly, disk, promised)

\* So are those of a cluster that is not in the cache.
DiskFits ==
  \A c \in Clusters : (\A s \in Slots : slot[s].nr # c) => readonly \/ disk[c] \in promised[c]

\* And those that are being written.
Writing(q) == q.pc \in {"write_oldest", "write_dirty"}
ImagesFit ==
  \A p \in Procs : Writing(proc[p]) => readonly \/ proc[p].image \in promised[slot[proc[p].at].nr]

DataInv == OneCopy /\ OwnCalls /\ SeekersFind /\ WorkersKnow /\ SlotsFit /\ DiskFits /\ ImagesFit

-----------------------------------------------------------------------------
(* A step of p at the slot s, which becomes v.                             *)

Moves(p, s, v) ==
  /\ \/ v.nr \in {slot[s].nr, NoCluster}
     \/ /\ v.nr = proc[p].nr /\ proc[p].op \notin {"none", "sync", "free_idle"}
        /\ \A t \in Slots : slot[t].nr # v.nr
  /\ holder[s] \notin {Nobody, p} => v.nr = slot[s].nr /\ v.flag = slot[s].flag
  /\ slot[s].nr \notin {v.nr, NoCluster} =>
       readonly' \/ disk'[slot[s].nr] \in promised'[slot[s].nr]

\* What the step does to the disk and to the promises.
VolumeMoves(p, s) ==
  /\ readonly => readonly'
  /\ \A c \in Clusters \ {slot[s].nr} : disk'[c] = disk[c] /\ promised'[c] = promised[c]
  /\ slot[s].nr # NoCluster /\ holder[s] \notin {Nobody, p} =>
       promised[slot[s].nr] \subseteq promised'[slot[s].nr]

\* What p knows of its slot at the place r.pc.
Knows(r, sl) ==
  /\ Seeking(r) => Sought(sl, r.nr)
  /\ AtWork(r) => sl[r.at].nr \in {r.nr, NoCluster}
  /\ r.pc \in {"copying", "simulate", "write_through"} => sl[r.at].flag \in Loaded
  /\ Writing(r) => readonly' \/ r.image \in promised'[sl[r.at].nr]

FitsNow(v, filled) == Fits(v, filled, readonly', disk', promised')

\* What it leaves behind: r is the process p then.
Done(p, s) ==
  /\ \A t \in Slots \ {s} : slot'[t] = slot[t]
  /\ Moves(p, s, slot'[s])
  /\ FitsNow(slot'[s], Filling(proc'[p]) \/ FilledBy(Procs \ {p}, s))
  /\ proc'[p].at = s /\ proc'[p].pc \in Using
  /\ proc'[p].op = proc[p].op /\ proc'[p].nr = proc[p].nr
  /\ Knows(proc'[p], slot')

\* Two processes that use a slot after a step are two on its count.
LEMMA TwoUsers ==
  ASSUME CountIsUsers', Slots' = Slots, NEW s \in Slots, slot'[s].count = 1,
         NEW p \in Procs, NEW x \in Procs, Uses(proc'[p], s), Uses(proc'[x], s)
  PROVE  x = p
<1> DEFINE U == {y \in Procs : Uses(proc'[y], s)}
<1>1. Cardinality(U) = 1 /\ IsFiniteSet(U)
  BY FS_Subset, CacheAssumption DEF CacheAssumption, CountIsUsers, Uses
<1>2. p \in U /\ x \in U
  OBVIOUS
<1> HIDE DEF U
<1> QED BY <1>1, <1>2, FS_Singleton

\* The other processes and slots, the clusters that are in no slot, and the
\* promises for the others.
LEMMA DoneKeeps ==
  ASSUME IInv, DataInv, Undisturbed, Kept, UNCHANGED setup,
         NEW p \in Procs, NEW s \in Slots, Done(p, s), VolumeMoves(p, s),
         proc[p].pc \in Using => proc[p].at = s,
         proc' = [proc EXCEPT ![p] = proc'[p]]
  PROVE  DataInv'
<1>1. /\ CacheInv /\ CacheInv' /\ Slots' = Slots /\ setup \in Setups
      /\ slot \in [Slots -> SlotState] /\ proc \in [Procs -> ProcState]
      /\ slot' \in [Slots -> SlotState] /\ proc' \in [Procs -> ProcState]
      /\ NoCluster \notin Clusters
  BY CacheAssumption DEF IInv, CacheInv, TypedCache, TypedVolume, Kept, Slots, CacheAssumption,
     SlotState, ProcState
<1>2. \A x \in Procs \ {p} : proc'[x] = proc[x]
  BY <1>1
<1>3. \A t \in Slots \ {s} : slot'[t] = slot[t]
  BY DEF Done
<1>4. ASSUME NEW x \in Procs \ {p}, proc[x].pc \in Using, proc[x].at = s
      PROVE  slot'[s].nr \in {slot[s].nr, NoCluster}
  <2> SUFFICES ASSUME slot'[s].count = 1
               PROVE  FALSE
    BY DEF Kept, Alone
  <2>1. Uses(proc'[p], s) /\ Uses(proc'[x], s)
    BY <1>2, <1>4 DEF Done, Uses, Using
  <2> QED BY <1>1, <2>1, TwoUsers DEF CacheInv
<1>5. OneCopy'
  <2> SUFFICES ASSUME NEW t \in Slots, NEW u \in Slots, t # u,
                      slot'[t].nr = slot'[u].nr, slot'[t].nr # NoCluster
               PROVE  FALSE
    BY <1>1 DEF OneCopy
  <2> QED BY <1>3 DEF DataInv, OneCopy, Done, Moves
<1>6. OwnCalls'
  BY <1>2 DEF DataInv, OwnCalls, Done
<1>7. SeekersFind'
  <2> SUFFICES ASSUME NEW x \in Procs, Seeking(proc'[x])
               PROVE  Sought(slot', proc'[x].nr)
    BY <1>1 DEF SeekersFind, Sought
  <2>1. CASE x = p
    BY <2>1 DEF Done, Knows
  <2>2. CASE x # p
    <3>1. proc'[x] = proc[x] /\ Seeking(proc[x]) /\ Sought(slot, proc[x].nr)
      BY <1>2, <2>2 DEF DataInv, SeekersFind
    <3>2. proc[x].op \notin {"none", "sync", "free_idle"} /\ proc[x].nr \in Clusters
      BY <1>1, <3>1 DEF CacheInv, OpsPlaced, Seeking
    <3>3. slot'[s].nr = proc[p].nr /\ proc[p].op \notin {"none", "sync", "free_idle"}
          => slot'[s].nr # proc[x].nr
      <4>1. Apart(setup)
        BY <3>1 DEF Sought, Undisturbed
      <4> QED BY <2>2, <3>2, <4>1 DEF Apart, DataInv, OwnCalls
    <3>4. slot'[s].nr # proc[x].nr
      BY <1>1, <3>1, <3>2, <3>3 DEF Done, Moves, Sought
    <3> QED BY <1>3, <3>1, <3>4 DEF Sought
  <2> QED BY <2>1, <2>2
<1>8. WorkersKnow'
  <2> SUFFICES ASSUME NEW x \in Procs
               PROVE  /\ AtWork(proc'[x]) => slot'[proc'[x].at].nr \in {proc'[x].nr, NoCluster}
                      /\ proc'[x].pc \in {"copying", "simulate", "write_through"}
                            => slot'[proc'[x].at].flag \in Loaded
    BY DEF WorkersKnow
  <2>1. CASE x = p
    BY <2>1 DEF Done, Knows
  <2>2. CASE x # p
    <3>1. /\ proc'[x] = proc[x]
          /\ AtWork(proc[x]) => slot[proc[x].at].nr \in {proc[x].nr, NoCluster}
          /\ proc[x].pc \in {"copying", "simulate", "write_through"}
                => slot[proc[x].at].flag \in Loaded
      BY <1>2, <2>2 DEF DataInv, WorkersKnow
    <3>2. AtWork(proc[x]) \/ proc[x].pc \in {"copying", "simulate", "write_through"}
             => proc[x].pc \in Using /\ proc[x].at \in Slots
      BY <1>1, UserAtDoor DEF AtWork, Using, Places
    <3>3. CASE proc[x].at # s
      BY <1>3, <3>1, <3>2, <3>3
    <3>4. CASE proc[x].at = s
      <4>1. AtWork(proc[x]) => slot'[s].nr \in {proc[x].nr, NoCluster}
        BY <1>4, <2>2, <3>1, <3>2, <3>4
      <4>2. proc[x].pc \in {"copying", "simulate", "write_through"} => slot'[s].flag = slot[s].flag
        <5> HAVE proc[x].pc \in {"copying", "simulate", "write_through"}
        <5>1. holder[s] = x /\ x # Nobody
          BY <1>1, <3>4, CacheAssumption DEF CacheInv, Placed, Holding, CacheAssumption
        <5> QED BY <2>2, <5>1 DEF Done, Moves
      <4> QED BY <3>1, <3>4, <4>1, <4>2
    <3> QED BY <3>3, <3>4
  <2> QED BY <2>1, <2>2
<1>9. SlotsFit'
  <2> SUFFICES ASSUME NEW t \in Slots
               PROVE  FitsNow(slot'[t], FilledBy(Procs, t)')
    BY <1>1 DEF SlotsFit, FitsNow, Fits, FilledBy, Filling
  <2>1. CASE t = s
    <3>1. Filling(proc'[p]) \/ FilledBy(Procs \ {p}, s) => FilledBy(Procs, s)'
      BY <1>2 DEF Done, FilledBy, Filling
    <3> QED BY <2>1, <3>1 DEF Done, FitsNow, Fits
  <2>2. CASE t # s
    <3>1. slot'[t] = slot[t] /\ Fits(slot[t], FilledBy(Procs, t), readonly, disk, promised)
      BY <1>3, <2>2 DEF DataInv, SlotsFit
    <3>2. FilledBy(Procs, t) => FilledBy(Procs, t)'
      <4> SUFFICES ASSUME NEW x \in Procs, Filling(proc[x]), proc[x].at = t
                   PROVE  proc'[x] = proc[x]
        BY DEF FilledBy, Filling
      <4>1. x # p
        BY <2>2 DEF Filling, Using, Places
      <4> QED BY <1>2, <4>1
    <3>3. slot[t].nr \in Clusters => disk'[slot[t].nr] = disk[slot[t].nr]
                                     /\ promised'[slot[t].nr] = promised[slot[t].nr]
      BY <1>1, <2>2 DEF VolumeMoves, DataInv, OneCopy
    <3>4. slot[t].flag \in Loaded => slot[t].nr # NoCluster
      BY <3>1 DEF Fits, Loaded
    <3>5. slot[t].nr \in Clusters \cup {NoCluster}
      BY <1>1 DEF SlotState
    <3> QED BY <3>1, <3>2, <3>3, <3>4, <3>5 DEF FitsNow, Fits, VolumeMoves
  <2> QED BY <2>1, <2>2
<1>10. DiskFits'
  <2> SUFFICES ASSUME NEW c \in Clusters, \A t \in Slots : slot'[t].nr # c
               PROVE  readonly' \/ disk'[c] \in promised'[c]
    BY <1>1 DEF DiskFits
  <2>1. CASE slot[s].nr = c
    BY <1>1, <2>1 DEF Done, Moves
  <2>2. CASE slot[s].nr # c
    <3>1. \A t \in Slots : slot[t].nr # c
      BY <1>3, <2>2
    <3> QED BY <2>2, <3>1 DEF DataInv, DiskFits, VolumeMoves
  <2> QED BY <2>1, <2>2
<1>11. ImagesFit'
  <2> SUFFICES ASSUME NEW x \in Procs, Writing(proc'[x])
               PROVE  readonly' \/ proc'[x].image \in promised'[slot'[proc'[x].at].nr]
    BY DEF ImagesFit
  <2>1. CASE x = p
    BY <2>1 DEF Done, Knows
  <2>2. CASE x # p
    <3> DEFINE t == proc[x].at
    <3>1. /\ proc'[x] = proc[x] /\ Writing(proc[x])
          /\ readonly \/ proc[x].image \in promised[slot[t].nr]
      BY <1>2, <2>2 DEF DataInv, ImagesFit
    <3>2. t \in Slots /\ holder[t] = x /\ x # Nobody /\ slot[t].flag = "DIRTY"
      BY <1>1, <3>1, UserAtDoor, CacheAssumption
         DEF Writing, Using, Places, Holding, CacheInv, HoldersKnow, CacheAssumption
    <3>3. slot[t].nr \in Clusters
      BY <1>1, <3>2 DEF DataInv, SlotsFit, Fits, SlotState
    <3>4. slot'[t].nr = slot[t].nr /\ promised[slot[t].nr] \subseteq promised'[slot[t].nr]
      <4>1. CASE t = s
        BY <1>1, <2>2, <3>2, <3>3, <4>1 DEF Done, Moves, VolumeMoves
      <4>2. CASE t # s
        <5>1. slot[t].nr # slot[s].nr
          BY <1>1, <3>2, <3>3, <4>2 DEF DataInv, OneCopy
        <5> QED BY <1>3, <3>2, <3>3, <4>2, <5>1 DEF VolumeMoves
      <4> QED BY <4>1, <4>2
    <3> QED BY <3>1, <3>4 DEF VolumeMoves
  <2> QED BY <2>1, <2>2
<1> QED BY <1>5, <1>6, <1>7, <1>8, <1>9, <1>10, <1>11 DEF DataInv

\* The process in the course of its step, at the array sl.
Mid(p, q, sl, filled) ==
  /\ q \in ProcState /\ q.at \in Slots /\ sl \in [Slots -> SlotState]
  /\ q.op = proc[p].op /\ q.nr = proc[p].nr
  /\ \A t \in Slots \ {q.at} : sl[t] = slot[t]
  /\ Moves(p, q.at, sl[q.at])
  /\ FitsNow(sl[q.at], filled)

\* The process ends its step as r at the array sl.
LEMMA EndsDone ==
  ASSUME TypedCache, NEW p \in Procs, NEW q, NEW sl, NEW pc \in Using, NEW next \in Nexts,
         \/ Mid(p, q, sl, FALSE) \/ Mid(p, q, sl, FilledBy(Procs \ {p}, q.at))
         \/ pc = "copying" /\ q.op = "write_full" /\ Mid(p, q, sl, TRUE),
         pc = "write_oldest" \/ (pc = "lock_ch" /\ next = "discard") => Sought(sl, q.nr),
         pc \in {"in_use", "copying", "simulate", "write_through", "read_cluster"}
           \/ (pc = "lock_ch" /\ next \in {"dirty", "insist"})
             => sl[q.at].nr \in {q.nr, NoCluster},
         pc \in {"copying", "simulate", "write_through"} => sl[q.at].flag \in Loaded,
         pc \in {"write_oldest", "write_dirty"}
             => readonly' \/ q.image \in promised'[sl[q.at].nr],
         slot' = sl, proc' = [proc EXCEPT ![p] = [q EXCEPT !.pc = pc, !.next = next]]
  PROVE  Done(p, q.at) /\ proc' = [proc EXCEPT ![p] = proc'[p]]
<1> DEFINE r == [q EXCEPT !.pc = pc, !.next = next]
<1>1. /\ q \in ProcState /\ q.at \in Slots /\ proc \in [Procs -> ProcState]
      /\ q.op = proc[p].op /\ q.nr = proc[p].nr
  BY DEF Mid, TypedCache
<1>2. /\ r.pc = pc /\ r.next = next /\ r.at = q.at /\ r.nr = q.nr /\ r.op = q.op
      /\ r.image = q.image
  BY <1>1 DEF ProcState
<1>3. proc'[p] = r
  BY <1>1
<1> HIDE DEF r
<1>4. Knows(r, sl)
  BY <1>2 DEF Knows, Seeking, AtWork, Writing
<1>5. pc = "copying" /\ q.op = "write_full" => Filling(r)
  BY <1>2 DEF Filling
<1>6. FitsNow(sl[q.at], Filling(r) \/ FilledBy(Procs \ {p}, q.at))
  BY <1>5 DEF Mid, FitsNow, Fits
<1>7. Done(p, q.at)
  BY <1>1, <1>2, <1>3, <1>4, <1>6 DEF Done, Mid
<1> QED BY <1>1, <1>3, <1>7 DEF r

\* The goal of the lemmas about a step's parts.
Ends(p, s) == Done(p, s) /\ proc' = [proc EXCEPT ![p] = proc'[p]]

LEMMA StopsDone ==
  ASSUME TypedCache, NEW p \in Procs, NEW q, NEW sl, NEW pc \in Using \ {"lock_ch"}, NEW holds,
         \/ Mid(p, q, sl, FALSE)
         \/ pc = "copying" /\ q.op = "write_full" /\ Mid(p, q, sl, TRUE),
         pc = "write_oldest" => Sought(sl, q.nr),
         pc \in {"in_use", "copying", "simulate", "write_through", "read_cluster"}
             => sl[q.at].nr \in {q.nr, NoCluster},
         pc \in {"copying", "simulate", "write_through"} => sl[q.at].flag \in Loaded,
         pc \in {"write_oldest", "write_dirty"}
             => readonly' \/ q.image \in promised'[sl[q.at].nr],
         Stops(p, q, sl, pc, holds)
  PROVE  Ends(p, q.at)
<1>1. slot' = sl /\ proc' = [proc EXCEPT ![p] = [q EXCEPT !.pc = pc, !.next = "none"]]
  BY DEF Stops
<1>2. pc \in Using /\ pc # "lock_ch" /\ "none" \in Nexts
  BY DEF Nexts
<1>3. Done(p, q.at) /\ proc' = [proc EXCEPT ![p] = proc'[p]]
  BY <1>1, <1>2, EndsDone
<1> QED BY <1>3 DEF Ends

LEMMA LeavesDone ==
  ASSUME TypedCache, NEW p \in Procs, NEW q, NEW sl, Mid(p, q, sl, FALSE),
         NEW pc \in {"drop", "ch_free"}, Leaves(p, q, sl, pc)
  PROVE  Ends(p, q.at)
BY StopsDone DEF Leaves, Using, Places

LEMMA HasDataDone ==
  ASSUME TypedCache, NEW p \in Procs, NEW q, NEW sl,
         \/ Mid(p, q, sl, FALSE)
         \/ q.op = "write_full" /\ Mid(p, q, sl, TRUE),
         sl[q.at].nr = q.nr, sl[q.at].flag \in Loaded, HasData(p, q, sl)
  PROVE  Ends(p, q.at)
<1>1. CASE q.op \in {"read", "entry"}
  BY <1>1, StopsDone DEF HasData, Leaves, Using, Places
<1>2. CASE q.op \notin {"read", "entry"}
  BY <1>2, StopsDone DEF HasData, Keeps, Using, Places
<1> QED BY <1>1, <1>2

LEMMA GrantedDone ==
  ASSUME TypedCache, NEW p \in Procs, NEW q, NEW sl, Mid(p, q, sl, FALSE),
         holder[q.at] \in {Nobody, p}, sl[q.at].nr = q.nr, q.nr # NoCluster,
         Granted(p, q, sl)
  PROVE  Ends(p, q.at)
<1> DEFINE r == GotCh(q)
           s == q.at
<1>1. /\ r \in ProcState /\ r.at = s /\ r.op = q.op /\ r.nr = q.nr
  <2>1. 0 \in 0 .. MaxRetries + 1 /\ q \in ProcState
    BY CacheAssumption DEF CacheAssumption, Mid
  <2> QED BY <2>1 DEF GotCh, ProcState
<1>2. Mid(p, r, sl, FALSE)
  BY <1>1 DEF Mid
<1> HIDE DEF r
<1>3. /\ sl \in [Slots -> SlotState] /\ s \in Slots
      /\ Fits(sl[s], FALSE, readonly', disk', promised')
  BY DEF Mid, FitsNow
<1>4. CASE Leaves(p, r, sl, "ch_free")
  BY <1>1, <1>2, <1>4, LeavesDone
<1>5. CASE /\ sl[s].flag \in {"NOT_MALLOCD", "INVALID"} /\ q.op = "write_full"
           /\ HasData(p, r, [sl EXCEPT ![s].flag = "VALID"])
  <2> DEFINE a == [sl EXCEPT ![s].flag = "VALID"]
  <2>1. /\ a \in [Slots -> SlotState] /\ a[s].flag = "VALID" /\ a[s].nr = sl[s].nr
        /\ \A t \in Slots \ {s} : a[t] = sl[t]
    BY <1>3 DEF SlotState, Flags, Loaded
  <2> HIDE DEF a
  <2>2. FitsNow(a[s], TRUE)
    BY <1>3, <1>5, <2>1 DEF FitsNow, Fits
  <2>3. Moves(p, s, a[s])
    BY <2>1 DEF Mid, Moves
  <2>4. Mid(p, r, a, TRUE)
    BY <1>1, <1>2, <2>1, <2>2, <2>3 DEF Mid
  <2>5. HasData(p, r, a)
    BY <1>5 DEF a
  <2> QED BY <1>1, <1>5, <2>1, <2>4, <2>5, HasDataDone DEF Loaded
<1>6. CASE /\ sl[s].flag \in {"NOT_MALLOCD", "INVALID"}
           /\ Keeps(p, r, [sl EXCEPT ![s].flag = "INVALID"], "read_cluster")
  <2> DEFINE a == [sl EXCEPT ![s].flag = "INVALID"]
  <2>1. /\ a \in [Slots -> SlotState] /\ a[s].flag = "INVALID" /\ a[s].nr = sl[s].nr
        /\ \A t \in Slots \ {s} : a[t] = sl[t]
    BY <1>3 DEF SlotState, Flags, Loaded
  <2> HIDE DEF a
  <2>2. FitsNow(a[s], FALSE)
    BY <1>3, <1>6, <2>1 DEF FitsNow, Fits, Loaded
  <2>3. Moves(p, s, a[s])
    BY <2>1 DEF Mid, Moves
  <2>4. Mid(p, r, a, FALSE)
    BY <1>1, <1>2, <2>1, <2>2, <2>3 DEF Mid
  <2>5. Keeps(p, r, a, "read_cluster")
    BY <1>6 DEF a
  <2> QED BY <1>1, <2>1, <2>4, <2>5, StopsDone DEF Keeps, Using, Places
<1>7. CASE sl[s].flag \notin {"NOT_MALLOCD", "INVALID"} /\ HasData(p, r, sl)
  <2>1. sl[s].flag \in Loaded
    BY <1>3, <1>7 DEF Fits, SlotState, Flags
  <2>2. sl[r.at].nr = r.nr /\ sl[r.at].flag \in Loaded /\ HasData(p, r, sl)
    BY <1>1, <1>7, <2>1
  <2>3. Ends(p, r.at)
    BY <1>2, <2>2, HasDataDone
  <2> QED BY <1>1, <2>3
<1> QED
  <2>1. \/ Leaves(p, r, sl, "ch_free")
        \/ /\ sl[s].flag \in {"NOT_MALLOCD", "INVALID"}
           /\ IF r.op = "write_full" THEN HasData(p, r, [sl EXCEPT ![s].flag = "VALID"])
              ELSE Keeps(p, r, [sl EXCEPT ![s].flag = "INVALID"], "read_cluster")
        \/ sl[s].flag \notin {"NOT_MALLOCD", "INVALID"} /\ HasData(p, r, sl)
    BY DEF Granted, r
  <2> QED BY <1>1, <1>4, <1>5, <1>6, <1>7, <2>1

\* The cluster that leaves the cache is on the disk, and so is the one that enters.
LEMMA DiscardDone ==
  ASSUME TypedCache, DataInv, NEW p \in Procs, NEW q, NEW sl, Mid(p, q, sl, FALSE),
         VolumeMoves(p, q.at), holder[q.at] \in {Nobody, p},
         q.op \notin {"none", "sync", "free_idle"}, q.nr \in Clusters,
         \A t \in Slots : slot[t].nr # q.nr, Discard(p, q, sl)
  PROVE  Ends(p, q.at)
<1> DEFINE s == q.at
<1>1. /\ sl \in [Slots -> SlotState] /\ s \in Slots /\ q \in ProcState /\ q.nr # NoCluster
      /\ Fits(sl[s], FALSE, readonly', disk', promised') /\ slot \in [Slots -> SlotState]
  BY CacheAssumption DEF Mid, FitsNow, TypedCache, CacheAssumption
<1>2. CASE sl[s].flag \in {"VALID", "INVALID", "NOT_MALLOCD"} /\ sl[s].count <= 1
  <2> DEFINE v == [sl[s] EXCEPT !.flag = "NOT_MALLOCD", !.nr = q.nr, !.errors = 0, !.data = 0]
             a == [sl EXCEPT ![s] = v]
  <2>1. v \in SlotState /\ v.flag = "NOT_MALLOCD" /\ v.nr = q.nr
    <3>1. 0 \in 0 .. MaxErrors + 1 /\ 0 \in 0 .. MaxVersion /\ sl[s] \in SlotState
      BY <1>1, CacheAssumption DEF CacheAssumption
    <3> QED BY <1>1, <3>1 DEF SlotState, Flags
  <2>2. Granted(p, q, a)
    <3>1. a = [sl EXCEPT ![s].flag = "NOT_MALLOCD", ![s].nr = q.nr, ![s].errors = 0,
                         ![s].data = 0]
      BY <1>1
    <3> HIDE DEF a
    <3> QED BY <1>2, <3>1 DEF Discard
  <2> HIDE DEF v
  <2>3. /\ a \in [Slots -> SlotState] /\ a[s] = v /\ \A t \in Slots \ {s} : a[t] = sl[t]
    BY <1>1, <2>1
  <2> HIDE DEF a
  <2>4. readonly' \/ disk'[q.nr] \in promised'[q.nr]
    <3>1. readonly \/ disk[q.nr] \in promised[q.nr]
      BY DEF DataInv, DiskFits
    <3> QED BY <1>1, <3>1 DEF VolumeMoves
  <2>5. slot[s].nr # NoCluster => readonly' \/ disk'[slot[s].nr] \in promised'[slot[s].nr]
    BY <1>1, <1>2 DEF Mid, Moves, Fits
  <2>6. Moves(p, s, v)
    BY <2>1, <2>5 DEF Mid, Moves
  <2>7. FitsNow(v, FALSE)
    BY <1>1, <2>1, <2>4 DEF FitsNow, Fits, Loaded
  <2>8. Mid(p, q, a, FALSE)
    BY <1>1, <2>3, <2>6, <2>7 DEF Mid
  <2> QED BY <1>1, <2>1, <2>2, <2>3, <2>8, GrantedDone
<1>3. CASE Leaves(p, q, sl, "drop")
  BY <1>3, LeavesDone
<1> QED BY <1>2, <1>3 DEF Discard

LEMMA DirtyDone ==
  ASSUME TypedCache, NEW p \in Procs, NEW q, NEW sl, Mid(p, q, sl, FALSE),
         holder[q.at] \in {Nobody, p}, sl[q.at].nr \in {q.nr, NoCluster},
         DirtyLocked(p, q, sl) \/ Insist(p, q, sl)
  PROVE  Ends(p, q.at)
<1>1. CASE DirtyLocked(p, q, sl) /\ Leaves(p, q, sl, "ch_free")
  BY <1>1, LeavesDone
<1>2. CASE /\ sl[q.at].flag \in Loaded
           /\ Keeps(p, q, sl, IF setup.writeBack THEN "simulate" ELSE "write_through")
  BY <1>2, StopsDone DEF Keeps, Using, Places
<1>3. CASE Insist(p, q, sl)
  <2> DEFINE a == [sl EXCEPT ![q.at].flag = IF @ \in Loaded THEN "DIRTY" ELSE @]
  <2>1. /\ sl \in [Slots -> SlotState] /\ q.at \in Slots
        /\ Fits(sl[q.at], FALSE, readonly', disk', promised')
    BY DEF Mid, FitsNow
  <2>2. /\ a \in [Slots -> SlotState] /\ a[q.at].nr = sl[q.at].nr /\ a[q.at].data = sl[q.at].data
        /\ a[q.at].flag = (IF sl[q.at].flag \in Loaded THEN "DIRTY" ELSE sl[q.at].flag)
        /\ \A t \in Slots \ {q.at} : a[t] = sl[t]
    BY <2>1 DEF SlotState, Flags, Loaded
  <2>3. Leaves(p, q, a, "ch_free")
    BY <1>3 DEF Insist
  <2> HIDE DEF a
  <2>4. FitsNow(a[q.at], FALSE)
    BY <2>1, <2>2 DEF FitsNow, Fits, Loaded
  <2>5. Moves(p, q.at, a[q.at])
    BY <2>2 DEF Mid, Moves
  <2>6. Mid(p, q, a, FALSE)
    BY <2>1, <2>2, <2>4, <2>5 DEF Mid
  <2> QED BY <2>3, <2>6, LeavesDone
<1> QED BY <1>1, <1>2, <1>3 DEF DirtyLocked

LEMMA WriteOutDone ==
  ASSUME TypedCache, NEW p \in Procs, NEW q, NEW sl, Mid(p, q, sl, FALSE),
         NEW pc \in {"write_oldest", "write_dirty"}, sl[q.at].flag = "DIRTY",
         pc = "write_oldest" => Sought(sl, q.nr), WriteOut(p, q, sl, pc)
  PROVE  Ends(p, q.at)
<1> DEFINE r == [q EXCEPT !.image = sl[q.at].data]
<1>1. /\ sl \in [Slots -> SlotState] /\ q.at \in Slots /\ q \in ProcState
      /\ Fits(sl[q.at], FALSE, readonly', disk', promised')
  BY DEF Mid, FitsNow
<1>2. /\ r \in ProcState /\ r.at = q.at /\ r.op = q.op /\ r.nr = q.nr
      /\ r.image = sl[q.at].data
  BY <1>1 DEF ProcState, SlotState
<1>3. Stops(p, r, sl, pc, TRUE)
  BY DEF WriteOut, Keeps
<1> HIDE DEF r
<1>4. Mid(p, r, sl, FALSE)
  BY <1>2 DEF Mid
<1>5. readonly' \/ r.image \in promised'[sl[r.at].nr]
  BY <1>1, <1>2 DEF Fits, Loaded
<1> QED BY <1>2, <1>3, <1>4, <1>5, StopsDone DEF Using, Places

\* What the process must know when it is let in.
AtEntrance(q, sl) ==
  /\ q.next \in {"check", "discard"} =>
        q.op \notin {"none", "sync", "free_idle"} /\ q.nr \in Clusters
  /\ q.next = "discard" => /\ \A t \in Slots : slot[t].nr # q.nr /\ sl[t].nr # q.nr
                           /\ sl[q.at].flag = "DIRTY" => ~WritesThrough(setup)
  /\ q.next \in {"dirty", "insist"} => sl[q.at].nr \in {q.nr, NoCluster}

LEMMA InsideDone ==
  ASSUME TypedCache, DataInv, NEW p \in Procs, NEW q, NEW sl, Mid(p, q, sl, FALSE),
         VolumeMoves(p, q.at), holder[q.at] \in {Nobody, p},
         AtEntrance(q, sl), Inside(p, q, sl)
  PROVE  Ends(p, q.at)
<1>1. CASE q.next = "check" /\ Check(p, q, sl)
  <2>1. CASE sl[q.at].nr = q.nr
    <3>1. q.nr # NoCluster
      BY <1>1, CacheAssumption DEF AtEntrance, CacheAssumption
    <3> QED BY <1>1, <2>1, <3>1, GrantedDone DEF Check
  <2>2. CASE sl[q.at].nr # q.nr
    BY <1>1, <2>2, LeavesDone DEF Check
  <2> QED BY <2>1, <2>2
<1>2. CASE q.next = "discard" /\ sl[q.at].flag = "DIRTY" /\ WriteOut(p, q, sl, "write_oldest")
  BY <1>2, WriteOutDone DEF AtEntrance, Sought
<1>3. CASE q.next = "discard" /\ Discard(p, q, sl)
  BY <1>3, DiscardDone DEF AtEntrance
<1>4. CASE q.next \in {"dirty", "insist"} /\ (DirtyLocked(p, q, sl) \/ Insist(p, q, sl))
  BY <1>4, DirtyDone DEF AtEntrance
<1>5. CASE q.next = "sync" /\ sl[q.at].flag = "DIRTY" /\ WriteOut(p, q, sl, "write_dirty")
  BY <1>5, WriteOutDone
<1>6. CASE q.next = "sync" /\ Leaves(p, q, sl, "drop")
  BY <1>6, LeavesDone
<1> QED BY <1>1, <1>2, <1>3, <1>4, <1>5, <1>6 DEF Inside

\* A slot that nobody else is inside is not being filled by another.
LEMMA NotFilled ==
  ASSUME CacheInv, NEW p \in Procs, NEW s \in Slots, holder[s] \in {Nobody, p}
  PROVE  ~FilledBy(Procs \ {p}, s)
<1> SUFFICES ASSUME NEW x \in Procs \ {p}, Filling(proc[x]), proc[x].at = s
             PROVE  FALSE
  BY DEF FilledBy
<1>1. holder[s] = x
  BY DEF CacheInv, Placed, Filling, Holding
<1> QED BY <1>1, CacheAssumption DEF CacheAssumption

LEMMA LockChDone ==
  ASSUME CacheInv, DataInv, NEW p \in Procs, NEW q, NEW sl,
         Mid(p, q, sl, FilledBy(Procs \ {p}, q.at)), VolumeMoves(p, q.at),
         AtEntrance(q, sl), q.next = "discard" => holder[q.at] = Nobody,
         LockCh(p, q, sl)
  PROVE  Ends(p, q.at)
<1>1. q.at \in Slots /\ TypedCache /\ q \in ProcState
  BY DEF Mid, CacheInv
<1>2. CASE holder[q.at] = Nobody
  <2>1. Mid(p, q, sl, FALSE)
    BY <1>1, <1>2, NotFilled DEF Mid, FitsNow, Fits
  <2> QED BY <1>1, <1>2, <2>1, InsideDone DEF LockCh
<1>3. CASE holder[q.at] # Nobody
  <2>1. [q EXCEPT !.pc = "lock_ch"] = [q EXCEPT !.pc = "lock_ch", !.next = q.next]
        /\ q.next \in Nexts
    BY <1>1 DEF ProcState
  <2>2. slot' = sl /\ proc' = [proc EXCEPT ![p] = [q EXCEPT !.pc = "lock_ch", !.next = q.next]]
    BY <1>3, <2>1 DEF LockCh
  <2>3. "lock_ch" \in Using
    BY DEF Using, Places
  <2>6. Done(p, q.at) /\ proc' = [proc EXCEPT ![p] = proc'[p]]
    BY <1>1, <1>3, <2>1, <2>2, <2>3, EndsDone DEF AtEntrance
  <2> QED BY <2>6 DEF Ends
<1> QED BY <1>2, <1>3

-----------------------------------------------------------------------------
(* The steps again, and the data.                                          *)

\* A step inside or at the door of one slot.
LEMMA StepData ==
  ASSUME IInv, DataInv, Undisturbed, Kept, UNCHANGED setup,
         NEW p \in Procs, NEW s \in Slots, Ends(p, s), VolumeMoves(p, s),
         proc[p].pc \in Using => proc[p].at = s
  PROVE  DataInv'
BY DoneKeeps DEF Ends

\* The same data in the slot as before, and on the disk.
LEMMA StandsMid ==
  ASSUME CacheInv, DataInv, UNCHANGED <<readonly, disk, promised>>,
         NEW p \in Procs, NEW q, NEW sl,
         q \in ProcState, q.at \in Slots, sl \in [Slots -> SlotState],
         q.op = proc[p].op, q.nr = proc[p].nr,
         \A t \in Slots \ {q.at} : sl[t] = slot[t],
         sl[q.at].flag = slot[q.at].flag, sl[q.at].nr = slot[q.at].nr,
         sl[q.at].data = slot[q.at].data, ~Filling(proc[p])
  PROVE  /\ VolumeMoves(p, q.at)
         /\ Mid(p, q, sl, FilledBy(Procs \ {p}, q.at))
         /\ holder[q.at] \in {Nobody, p} => Mid(p, q, sl, FALSE)
<1>1. slot \in [Slots -> SlotState]
  BY DEF CacheInv, TypedCache
<1>2. FilledBy(Procs, q.at) => FilledBy(Procs \ {p}, q.at)
  BY DEF FilledBy
<1>3. Fits(slot[q.at], FilledBy(Procs, q.at), readonly, disk, promised)
  BY DEF DataInv, SlotsFit
<1>4. FitsNow(sl[q.at], FilledBy(Procs \ {p}, q.at))
  BY <1>2, <1>3 DEF Fits, FitsNow
<1>5. Mid(p, q, sl, FilledBy(Procs \ {p}, q.at))
  BY <1>4 DEF Mid, Moves
<1>6. ASSUME holder[q.at] \in {Nobody, p}
      PROVE  Mid(p, q, sl, FALSE)
  <2>1. ~FilledBy(Procs \ {p}, q.at)
    BY <1>6, NotFilled
  <2> QED BY <1>5, <2>1 DEF Mid, FitsNow, Fits
<1> QED BY <1>5, <1>6 DEF VolumeMoves

LEMMA CertainMid ==
  ASSUME NEW p, NEW q, NEW sl, Mid(p, q, sl, FALSE)
  PROVE  Mid(p, q, sl, FilledBy(Procs \ {p}, q.at))
BY DEF Mid, FitsNow, Fits

\* Slots without data or without users may be thrown away, and the process goes
\* somewhere else; it may have a slot to write out with it.
LEMMA AwayData ==
  ASSUME IInv, DataInv, UNCHANGED <<setup, readonly, disk, promised>>,
         NEW p \in Procs, ~Filling(proc[p]), WakesAtMost(p),
         \/ proc'[p].pc \notin Using
         \/ /\ proc'[p].pc = "write_dirty"
            /\ readonly \/ proc'[p].image \in promised[slot'[proc'[p].at].nr],
         proc'[p].op \notin {"none", "sync", "free_idle"} => proc'[p].nr \in Nrs(setup, p),
         \A t \in Slots :
            \/ /\ slot'[t].flag = slot[t].flag /\ slot'[t].nr = slot[t].nr
               /\ slot'[t].data = slot[t].data
            \/ /\ \/ slot[t].flag \in {"DELETED", "NOT_MALLOCD"}
                  \/ slot[t].flag # "DIRTY" /\ slot[t].count = 0
               /\ slot'[t].flag = "FREE" /\ slot'[t].nr = NoCluster
  PROVE  DataInv'
<1>1. /\ CacheInv /\ Slots' = Slots /\ proc \in [Procs -> ProcState]
      /\ slot \in [Slots -> SlotState] /\ NoCluster \notin Clusters
  BY CacheAssumption DEF IInv, CacheInv, TypedCache, Slots, CacheAssumption
<1>2. \A x \in Procs \ {p} :
        /\ proc'[x].op = proc[x].op /\ proc'[x].nr = proc[x].nr
        /\ proc[x].pc \in Using \/ proc'[x].pc \in Using => proc'[x] = proc[x]
  <2> TAKE x \in Procs \ {p}
  <2>1. CASE proc'[x] = proc[x]
    BY <2>1
  <2>2. CASE proc[x].pc = "fullwait" /\ proc'[x] = [proc[x] EXCEPT !.pc = "get_ch"]
    <3>1. /\ proc'[x].op = proc[x].op /\ proc'[x].nr = proc[x].nr
          /\ proc'[x].pc = "get_ch"
      BY <1>1, <2>2 DEF ProcState
    <3> QED BY <2>2, <3>1 DEF Using
  <2> QED BY <2>1, <2>2 DEF WakesAtMost
<1>3. \A t \in Slots : slot'[t].nr \in {slot[t].nr, NoCluster}
  OBVIOUS
<1>4. OneCopy' /\ OwnCalls'
  <2>1. OneCopy'
    BY <1>1, <1>3 DEF DataInv, OneCopy
  <2>2. OwnCalls'
    BY <1>2 DEF DataInv, OwnCalls, Nrs
  <2> QED BY <2>1, <2>2
<1>5. \A x \in Procs : proc'[x].pc \in Using \ {"write_dirty"} => x # p /\ proc'[x] = proc[x]
  BY <1>2
<1>11. \A x \in Procs : proc[x].pc \in Using /\ slot[proc[x].at].flag \in Loaded =>
         /\ slot'[proc[x].at].flag = slot[proc[x].at].flag
         /\ slot'[proc[x].at].nr = slot[proc[x].at].nr
  <2> SUFFICES ASSUME NEW x \in Procs, proc[x].pc \in Using, slot[proc[x].at].flag \in Loaded
               PROVE  slot[proc[x].at].count # 0 /\ proc[x].at \in Slots
    BY DEF Loaded
  <2>1. proc[x].at \in Slots /\ Uses(proc[x], proc[x].at)
    BY <1>1, UserAtDoor DEF Uses, Using
  <2> QED BY <1>1, <2>1, CountZero
<1>6. SeekersFind'
  <2> SUFFICES ASSUME NEW x \in Procs, Seeking(proc'[x])
               PROVE  Sought(slot', proc'[x].nr)
    BY <1>1 DEF SeekersFind, Sought, WritesThrough
  <2>1. proc'[x] = proc[x] /\ Sought(slot, proc[x].nr)
    BY <1>5 DEF DataInv, SeekersFind, Seeking, Using, Places
  <2>2. proc[x].nr \in Clusters
    BY <1>1, <2>1 DEF CacheInv, OpsPlaced, Seeking
  <2> QED BY <1>1, <1>3, <2>1, <2>2 DEF Sought
<1>7. WorkersKnow'
  <2> SUFFICES ASSUME NEW x \in Procs,
                      AtWork(proc'[x]) \/ proc'[x].pc \in {"copying", "simulate", "write_through"}
               PROVE  /\ AtWork(proc'[x]) => slot'[proc'[x].at].nr \in {proc'[x].nr, NoCluster}
                      /\ proc'[x].pc \in {"copying", "simulate", "write_through"}
                            => slot'[proc'[x].at].flag \in Loaded
    BY DEF WorkersKnow
  <2>1. proc'[x] = proc[x] /\ proc[x].at \in Slots /\ proc[x].pc \in Using
    <3>1. proc'[x].pc \in Using \ {"write_dirty"}
      BY DEF AtWork, Using, Places
    <3> QED BY <1>1, <1>5, <3>1, UserAtDoor
  <2>2. /\ AtWork(proc[x]) => slot[proc[x].at].nr \in {proc[x].nr, NoCluster}
        /\ proc[x].pc \in {"copying", "simulate", "write_through"}
              => slot[proc[x].at].flag \in Loaded
    BY DEF DataInv, WorkersKnow
  <2>3. slot'[proc[x].at].nr \in {slot[proc[x].at].nr, NoCluster}
    BY <2>1
  <2> QED BY <1>11, <2>1, <2>2, <2>3
<1>8. SlotsFit'
  <2> SUFFICES ASSUME NEW t \in Slots
               PROVE  Fits(slot'[t], FilledBy(Procs, t)', readonly, disk, promised)
    BY <1>1 DEF SlotsFit, Fits, FilledBy, Filling
  <2>1. FilledBy(Procs, t) => FilledBy(Procs, t)'
    <3> SUFFICES ASSUME NEW x \in Procs, Filling(proc[x]), proc[x].at = t
                 PROVE  proc'[x] = proc[x]
      BY DEF FilledBy, Filling
    <3>1. x # p /\ proc[x].pc \in Using
      BY DEF Filling, Using, Places
    <3> QED BY <1>2, <3>1
  <2>2. Fits(slot[t], FilledBy(Procs, t), readonly, disk, promised)
    BY DEF DataInv, SlotsFit
  <2> QED BY <2>1, <2>2 DEF Fits, Loaded
<1>9. DiskFits'
  <2> SUFFICES ASSUME NEW c \in Clusters, \A t \in Slots : slot'[t].nr # c
               PROVE  readonly \/ disk[c] \in promised[c]
    BY <1>1 DEF DiskFits
  <2>1. CASE \A t \in Slots : slot[t].nr # c
    BY <2>1 DEF DataInv, DiskFits
  <2>2. CASE \E t \in Slots : slot[t].nr = c
    <3>1. PICK t \in Slots : slot[t].nr = c /\ slot[t].flag # "DIRTY"
      BY <2>2
    <3>2. Fits(slot[t], FilledBy(Procs, t), readonly, disk, promised)
      BY DEF DataInv, SlotsFit
    <3> QED BY <1>1, <3>1, <3>2 DEF Fits
  <2> QED BY <2>1, <2>2
<1>10. ImagesFit'
  <2> SUFFICES ASSUME NEW x \in Procs, Writing(proc'[x])
               PROVE  readonly \/ proc'[x].image \in promised[slot'[proc'[x].at].nr]
    BY DEF ImagesFit
  <2>1. proc'[x].pc \in Using
    BY DEF Writing, Using, Places
  <2>2. CASE x = p
    BY <2>1, <2>2
  <2>3. CASE x # p
    <3>1. proc'[x] = proc[x] /\ Writing(proc[x]) /\ proc[x].at \in Slots
          /\ proc[x].pc \in Using
      BY <1>1, <1>2, <2>1, <2>3, UserAtDoor
    <3>2. slot[proc[x].at].flag = "DIRTY"
      BY <1>1, <3>1 DEF CacheInv, HoldersKnow, Writing
    <3>3. slot'[proc[x].at].nr = slot[proc[x].at].nr
      BY <3>1, <3>2
    <3> QED BY <3>1, <3>3 DEF DataInv, ImagesFit
  <2> QED BY <2>2, <2>3
<1> QED BY <1>4, <1>6, <1>7, <1>8, <1>9, <1>10 DEF DataInv

LEMMA CallData ==
  ASSUME IInv, DataInv, NEW p \in Procs, Call(p)
  PROVE  DataInv'
<1>1. PICK c \in setup.calls[p] :
        proc' = [proc EXCEPT ![p] = [Outside EXCEPT !.op = c.op, !.nr = c.nr,
                                       !.pc = Round(c.op)]]
  BY DEF Call
<1> DEFINE r == [Outside EXCEPT !.op = c.op, !.nr = c.nr,
                              !.pc = Round(c.op)]
<1>2. r.pc = Round(c.op) /\ r.op = c.op /\ r.nr = c.nr
  BY DEF Outside
<1>3. proc'[p] = r /\ WakesAtMost(p)
  BY <1>1 DEF IInv, CacheInv, TypedCache, WakesAtMost
<1> HIDE DEF r
<1>4. ~Filling(proc[p]) /\ UNCHANGED <<setup, slot, readonly, disk, promised>>
  BY DEF Call, Filling
<1>5. proc'[p].op \notin {"none", "sync", "free_idle"} => proc'[p].nr \in Nrs(setup, p)
  BY <1>2, <1>3 DEF Nrs
<1>6. proc'[p].pc \notin Using
  BY <1>2, <1>3, RoundPlaces DEF Using
<1> QED BY <1>3, <1>4, <1>5, <1>6, AwayData

LEMMA ReturnsData ==
  ASSUME IInv, DataInv, NEW p \in Procs, proc[p].pc \notin Using, Returns(p),
         UNCHANGED <<setup, slot, readonly, disk, promised>>
  PROVE  DataInv'
<1>1. proc'[p] = Outside /\ WakesAtMost(p)
  BY DEF Returns, IInv, CacheInv, TypedCache, WakesAtMost
<1>2. ~Filling(proc[p])
  BY DEF Filling, Using, Places
<1>3. proc'[p].pc \notin Using /\ proc'[p].op = "none"
  BY <1>1, OutsideTyped DEF Using
<1> QED BY <1>1, <1>2, <1>3, AwayData

LEMMA GetChGivesUpData ==
  ASSUME IInv, DataInv, NEW p \in Procs, GetChGivesUp(p)
  PROVE  DataInv'
BY ReturnsData DEF GetChGivesUp, Using

LEMMA DropData ==
  ASSUME IInv, DataInv, NEW p \in Procs, Drop(p)
  PROVE  DataInv'
<1> DEFINE q == proc[p]
           r == [q EXCEPT !.pc = Round(q.op), !.at = IF q.op = "sync" THEN @ ELSE NoSlot]
<1>1. /\ q.pc = "drop" /\ slot' = [slot EXCEPT ![q.at].count = @ - 1]
      /\ proc' = [proc EXCEPT ![p] = r]
      /\ UNCHANGED <<setup, readonly, disk, promised>>
  BY DEF Drop
<1>2. /\ proc \in [Procs -> ProcState] /\ slot \in [Slots -> SlotState]
  BY DEF IInv, CacheInv, TypedCache
<1>3. r.pc \in {"scan", "scan_idle", "get_ch"} /\ r.op = q.op /\ r.nr = q.nr
  BY <1>2, RoundPlaces DEF ProcState
<1>4. proc'[p] = r /\ \A x \in Procs \ {p} : proc'[x] = proc[x]
  BY <1>1, <1>2
<1> HIDE DEF r
<1>5. \A t \in Slots : /\ slot'[t].flag = slot[t].flag /\ slot'[t].nr = slot[t].nr
                        /\ slot'[t].data = slot[t].data
  BY <1>1, <1>2 DEF SlotState
<1>6. ~Filling(q) /\ proc'[p].pc \notin Using /\ WakesAtMost(p)
  BY <1>1, <1>3, <1>4 DEF Filling, Using, WakesAtMost
<1>7. proc'[p].op \notin {"none", "sync", "free_idle"} => proc'[p].nr \in Nrs(setup, p)
  BY <1>3, <1>4 DEF DataInv, OwnCalls
<1> QED BY <1>1, <1>5, <1>6, <1>7, AwayData

LEMMA ChFreeData ==
  ASSUME IInv, DataInv, NEW p \in Procs, ChFree(p)
  PROVE  DataInv'
<1> DEFINE s == proc[p].at
           back == [proc EXCEPT ![p] = Outside]
           v == IF slot[s].count = 1 /\ slot[s].flag \in {"DELETED", "NOT_MALLOCD"}
                THEN FreeSlot ELSE [slot[s] EXCEPT !.count = @ - 1]
<1>1. /\ proc[p].pc = "ch_free" /\ slot' = [slot EXCEPT ![s] = v]
      /\ proc' = Woken(back) \/ proc' = back
      /\ UNCHANGED <<setup, readonly, disk, promised>>
  <2>1. slot' = [slot EXCEPT ![s] = v]
    BY DEF ChFree
  <2>2. proc' = Woken(back) \/ proc' = back
    BY DEF ChFree
  <2> QED BY <2>1, <2>2 DEF ChFree
<1>2. /\ proc \in [Procs -> ProcState] /\ slot \in [Slots -> SlotState]
  BY DEF IInv, CacheInv, TypedCache
<1>3. back[p] = Outside /\ \A x \in Procs \ {p} : back[x] = proc[x]
  BY <1>2
<1>4. proc'[p] = Outside /\ WakesAtMost(p)
  <2> HIDE DEF back
  <2>1. CASE proc' = back
    BY <1>3, <2>1 DEF WakesAtMost
  <2>2. CASE proc' = Woken(back)
    <3>1. \A x \in Procs : proc'[x] = IF back[x].pc = "fullwait"
                                     THEN [back[x] EXCEPT !.pc = "get_ch"] ELSE back[x]
      BY <2>2 DEF Woken
    <3> QED BY <1>3, <3>1, OutsideTyped DEF WakesAtMost
  <2> QED BY <1>1, <2>1, <2>2
<1>5. \A t \in Slots :
        \/ /\ slot'[t].flag = slot[t].flag /\ slot'[t].nr = slot[t].nr
           /\ slot'[t].data = slot[t].data
        \/ /\ slot[t].flag \in {"DELETED", "NOT_MALLOCD"}
           /\ slot'[t].flag = "FREE" /\ slot'[t].nr = NoCluster
  <2> TAKE t \in Slots
  <2>1. slot'[t] = IF t = s THEN v ELSE slot[t]
    BY <1>1, <1>2
  <2> QED BY <1>2, <2>1 DEF SlotState, FreeSlot
<1>6. /\ ~Filling(proc[p]) /\ proc'[p].pc \notin Using /\ proc'[p].op = "none"
  BY <1>1, <1>4, OutsideTyped DEF Filling, Using
<1> QED BY <1>1, <1>4, <1>5, <1>6, AwayData

LEMMA AcquireData ==
  ASSUME IInv, DataInv, Undisturbed, Kept, NEW p \in Procs, Acquire(p)
  PROVE  DataInv'
<1> DEFINE q == proc[p]
<1>1. /\ q.pc = "lock_ch" /\ holder[q.at] = Nobody /\ Inside(p, q, slot)
      /\ UNCHANGED <<setup, readonly, disk, version, promised>>
      /\ CacheInv /\ q.pc \in Using
  BY DEF Acquire, IInv, Using, Places
<1>2. q \in ProcState /\ q.at \in Slots /\ slot \in [Slots -> SlotState] /\ TypedCache
  BY <1>1, UserAtDoor DEF CacheInv, TypedCache
<1>3. VolumeMoves(p, q.at) /\ Mid(p, q, slot, FALSE)
  <2>1. ~Filling(q)
    BY <1>1 DEF Filling
  <2> HIDE DEF q
  <2> QED BY <1>1, <1>2, <2>1, StandsMid DEF q
<1>4. AtEntrance(q, slot)
  <2>1. q.next \in {"check", "discard"} =>
        q.op \notin {"none", "sync", "free_idle"} /\ q.nr \in Clusters
    BY <1>1 DEF CacheInv, OpsPlaced
  <2>2. q.next = "discard" => Sought(slot, q.nr)
    BY <1>1 DEF DataInv, SeekersFind, Seeking
  <2>3. q.next \in {"dirty", "insist"} => slot[q.at].nr \in {q.nr, NoCluster}
    BY <1>1 DEF DataInv, WorkersKnow, AtWork
  <2> QED BY <2>1, <2>2, <2>3 DEF AtEntrance, Sought
<1>5. Ends(p, q.at)
  <2> HIDE DEF q
  <2> QED BY <1>1, <1>2, <1>3, <1>4, InsideDone
<1> QED BY <1>1, <1>2, <1>3, <1>5, StepData

LEMMA DoneReadingData ==
  ASSUME IInv, DataInv, Undisturbed, Kept, NEW p \in Procs, DoneReading(p)
  PROVE  DataInv'
<1> DEFINE q == proc[p]
<1>1. /\ q.pc = "in_use"
      /\ UNCHANGED <<setup, slot, readonly, disk, promised>>
      /\ CacheInv /\ q.pc \in Using
  BY DEF DoneReading, IInv, Using, Places
<1>2. q \in ProcState /\ q.at \in Slots /\ slot \in [Slots -> SlotState] /\ TypedCache
  BY <1>1, UserAtDoor DEF CacheInv, TypedCache
<1>3. VolumeMoves(p, q.at) /\ Mid(p, q, slot, FilledBy(Procs \ {p}, q.at))
  <2>1. ~Filling(q)
    BY <1>1 DEF Filling
  <2> HIDE DEF q
  <2> QED BY <1>1, <1>2, <2>1, StandsMid DEF q
<1>4. proc' = [proc EXCEPT ![p] = [q EXCEPT !.pc = "ch_free", !.next = q.next]]
      /\ q.next \in Nexts
  BY <1>2 DEF DoneReading, ProcState
<1>5. "ch_free" \in Using
  BY DEF Using, Places
<1>6. Ends(p, q.at)
  <2> HIDE DEF q
  <2>1. Done(p, q.at) /\ proc' = [proc EXCEPT ![p] = proc'[p]]
    BY <1>1, <1>2, <1>3, <1>4, <1>5, EndsDone
  <2> QED BY <2>1 DEF Ends
<1> QED BY <1>1, <1>2, <1>3, <1>6, StepData

LEMMA SyncScanData ==
  ASSUME IInv, DataInv, Undisturbed, Kept, NEW p \in Procs, SyncScan(p)
  PROVE  DataInv'
<1> DEFINE left == {s \in Slots : s > proc[p].at /\ slot[s].flag = "DIRTY"}
           s == CHOOSE s \in left : \A t \in left : s <= t
           q == [proc[p] EXCEPT !.at = s, !.next = "sync"]
           a == [slot EXCEPT ![s].count = @ + 1]
<1>1. /\ proc[p].pc = "scan" /\ UNCHANGED <<setup, readonly, disk, promised>>
      /\ CacheInv /\ proc[p].pc \notin Using
  BY DEF SyncScan, IInv, Using
<1>2. CASE left = {}
  BY <1>1, <1>2, ReturnsData DEF SyncScan
<1>3. CASE left # {}
  <2>1. LockCh(p, q, a)
    BY <1>3 DEF SyncScan
  <2>2. s \in Slots
    <3> HIDE DEF left
    <3>1. left \in SUBSET Nat /\ left \in SUBSET Slots
      BY DEF left, Slots
    <3> QED BY <1>3, <3>1, SmallestIsMember
  <2> HIDE DEF left, s
  <2>3. /\ q \in ProcState /\ q.at = s /\ q.op = proc[p].op /\ q.nr = proc[p].nr
        /\ q.next = "sync"
    BY <1>1, <2>2 DEF CacheInv, TypedCache, ProcState, Nexts
  <2>4. /\ a \in [Slots -> SlotState] /\ a[s].flag = slot[s].flag /\ a[s].nr = slot[s].nr
        /\ a[s].data = slot[s].data /\ \A t \in Slots \ {s} : a[t] = slot[t]
    BY <1>1, <2>2 DEF CacheInv, TypedCache, SlotState
  <2> HIDE DEF q, a
  <2>5. VolumeMoves(p, s) /\ Mid(p, q, a, FilledBy(Procs \ {p}, s))
    <3>1. ~Filling(proc[p])
      BY <1>1 DEF Filling
    <3> QED BY <1>1, <2>2, <2>3, <2>4, <3>1, StandsMid
  <2>6. Ends(p, s)
    <3>1. AtEntrance(q, a)
      BY <2>3 DEF AtEntrance
    <3> QED BY <1>1, <2>1, <2>3, <2>5, <3>1, LockChDone
  <2> QED BY <1>1, <2>2, <2>5, <2>6, StepData
<1> QED BY <1>2, <1>3

LEMMA GetChData ==
  ASSUME IInv, DataInv, Undisturbed, Sheltered, Kept, NEW p \in Procs, GetCh(p)
  PROVE  DataInv'
<1> DEFINE q == [proc[p] EXCEPT !.tries = @ + 1]
           Take(s, next) == [q EXCEPT !.at = s, !.next = next]
<1>1. /\ proc[p].pc = "get_ch" /\ q.tries <= MaxRetries + 1
      /\ UNCHANGED <<setup, readonly, disk, promised>> /\ CacheInv
      /\ proc[p].pc \notin Using /\ ~Filling(proc[p])
  BY DEF GetCh, IInv, Using, Filling
<1>2. proc[p] \in ProcState /\ proc \in [Procs -> ProcState] /\ slot \in [Slots -> SlotState]
  BY <1>1 DEF CacheInv, TypedCache
<1>3. /\ q \in ProcState /\ q.op = proc[p].op /\ q.nr = proc[p].nr
  BY <1>1, <1>2, CacheAssumption DEF ProcState, CacheAssumption
<1>4. Free(p) = FreeSlots /\ (Free(p) = {} => Oldest(p) = IdleSlots)
  BY <1>1, ChoiceIsFresh
<1>5. proc[p].op \notin {"none", "sync", "free_idle"} /\ q.nr \in Clusters /\ q.nr # NoCluster
  BY <1>1, <1>2, <1>3, CacheAssumption DEF CacheInv, OpsPlaced, CacheAssumption
<1>6. Found(q.nr) = {} => \A t \in Slots : slot[t].nr # q.nr
  <2> SUFFICES ASSUME Found(q.nr) = {}, NEW t \in Slots, slot[t].nr = q.nr
               PROVE  FALSE
    OBVIOUS
  <2>1. slot[t].flag = "FREE"
    BY DEF Found
  <2>2. slot[t].nr = NoCluster
    BY <2>1 DEF DataInv, SlotsFit, Fits
  <2> QED BY <1>5, <2>2
<1> HIDE DEF q
<1>8. CASE \E s \in Found(q.nr) : LockCh(p, Take(s, "check"), [slot EXCEPT ![s].count = @ + 1])
  <2>1. PICK s \in Found(q.nr) : LockCh(p, Take(s, "check"), [slot EXCEPT ![s].count = @ + 1])
    BY <1>8
  <2> DEFINE r == Take(s, "check")
             a == [slot EXCEPT ![s].count = @ + 1]
  <2>2. s \in Slots
    BY DEF Found
  <2>3. /\ r \in ProcState /\ r.at = s /\ r.op = proc[p].op /\ r.nr = proc[p].nr
        /\ r.next = "check"
    BY <1>3, <2>2 DEF ProcState, Nexts
  <2>4. LockCh(p, r, a)
    BY <2>1
  <2>5. /\ a \in [Slots -> SlotState] /\ a[s].flag = slot[s].flag /\ a[s].nr = slot[s].nr
        /\ a[s].data = slot[s].data /\ \A t \in Slots \ {s} : a[t] = slot[t]
    BY <1>2, <2>2 DEF SlotState
  <2> HIDE DEF r, a
  <2>6. VolumeMoves(p, s) /\ Mid(p, r, a, FilledBy(Procs \ {p}, s))
    BY <1>1, <2>2, <2>3, <2>5, StandsMid
  <2>7. Ends(p, s)
    <3>1. AtEntrance(r, a)
      BY <1>3, <1>5, <2>3 DEF AtEntrance
    <3> QED BY <1>1, <2>3, <2>4, <2>6, <3>1, LockChDone
  <2> QED BY <1>1, <2>2, <2>6, <2>7, StepData
<1>9. CASE /\ Found(q.nr) = {}
           /\ \E s \in Free(p), o \in IdleSlots \cup {q.oldest} :
             LockCh(p, [Take(s, "check") EXCEPT !.free = s, !.oldest = o],
                    [slot EXCEPT ![s].count = 1, ![s].flag = "NOT_MALLOCD",
                                 ![s].nr = q.nr, ![s].errors = 0])
  <2>1. PICK s \in Free(p), o \in IdleSlots \cup {q.oldest} :
             LockCh(p, [Take(s, "check") EXCEPT !.free = s, !.oldest = o],
                    [slot EXCEPT ![s].count = 1, ![s].flag = "NOT_MALLOCD",
                                 ![s].nr = q.nr, ![s].errors = 0])
    BY <1>9
  <2> DEFINE r == [Take(s, "check") EXCEPT !.free = s, !.oldest = o]
             v == [slot[s] EXCEPT !.count = 1, !.flag = "NOT_MALLOCD", !.nr = q.nr, !.errors = 0]
             a == [slot EXCEPT ![s] = v]
  <2>2. s \in Slots /\ slot[s].flag = "FREE" /\ slot[s].count = 0 /\ o \in Slots \cup {NoSlot}
    BY <1>1, <1>2, <1>3, <1>4 DEF FreeSlots, IdleSlots, CacheInv, SlotsKept, ProcState
  <2>3. /\ r \in ProcState /\ r.at = s /\ r.op = proc[p].op /\ r.nr = proc[p].nr
        /\ r.next = "check"
    BY <1>3, <2>2 DEF ProcState, Nexts
  <2>4. v \in SlotState /\ v.flag = "NOT_MALLOCD" /\ v.nr = q.nr
    <3>1. slot[s] \in SlotState /\ 0 \in 0 .. MaxErrors + 1 /\ q.nr \in Clusters \cup {NoCluster}
      BY <1>2, <1>5, <2>2, CacheAssumption DEF CacheAssumption
    <3> QED BY <3>1 DEF SlotState, Flags
  <2>5. LockCh(p, r, a)
    <3>1. a = [slot EXCEPT ![s].count = 1, ![s].flag = "NOT_MALLOCD",
                           ![s].nr = q.nr, ![s].errors = 0]
      BY <1>2, <2>2
    <3> HIDE DEF a
    <3> QED BY <2>1, <3>1
  <2> HIDE DEF r, v
  <2>6. a \in [Slots -> SlotState] /\ a[s] = v /\ \A t \in Slots \ {s} : a[t] = slot[t]
    BY <1>2, <2>2, <2>4
  <2> HIDE DEF a
  <2>7. holder[s] = Nobody
    BY <1>1, <2>2, CountZero
  <2>8. VolumeMoves(p, s)
    BY <1>1 DEF VolumeMoves
  <2>9. Moves(p, s, v)
    <3>1. slot[s].nr = NoCluster
      BY <2>2 DEF DataInv, SlotsFit, Fits
    <3> QED BY <1>3, <1>5, <1>6, <1>9, <2>4, <2>7, <3>1 DEF Moves
  <2>10. FitsNow(v, FilledBy(Procs \ {p}, s))
    <3>1. readonly \/ disk[q.nr] \in promised[q.nr]
      BY <1>5, <1>6, <1>9 DEF DataInv, DiskFits
    <3> QED BY <1>1, <1>5, <2>4, <3>1 DEF FitsNow, Fits, Loaded
  <2>11. Mid(p, r, a, FilledBy(Procs \ {p}, s))
    BY <2>2, <2>3, <2>6, <2>9, <2>10 DEF Mid
  <2>12. Ends(p, s)
    <3>1. AtEntrance(r, a)
      BY <1>3, <1>5, <2>3 DEF AtEntrance
    <3> QED BY <1>1, <2>3, <2>5, <2>8, <2>11, <3>1, LockChDone
  <2> QED BY <1>1, <2>2, <2>8, <2>12, StepData
<1>10. CASE /\ Found(q.nr) = {} /\ Free(p) = {}
            /\ \E s \in Oldest(p) :
                 LockCh(p, [Take(s, "discard") EXCEPT !.oldest = s], [slot EXCEPT ![s].count = 1])
  <2>1. PICK s \in IdleSlots :
          LockCh(p, [Take(s, "discard") EXCEPT !.oldest = s], [slot EXCEPT ![s].count = 1])
    BY <1>4, <1>10
  <2> DEFINE r == [Take(s, "discard") EXCEPT !.oldest = s]
             a == [slot EXCEPT ![s].count = 1]
  <2>2. s \in Slots /\ slot[s].count = 0 /\ holder[s] = Nobody
    BY <1>1, CountZero DEF IdleSlots
  <2>3. /\ r \in ProcState /\ r.at = s /\ r.op = proc[p].op /\ r.nr = proc[p].nr
        /\ r.next = "discard"
    BY <1>3, <2>2 DEF ProcState, Nexts
  <2>4. LockCh(p, r, a)
    BY <2>1
  <2>5. /\ a \in [Slots -> SlotState] /\ a[s].flag = slot[s].flag /\ a[s].nr = slot[s].nr
        /\ a[s].data = slot[s].data /\ \A t \in Slots \ {s} : a[t] = slot[t]
    BY <1>2, <2>2 DEF SlotState
  <2> HIDE DEF r, a
  <2>6. VolumeMoves(p, s) /\ Mid(p, r, a, FilledBy(Procs \ {p}, s))
    BY <1>1, <2>2, <2>3, <2>5, StandsMid
  <2>7. AtEntrance(r, a)
    <3>1. a[s].flag = "DIRTY" => ~WritesThrough(setup)
      BY <1>1, <2>2, <2>5 DEF CacheInv, PointersSound
    <3>2. \A t \in Slots : slot[t].nr # r.nr /\ a[t].nr # r.nr
      BY <1>3, <1>6, <1>10, <2>3, <2>5
    <3> QED BY <1>3, <1>5, <2>3, <3>1, <3>2 DEF AtEntrance
  <2>8. Ends(p, s)
    BY <1>1, <2>2, <2>3, <2>4, <2>6, <2>7, LockChDone
  <2> QED BY <1>1, <2>2, <2>6, <2>8, StepData
<1>11. CASE /\ proc' = [proc EXCEPT ![p] = [q EXCEPT !.pc = "fullwait"]]
            /\ UNCHANGED <<slot, holder>>
  <2> DEFINE r == [q EXCEPT !.pc = "fullwait"]
  <2>1. r.pc = "fullwait" /\ r.op = proc[p].op /\ r.nr = proc[p].nr
    BY <1>3 DEF ProcState
  <2>2. proc'[p] = r /\ WakesAtMost(p)
    BY <1>2, <1>11 DEF WakesAtMost
  <2> HIDE DEF r
  <2>3. proc'[p].pc \notin Using
    BY <2>1, <2>2 DEF Using
  <2>4. proc'[p].op \notin {"none", "sync", "free_idle"} => proc'[p].nr \in Nrs(setup, p)
    BY <2>1, <2>2 DEF DataInv, OwnCalls
  <2> QED BY <1>1, <1>11, <2>2, <2>3, <2>4, AwayData
<1> QED BY <1>8, <1>9, <1>10, <1>11 DEF GetCh, q

\* A process whose write is over, and what is made of the slot after an error.
Written(p) == [proc[p] EXCEPT !.image = 0]
Failed(p) == AfterError(WithError(slot, proc[p].at), proc[p].at)

\* The write of a dirty slot is over: the disk has what a reader may be given,
\* or the slot still has it, or the volume is read-only.
LEMMA WrittenMid ==
  ASSUME IInv, DataInv, NEW p \in Procs, Writing(proc[p]),
         WrittenOut(p, TRUE) \/ WrittenOut(p, FALSE),
         UNCHANGED setup, UNCHANGED promised
  PROVE  /\ proc[p].at \in Slots /\ Written(p).at = proc[p].at
         /\ Written(p).op = proc[p].op /\ Written(p).nr = proc[p].nr
         /\ holder[proc[p].at] = p /\ VolumeMoves(p, proc[p].at)
         /\ WrittenOut(p, TRUE) => Mid(p, Written(p), Clean(proc[p].at), FALSE)
         /\ WrittenOut(p, FALSE) => Mid(p, Written(p), Failed(p), FALSE)
<1> DEFINE s == proc[p].at
           q == Written(p)
           a == Failed(p)
           b == Clean(s)
<1>0. /\ s = proc[p].at /\ q = [proc[p] EXCEPT !.image = 0]
      /\ a = AfterError(WithError(slot, s), s) /\ b = Clean(s)
  BY DEF Written, Failed
<1> HIDE DEF s, q, a, b
<1>1. /\ proc[p].pc \in {"write_oldest", "write_dirty"} /\ proc[p].pc \in Using /\ CacheInv
      /\ proc[p].pc \in Holding
  BY DEF Writing, Using, Places, Holding, IInv
<1>2. /\ q \in ProcState /\ q.at = s /\ q.op = proc[p].op /\ holder[s] = p /\ s \in Slots
      /\ AtDoor(p, q, a) /\ AtDoor(p, q, b) /\ \A t \in Slots : b[t].nr = slot[t].nr
      /\ slot \in [Slots -> SlotState] /\ TypedCache
  BY <1>0, <1>1, WrittenAtDoor, UserAtDoor DEF CacheInv, TypedCache
<1>3. q.nr = proc[p].nr
  BY <1>2 DEF AtDoor
<1>4. slot[s].flag = "DIRTY" /\ slot[s].nr \in Clusters /\ NoCluster \notin Clusters
  <2>1. slot[s].flag = "DIRTY" /\ NoCluster \notin Clusters
    BY <1>0, <1>1, <1>2, CacheAssumption DEF CacheInv, HoldersKnow, CacheAssumption
  <2>2. slot[s].nr # NoCluster
    BY <1>2, <2>1 DEF DataInv, SlotsFit, Fits
  <2> QED BY <1>2, <2>1, <2>2 DEF SlotState
<1>5. readonly \/ (slot[s].data \in promised[slot[s].nr] /\ proc[p].image \in promised[slot[s].nr])
  <2>1. ~FilledBy(Procs, s)
    <3>1. ~Filling(proc[p]) /\ ~FilledBy(Procs \ {p}, s)
      BY <1>0, <1>1, <1>2, NotFilled DEF Filling
    <3> QED BY <3>1 DEF FilledBy
  <2>2. Fits(slot[s], FilledBy(Procs, s), readonly, disk, promised)
    BY <1>2 DEF DataInv, SlotsFit
  <2>3. readonly \/ proc[p].image \in promised[slot[s].nr]
    BY <1>0 DEF DataInv, ImagesFit
  <2> QED BY <1>4, <2>1, <2>2, <2>3 DEF Fits, Loaded
<1>6. VolumeMoves(p, s)
  BY <1>0, <1>2 DEF WrittenOut, VolumeMoves, IInv, TypedVolume
<1>7. ASSUME WrittenOut(p, TRUE)
      PROVE  Mid(p, q, b, FALSE)
  <2>1. /\ b \in [Slots -> SlotState] /\ b[s].flag = "VALID" /\ b[s].nr = slot[s].nr
        /\ b[s].data = slot[s].data /\ \A t \in Slots \ {s} : b[t] = slot[t]
    <3>1. b \in [Slots -> SlotState]
      BY <1>2 DEF AtDoor
    <3> QED BY <1>0, <1>2, <3>1 DEF Clean, SlotState
  <2>2. /\ readonly' = readonly
        /\ disk'[slot[s].nr] \in {proc[p].image, slot[s].data}
    BY <1>0, <1>4, <1>7 DEF WrittenOut, IInv, TypedVolume
  <2>3. FitsNow(b[s], FALSE)
    BY <1>4, <1>5, <2>1, <2>2 DEF FitsNow, Fits
  <2>4. Moves(p, s, b[s])
    BY <1>2, <2>1 DEF Moves
  <2> QED BY <1>2, <1>3, <2>1, <2>3, <2>4 DEF Mid
<1>8. ASSUME WrittenOut(p, FALSE)
      PROVE  Mid(p, q, a, FALSE)
  <2> DEFINE w == WithError(slot, s)
  <2>1. /\ w[s].flag = "DIRTY" /\ w[s].nr = slot[s].nr /\ w[s].data = slot[s].data
        /\ \A t \in Slots \ {s} : w[t] = slot[t]
    BY <1>0, <1>2, <1>4 DEF WithError, SlotState
  <2>2. a \in [Slots -> SlotState] /\ \A t \in Slots \ {s} : a[t] = slot[t]
    BY <1>2 DEF AtDoor
  <2>3. readonly' = (readonly \/ GivesUp(w, s)) /\ disk' = disk
    BY <1>0, <1>8 DEF WrittenOut
  <2>4. w[s] = [slot[s] EXCEPT !.errors = @ + 1]
    BY <1>0, <1>2 DEF WithError
  <2> HIDE DEF w
  <2>5. CASE GivesUp(w, s)
    <3>1. a = [w EXCEPT ![s].flag = "DELETED", ![s].nr = NoCluster]
      BY <1>0, <2>5 DEF AfterError, w
    <3>2. a[s] = [w[s] EXCEPT !.flag = "DELETED", !.nr = NoCluster]
      BY <1>2, <3>1 DEF w, WithError
    <3>3. a[s].flag = "DELETED" /\ a[s].nr = NoCluster
      BY <1>2, <2>4, <3>2 DEF SlotState
    <3>4. FitsNow(a[s], FALSE) /\ Moves(p, s, a[s])
      BY <1>2, <2>3, <2>5, <3>3 DEF FitsNow, Fits, Moves
    <3> QED BY <1>2, <1>3, <2>2, <3>4 DEF Mid
  <2>6. CASE ~GivesUp(w, s)
    <3>1. a = w
      BY <1>0, <2>6 DEF AfterError, w
    <3>2. FitsNow(a[s], FALSE) /\ Moves(p, s, a[s])
      BY <1>2, <1>4, <1>5, <2>1, <2>3, <2>6, <3>1 DEF FitsNow, Fits, Moves
    <3> QED BY <1>2, <1>3, <2>2, <3>2 DEF Mid
  <2> QED BY <2>5, <2>6
<1> QED BY <1>0, <1>2, <1>3, <1>6, <1>7, <1>8 DEF s, q, a, b

LEMMA WriteOldestData ==
  ASSUME IInv, DataInv, Undisturbed, Kept, NEW p \in Procs, WriteOldest(p)
  PROVE  DataInv'
<1> DEFINE s == proc[p].at
           q == Written(p)
           a == Failed(p)
           b == Clean(s)
<1>1. \/ WrittenOut(p, TRUE) /\ Discard(p, q, b)
      \/ WrittenOut(p, FALSE) /\ Leaves(p, q, a, "drop")
  BY DEF WriteOldest, Outcomes, Written, Failed
<1>2. /\ proc[p].pc = "write_oldest" /\ UNCHANGED setup /\ UNCHANGED promised
      /\ CacheInv /\ TypedCache
  BY DEF WriteOldest, IInv, CacheInv
<1>3. /\ s \in Slots /\ q.at = s /\ q.op = proc[p].op /\ q.nr = proc[p].nr /\ holder[s] = p
      /\ VolumeMoves(p, s)
      /\ WrittenOut(p, TRUE) => Mid(p, q, b, FALSE)
      /\ WrittenOut(p, FALSE) => Mid(p, q, a, FALSE)
  BY <1>1, <1>2, WrittenMid DEF Writing
<1>4. /\ q.op \notin {"none", "sync", "free_idle"} /\ q.nr \in Clusters
      /\ \A t \in Slots : slot[t].nr # q.nr
  <2>1. proc[p].op \notin {"none", "sync", "free_idle"} /\ proc[p].nr \in Clusters
    BY <1>2 DEF CacheInv, OpsPlaced
  <2>2. Sought(slot, proc[p].nr)
    BY <1>2 DEF DataInv, SeekersFind, Seeking
  <2> QED BY <1>3, <2>1, <2>2 DEF Sought
<1> HIDE DEF s, q, a, b
<1>5. Ends(p, s)
  <2>1. CASE WrittenOut(p, TRUE) /\ Discard(p, q, b)
    BY <1>2, <1>3, <1>4, <2>1, DiscardDone
  <2>2. CASE WrittenOut(p, FALSE) /\ Leaves(p, q, a, "drop")
    BY <1>2, <1>3, <2>2, LeavesDone
  <2> QED BY <1>1, <2>1, <2>2
<1> QED BY <1>2, <1>3, <1>5, StepData DEF s

LEMMA WriteDirtyData ==
  ASSUME IInv, DataInv, Undisturbed, Kept, NEW p \in Procs, WriteDirty(p)
  PROVE  DataInv'
<1> DEFINE s == proc[p].at
           q == Written(p)
           a == Failed(p)
           b == Clean(s)
<1>1. \/ WrittenOut(p, TRUE) /\ Leaves(p, q, b, "drop")
      \/ WrittenOut(p, FALSE) /\ Leaves(p, q, a, "drop")
  BY DEF WriteDirty, Outcomes, Written, Failed
<1>2. /\ proc[p].pc = "write_dirty" /\ UNCHANGED setup /\ UNCHANGED promised
      /\ CacheInv /\ TypedCache
  BY DEF WriteDirty, IInv, CacheInv
<1>3. /\ s \in Slots /\ q.at = s /\ VolumeMoves(p, s)
      /\ WrittenOut(p, TRUE) => Mid(p, q, b, FALSE)
      /\ WrittenOut(p, FALSE) => Mid(p, q, a, FALSE)
  BY <1>1, <1>2, WrittenMid DEF Writing
<1> HIDE DEF s, q, a, b
<1>5. Ends(p, s)
  BY <1>1, <1>2, <1>3, LeavesDone
<1> QED BY <1>2, <1>3, <1>5, StepData DEF s

LEMMA ReadClusterData ==
  ASSUME IInv, DataInv, Undisturbed, Kept, NEW p \in Procs, ReadCluster(p)
  PROVE  DataInv'
<1> DEFINE q == proc[p]
           s == q.at
           a == [slot EXCEPT ![s].flag = "VALID", ![s].data = disk[q.nr]]
<1>1. HasData(p, q, a) \/ Leaves(p, q, slot, "ch_free")
  BY DEF ReadCluster
<1>2. /\ q.pc = "read_cluster" /\ UNCHANGED <<setup, readonly, disk, promised>>
      /\ CacheInv /\ q.pc \in Using /\ q.pc \in Holding /\ TypedCache
  BY DEF ReadCluster, IInv, CacheInv, Using, Places, Holding
<1>3. /\ q \in ProcState /\ s \in Slots /\ holder[s] = p /\ slot \in [Slots -> SlotState]
  BY <1>2, UserAtDoor DEF TypedCache
<1>4. slot[s].flag = "INVALID" /\ slot[s].nr = q.nr /\ q.nr \in Clusters /\ q.nr # NoCluster
  <2>1. slot[s].flag = "INVALID" /\ slot[s].nr \in {q.nr, NoCluster}
    BY <1>2 DEF CacheInv, HoldersKnow, DataInv, WorkersKnow, AtWork
  <2>2. slot[s].nr # NoCluster
    BY <1>3, <2>1 DEF DataInv, SlotsFit, Fits
  <2> QED BY <1>3, <2>1, <2>2 DEF ProcState
<1>5. VolumeMoves(p, s) /\ Mid(p, q, slot, FALSE)
  <2>1. ~Filling(q)
    BY <1>2 DEF Filling
  <2>2. holder[s] \in {Nobody, p}
    BY <1>3
  <2> HIDE DEF q
  <2> QED BY <1>2, <1>3, <2>1, <2>2, StandsMid DEF q, s
<1>6. /\ a \in [Slots -> SlotState] /\ a[s].flag = "VALID" /\ a[s].nr = slot[s].nr
      /\ a[s].data = disk[q.nr] /\ \A t \in Slots \ {s} : a[t] = slot[t]
  <2> DEFINE d == disk[q.nr]
             v == [slot[s] EXCEPT !.flag = "VALID", !.data = d]
  <2>1. d \in 0 .. MaxVersion
    BY <1>4 DEF IInv, TypedVolume
  <2>2. slot[s] \in SlotState
    BY <1>3
  <2>3. a = [slot EXCEPT ![s] = v]
    BY <1>3
  <2> HIDE DEF d, a, q
  <2>4. v \in SlotState /\ v.flag = "VALID" /\ v.nr = slot[s].nr /\ v.data = d
    BY <2>1, <2>2 DEF SlotState, Flags, Loaded
  <2> HIDE DEF v
  <2> QED BY <1>3, <2>3, <2>4 DEF d
<1>7. Mid(p, q, a, FALSE)
  <2>1. readonly \/ disk[q.nr] \in promised[q.nr]
    BY <1>3, <1>4 DEF DataInv, SlotsFit, Fits
  <2> HIDE DEF a, q
  <2>2. FitsNow(a[s], FALSE)
    BY <1>2, <1>4, <1>6, <2>1 DEF FitsNow, Fits
  <2>3. Moves(p, s, a[s])
    BY <1>3, <1>6 DEF Moves
  <2> QED BY <1>3, <1>6, <2>2, <2>3 DEF Mid, q, s
<1> HIDE DEF a
<1>8. Ends(p, s)
  <2>1. CASE HasData(p, q, a)
    <3>1. a[q.at].nr = q.nr /\ a[q.at].flag \in Loaded
      BY <1>4, <1>6 DEF Loaded
    <3> HIDE DEF q
    <3> QED BY <1>2, <1>7, <2>1, <3>1, HasDataDone
  <2>2. CASE Leaves(p, q, slot, "ch_free")
    <3> HIDE DEF q
    <3> QED BY <1>2, <1>5, <2>2, LeavesDone
  <2> QED BY <1>1, <2>1, <2>2
<1> QED BY <1>2, <1>3, <1>5, <1>8, StepData

\* A process has new data for its slot: they are promised if the slot still has
\* the cluster, and nobody looks at them otherwise.
LEMMA NewDataMid ==
  ASSUME IInv, DataInv, NEW p \in Procs, NewData(p), UNCHANGED <<setup, readonly, disk>>,
         version' \in 0 .. MaxVersion,
         proc[p].pc \in Using, AtWork(proc[p]), NEW q, q \in ProcState,
         q.at = proc[p].at, q.op = proc[p].op, q.nr = proc[p].nr,
         NEW a, a = WithData(proc[p].at)
  PROVE  /\ VolumeMoves(p, q.at) /\ Mid(p, q, a, FALSE)
         /\ a[q.at].nr = slot[q.at].nr /\ slot[q.at].nr \in {q.nr, NoCluster}
<1> DEFINE s == proc[p].at
<1>1. /\ CacheInv /\ s \in Slots /\ slot \in [Slots -> SlotState] /\ q.at = s
  BY UserAtDoor DEF IInv, CacheInv, TypedCache
<1>2. /\ a \in [Slots -> SlotState] /\ a[s].flag = slot[s].flag /\ a[s].nr = slot[s].nr
      /\ a[s].data = version' /\ \A t \in Slots \ {s} : a[t] = slot[t]
  BY <1>1 DEF WithData, SlotState
<1>3. slot[s].nr \in {q.nr, NoCluster} /\ slot[s].nr \in Clusters \cup {NoCluster}
      /\ NoCluster \notin Clusters
  BY <1>1, CacheAssumption DEF DataInv, WorkersKnow, SlotState, CacheAssumption
<1>4. /\ readonly' = readonly /\ disk' = disk /\ promised \in [Clusters -> SUBSET (0 .. MaxVersion)]
      /\ promised' = IF slot[s].nr = q.nr THEN [promised EXCEPT ![q.nr] = @ \cup {version'}]
                                          ELSE promised
  BY DEF IInv, TypedVolume, NewData
<1>5. Fits(slot[s], FilledBy(Procs, s), readonly, disk, promised)
  BY <1>1 DEF DataInv, SlotsFit
<1> HIDE DEF s
<1>6. VolumeMoves(p, s)
  BY <1>3, <1>4 DEF VolumeMoves
<1>7. CASE slot[s].nr = NoCluster
  <2>1. slot[s].flag \notin Loaded
    BY <1>5, <1>7 DEF Fits, Loaded
  <2>2. FitsNow(a[s], FALSE)
    BY <1>2, <1>5, <1>7, <2>1 DEF FitsNow, Fits
  <2> QED BY <1>1, <1>2, <1>3, <1>6, <2>2 DEF Mid, Moves
<1>8. CASE slot[s].nr # NoCluster
  <2>1. slot[s].nr = q.nr /\ q.nr \in Clusters
    BY <1>3, <1>8
  <2>2. promised'[q.nr] = promised[q.nr] \cup {version'}
    BY <1>4, <2>1
  <2>3. FitsNow(a[s], FALSE)
    BY <1>2, <1>4, <1>5, <2>1, <2>2 DEF FitsNow, Fits
  <2> QED BY <1>1, <1>2, <1>3, <1>6, <2>3 DEF Mid, Moves
<1> QED BY <1>7, <1>8

LEMMA ChangeEntryData ==
  ASSUME IInv, DataInv, Undisturbed, Kept, NEW p \in Procs, ChangeEntry(p)
  PROVE  DataInv'
<1> DEFINE s == proc[p].at
           a == WithData(s)
<1>1. /\ proc[p].pc = "in_use" /\ NewData(p) /\ UNCHANGED <<setup, readonly, disk>>
      /\ CacheInv /\ TypedCache /\ proc[p].pc \in Using /\ AtWork(proc[p])
      /\ version' \in 0 .. MaxVersion
  BY DEF ChangeEntry, IInv, CacheInv, Using, Places, AtWork, Kept, TypedVolume
<1>2. proc[p] \in ProcState /\ s \in Slots
  BY <1>1, UserAtDoor
<1>3. CASE slot' = a /\ proc' = [proc EXCEPT ![p].pc = "ch_free"]
  <2> DEFINE q == proc[p]
  <2>1. /\ proc' = [proc EXCEPT ![p] = [q EXCEPT !.pc = "ch_free", !.next = q.next]]
        /\ q.next \in Nexts /\ "ch_free" \in Using /\ q.at = s
    BY <1>2, <1>3 DEF ProcState, Using, Places
  <2>2. VolumeMoves(p, s) /\ Mid(p, q, a, FALSE)
    BY <1>1, <1>2, NewDataMid
  <2> HIDE DEF q, a, s
  <2>3. Ends(p, s)
    <3>1. Done(p, q.at) /\ proc' = [proc EXCEPT ![p] = proc'[p]]
      BY <1>1, <1>3, <2>1, <2>2, EndsDone
    <3> QED BY <2>1, <3>1 DEF Ends
  <2> QED BY <1>1, <1>2, <2>2, <2>3, StepData DEF s
<1>4. CASE LockCh(p, [proc[p] EXCEPT !.next = "dirty"], a)
  <2> DEFINE q == [proc[p] EXCEPT !.next = "dirty"]
  <2>1. /\ q \in ProcState /\ q.at = s /\ q.op = proc[p].op /\ q.nr = proc[p].nr
        /\ q.next = "dirty"
    BY <1>2 DEF ProcState, Nexts
  <2>2. LockCh(p, q, a)
    BY <1>4
  <2> HIDE DEF q
  <2>3. /\ VolumeMoves(p, q.at) /\ Mid(p, q, a, FALSE)
        /\ a[q.at].nr = slot[q.at].nr /\ slot[q.at].nr \in {q.nr, NoCluster}
    BY <1>1, <2>1, NewDataMid
  <2> HIDE DEF a, s
  <2>4. Ends(p, q.at)
    <3>1. Mid(p, q, a, FilledBy(Procs \ {p}, q.at))
      BY <2>3, CertainMid
    <3>2. AtEntrance(q, a)
      BY <2>1, <2>3 DEF AtEntrance
    <3> QED BY <1>1, <2>1, <2>2, <2>3, <3>1, <3>2, LockChDone
  <2> QED BY <1>1, <1>2, <2>1, <2>3, <2>4, StepData DEF s
<1> QED BY <1>3, <1>4 DEF ChangeEntry

LEMMA CopyDataData ==
  ASSUME IInv, DataInv, Undisturbed, Kept, NEW p \in Procs, CopyData(p)
  PROVE  DataInv'
<1> DEFINE q == proc[p]
           a == WithData(q.at)
<1>1. /\ q.pc = "copying" /\ NewData(p) /\ UNCHANGED <<setup, readonly, disk>>
      /\ CacheInv /\ TypedCache /\ q.pc \in Using /\ q.pc \in Holding /\ AtWork(q)
      /\ version' \in 0 .. MaxVersion /\ DirtyLocked(p, q, a)
  BY DEF CopyData, IInv, CacheInv, Using, Places, Holding, AtWork, Kept, TypedVolume
<1>2. q \in ProcState /\ q.at \in Slots /\ holder[q.at] = p
  BY <1>1, UserAtDoor
<1>3. /\ VolumeMoves(p, q.at) /\ Mid(p, q, a, FALSE)
      /\ a[q.at].nr = slot[q.at].nr /\ slot[q.at].nr \in {q.nr, NoCluster}
  BY <1>1, <1>2, NewDataMid
<1> HIDE DEF a
<1>4. Ends(p, q.at)
  <2> HIDE DEF q
  <2> QED BY <1>1, <1>2, <1>3, DirtyDone
<1> QED BY <1>1, <1>2, <1>3, <1>4, StepData

\* A process that holds the lock of a slot with its data.
LEMMA HasItsData ==
  ASSUME IInv, DataInv, NEW p \in Procs, proc[p].pc \in {"simulate", "write_through"}
  PROVE  /\ proc[p] \in ProcState /\ proc[p].at \in Slots /\ holder[proc[p].at] = p
         /\ proc[p].pc \in Using /\ CacheInv /\ TypedCache /\ ~Filling(proc[p])
         /\ slot \in [Slots -> SlotState] /\ slot[proc[p].at].flag \in Loaded
         /\ slot[proc[p].at].nr \in Clusters /\ proc[p].nr = slot[proc[p].at].nr
         /\ NoCluster \notin Clusters
<1>1. /\ CacheInv /\ proc[p].pc \in Using /\ proc[p].pc \in Holding /\ AtWork(proc[p])
      /\ TypedCache /\ NoCluster \notin Clusters /\ ~Filling(proc[p])
  BY CacheAssumption DEF IInv, CacheInv, Using, Places, Holding, AtWork, CacheAssumption, Filling
<1>2. /\ proc[p] \in ProcState /\ proc[p].at \in Slots /\ holder[proc[p].at] = p
      /\ slot \in [Slots -> SlotState]
  BY <1>1, UserAtDoor DEF TypedCache
<1>3. slot[proc[p].at].flag \in Loaded /\ slot[proc[p].at].nr \in {proc[p].nr, NoCluster}
  BY <1>1 DEF DataInv, WorkersKnow
<1>4. slot[proc[p].at].nr # NoCluster
  BY <1>2, <1>3 DEF DataInv, SlotsFit, Fits, Loaded
<1> QED BY <1>1, <1>2, <1>3, <1>4 DEF SlotState

\* The data that a call has stored are what a reader is given from then on.
LEMMA PromiseMid ==
  ASSUME IInv, DataInv, NEW p \in Procs, proc[p].pc \in {"simulate", "write_through"},
         NEW a, a \in [Slots -> SlotState], \A t \in Slots \ {proc[p].at} : a[t] = slot[t],
         a[proc[p].at].nr = slot[proc[p].at].nr, a[proc[p].at].data = slot[proc[p].at].data,
         a[proc[p].at].flag \in Loaded, Promise(proc[p].at), readonly' = readonly,
         \/ a[proc[p].at].flag = "DIRTY" /\ disk' = disk
         \/ disk' = [disk EXCEPT ![slot[proc[p].at].nr] = slot[proc[p].at].data]
  PROVE  VolumeMoves(p, proc[p].at) /\ Mid(p, proc[p], a, FALSE)
<1> DEFINE s == proc[p].at
           c == slot[s].nr
<1>1. /\ proc[p] \in ProcState /\ s \in Slots /\ holder[s] = p /\ c \in Clusters
      /\ NoCluster \notin Clusters /\ c # NoCluster
  BY HasItsData
<1>2. /\ promised \in [Clusters -> SUBSET (0 .. MaxVersion)]
      /\ disk \in [Clusters -> 0 .. MaxVersion]
      /\ promised' = [promised EXCEPT ![c] = {slot[s].data}]
  BY <1>1 DEF IInv, TypedVolume, Promise
<1>3. promised'[c] = {slot[s].data} /\ (disk' # disk => disk'[c] = slot[s].data)
  BY <1>1, <1>2
<1>4. VolumeMoves(p, s)
  BY <1>1, <1>2 DEF VolumeMoves
<1>5. \/ a[s].flag = "DIRTY"
      \/ disk'[c] = slot[s].data
  BY <1>1, <1>2
<1>6. FitsNow(a[s], FALSE)
  BY <1>1, <1>3, <1>5 DEF FitsNow, Fits, Loaded
<1>7. Moves(p, s, a[s])
  BY <1>1 DEF Moves
<1> QED BY <1>1, <1>4, <1>6, <1>7 DEF Mid

LEMMA SimulateData ==
  ASSUME IInv, DataInv, Undisturbed, Kept, NEW p \in Procs, Simulate(p)
  PROVE  DataInv'
<1> DEFINE q == proc[p]
           s == q.at
           a == [slot EXCEPT ![s].flag = "DIRTY"]
<1>1. q.pc = "simulate" /\ UNCHANGED <<setup, readonly, disk, version>>
  BY DEF Simulate
<1>2. \/ Leaves(p, q, a, "ch_free") /\ Promise(s)
      \/ Keeps(p, q, slot, "write_through") /\ UNCHANGED promised
  BY DEF Simulate
<1>3. /\ q \in ProcState /\ s \in Slots /\ holder[s] = p /\ q.pc \in Using /\ CacheInv /\ TypedCache
      /\ slot \in [Slots -> SlotState] /\ slot[s].flag \in Loaded /\ q.nr = slot[s].nr
      /\ ~Filling(q)
  BY <1>1, HasItsData
<1>4. CASE Leaves(p, q, a, "ch_free") /\ Promise(s)
  <2>1. /\ a \in [Slots -> SlotState] /\ a[s].flag = "DIRTY" /\ a[s].nr = slot[s].nr
        /\ a[s].data = slot[s].data /\ \A t \in Slots \ {s} : a[t] = slot[t]
    BY <1>3 DEF SlotState, Flags, Loaded
  <2> HIDE DEF a
  <2>2. VolumeMoves(p, s) /\ Mid(p, q, a, FALSE)
    BY <1>1, <1>4, <2>1, PromiseMid DEF Loaded
  <2> HIDE DEF q
  <2>3. Ends(p, s)
    BY <1>3, <1>4, <2>2, LeavesDone
  <2> QED BY <1>1, <1>3, <2>2, <2>3, StepData DEF q
<1>5. CASE Keeps(p, q, slot, "write_through") /\ UNCHANGED promised
  <2>1. VolumeMoves(p, s) /\ Mid(p, q, slot, FALSE)
    <3>1. holder[q.at] \in {Nobody, p} /\ UNCHANGED <<readonly, disk, promised>>
      BY <1>1, <1>3, <1>5
    <3> HIDE DEF q
    <3> QED BY <1>3, <3>1, StandsMid DEF q
  <2> HIDE DEF q
  <2>2. Ends(p, s)
    BY <1>3, <1>5, <2>1, StopsDone DEF Keeps, Using, Places
  <2> QED BY <1>1, <1>3, <2>1, <2>2, StepData DEF q
<1> QED BY <1>2, <1>4, <1>5

LEMMA WriteThroughData ==
  ASSUME IInv, DataInv, Undisturbed, Kept, NEW p \in Procs, WriteThrough(p)
  PROVE  DataInv'
<1> DEFINE q == proc[p]
           s == q.at
<1>1. q.pc = "write_through" /\ UNCHANGED <<setup, readonly, version>>
  BY DEF WriteThrough
<1>2. \/ /\ disk' = [disk EXCEPT ![slot[s].nr] = slot[s].data]
         /\ Promise(s) /\ Leaves(p, q, slot, "ch_free")
      \/ /\ UNCHANGED <<disk, promised>>
         /\ Relock(p, q, "insist") \/ Leaves(p, q, slot, "ch_free")
  BY DEF WriteThrough
<1>3. /\ q \in ProcState /\ s \in Slots /\ holder[s] = p /\ q.pc \in Using /\ CacheInv /\ TypedCache
      /\ slot \in [Slots -> SlotState] /\ slot[s].flag \in Loaded /\ q.nr = slot[s].nr
      /\ ~Filling(q)
  BY <1>1, HasItsData
<1>4. /\ VolumeMoves(p, s) /\ Mid(p, q, slot, FALSE)
  <2>1. CASE disk' = [disk EXCEPT ![slot[s].nr] = slot[s].data] /\ Promise(s)
    BY <1>1, <1>3, <2>1, PromiseMid
  <2>2. CASE UNCHANGED <<disk, promised>>
    <3>1. holder[q.at] \in {Nobody, p} /\ UNCHANGED <<readonly, disk, promised>>
      BY <1>1, <1>3, <2>2
    <3> HIDE DEF q
    <3> QED BY <1>3, <3>1, StandsMid DEF q
  <2> QED BY <1>2, <2>1, <2>2
<1>5. CASE Leaves(p, q, slot, "ch_free")
  <2> HIDE DEF q
  <2>1. Ends(p, s)
    BY <1>3, <1>4, <1>5, LeavesDone
  <2> QED BY <1>1, <1>3, <1>4, <2>1, StepData DEF q
<1>6. CASE Relock(p, q, "insist")
  <2>1. /\ slot' = slot
        /\ proc' = [proc EXCEPT ![p] = [q EXCEPT !.pc = "lock_ch", !.next = "insist"]]
        /\ "lock_ch" \in Using /\ "insist" \in Nexts
    BY <1>6 DEF Relock, Using, Places, Nexts
  <2> HIDE DEF q
  <2>2. Ends(p, s)
    <3>1. Done(p, q.at) /\ proc' = [proc EXCEPT ![p] = proc'[p]]
      BY <1>3, <1>4, <2>1, EndsDone
    <3> QED BY <3>1 DEF Ends
  <2> QED BY <1>1, <1>3, <1>4, <2>2, StepData DEF q
<1> QED BY <1>2, <1>5, <1>6

-----------------------------------------------------------------------------
(* The theorems about the data.                                            *)

LEMMA InitData == Init => DataInv
<1> SUFFICES ASSUME Init
             PROVE  DataInv
  OBVIOUS
<1>1. /\ \A s \in Slots : slot[s].flag = "FREE" /\ slot[s].nr = NoCluster
      /\ \A p \in Procs : proc[p].pc = "idle" /\ proc[p].op = "none"
      /\ \A c \in Clusters : disk[c] \in promised[c]
  BY OutsideTyped DEF Init, FreeSlot
<1>2. OneCopy /\ OwnCalls /\ SeekersFind /\ WorkersKnow /\ DiskFits /\ ImagesFit
  BY <1>1 DEF OneCopy, OwnCalls, SeekersFind, WorkersKnow, DiskFits, ImagesFit, Seeking,
     AtWork, Writing
<1>3. SlotsFit
  BY <1>1 DEF SlotsFit, Fits, Loaded
<1> QED BY <1>2, <1>3 DEF DataInv

LEMMA FreeIdleData ==
  ASSUME IInv, DataInv, NEW p \in Procs, FreeIdle(p)
  PROVE  DataInv'
<1>1. /\ proc[p].pc = "scan_idle" /\ CacheInv /\ TypedCache
      /\ UNCHANGED <<setup, readonly, disk, promised>>
      /\ proc \in [Procs -> ProcState] /\ slot \in [Slots -> SlotState]
  BY DEF FreeIdle, IInv, CacheInv, TypedCache
<1>2. PICK gone, kept \in SUBSET Slots : FreedIdle(p, gone, kept)
  BY <1>1, FreeIdleStep
<1>3. WakesAtMost(p) /\ (\A t \in gone : slot[t].flag # "DIRTY" /\ slot[t].count = 0)
  BY <1>2 DEF FreedIdle
<1>4. ~Filling(proc[p])
  BY <1>1 DEF Filling
<1>5. \A t \in Slots :
        \/ /\ slot'[t].flag = slot[t].flag /\ slot'[t].nr = slot[t].nr
           /\ slot'[t].data = slot[t].data
        \/ t \in gone /\ slot'[t].flag = "FREE" /\ slot'[t].nr = NoCluster
  <2> TAKE t \in Slots
  <2>1. /\ slot[t] \in SlotState
        /\ slot'[t] = IF t \in gone THEN FreeSlot
                      ELSE IF t \in kept THEN [slot[t] EXCEPT !.count = 1] ELSE slot[t]
    BY <1>1, <1>2 DEF FreedIdle
  <2> QED BY <2>1 DEF SlotState, FreeSlot
<1>6. CASE proc'[p] = Outside
  <2>1. proc'[p].pc \notin Using /\ proc'[p].op = "none"
    BY <1>6, OutsideTyped DEF Using
  <2> QED BY <1>1, <1>3, <1>4, <1>5, <2>1, AwayData
<1>7. ASSUME NEW s \in Slots, kept = {s},
             proc'[p] = [proc[p] EXCEPT !.pc = "write_dirty", !.at = s, !.image = slot[s].data]
      PROVE  DataInv'
  <2>1. /\ proc'[p].pc = "write_dirty" /\ proc'[p].at = s /\ proc'[p].image = slot[s].data
        /\ proc'[p].op = proc[p].op /\ proc'[p].nr = proc[p].nr
    BY <1>1, <1>7 DEF ProcState
  <2>2. slot[s].flag = "DIRTY" /\ slot[s].count = 0
    BY <1>2, <1>7 DEF FreedIdle
  <2>3. slot'[s].nr = slot[s].nr
    BY <1>3, <1>5, <2>2
  <2>4. ~FilledBy(Procs, s)
    <3>1. \A x \in Procs : ~Uses(proc[x], s)
      BY <1>1, <2>2, CountZero
    <3> QED BY <3>1 DEF FilledBy, Filling, Uses
  <2>5. readonly \/ slot[s].data \in promised[slot[s].nr]
    BY <2>2, <2>4 DEF DataInv, SlotsFit, Fits, Loaded
  <2>6. proc'[p].op \notin {"none", "sync", "free_idle"} => proc'[p].nr \in Nrs(setup, p)
    BY <2>1 DEF DataInv, OwnCalls
  <2> QED BY <1>1, <1>3, <1>4, <1>5, <2>1, <2>3, <2>5, <2>6, AwayData
<1> QED BY <1>2, <1>6, <1>7 DEF FreedIdle

LEMMA NextData ==
  ASSUME IInv, DataInv, Sheltered, Undisturbed, Next
  PROVE  DataInv'
<1>1. Kept
  BY NextKeeps
<1>2. PICK p \in Procs : Call(p) \/ Step(p)
  BY DEF Next
<1> QED BY <1>1, <1>2, CallData, GetChData, GetChGivesUpData, AcquireData, WriteOldestData,
           ReadClusterData, DoneReadingData, ChangeEntryData, CopyDataData,
           SimulateData, WriteThroughData, DropData, ChFreeData, SyncScanData,
           FreeIdleData, WriteDirtyData DEF Step

LEMMA StutterData ==
  ASSUME DataInv, UNCHANGED vars
  PROVE  DataInv'
<1>1. UNCHANGED setup /\ UNCHANGED slot /\ UNCHANGED proc /\ UNCHANGED readonly
      /\ UNCHANGED disk /\ UNCHANGED promised /\ Slots' = Slots
  BY DEF vars, Slots
<1>2. OneCopy' /\ OwnCalls' /\ WorkersKnow' /\ DiskFits' /\ ImagesFit'
  BY <1>1 DEF DataInv, OneCopy, OwnCalls, WorkersKnow, DiskFits, ImagesFit, AtWork, Nrs, Writing
<1>3. SeekersFind'
  BY <1>1 DEF DataInv, SeekersFind, Seeking, Sought, WritesThrough
<1>4. SlotsFit'
  BY <1>1 DEF DataInv, SlotsFit, Fits, FilledBy, Filling
<1> QED BY <1>2, <1>3, <1>4 DEF DataInv

\* The invariant that the data need: what is in a slot, on the disk or on its
\* way there is what a reader may be given, and who has not found his cluster
\* when he begins to write out another's can be sure that it stays so.
THEOREM DataStaysSound == Spec => [](Sheltered /\ Undisturbed => IInv /\ DataInv)
<1> DEFINE I == Sheltered /\ Undisturbed => IInv /\ DataInv
<1>1. Init => I
  BY InitKeeps, InitData
<1>2. I /\ [Next]_vars => I'
  BY NextKeeps, NextData, StutterKeeps, StutterData, SetupKept DEF Kept
<1> QED BY <1>1, <1>2, PTL DEF Spec

\* A cluster is in one slot at most, however get_ch, its retries, the writes it
\* waits for and those of the sync are interleaved.
THEOREM CopiesStaySingle == Spec => []OneSlotPerCluster
<1>1. (Sheltered /\ Undisturbed => IInv /\ DataInv) => OneSlotPerCluster
  BY DEF DataInv, OneCopy, OneSlotPerCluster
<1> QED BY <1>1, DataStaysSound, PTL

\* As long as the volume is not read-only a reader of a cluster is given what
\* the last successful write stored, or what a write that has not returned is
\* storing, whether its data are in a slot, on the disk or on the way.
THEOREM NothingGetsLost == Spec => []NothingLost
<1>1. (Sheltered /\ Undisturbed => IInv /\ DataInv) => NothingLost
  <2> SUFFICES ASSUME IInv, DataInv, ~readonly, NEW c \in Clusters, ~BeingFilled(c)
               PROVE  Readable(c) \subseteq promised[c]
    BY DEF NothingLost
  <2>1. \A s \in Slots : Fits(slot[s], FilledBy(Procs, s), readonly, disk, promised)
    BY DEF DataInv, SlotsFit
  <2>2. NoCluster \notin Clusters
    BY CacheAssumption DEF CacheAssumption
  <2>3. ASSUME NEW s \in Slots, slot[s].nr = c, slot[s].flag \in Loaded
        PROVE  slot[s].data \in promised[c]
    <3>1. ~FilledBy(Procs, s)
      <4> SUFFICES ASSUME NEW p \in Procs, Filling(proc[p]), proc[p].at = s
                   PROVE  FALSE
        BY DEF FilledBy
      <4>1. proc[p].nr = c
        BY <2>2, <2>3 DEF DataInv, WorkersKnow, AtWork, Filling
      <4> QED BY <4>1 DEF BeingFilled, Filling
    <3> QED BY <2>1, <2>3, <3>1 DEF Fits
  <2>4. ASSUME \A s \in Slots : ~(slot[s].nr = c /\ slot[s].flag \in Loaded)
        PROVE  disk[c] \in promised[c]
    <3>1. CASE \A s \in Slots : slot[s].nr # c
      BY <3>1 DEF DataInv, DiskFits
    <3>2. CASE \E s \in Slots : slot[s].nr = c
      BY <2>1, <2>2, <2>4, <3>2 DEF Fits, Loaded
    <3> QED BY <3>1, <3>2
  <2> QED BY <2>3, <2>4 DEF Readable
<1> QED BY <1>1, DataStaysSound, PTL
=============================================================================
