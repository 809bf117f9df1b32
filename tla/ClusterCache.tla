---------------------------- MODULE ClusterCache ----------------------------
(***************************************************************************)
(* The cluster cache of the kernel driver (src/kernel/src/dblspace_        *)
(* virtual.c): a fixed array of slots with a flag, a user count, a         *)
(* semaphore and the data of one cluster; get_ch, ch_read, ch_dirty_locked,*)
(* ch_dirty_retry_until_success, ch_free, sync_cluster_cache and           *)
(* free_idle_ccache, as they are called by file_read, file_write, the      *)
(* virtual sectors that directories are read and written through, the      *)
(* ioctls and the daemon.                                                  *)
(*                                                                         *)
(* The kernels this driver is for do not preempt kernel code, so a step    *)
(* runs from one place where a process may sleep to the next: a slot's     *)
(* semaphore that another process holds, fullwait, a disk transfer, the    *)
(* copy from or to user memory, and lock_ccache, which every goto retry    *)
(* and every release of a slot passes through.  Nothing sleeps between     *)
(* lock_ccache and unlock_ccache, so that lock needs no variable.          *)
(***************************************************************************)
EXTENDS Integers, FiniteSets

CONSTANTS
  Procs,        \* the processes that call the driver
  Clusters,     \* the clusters of the volume, positive numbers
  Setups,       \* the cache sizes, options and callers to start from
  MaxErrors,    \* MAX_ERRORS, failed writes of a slot before it is given up
  MaxRetries,   \* MAX_RETRIES, rounds of get_ch before it returns NULL
  MaxVersion    \* bound: changes of data in a behaviour (guard of Call)

NoCluster == 0
NoSlot == 0
Nobody == "nobody"

Calls == [op : {"read", "write_part", "write_full", "entry"}, nr : Clusters]
           \cup [op : {"sync", "free_idle"}, nr : {NoCluster}]

ASSUME CacheAssumption ==
  /\ Clusters \subseteq Nat \ {NoCluster}
  /\ IsFiniteSet(Procs) /\ Nobody \notin Procs
  /\ MaxErrors \in Nat /\ MaxRetries \in Nat /\ MaxVersion \in Nat
  /\ \A u \in Setups :
        /\ u.size \in Nat \ {0}
        /\ u.writeBack \in BOOLEAN /\ u.faults \in BOOLEAN
        /\ u.calls \in [Procs -> SUBSET Calls]

VARIABLES
  setup,      \* CCACHESIZE, SP_USE_WRITE_BACK, whether the disk fails, who calls what
  slot,       \* ccache: flag, count, clusternr, errors and the version of the data
  holder,     \* who is inside the slot's c_sem
  proc,       \* each process: where it is and its local variables
  readonly,   \* MS_RDONLY, set when data had to be given up
  disk,       \* the version of each cluster on the disk
  version,    \* the last version any process has made
  promised    \* the versions of a cluster that a reader may be given
vars == <<setup, slot, holder, proc, readonly, disk, version, promised>>

Slots == 1 .. setup.size
Loaded == {"VALID", "DIRTY"}     \* DIRTY is C_DIRTY_NORMAL or C_DIRTY_UNCOMPR
Flags == Loaded \cup {"FREE", "DELETED", "INVALID", "NOT_MALLOCD"}
Places == {"idle", "get_ch", "fullwait", "lock_ch", "write_oldest", "read_cluster",
           "in_use", "copying", "simulate", "write_through", "drop", "ch_free",
           "scan", "scan_idle", "write_dirty"}

\* Whether an operation on memory or on the disk succeeds.
Outcomes == IF setup.faults THEN BOOLEAN ELSE {TRUE}

Changes == {"write_part", "write_full", "entry"}

\* A process outside the driver.  next is what it does with a slot's semaphore;
\* free and oldest are get_ch's pointers to a free slot and to one to discard.
Outside == [pc |-> "idle", op |-> "none", nr |-> NoCluster, at |-> NoSlot,
            next |-> "none", free |-> NoSlot, oldest |-> NoSlot, tries |-> 0, image |-> 0]

\* What else a free slot contains is never looked at.
FreeSlot == [flag |-> "FREE", count |-> 0, nr |-> NoCluster, errors |-> 0, data |-> 0]

Init ==
  /\ setup \in Setups
  /\ slot = [s \in Slots |-> FreeSlot]
  /\ holder = [s \in Slots |-> Nobody]
  /\ proc = [p \in Procs |-> Outside]
  /\ readonly = FALSE
  /\ disk = [c \in Clusters |-> 0]
  /\ version = 0
  /\ promised = [c \in Clusters |-> {0}]

-----------------------------------------------------------------------------
(* The slots.                                                              *)

\* A process that uses or waits for a slot and is counted in its c_count.
Uses(q, s) == q.at = s /\ q.pc \notin {"idle", "get_ch", "fullwait", "scan", "scan_idle"}

\* Mutant: a slot whose data another process is still reading is passed over.
FoundLoaded(nr) == {s \in Slots : /\ slot[s].flag # "FREE" /\ slot[s].nr = nr
                                  /\ slot[s].flag \in Loaded \/ slot[s].count = 0}

\* find_in_ccache: the slot of a cluster, the free slots, and the slots nobody
\* uses; which of those is the oldest is a matter of one-second timestamps.
Found(nr) == {s \in Slots : slot[s].flag # "FREE" /\ slot[s].nr = nr}
FreeSlots == {s \in Slots : slot[s].flag = "FREE"}
IdleSlots == {s \in Slots : slot[s].flag # "FREE" /\ slot[s].count = 0}

\* get_ch does not reset its two pointers before it searches again, and
\* find_in_ccache sets them only if it finds such a slot.
Free(p) == IF FreeSlots = {} THEN {proc[p].free} \ {NoSlot} ELSE FreeSlots
Oldest(p) == IF IdleSlots = {} THEN {proc[p].oldest} \ {NoSlot} ELSE IdleSlots

\* handle_error_cluster: the slot's data are given up after too many errors of
\* this slot or in too many slots.
ErrorSlots(sl) == {s \in Slots : sl[s].flag = "DIRTY" /\ sl[s].errors > 0}
MaxErrorClusters == setup.size \div 10 + 1
GivesUp(sl, s) == sl[s].errors > MaxErrors \/ Cardinality(ErrorSlots(sl)) > MaxErrorClusters
WithError(sl, s) == [sl EXCEPT ![s].errors = @ + 1]
\* Mutant: a slot that could not be written is taken for clean.
AfterErrorClean(sl, s) == [sl EXCEPT ![s].flag = "VALID"]
AfterError(sl, s) ==
  IF GivesUp(sl, s) THEN [sl EXCEPT ![s].flag = "DELETED", ![s].nr = NoCluster] ELSE sl

-----------------------------------------------------------------------------
(* What a process does from the moment it is inside a slot's semaphore to  *)
(* the next place where it can sleep.  sl is the array and q the process   *)
(* at that moment.                                                         *)

\* The step ends with the process at pc, holding the semaphore or not.
Stops(p, q, sl, pc, holds) ==
  /\ slot' = sl
  /\ holder' = [holder EXCEPT ![q.at] = IF holds THEN p ELSE Nobody]
  /\ proc' = [proc EXCEPT ![p] = [q EXCEPT !.pc = pc, !.next = "none"]]

Keeps(p, q, sl, pc) == Stops(p, q, sl, pc, TRUE)
Leaves(p, q, sl, pc) == Stops(p, q, sl, pc, FALSE)

\* ch_read has the data: a writer keeps the lock.
HasData(p, q, sl) ==
  IF q.op \in {"read", "entry"} THEN Leaves(p, q, sl, "in_use")
                                ELSE Keeps(p, q, sl, "copying")

\* get_ch has returned: its local variables are gone.
GotCh(q) == [q EXCEPT !.free = NoSlot, !.oldest = NoSlot, !.tries = 0]

\* ch_read, once get_ch has returned the locked slot: memory, then the data,
\* unless they will all be overwritten.
Granted(p, q0, sl) ==
  LET s == q0.at
      q == GotCh(q0) IN
  \/ /\ sl[s].flag = "NOT_MALLOCD" /\ setup.faults
     /\ Leaves(p, q, sl, "ch_free")
  \/ /\ sl[s].flag \in {"NOT_MALLOCD", "INVALID"}
     /\ IF q.op = "write_full" THEN HasData(p, q, [sl EXCEPT ![s].flag = "VALID"])
                               ELSE Keeps(p, q, [sl EXCEPT ![s].flag = "INVALID"], "read_cluster")
  \/ /\ sl[s].flag \notin {"NOT_MALLOCD", "INVALID"}
     /\ HasData(p, q, sl)

\* Mutant: the slot is taken without looking at its users again.
DiscardAnyway(p, q, sl) ==
  LET s == q.at IN
  IF sl[s].flag \in {"VALID", "INVALID", "NOT_MALLOCD"}
  THEN Granted(p, q, [sl EXCEPT ![s].flag = "NOT_MALLOCD", ![s].nr = q.nr, ![s].errors = 0,
                             ![s].data = 0])
  ELSE Leaves(p, q, sl, "drop")

\* get_ch, the slot to discard: it is taken if nobody else has come to use it.
Discard(p, q, sl) ==
  LET s == q.at IN
  IF sl[s].flag \in {"VALID", "INVALID", "NOT_MALLOCD"} /\ sl[s].count <= 1
  THEN Granted(p, q, [sl EXCEPT ![s].flag = "NOT_MALLOCD", ![s].nr = q.nr, ![s].errors = 0,
                             ![s].data = 0])
  ELSE Leaves(p, q, sl, "drop")

\* ch_dirty_locked: junk is not written, and a read-only volume refuses.
DirtyLocked(p, q, sl) ==
  IF readonly \/ sl[q.at].flag \notin Loaded
  THEN Leaves(p, q, sl, "ch_free")
  ELSE Keeps(p, q, sl, IF setup.writeBack THEN "simulate" ELSE "write_through")

\* ch_dirty_retry_until_success: whatever happens, it is to be written later.
Insist(p, q, sl) ==
  Leaves(p, q, [sl EXCEPT ![q.at].flag = IF @ \in Loaded THEN "DIRTY" ELSE @], "ch_free")

\* get_ch, the slot of the cluster or a free one: it may have been given up or
\* given away while the process waited for its semaphore.
Check(p, q, sl) ==
  IF sl[q.at].nr = q.nr THEN Granted(p, q, sl) ELSE Leaves(p, q, sl, "drop")

\* A dirty slot is written before it is discarded, by sync_cluster_cache and by
\* free_idle_ccache.
WriteOut(p, q, sl, pc) == Keeps(p, [q EXCEPT !.image = sl[q.at].data], sl, pc)

Inside(p, q, sl) ==
  \/ q.next = "check" /\ Check(p, q, sl)
  \/ /\ q.next = "discard"
     /\ IF sl[q.at].flag = "DIRTY" THEN WriteOut(p, q, sl, "write_oldest")
                                   ELSE Discard(p, q, sl)
  \/ q.next = "dirty" /\ DirtyLocked(p, q, sl)
  \/ q.next = "insist" /\ Insist(p, q, sl)
  \/ /\ q.next = "sync"
     /\ IF sl[q.at].flag = "DIRTY" THEN WriteOut(p, q, sl, "write_dirty")
                                   ELSE Leaves(p, q, sl, "drop")

\* lock_ch: at once if the semaphore is up, otherwise the process waits.
LockCh(p, q, sl) ==
  IF holder[q.at] = Nobody
  THEN Inside(p, q, sl)
  ELSE /\ slot' = sl
       /\ proc' = [proc EXCEPT ![p] = [q EXCEPT !.pc = "lock_ch"]]
       /\ UNCHANGED holder

\* unlock_ch and lock_ch again: those who wait for the semaphore may be first.
Relock(p, q, next) ==
  /\ holder' = [holder EXCEPT ![q.at] = Nobody]
  /\ proc' = [proc EXCEPT ![p] = [q EXCEPT !.pc = "lock_ch", !.next = next]]
  /\ UNCHANGED slot

-----------------------------------------------------------------------------
(* The steps.                                                              *)

\* Where a call begins, and begins again when it has let go of a slot: a round
\* of get_ch, or a look at the slots.
Round(op) == CASE op = "sync" -> "scan"
               [] op = "free_idle" -> "scan_idle"
               [] OTHER -> "get_ch"

\* The calls of the driver: file_read or a virtual sector that is read,
\* file_write of a part or the whole of a cluster, a virtual sector that is
\* changed, the ioctl that syncs the cache, and the release of idle slots.  The
\* daemon and an ioctl call free_idle_cache for that, which this repository
\* does not define: it is taken to call free_idle_ccache, as nothing else does
\* and as the daemon's comment on it ("and clusters") says.
Call(p) ==
  /\ proc[p].pc = "idle"
  /\ \E c \in setup.calls[p] :
     /\ c.op \in Changes =>
          version + Cardinality({r \in Procs : proc[r].op \in Changes}) < MaxVersion
     /\ proc' = [proc EXCEPT ![p] = [Outside EXCEPT !.op = c.op, !.nr = c.nr, !.pc = Round(c.op)]]
  /\ UNCHANGED <<setup, slot, holder, readonly, disk, version, promised>>

Returns(p) == proc' = [proc EXCEPT ![p] = Outside]

\* One round of get_ch up to the semaphore of the slot it has chosen.
GetCh(p) ==
  LET q == [proc[p] EXCEPT !.tries = @ + 1]
      Take(s, next) == [q EXCEPT !.at = s, !.next = next]
  IN
  /\ proc[p].pc = "get_ch"
  /\ q.tries <= MaxRetries + 1
  /\ \/ \E s \in Found(q.nr) :
          LockCh(p, Take(s, "check"), [slot EXCEPT ![s].count = @ + 1])
     \/ /\ Found(q.nr) = {}
        /\ \E s \in Free(p), o \in IdleSlots \cup {q.oldest} :
             LockCh(p, [Take(s, "check") EXCEPT !.free = s, !.oldest = o],
                    [slot EXCEPT ![s].count = 1, ![s].flag = "NOT_MALLOCD",
                                 ![s].nr = q.nr, ![s].errors = 0])
     \/ /\ Found(q.nr) = {} /\ Free(p) = {}
        /\ \E s \in Oldest(p) :
             LockCh(p, [Take(s, "discard") EXCEPT !.oldest = s], [slot EXCEPT ![s].count = 1])
     \/ /\ Found(q.nr) = {} /\ Free(p) = {} /\ Oldest(p) = {}
        /\ proc' = [proc EXCEPT ![p] = [q EXCEPT !.pc = "fullwait"]]
        /\ UNCHANGED <<slot, holder>>
  /\ UNCHANGED <<setup, readonly, disk, version, promised>>

\* get_ch breaks the loop: the call fails with -EIO.
GetChGivesUp(p) ==
  /\ proc[p].pc = "get_ch"
  /\ proc[p].tries > MaxRetries
  /\ Returns(p)
  /\ UNCHANGED <<setup, slot, holder, readonly, disk, version, promised>>

\* down returns: one of the processes that wait for the semaphore gets it.
Acquire(p) ==
  /\ proc[p].pc = "lock_ch"
  /\ holder[proc[p].at] = Nobody
  /\ Inside(p, proc[p], slot)
  /\ UNCHANGED <<setup, readonly, disk, version, promised>>

\* The write of a dirty slot ends; directory data may have been changed in
\* memory while it was going on.
WrittenOut(p, ok) ==
  LET s == proc[p].at IN
  IF ok
  THEN /\ \E v \in {proc[p].image, slot[s].data} :
            disk' = [disk EXCEPT ![slot[s].nr] = v]
       /\ UNCHANGED readonly
  ELSE /\ readonly' = (readonly \/ GivesUp(WithError(slot, s), s))
       /\ UNCHANGED disk
Clean(s) == [slot EXCEPT ![s].flag = "VALID", ![s].errors = 0]

\* get_ch, after dmsdos_write_cluster of the slot to discard.
WriteOldest(p) ==
  LET s == proc[p].at
      q == [proc[p] EXCEPT !.image = 0] IN
  /\ proc[p].pc = "write_oldest"
  /\ \E ok \in Outcomes :
       /\ WrittenOut(p, ok)
       /\ IF ok THEN Discard(p, q, Clean(s))
                ELSE Leaves(p, q, AfterError(WithError(slot, s), s), "drop")
  /\ UNCHANGED <<setup, version, promised>>

\* ch_read, after dmsdos_read_cluster.
ReadCluster(p) ==
  LET s == proc[p].at IN
  /\ proc[p].pc = "read_cluster"
  /\ \E ok \in Outcomes :
       IF ok THEN HasData(p, proc[p], [slot EXCEPT ![s].flag = "VALID",
                                                   ![s].data = disk[proc[p].nr]])
             ELSE Leaves(p, proc[p], slot, "ch_free")
  /\ UNCHANGED <<setup, readonly, disk, version, promised>>

\* New data in the slot, by file_write or in a virtual sector; until the call
\* has succeeded a reader may be given the old ones or the new ones.
NewData(p) ==
  /\ version' = version + 1
  /\ promised' = IF slot[proc[p].at].nr = proc[p].nr
                 THEN [promised EXCEPT ![proc[p].nr] = @ \cup {version'}] ELSE promised
WithData(s) == [slot EXCEPT ![s].data = version']

\* file_read has copied the data, or fails to, and a directory sector that is
\* only looked at is released.
DoneReading(p) ==
  /\ proc[p].pc = "in_use" /\ proc[p].op = "read"
  /\ proc' = [proc EXCEPT ![p].pc = "ch_free"]
  /\ UNCHANGED <<setup, slot, holder, readonly, disk, version, promised>>

\* A directory sector is changed in the slot, without the lock, and handed to
\* dblspace_mark_buffer_dirty.
ChangeEntry(p) ==
  LET s == proc[p].at IN
  /\ proc[p].pc = "in_use" /\ proc[p].op = "entry"
  /\ NewData(p)
  /\ IF readonly
     THEN /\ slot' = WithData(s)
          /\ proc' = [proc EXCEPT ![p].pc = "ch_free"]
          /\ UNCHANGED holder
     ELSE LockCh(p, [proc[p] EXCEPT !.next = "dirty"], WithData(s))
  /\ UNCHANGED <<setup, readonly, disk>>

\* file_write has copied the data and calls ch_dirty_locked.
CopyData(p) ==
  /\ proc[p].pc = "copying"
  /\ NewData(p)
  /\ DirtyLocked(p, proc[p], WithData(proc[p].at))
  /\ UNCHANGED <<setup, readonly, disk>>

\* The call returns success: from now on its data are what a reader is given.
Promise(s) ==
  promised' = IF slot[s].nr = NoCluster THEN promised
              ELSE [promised EXCEPT ![slot[s].nr] = {slot[s].data}]

\* ch_dirty_locked, after the simulated write: the real one is delayed if it
\* is expected to succeed.
Simulate(p) ==
  LET s == proc[p].at IN
  /\ proc[p].pc = "simulate"
  /\ \E ok \in Outcomes :
       IF ok THEN /\ Leaves(p, proc[p], [slot EXCEPT ![s].flag = "DIRTY"], "ch_free")
                  /\ Promise(s)
             ELSE /\ Keeps(p, proc[p], slot, "write_through")
                  /\ UNCHANGED promised
  /\ UNCHANGED <<setup, readonly, disk, version>>

\* ch_dirty_locked, after dmsdos_write_cluster; file_write reports a failure,
\* dblspace_mark_buffer_dirty insists.
WriteThrough(p) ==
  LET s == proc[p].at IN
  /\ proc[p].pc = "write_through"
  /\ \E ok \in Outcomes :
       IF ok THEN /\ disk' = [disk EXCEPT ![slot[s].nr] = slot[s].data]
                  /\ Promise(s)
                  /\ Leaves(p, proc[p], slot, "ch_free")
             ELSE /\ UNCHANGED <<disk, promised>>
                  /\ IF proc[p].op = "entry"
                     THEN Relock(p, proc[p], "insist")
                     ELSE Leaves(p, proc[p], slot, "ch_free")
  /\ UNCHANGED <<setup, readonly, version>>

\* Mutant: the slot is left without being uncounted.
DropCounted(p) ==
  /\ proc[p].pc = "drop"
  /\ proc' = [proc EXCEPT ![p].pc = Round(proc[p].op)]
  /\ UNCHANGED <<setup, slot, holder, readonly, disk, version, promised>>

\* get_ch, sync_cluster_cache and free_idle_ccache let go of a slot, and wake
\* nobody; the sync goes on with the next slot, the others start again.
Drop(p) ==
  /\ proc[p].pc = "drop"
  /\ slot' = [slot EXCEPT ![proc[p].at].count = @ - 1]
  /\ proc' = [proc EXCEPT ![p].pc = Round(proc[p].op),
                          ![p].at = IF proc[p].op = "sync" THEN @ ELSE NoSlot]
  /\ UNCHANGED <<setup, holder, readonly, disk, version, promised>>


\* wake_up(&fullwait).
Woken(pr) == [r \in Procs |-> IF pr[r].pc = "fullwait"
                              THEN [pr[r] EXCEPT !.pc = "get_ch"] ELSE pr[r]]

\* ch_free: the last user throws away a slot without data and wakes those who
\* wait for one.
ChFree(p) ==
  LET s == proc[p].at
      back == [proc EXCEPT ![p] = Outside]
      last == slot[s].count = 1 IN
  /\ proc[p].pc = "ch_free"
  /\ slot' = [slot EXCEPT ![s] = IF last /\ @.flag \in {"DELETED", "NOT_MALLOCD"}
                                  THEN FreeSlot ELSE [slot[s] EXCEPT !.count = @ - 1]]
  /\ proc' = IF last THEN Woken(back) ELSE back
  /\ UNCHANGED <<setup, holder, readonly, disk, version, promised>>

\* sync_cluster_cache goes on to the next dirty slot.
SyncScan(p) ==
  LET left == {s \in Slots : s > proc[p].at /\ slot[s].flag = "DIRTY"} IN
  /\ proc[p].pc = "scan"
  /\ IF left = {}
     THEN Returns(p) /\ UNCHANGED <<slot, holder>>
     ELSE LET s == CHOOSE s \in left : \A t \in left : s <= t
          IN LockCh(p, [proc[p] EXCEPT !.at = s, !.next = "sync"],
                    [slot EXCEPT ![s].count = @ + 1])
  /\ UNCHANGED <<setup, readonly, disk, version, promised>>

\* free_idle_ccache passes over the slots once: those nobody has used for long
\* are thrown away, up to one that is dirty, which is written first.  Nobody
\* locks a slot he does not use, so that lock_ch does not wait.  The code
\* touches a slot it could not write so that it is not old; the age in seconds
\* is left open here.
ThrownAway(gone) == [s \in Slots |-> IF s \in gone THEN FreeSlot ELSE slot[s]]
FreeIdle(p) ==
  /\ proc[p].pc = "scan_idle"
  /\ \E old \in SUBSET IdleSlots :
       LET dirty == {s \in old : slot[s].flag = "DIRTY"} IN
       \/ /\ dirty = {}
          /\ slot' = ThrownAway(old)
          /\ proc' = Woken([proc EXCEPT ![p] = Outside])
          /\ UNCHANGED holder
       \/ \E s \in dirty :
          LET gone == {t \in old : t < s}
              writing == [proc EXCEPT ![p].pc = "write_dirty", ![p].at = s,
                                      ![p].image = slot[s].data] IN
          /\ gone \cap dirty = {}
          /\ slot' = [ThrownAway(gone) EXCEPT ![s].count = 1]
          /\ holder' = [holder EXCEPT ![s] = p]
          /\ proc' = IF gone = {} THEN writing ELSE Woken(writing)
  /\ UNCHANGED <<setup, readonly, disk, version, promised>>

\* sync_cluster_cache and free_idle_ccache, after dmsdos_write_cluster.
WriteDirty(p) ==
  LET s == proc[p].at
      q == [proc[p] EXCEPT !.image = 0] IN
  /\ proc[p].pc = "write_dirty"
  /\ \E ok \in Outcomes :
       /\ WrittenOut(p, ok)
       /\ Leaves(p, q, IF ok THEN Clean(s) ELSE AfterError(WithError(slot, s), s), "drop")
  /\ UNCHANGED <<setup, version, promised>>

\* What a process does without being called again: all of it but Call.
Step(p) ==
  \/ GetCh(p) \/ GetChGivesUp(p) \/ Acquire(p)
  \/ WriteOldest(p) \/ ReadCluster(p)
  \/ DoneReading(p) \/ ChangeEntry(p) \/ CopyData(p)
  \/ Simulate(p) \/ WriteThrough(p)
  \/ Drop(p) \/ ChFree(p) \/ SyncScan(p) \/ FreeIdle(p) \/ WriteDirty(p)

Next == \E p \in Procs : Call(p) \/ Step(p)

Spec == Init /\ [][Next]_vars

\* The scheduler runs every process that can run and every disk transfer ends.
\* down competes for the semaphore each time it is woken: it is assumed not to
\* be overtaken for ever.  A timer wakes the daemon again and again, and each
\* time it releases idle slots; nobody else has to call again.
Daemon(p) == setup.calls[p] = [op : {"free_idle"}, nr : {NoCluster}]
Fairness == \A p \in Procs : /\ WF_vars(Step(p)) /\ SF_vars(Acquire(p))
                             /\ WF_vars(Daemon(p) /\ Call(p))
FairSpec == Spec /\ Fairness

-----------------------------------------------------------------------------
(* Properties.                                                             *)

\* The processes that call the driver in a setup, and the clusters they work on.
Callers(u) == {p \in Procs : u.calls[p] # {}}
Nrs(u, p) == {c.nr : c \in {d \in u.calls[p] : d.op \notin {"sync", "free_idle"}}}

\* No slot ever becomes dirty.
WritesThrough(u) ==
  /\ ~u.writeBack
  /\ u.faults => \A p \in Procs : \A c \in u.calls[p] : c.op # "entry"

\* There is a slot for every process.
Roomy(u) == Cardinality(Callers(u)) <= u.size

\* No two processes work on the same cluster.
Apart(u) == \A p, q \in Procs : p # q => Nrs(u, p) \cap Nrs(u, q) = {}

\* With delayed writes and fewer slots than processes get_ch may come back, with
\* the pointer to the slot it wanted to discard a round before, to a slot that
\* others use now.
Sheltered == WritesThrough(setup) \/ Roomy(setup)

\* With delayed writes and shared clusters a cluster may be loaded into another
\* slot while get_ch writes out a slot for it (WritesInOrder fails).
Undisturbed == WritesThrough(setup) \/ Apart(setup)

\* The array, the semaphores and the processes have the values the code gives
\* them, and who is inside a slot's semaphore is a user of the slot.
TypeOK ==
  /\ setup \in Setups
  /\ slot \in [Slots -> [flag : Flags, count : 0 .. Cardinality(Procs),
                         nr : Clusters \cup {NoCluster}, errors : 0 .. MaxErrors + 1,
                         data : 0 .. MaxVersion]]
  /\ holder \in [Slots -> Procs \cup {Nobody}]
  /\ \A p \in Procs : /\ proc[p].pc \in Places
                      /\ proc[p].at \in Slots \cup {NoSlot}
                      /\ proc[p].tries \in 0 .. MaxRetries + 1
  /\ \A s \in Slots : holder[s] # Nobody => Uses(proc[holder[s]], s)
  /\ version \in 0 .. MaxVersion
  /\ disk \in [Clusters -> 0 .. MaxVersion]
  /\ promised \in [Clusters -> SUBSET (0 .. MaxVersion)]

\* c_count is the number of processes that use a slot or wait for it, over all
\* the rounds of get_ch, the failures of ch_read and the slots that the sync
\* holds, so that no slot is discarded under a user and none is lost.
CountIsUsers ==
  \A s \in Slots : slot[s].count = Cardinality({p \in Procs : Uses(proc[p], s)})

\* Unless get_ch comes back to a slot that others use, the slots are typed and
\* counted as their users are.
SlotsSound == Sheltered => TypeOK /\ CountIsUsers

\* A cluster is in one slot only: two processes that work on a cluster share
\* its data and its lock, also while one of them still reads it and the other
\* looks for it.
OneSlotPerCluster ==
  Sheltered /\ Undisturbed =>
    \A s, t \in Slots : /\ slot[s].flag # "FREE" /\ slot[t].flag # "FREE"
                        /\ slot[s].nr = slot[t].nr /\ slot[s].nr # NoCluster
                        => s = t

\* What a reader of the cluster is given: the slot's data or the disk's.
Readable(c) ==
  {slot[s].data : s \in {t \in Slots : slot[t].nr = c /\ slot[t].flag \in Loaded}}
  \cup (IF \E s \in Slots : slot[s].nr = c /\ slot[s].flag \in Loaded THEN {} ELSE {disk[c]})

\* A slot that is not read because it will be overwritten has no data yet; its
\* lock keeps readers out.
BeingFilled(c) ==
  \E p \in Procs : proc[p].pc = "copying" /\ proc[p].op = "write_full" /\ proc[p].nr = c

\* As long as the volume has not been set to read-only, a reader of a cluster
\* is given what the last successful write stored: a delayed write may fail, be
\* repeated, be overtaken by the sync or by the next write, but its data are in
\* a slot or on the disk.
NothingLost ==
  Sheltered /\ Undisturbed /\ ~readonly =>
    \A c \in Clusters : BeingFilled(c) \/ Readable(c) \subseteq promised[c]

\* Data that have reached the disk are not overwritten by older ones: no process
\* writes out a copy that another has changed elsewhere since.
WritesInOrder == [][\A c \in Clusters : disk'[c] >= disk[c]]_vars

\* A slot is taken for another cluster only while nobody else uses it, unless
\* get_ch comes back to a slot that others use.
OldestUnused ==
  [][Sheltered =>
       \A s \in Slots : slot'[s].nr # slot[s].nr /\ slot'[s].nr # NoCluster
         => Cardinality({p \in Procs : Uses(proc'[p], s)}) = 1]_vars


=============================================================================
