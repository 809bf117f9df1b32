--------------------------- MODULE MCClusterCache ---------------------------
(* Small instances of ClusterCache.                                        *)
EXTENDS ClusterCache, TLC

Setup(size, writeBack, faults, calls) ==
  [size |-> size, writeBack |-> writeBack, faults |-> faults, calls |-> calls]
On(ops, nrs) == [op : ops, nr : nrs]
Sync == On({"sync"}, {NoCluster})
Idle == On({"free_idle"}, {NoCluster})
Files == {"read", "write_part", "write_full"}

\* Write-through and more processes than slots: they wait for the slot, two of
\* them for the same clusters, or three for clusters of their own.
FullCache == Setup(1, FALSE, TRUE,
  [p \in Procs |-> IF p = "p3" THEN {} ELSE On(Files, {1, 2})])
ThreeWaiters == Setup(1, FALSE, TRUE,
  ("p1" :> On({"read"}, {1}) @@ "p2" :> On({"write_part"}, {2}) @@ "p3" :> On({"read"}, {3})))

\* Write-back and a slot for each process: files and directories, the sync and
\* a disk that fails.
UserAndSync == Setup(2, TRUE, TRUE,
  ("p1" :> On({"write_full"}, {2}) \cup On({"read"}, {3}) \cup On({"entry"}, {1})
     @@ "p2" :> Sync @@ "p3" :> {}))
TwoUsers == Setup(2, TRUE, TRUE,
  ("p1" :> On({"write_part"}, {2}) \cup On({"read"}, {3})
     @@ "p2" :> On({"entry"}, {1}) @@ "p3" :> {}))

\* Write-through and two slots for two processes that use the same clusters: one
\* of them may look for a cluster while the other reads it into its slot.
SharedSlots == Setup(2, FALSE, TRUE,
  [p \in Procs |-> IF p = "p3" THEN {} ELSE On({"read", "write_part"}, {1, 2})])

\* The daemon beside a process that delays its writes.
UserAndDaemon == Setup(2, TRUE, TRUE,
  ("p1" :> On({"entry"}, {1}) \cup On({"read"}, {2, 3})
     @@ "p2" :> Idle @@ "p3" :> {}))

\* One slot and delayed writes: while the sync, the daemon or get_ch itself has
\* the slot others wait for it, and are not woken when it is let go.  (These are
\* not Sheltered.)
SyncedWait == Setup(1, TRUE, FALSE,
  ("p1" :> On({"write_part"}, {1}) \cup On({"read"}, {2}) @@ "p2" :> Sync @@ "p3" :> Idle))
DroppedWait == Setup(1, TRUE, TRUE,
  ("p1" :> On({"write_part"}, {1}) @@ "p2" :> On({"read"}, {2}) @@ "p3" :> Idle))
Users == {FullCache, ThreeWaiters, UserAndSync, TwoUsers, SharedSlots, UserAndDaemon,
          SyncedWait, DroppedWait}

\* Write-back and two processes that write the same files.
SharedFiles == {Setup(2, TRUE, FALSE, [p \in Procs |-> On({"read", "write_full"}, Clusters)])}
=============================================================================
