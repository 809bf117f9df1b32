------------------------------- MODULE MCFsck -------------------------------
(* Volumes for Fsck with the clusters 2 .. 4 and two root entries, 6 and 7. *)
EXTENDS Fsck

None == [used |-> FALSE, dir |-> FALSE, cluster |-> 0, size |-> 0]
File(c, n) == [used |-> TRUE, dir |-> FALSE, cluster |-> c, size |-> n]
Dir(c, n) == [used |-> TRUE, dir |-> TRUE, cluster |-> c, size |-> n]

\* Every FAT, with a file in the root directory; the answers vary only where
\* the FAT has no impossible values.
Files == {File(2, 1), File(3, 4), File(0, 1)}
FatCases(f, e, d, m, a) ==
  /\ f \in [Clusters -> FatValues]
  /\ \E x \in Files : e = [p \in Places |-> IF p = Bad + 1 THEN x ELSE None]
  /\ d = [c \in Clusters |-> Wrong]
  /\ m = "sound"
  /\ a \in {{TRUE}, {FALSE}} \cup
           IF \A c \in Clusters : f[c] \notin {1, Bad} THEN {BOOLEAN} ELSE {}

\* Directories: two in the root or a directory and a file, and what is in them.
DirCases(f, e, d, m, a) ==
  /\ f \in {g \in [Clusters -> {FatEof, 0, 3, 4, Bad}] :
              /\ g[2] \in {FatEof, 0, 3} /\ g[3] \in {FatEof, 4, Bad} /\ g[4] \in {FatEof, Bad}}
  /\ \E n \in {0, 1}, r \in {None, File(3, 1), Dir(2, 0), Dir(3, 0)},
        x \in {None, File(3, 2), Dir(3, 0), Dir(2, 0), Dir(4, 0)},
        y \in {None, Dir(2, 0), File(4, 1)} :
       e = [p \in Places |-> CASE p = Bad + 1 -> Dir(2, n) [] p = Bad + 2 -> r
                               [] p = 2 -> x [] p = 3 -> y [] OTHER -> None]
  /\ d \in [Clusters -> {Wrong, Unreadable, 0, 2}]
  /\ d[2] \in {Wrong, 0} /\ d[4] = Wrong /\ (d[2] = Wrong => d[3] = 0)
  /\ m \in IF e[2] = None THEN {"sound", "fixable", "broken"} ELSE {"sound"}
  /\ a \in {{TRUE}, {FALSE}}

\* FATs of one more cluster in which one of two crosslinked chains is repaired.
LostCases(f, e, d, m, a) ==
  /\ f \in [Clusters -> {FatEof, 4, 5}] /\ f[4] = 5 /\ f[5] = FatEof
  /\ e = [p \in Places |-> IF p \in RootPlaces THEN File(p - Bad + 1, 5) ELSE None]
  /\ d = [c \in Clusters |-> Wrong]
  /\ m = "sound" /\ a \in {{TRUE}, {FALSE}}

AllCases(f, e, d, m, a) ==
  FatCases(f, e, d, m, a) \/ DirCases(f, e, d, m, a)
=============================================================================
