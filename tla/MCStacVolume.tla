---------------------------- MODULE MCStacVolume ----------------------------
(* Small Stacker volumes: clusters 2 and 3, sectors of three units, and    *)
(* ways DOS lays clusters out: with a shared sector (next to each other or *)
(* not, short or long), in fragments, kept for undelete.                   *)
EXTENDS StacVolume, TLC

CONSTANTS v1, v2

LengthAll == (v1 :> 3) @@ (v2 :> 7)
Lengths == [v \in Payloads |-> LengthAll[v]]
Shrinks == [v \in Payloads |-> IF v = v1 THEN {1} ELSE {4}]

Entry(s, n, flags) == [sector |-> s, size |-> n, flags |-> flags]
Entries(a, b) == 2 :> a @@ 3 :> b

Blank == [u \in 0 .. 2 |-> Scrap]
Units(a, b, c) == 0 :> a @@ 1 :> b @@ 2 :> c
Layout(f) == [s \in Media |-> IF s \in DOMAIN f THEN f[s] ELSE Blank]
V1 == Piece(v1, 1, 1)
V2(i) == Piece(v2, 4, i)

Sharing(short, long) ==
  Trailer([short |-> short, long |-> long, shortPlain |-> FALSE, longPlain |-> FALSE,
           shortGone |-> FALSE, longGone |-> FALSE])

(* Cluster 2 (compressed, two sectors) ends where cluster 3 (short) lies.  *)
Neighbours ==
  [mdfat |-> Entries(Entry(4, 2, {}), Entry(5, 1, {"raw", "split"})),
   data |-> Layout(4 :> Units(V2(1), V2(2), V2(3)) @@
                   5 :> Units(V2(4), V1, Sharing(1, 2)))]

(* Cluster 3 ends where cluster 2 (long) begins.                           *)
NotInOrder ==
  [mdfat |-> Entries(Entry(5, 2, {"raw", "split"}), Entry(4, 2, {})),
   data |-> Layout(4 :> Units(V2(1), V2(2), V2(3)) @@
                   5 :> Units(V2(4), V2(1), Sharing(1, 1)) @@
                   6 :> Units(V2(2), V2(3), V2(4)))]

(* Cluster 2 in two fragments, cluster 3 kept for undelete.                *)
Fragmented ==
  [mdfat |-> Entries(Entry(4, 1, {"split"}), Entry(5, 1, {"deleted"})),
   data |-> Layout(4 :> Units(FragList(<<6>>, FALSE), V2(1), V2(2)) @@
                   5 :> Units(V1, Scrap, Scrap) @@
                   6 :> Units(V2(3), V2(4), Scrap))]

MCVolumes == {Neighbours, NotInOrder, Fragmented}
=============================================================================
