------------------------------ MODULE MCTables ------------------------------
(* Tables in sectors of 32 bytes, in every format.  The clusters are those   *)
(* around the ends of sectors and of Stacker's groups of sectors: 10 and 21  *)
(* lie in two sectors, 20 shares a byte with 21, 64 is the first of a group.  *)
EXTENDS Tables

MCFormats ==
  {[version |-> "STAC3", wide |-> FALSE, second |-> 100, counted |-> TRUE],
   [version |-> "STAC4", wide |-> TRUE, second |-> 0, counted |-> TRUE],
   [version |-> "DBLSP", wide |-> FALSE, second |-> 0, counted |-> TRUE],
   [version |-> "DRVSP3", wide |-> TRUE, second |-> 0, counted |-> FALSE]}

Mde(s, u, lo, hi, f) ==
  [sector_minus_1 |-> s, unknown |-> u, size_lo_minus_1 |-> lo, size_hi_minus_1 |-> hi, flags |-> f]
MCMdes(f) ==
  CASE f.version = "STAC3" -> {Mde(-1, 0, 0, 0, 0), Mde(65534, 0, 7, 7, 160)}
    [] f.version = "STAC4" -> {Mde(-1, 0, 0, 0, 0), Mde(4194302, 0, 63, 63, 224)}
    [] f.version = "DBLSP" -> {Mde(0, 0, 0, 0, 0), Mde(2097151, 1, 15, 15, 3)}
    [] f.version = "DRVSP3" -> {Mde(0, 0, 0, 0, 0), Mde(16777215, 3, 63, 63, 3)}
MCBits(f) == IF f.version = "STAC4" THEN {0, 2, 3} ELSE {0, 1}
MCContent(a, n) == IF a >= 100 THEN ((a - 100) * 37 + n * 11) % 256 ELSE (a * 37 + n * 11) % 256
MCFatValues == {-1, 1383}
MCSectors == 60 .. 64
=============================================================================
