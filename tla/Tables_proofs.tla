---------------------------- MODULE Tables_proofs ----------------------------
(***************************************************************************)
(* In sectors of any size, the entries of the FAT, the MDFAT and the       *)
(* BITFAT keep what was written to them, the caches hold what the host     *)
(* has, and the copies agree, if the tables do not lie on one another.     *)
(***************************************************************************)
EXTENDS Tables, FiniteSetTheorems, TLAPS

-----------------------------------------------------------------------------
(* A table as a row of bytes: where an entry begins in it, and the sector  *)
(* of the host that the table's sector i is.                               *)

LenOf(f, t) ==
  IF t = "dfat" THEN 2
  ELSE IF t = "mdfat" THEN IF Stac(f) THEN IF f.wide THEN 4 ELSE 3
                           ELSE IF f.version = "DRVSP3" THEN 5 ELSE 4
  ELSE IF Stac(f) THEN 1 ELSE 2

TwoOf(f, t) == t = "dfat" \/ (t = "mdfat" /\ Stac(f))

FatPos(f, c) == IF f.wide THEN 2 * c ELSE (3 * c) \div 2
DrvPos(n) == n * 5 + (n \div (SectorSize \div 5)) * 2 + SectorSize * MdfatStart
MdfatPos(f, c) ==
  IF Stac(f) THEN c * (IF f.wide THEN 4 ELSE 3)
  ELSE IF f.version = "DRVSP3" THEN DrvPos(Dcluster + c)
  ELSE (Dcluster + c) * 4 + SectorSize * MdfatStart
BitfatPos(f, s) ==
  IF Stac(f) THEN (s - DataStart) \div PerByte(f)
  ELSE SectorSize + ((s - DataStart) \div 16) * 2
PosOf(f, t, e) ==
  IF t = "dfat" THEN FatPos(f, e) ELSE IF t = "mdfat" THEN MdfatPos(f, e) ELSE BitfatPos(f, e)

FatHome(f, i) == FatStart + (IF Stac(f) THEN (i \div 3) * 9 + (i % 3) ELSE i)
MdfatHome(f, i) == IF Stac(f) THEN (i \div 6) * 9 + (i % 6) + 3 + FatStart ELSE i
BitfatHome(f, i) == IF Stac(f) THEN i + MdfatStart ELSE i
Home(f, t, i) ==
  IF t = "dfat" THEN FatHome(f, i) ELSE IF t = "mdfat" THEN MdfatHome(f, i) ELSE BitfatHome(f, i)

\* The byte x of a table.
Peek(f, h, t, x) == h[Home(f, t, x \div SectorSize)][x % SectorSize]

-----------------------------------------------------------------------------
(* Division, as the places of entries use it.                              *)

LEMMA SectorSizeSound ==
  SectorSize \in Nat /\ SectorSize >= 12 /\ SectorSize % 4 = 0 /\ SectorSize % 5 = 2
BY TablesAssumption, SMT

LEMMA StartsSound ==
  /\ FatStart \in Nat /\ MdfatStart \in Nat /\ DataStart \in Nat /\ DataEnd \in Nat
  /\ Dcluster \in Nat /\ SectPerClust \in Nat
BY TablesAssumption

LEMMA DivMod ==
  ASSUME NEW x \in Nat, NEW n \in Nat, n > 0
  PROVE  /\ x \div n \in Nat /\ x % n \in 0 .. n - 1
         /\ x = n * (x \div n) + (x % n)
BY SMT

LEMMA DivUnique ==
  ASSUME NEW q \in Int, NEW r \in Nat, NEW n \in Nat, r < n
  PROVE  (n * q + r) \div n = q /\ (n * q + r) % n = r
BY SMT

LEMMA DivSame ==
  ASSUME NEW x \in Nat, NEW k \in Nat, NEW n \in Nat, n > 0, (x % n) + k < n
  PROVE  (x + k) \div n = x \div n /\ (x + k) % n = (x % n) + k
BY SMT

LEMMA DivNext ==
  ASSUME NEW x \in Nat, NEW k \in Nat, NEW n \in Nat, n > 0, k <= n, (x % n) + k >= n
  PROVE  (x + k) \div n = (x \div n) + 1 /\ (x + k) % n = (x % n) + k - n
BY SMT

LEMMA FormatIs ==
  ASSUME NEW f \in Formats
  PROVE  /\ f.version \in {"STAC3", "STAC4", "DBLSP", "DRVSP", "DRVSP3"}
         /\ f.wide \in BOOLEAN /\ f.second \in Nat /\ f.counted \in BOOLEAN
BY TablesAssumption

LEMMA EntryIs ==
  ASSUME NEW t \in Tables, NEW e \in Entries(t)
  PROVE  /\ e \in Nat
         /\ t = "bitfat" => e - DataStart \in Nat
BY TablesAssumption, SMT DEF Entries, Tables

LEMMA PosIs ==
  ASSUME NEW f \in Formats, NEW t \in Tables, NEW e \in Entries(t)
  PROVE  PosOf(f, t, e) \in Nat /\ LenOf(f, t) \in 1 .. 5
<1>1. e \in Nat /\ (t = "bitfat" => e - DataStart \in Nat)
  BY EntryIs
<1>2. LenOf(f, t) \in 1 .. 5
  BY SMT DEF LenOf
<1>3. CASE t = "dfat"
  BY <1>1, <1>2, <1>3, SMT DEF PosOf, FatPos
<1>4. CASE t = "mdfat"
  <2>1. SectorSize * MdfatStart \in Nat /\ SectorSize \div 5 \in Nat /\ SectorSize \div 5 > 0
    BY SectorSizeSound, TablesAssumption, SMT
  <2>2. (Dcluster + e) \in Nat
    BY <1>1, StartsSound, SMT
  <2> DEFINE q == SectorSize \div 5
             n == Dcluster + e
  <2>4. n \div q \in Nat
    <3>1. n \in Nat /\ q \in Nat /\ q > 0
      BY <2>1, <2>2
    <3> HIDE DEF n, q
    <3>2. QED
      BY <3>1, DivMod
  <2>3. QED
    BY <1>1, <1>2, <1>4, <2>1, <2>2, <2>4, SMT DEF PosOf, MdfatPos, DrvPos
<1>5. CASE t = "bitfat"
  <2>1. (e - DataStart) \div 4 \in Nat /\ (e - DataStart) \div 8 \in Nat /\ (e - DataStart) \div 16 \in Nat
    BY <1>1, <1>5, SMT
  <2>2. QED
    BY <1>2, <1>5, <2>1, SectorSizeSound, SMT DEF PosOf, BitfatPos, PerByte
<1>6. QED
  BY <1>3, <1>4, <1>5 DEF Tables

\* A cell is at its entry's place.
LEMMA CellIs ==
  ASSUME NEW f \in Formats, NEW t \in Tables, NEW e \in Entries(t)
  PROVE  CellOf(f, t, e) =
           [area |-> Home(f, t, PosOf(f, t, e) \div SectorSize),
            offset |-> PosOf(f, t, e) % SectorSize, len |-> LenOf(f, t), two |-> TwoOf(f, t)]
<1>1. CASE t = "dfat"
  BY <1>1 DEF CellOf, FatCell, Cell, Home, FatHome, PosOf, FatPos, LenOf, TwoOf
<1>2. CASE t = "mdfat"
  BY <1>2 DEF CellOf, MdfatCell, StacMdfatCell, DblMdfatCell, DrvMdfatCell, Cell, Home, MdfatHome,
              PosOf, MdfatPos, DrvPos, LenOf, TwoOf
<1>3. CASE t = "bitfat"
  BY <1>3 DEF CellOf, BitfatCell, Cell, Home, BitfatHome, PosOf, BitfatPos, LenOf, TwoOf
<1>4. QED
  BY <1>1, <1>2, <1>3 DEF Tables

\* No two sectors of a table are one sector of the host.
LEMMA HomesDiffer ==
  ASSUME NEW f \in Formats, NEW t \in Tables, NEW i \in Nat, NEW j \in Nat
  PROVE  /\ Home(f, t, i) \in Nat
         /\ Home(f, t, i) = Home(f, t, j) => i = j
<1>1. FatHome(f, i) \in Nat /\ (FatHome(f, i) = FatHome(f, j) => i = j)
  <2>1. FatStart \in Nat
    BY TablesAssumption
  <2>2. QED
    BY <2>1, SMT DEF FatHome
<1>2. MdfatHome(f, i) \in Nat /\ (MdfatHome(f, i) = MdfatHome(f, j) => i = j)
  BY TablesAssumption, SMT DEF MdfatHome
<1>3. BitfatHome(f, i) \in Nat /\ (BitfatHome(f, i) = BitfatHome(f, j) => i = j)
  BY TablesAssumption, SMT DEF BitfatHome
<1>4. QED
  BY <1>1, <1>2, <1>3 DEF Home

-----------------------------------------------------------------------------
(* An entry of one sector lies in it; an entry that begins in one sector   *)
(* and ends in the next does so within a group of Stacker's sectors.       *)

LEMMA FatCellFits ==
  ASSUME NEW f \in Formats, NEW c \in Nat,
         (FatPos(f, c) % SectorSize) + 2 > SectorSize
  PROVE  FatHome(f, (FatPos(f, c) \div SectorSize) + 1) = FatHome(f, FatPos(f, c) \div SectorSize) + 1
<1> DEFINE p == FatPos(f, c)
           a == p \div SectorSize
           r == p % SectorSize
<1>0. p \in Nat
  BY SMT DEF FatPos
<1>1. a \in Nat /\ r \in 0 .. SectorSize - 1 /\ p = SectorSize * a + r
  <2> HIDE DEF p
  <2>1. QED
    BY <1>0, SectorSizeSound, DivMod, SMT
<1>2. p + 1 = SectorSize * (a + 1)
  <2>1. r + 2 > SectorSize
    OBVIOUS
  <2> HIDE DEF p, a, r
  <2>2. QED
    BY <1>0, <1>1, <2>1, SectorSizeSound, SMT
<1> DEFINE u == SectorSize \div 4
<1>3. u \in Nat /\ SectorSize = 4 * u
  BY SectorSizeSound, SMT
<1>4. CASE ~Stac(f) \/ a % 3 # 2
  <2> HIDE DEF a
  <2>1. FatHome(f, a + 1) = FatHome(f, a) + 1
    BY <1>1, <1>4, StartsSound, SMT DEF FatHome
  <2>2. QED
    BY <2>1 DEF a
<1>5. CASE a % 3 = 2
  <2> DEFINE g == (a \div 3) + 1
             x == u * g
  <2>1. g \in Nat /\ a + 1 = 3 * g
    BY <1>1, <1>5, SMT
  <2>2. x \in Nat /\ p + 1 = 12 * x
    <3> HIDE DEF p, a, u, g
    <3>1. p + 1 = (4 * u) * (3 * g)
      BY <1>2, <1>3, <2>1
    <3>2. QED
      BY <3>1, <1>3, <2>1, SMT
  <2>3. p = 2 * c \/ p = (3 * c) \div 2
    BY DEF FatPos
  <2> HIDE DEF p, x
  <2>4. QED
    BY <2>2, <2>3, SMT
<1>6. QED
  BY <1>4, <1>5

LEMMA MdfatCellFits ==
  ASSUME NEW f \in Formats, Stac(f), NEW c \in Nat,
         (MdfatPos(f, c) % SectorSize) + LenOf(f, "mdfat") > SectorSize
  PROVE  MdfatHome(f, (MdfatPos(f, c) \div SectorSize) + 1) =
           MdfatHome(f, MdfatPos(f, c) \div SectorSize) + 1
<1> DEFINE n == IF f.wide THEN 4 ELSE 3
           p == c * n
           a == p \div SectorSize
           r == p % SectorSize
<1>1. p = MdfatPos(f, c) /\ n = LenOf(f, "mdfat") /\ (n = 3 \/ n = 4)
  BY Zenon DEF MdfatPos, LenOf
<1>2. /\ p \in Nat /\ a \in Nat /\ r \in 0 .. SectorSize - 1
      /\ p = SectorSize * a + r /\ r + n > SectorSize
  BY <1>1, SectorSizeSound, DivMod, SMT
<1> DEFINE u == SectorSize \div 4
<1>3. u \in Nat /\ SectorSize = 4 * u
  BY SectorSizeSound, SMT
<1>4. CASE a % 6 # 5
  <2> HIDE DEF a
  <2>1. MdfatHome(f, a + 1) = MdfatHome(f, a) + 1
    BY <1>2, <1>4, StartsSound, SMT DEF MdfatHome
  <2>2. QED
    BY <1>1, <2>1 DEF a
<1>5. CASE a % 6 = 5
  <2> DEFINE g == (a \div 6) + 1
             x == u * g
  <2>1. g \in Nat /\ a + 1 = 6 * g
    BY <1>2, <1>5, SMT
  <2>2. x \in Nat /\ p + (SectorSize - r) = 24 * x /\ SectorSize - r \in 1 .. n - 1
    <3> HIDE DEF p, a, r, u, g
    <3>1. p + (SectorSize - r) = SectorSize * (a + 1)
      BY <1>2, SectorSizeSound, SMT
    <3>2. SectorSize * (a + 1) = (4 * u) * (6 * g)
      BY <1>3, <2>1
    <3>3. QED
      BY <1>2, <1>3, <2>1, <3>1, <3>2, SMT
  <2>3. p = 3 * c \/ p = 4 * c
    BY <1>1, SMT
  <2>4. CASE n = 3
    BY <2>2, <2>4, SMT
  <2>5. CASE n = 4
    BY <2>2, <2>5, SMT
  <2>6. QED
    BY <1>1, <2>4, <2>5
<1>6. QED
  BY <1>4, <1>5

\* A multiple of a divisor of the sector's size ends before the sector does.
LEMMA MultipleFits ==
  ASSUME NEW p \in Nat, NEW m \in {2, 4}, p % m = 0
  PROVE  (p % SectorSize) + m <= SectorSize
<1> DEFINE a == p \div SectorSize
           r == p % SectorSize
           u == SectorSize \div 4
           x == u * a
<1>1. a \in Nat /\ r \in 0 .. SectorSize - 1 /\ p = SectorSize * a + r
  BY SectorSizeSound, DivMod
<1>2. u \in Nat /\ SectorSize = 4 * u
  BY SectorSizeSound, SMT
<1>3. x \in Nat /\ p = 4 * x + r
  <2> HIDE DEF a, r, u
  <2>1. QED
    BY <1>1, <1>2, SMT
<1> HIDE DEF a, r, u, x
<1>4. r + m <= SectorSize
  <2>1. CASE m = 2
    BY <1>1, <1>2, <1>3, <2>1, SMT
  <2>2. CASE m = 4
    BY <1>1, <1>2, <1>3, <2>2, SMT
  <2>3. QED
    BY <2>1, <2>2
<1>5. QED
  BY <1>4 DEF r

\* DriveSpace 3 puts as many entries of five bytes in a sector as fit.
LEMMA DrvPlace ==
  ASSUME NEW n \in Nat
  PROVE  (DrvPos(n) % SectorSize) + 5 <= SectorSize
<1> DEFINE q == SectorSize \div 5
           a == n \div q
           r == n % q
<1>1. q \in Nat /\ q > 0 /\ SectorSize = 5 * q + 2
  BY SectorSizeSound, SMT
<1>2. a \in Nat /\ r \in 0 .. q - 1 /\ n = q * a + r
  <2> HIDE DEF q
  <2>1. QED
    BY <1>1, DivMod
<1>3. DrvPos(n) = n * 5 + a * 2 + SectorSize * MdfatStart
  BY DEF DrvPos
<1> HIDE DEF q, a, r
<1>4. DrvPos(n) = (5 * q + 2) * (a + MdfatStart) + 5 * r
  BY <1>1, <1>2, <1>3, StartsSound, SMT
<1>5. a + MdfatStart \in Int /\ 5 * r \in Nat /\ 5 * r + 5 <= SectorSize
  BY <1>1, <1>2, StartsSound, SMT
<1>6. DrvPos(n) % SectorSize = 5 * r
  BY <1>1, <1>4, <1>5, DivUnique, SectorSizeSound
<1>7. QED
  BY <1>5, <1>6

LEMMA OneSectorCells ==
  ASSUME NEW f \in Formats, NEW t \in Tables, NEW e \in Entries(t), ~TwoOf(f, t)
  PROVE  (PosOf(f, t, e) % SectorSize) + LenOf(f, t) <= SectorSize
<1>1. e \in Nat /\ (t = "bitfat" => e - DataStart \in Nat) /\ PosOf(f, t, e) \in Nat
  BY EntryIs, PosIs
<1> DEFINE u == SectorSize \div 4
           y == u * MdfatStart
<1>2. u \in Nat /\ SectorSize = 4 * u
  BY SectorSizeSound, SMT
<1>3. y \in Nat /\ SectorSize * MdfatStart = 4 * y
  <2> HIDE DEF u
  <2>1. QED
    BY <1>2, StartsSound, SMT
<1>4. CASE t = "mdfat" /\ f.version = "DRVSP3"
  BY <1>1, <1>4, DrvPlace, StartsSound, SMT DEF PosOf, MdfatPos, LenOf, TwoOf, Stac
<1>5. CASE t = "mdfat" /\ f.version # "DRVSP3"
  <2>1. LenOf(f, t) = 4 /\ PosOf(f, t, e) = (Dcluster + e) * 4 + SectorSize * MdfatStart
    BY <1>5 DEF PosOf, MdfatPos, LenOf, TwoOf
  <2> HIDE DEF y
  <2>2. PosOf(f, t, e) % 4 = 0
    BY <1>1, <1>3, <2>1, StartsSound, SMT
  <2>3. QED
    BY <1>1, <2>1, <2>2, MultipleFits
<1>6. CASE t = "bitfat" /\ Stac(f)
  BY <1>1, <1>6, DivMod, SectorSizeSound, SMT DEF LenOf
<1>7. CASE t = "bitfat" /\ ~Stac(f)
  <2>1. LenOf(f, t) = 2 /\ PosOf(f, t, e) = SectorSize + ((e - DataStart) \div 16) * 2
    BY <1>7 DEF PosOf, BitfatPos, LenOf
  <2> HIDE DEF u
  <2>2. PosOf(f, t, e) % 2 = 0
    BY <1>1, <1>2, <1>7, <2>1, SMT
  <2>3. QED
    BY <1>1, <2>1, <2>2, MultipleFits
<1>8. QED
  BY <1>4, <1>5, <1>6, <1>7 DEF Tables, TwoOf

\* An entry that does not end in its first sector ends in the next one of the
\* host.
LEMMA NextHome ==
  ASSUME NEW f \in Formats, NEW t \in Tables, NEW e \in Entries(t),
         (PosOf(f, t, e) % SectorSize) + LenOf(f, t) > SectorSize
  PROVE  /\ TwoOf(f, t)
         /\ Home(f, t, (PosOf(f, t, e) \div SectorSize) + 1) =
              Home(f, t, PosOf(f, t, e) \div SectorSize) + 1
<1>1. PosOf(f, t, e) \in Nat /\ LenOf(f, t) \in 1 .. 5
  BY PosIs
<1>2. CASE t = "dfat"
  BY <1>2, FatCellFits, EntryIs DEF Home, PosOf, LenOf, TwoOf
<1>3. CASE t = "mdfat" /\ Stac(f)
  BY <1>3, MdfatCellFits, EntryIs DEF Home, PosOf, TwoOf
<1>4. CASE ~TwoOf(f, t)
  <2>1. (PosOf(f, t, e) % SectorSize) + LenOf(f, t) <= SectorSize
    BY <1>4, OneSectorCells
  <2>2. QED
    BY <1>1, <2>1, SectorSizeSound, SMT
<1>5. QED
  BY <1>2, <1>3, <1>4 DEF TwoOf

\* The bytes of a cell are the bytes of the table from the entry's place on.
LEMMA BytesArePeeks ==
  ASSUME NEW f \in Formats, NEW t \in Tables, NEW e \in Entries(t), NEW h
  PROVE  HostBytes(h, CellOf(f, t, e)) =
           [k \in 0 .. LenOf(f, t) - 1 |-> Peek(f, h, t, PosOf(f, t, e) + k)]
<1> DEFINE p == PosOf(f, t, e)
           a == p \div SectorSize
           r == p % SectorSize
           len == LenOf(f, t)
<1>1. p \in Nat /\ len \in 1 .. 5
  BY PosIs
<1>2. a \in Nat /\ r \in 0 .. SectorSize - 1
  <2> HIDE DEF p
  <2>1. QED
    BY <1>1, SectorSizeSound, DivMod
<1>3. CellOf(f, t, e) = [area |-> Home(f, t, a), offset |-> r, len |-> len, two |-> TwoOf(f, t)]
  BY CellIs
<1>4. r + len > SectorSize => Home(f, t, a + 1) = Home(f, t, a) + 1
  BY NextHome
<1>5. ASSUME NEW k \in 0 .. len - 1
      PROVE  (IF r + k < SectorSize THEN h[Home(f, t, a)][r + k]
              ELSE h[Home(f, t, a) + 1][r + k - SectorSize]) = Peek(f, h, t, p + k)
  <2>0. k \in Nat /\ k <= SectorSize /\ k < len
    BY <1>1, <1>5, SectorSizeSound, SMT
  <2>1. CASE r + k < SectorSize
    <3>1. (p + k) \div SectorSize = a /\ (p + k) % SectorSize = r + k
      <4> HIDE DEF p
      <4>1. QED
        BY <1>1, <2>0, <2>1, SectorSizeSound, DivSame
    <3>2. QED
      BY <2>1, <3>1 DEF Peek
  <2>2. CASE r + k >= SectorSize
    <3>1. (p + k) \div SectorSize = a + 1 /\ (p + k) % SectorSize = r + k - SectorSize
      <4> HIDE DEF p
      <4>1. SectorSize > 0 /\ SectorSize \in Nat /\ (p % SectorSize) + k >= SectorSize
        BY <2>2, SectorSizeSound
      <4>2. QED
        BY <1>1, <2>0, <4>1, DivNext
    <3>2. r + len > SectorSize /\ ~(r + k < SectorSize)
      <4> HIDE DEF r, len
      <4>1. QED
        BY <1>1, <1>2, <2>0, <2>2, SectorSizeSound, SMT
    <3>3. QED
      BY <1>4, <3>1, <3>2 DEF Peek
  <2>3. QED
    <3> HIDE DEF r
    <3>1. QED
      BY <1>2, <2>0, <2>1, <2>2, SectorSizeSound, SMT
<1>6. HostBytes(h, CellOf(f, t, e)) =
        [k \in 0 .. len - 1 |-> IF r + k < SectorSize THEN h[Home(f, t, a)][r + k]
                                ELSE h[Home(f, t, a) + 1][r + k - SectorSize]]
  BY <1>3 DEF HostBytes, Inside
<1>7. QED
  BY <1>5, <1>6

-----------------------------------------------------------------------------
(* What is written to an entry is what is read from it, and nothing else   *)
(* that is read changes.                                                   *)

LEMMA BetweenIs ==
  ASSUME NEW low \in Int, NEW high \in Int, NEW n \in Between(low, high)
  PROVE  n \in Int /\ low <= n /\ n <= high
BY SMT DEF Between

LEMMA WordIs ==
  ASSUME NEW b \in [0 .. 1 -> Byte]
  PROVE  /\ b[0] \in Nat /\ b[0] < 256 /\ b[1] \in Nat /\ b[1] < 256
         /\ Word(b) = b[0] + 256 * b[1] /\ Word(b) \in Nat /\ Word(b) < 65536
<1>1. b[0] \in Nat /\ b[0] < 256 /\ b[1] \in Nat /\ b[1] < 256
  BY SMT DEF Byte
<1> DEFINE x == b[0]
           y == b[1]
<1>2. Word(b) = x + 256 * y
  BY DEF Word
<1>3. x + 256 * y \in Nat /\ x + 256 * y < 65536
  <2>1. x \in Nat /\ x < 256 /\ y \in Nat /\ y < 256
    BY <1>1
  <2> HIDE DEF x, y
  <2>2. QED
    BY <2>1, SMT
<1>4. QED
  BY <1>1, <1>2, <1>3, SMT

LEMMA WordBytesIs ==
  ASSUME NEW v \in Nat
  PROVE  /\ WordBytes(v) \in [0 .. 1 -> Byte]
         /\ WordBytes(v)[0] = v % 256 /\ WordBytes(v)[1] = (v \div 256) % 256
         /\ v < 65536 => Word(WordBytes(v)) = v
<1> DEFINE x == Field(v, 1, 256)
           y == Field(v, 256, 256)
<1>1. x = v % 256 /\ y = (v \div 256) % 256 /\ x \in Byte /\ y \in Byte
  BY SMT DEF Field, Byte
<1>2. WordBytes(v) = [k \in 0 .. 1 |-> <<x, y>>[k + 1]]
  BY SMT DEF WordBytes, Octets
<1> HIDE DEF x, y
<1>3. WordBytes(v)[0] = x /\ WordBytes(v)[1] = y
  BY <1>2, SMT
<1>4. WordBytes(v) \in [0 .. 1 -> Byte]
  BY <1>1, <1>2, SMT
<1>5. v < 65536 => Word(WordBytes(v)) = v
  BY <1>1, <1>3, SMT DEF Word
<1>6. QED
  BY <1>1, <1>3, <1>4, <1>5

LEMMA FatValuesAre ==
  ASSUME NEW f \in Formats, NEW new \in FatHoldable(f)
  PROVE  /\ new \in Int /\ new >= -1
         /\ f.wide => new < 65527
         /\ ~f.wide => new < 4087
<1>1. CASE f.wide
  BY <1>1, SMT DEF FatHoldable
<1>2. CASE ~f.wide
  BY <1>2, SMT DEF FatHoldable
<1>3. QED
  BY <1>1, <1>2

\* The word of an entry after a write: the lower part, with the upper part of
\* the word before, or the other way round.
LowerWord(v, new) == Field(v, 4096, 16) * 4096 + Field(new, 1, 4096)
UpperWord(v, new) == Field(v, 1, 16) + (new % 4096) * 16

LEMMA LowerPart ==
  ASSUME NEW v \in Nat, v < 65536, NEW new \in Int
  PROVE  LET w == LowerWord(v, new) IN
         /\ w \in Nat /\ w < 65536 /\ Field(w, 1, 4096) = new % 4096
         /\ (w \div 256) \div 16 = (v \div 256) \div 16
<1> DEFINE h == Field(v, 4096, 16)
           n == Field(new, 1, 4096)
<1>1. h \in Nat /\ h < 16 /\ h = v \div 4096
  BY SMT DEF Field
<1>2. n \in Nat /\ n < 4096 /\ n = new % 4096
  BY SMT DEF Field
<1> DEFINE w == LowerWord(v, new)
<1>3. w = h * 4096 + n
  BY SMT DEF LowerWord
<1> HIDE DEF h, n, w
<1>4. w \in Nat /\ w < 65536 /\ w \div 4096 = h /\ w % 4096 = n
  BY <1>1, <1>2, <1>3, SMT
<1>5. Field(w, 1, 4096) = n
  BY <1>4, SMT DEF Field
<1>6. (w \div 256) \div 16 = w \div 4096 /\ (v \div 256) \div 16 = v \div 4096
  BY <1>4, SMT
<1>7. QED
  BY <1>1, <1>2, <1>4, <1>5, <1>6, SMT DEF w

LEMMA UpperPart ==
  ASSUME NEW v \in Nat, v < 65536, NEW new \in Int
  PROVE  LET w == UpperWord(v, new) IN
         /\ w \in Nat /\ w < 65536 /\ Field(w, 16, 4096) = new % 4096
         /\ w % 16 = v % 16
<1> DEFINE h == Field(v, 1, 16)
           n == new % 4096
<1>1. h \in Nat /\ h < 16 /\ h = v % 16
  BY SMT DEF Field
<1>2. n \in Nat /\ n < 4096
  BY SMT
<1> DEFINE w == UpperWord(v, new)
<1>3. w = h + n * 16
  BY SMT DEF UpperWord
<1> HIDE DEF h, n, w
<1>4. w \in Nat /\ w < 65536 /\ w \div 16 = n /\ w % 16 = h
  BY <1>1, <1>2, <1>3, SMT
<1>5. Field(w, 16, 4096) = n
  BY <1>2, <1>4, SMT DEF Field
<1>6. QED
  BY <1>1, <1>4, <1>5, SMT DEF n, w

LEMMA FatStored ==
  ASSUME NEW f \in Formats, NEW c \in Nat, NEW b \in [0 .. 1 -> Byte],
         NEW new \in FatHoldable(f)
  PROVE  /\ FatBytes(f, c, b, new) \in [0 .. 1 -> Byte]
         /\ FatValue(f, c, FatBytes(f, c, b, new)) = new
<1>1. /\ new \in Int /\ new >= -1
      /\ (f.wide => new < 65527) /\ (~f.wide => new < 4087)
  BY FatValuesAre
<1>2. Word(b) \in Nat /\ Word(b) < 65536
  BY WordIs, SMT
<1>3. CASE f.wide
  <2> DEFINE w == new % 65536
  <2>1. w \in Nat /\ w < 65536 /\ FatBytes(f, c, b, new) = WordBytes(w)
    BY <1>1, <1>3, SMT DEF FatBytes, LowerWord, UpperWord
  <2> HIDE DEF w
  <2>2. FatBytes(f, c, b, new) \in [0 .. 1 -> Byte] /\ Word(FatBytes(f, c, b, new)) = w
    BY <2>1, WordBytesIs
  <2>3. (IF w >= 65527 THEN -1 ELSE w) = new
    BY <1>1, <1>3, SMT DEF w
  <2>4. QED
    BY <1>3, <2>2, <2>3, SMT DEF FatValue
<1>4. CASE ~f.wide /\ c % 2 = 1
  <2> DEFINE w == UpperWord(Word(b), new)
             nb == FatBytes(f, c, b, new)
  <2>1. nb = WordBytes(w)
    BY <1>4, SMT DEF FatBytes, LowerWord, UpperWord
  <2>2. w \in Nat /\ w < 65536 /\ Field(w, 16, 4096) = new % 4096
    BY <1>1, <1>2, UpperPart, SMT
  <2>3. (IF new % 4096 >= 4087 THEN -1 ELSE new % 4096) = new
    BY <1>1, <1>4, SMT
  <2> HIDE DEF w
  <2>4. nb \in [0 .. 1 -> Byte] /\ Word(nb) = w
    BY <2>1, <2>2, WordBytesIs
  <2>5. FatValue(f, c, nb) = new
    BY <1>4, <2>2, <2>3, <2>4, SMT DEF FatValue
  <2>6. QED
    BY <2>4, <2>5 DEF nb
<1>5. CASE ~f.wide /\ c % 2 # 1
  <2> DEFINE w == LowerWord(Word(b), new)
             nb == FatBytes(f, c, b, new)
  <2>1. nb = WordBytes(w)
    BY <1>5, SMT DEF FatBytes, LowerWord, UpperWord
  <2>2. w \in Nat /\ w < 65536 /\ Field(w, 1, 4096) = new % 4096
    BY <1>1, <1>2, LowerPart, SMT
  <2>3. (IF new % 4096 >= 4087 THEN -1 ELSE new % 4096) = new
    BY <1>1, <1>5, SMT
  <2> HIDE DEF w
  <2>4. nb \in [0 .. 1 -> Byte] /\ Word(nb) = w
    BY <2>1, <2>2, WordBytesIs
  <2>5. FatValue(f, c, nb) = new
    BY <1>5, <2>2, <2>3, <2>4, SMT DEF FatValue
  <2>6. QED
    BY <2>4, <2>5 DEF nb
<1>6. QED
  BY <1>3, <1>4, <1>5

LEMMA FatPosIs ==
  ASSUME NEW f, NEW c \in Nat
  PROVE  FatPos(f, c) \in Nat
BY SMT DEF FatPos

\* The bytes n2 of an entry are the bytes b2, but for those it has in common
\* with an entry whose bytes nb were b: it begins g bytes after that one.
WordBeside(g, b, nb, b2, n2) ==
  /\ (g >= 2 \/ g <= -2) => n2[0] = b2[0] /\ n2[1] = b2[1]
  /\ g = 1 => n2[0] = nb[1] /\ n2[1] = b2[1] /\ b2[0] = b[1]
  /\ g = -1 => n2[0] = b2[0] /\ n2[1] = nb[0] /\ b2[1] = b[0]

\* The half byte that two entries of a 12 bit FAT have in common is kept.
LEMMA FatNeighbourKept ==
  ASSUME NEW f \in Formats, NEW c \in Nat, NEW d \in Nat, c # d,
         NEW b \in [0 .. 1 -> Byte], NEW b2 \in [0 .. 1 -> Byte], NEW n2,
         NEW new \in FatHoldable(f),
         WordBeside(FatPos(f, d) - FatPos(f, c), b, FatBytes(f, c, b, new), b2, n2)
  PROVE  FatValue(f, d, n2) = FatValue(f, d, b2)
<1> DEFINE g == FatPos(f, d) - FatPos(f, c)
           nb == FatBytes(f, c, b, new)
<1>0. /\ (g >= 2 \/ g <= -2) => n2[0] = b2[0] /\ n2[1] = b2[1]
      /\ g = 1 => n2[0] = nb[1] /\ n2[1] = b2[1] /\ b2[0] = b[1]
      /\ g = -1 => n2[0] = b2[0] /\ n2[1] = nb[0] /\ b2[1] = b[0]
  BY Zenon DEF WordBeside
<1>1. new \in Int
  BY FatValuesAre
<1>2. /\ Word(b) \in Nat /\ Word(b) < 65536 /\ Word(b) = b[0] + 256 * b[1]
      /\ b[0] \in Nat /\ b[0] < 256 /\ b[1] \in Nat /\ b[1] < 256
  BY WordIs, SMT
<1>3. /\ b2[0] \in Nat /\ b2[0] < 256 /\ b2[1] \in Nat /\ b2[1] < 256 /\ Word(b2) = b2[0] + 256 * b2[1]
  BY WordIs, SMT
<1>4. FatPos(f, c) \in Nat /\ FatPos(f, d) \in Nat
  BY FatPosIs
<1>6. ASSUME g >= 2 \/ g <= -2
      PROVE  FatValue(f, d, n2) = FatValue(f, d, b2)
  <2>1. n2[0] = b2[0] /\ n2[1] = b2[1]
    BY <1>0, <1>6, Zenon
  <2>2. Word(n2) = Word(b2)
    BY <2>1 DEF Word
  <2>3. QED
    BY <2>2, SMT DEF FatValue
<1>7. CASE f.wide
  <2>1. FatPos(f, c) = 2 * c /\ FatPos(f, d) = 2 * d
    BY <1>7, Zenon DEF FatPos
  <2>2. g >= 2 \/ g <= -2
    BY <2>1, SMT
  <2>3. QED
    BY <1>6, <2>2
<1>8. CASE ~f.wide
  <2>1. FatPos(f, c) = (3 * c) \div 2 /\ FatPos(f, d) = (3 * d) \div 2
    BY <1>8, Zenon DEF FatPos
  <2>2. /\ g >= 2 \/ g <= -2 \/ g = 1 \/ g = -1
        /\ g = 1 => c % 2 # 1 /\ d % 2 = 1
        /\ g = -1 => c % 2 = 1 /\ d % 2 # 1
    BY <2>1, SMT
  <2>3. CASE g = 1
    <3> DEFINE w == LowerWord(Word(b), new)
    <3>1. nb = WordBytes(w)
      BY <1>8, <2>2, <2>3, SMT DEF FatBytes, LowerWord, UpperWord
    <3>2. w \in Nat /\ w < 65536 /\ (w \div 256) \div 16 = (Word(b) \div 256) \div 16
      <4>1. PICK v \in Nat : v = Word(b) /\ v < 65536
        BY <1>2
      <4>2. QED
        BY <1>1, <4>1, LowerPart
    <3>3. nb[1] = (w \div 256) % 256
      <4> HIDE DEF w
      <4>1. w \in Nat
        BY <3>2, SMT
      <4>2. QED
        BY <3>1, <4>1, WordBytesIs
    <3>4. n2[0] = nb[1] /\ n2[1] = b2[1] /\ b2[0] = b[1]
      BY <1>0, <2>3, Zenon
    <3>5. (Word(b) \div 256) \div 16 = b[1] \div 16
      BY <1>2, SMT
    <3>6. nb[1] \in Nat /\ nb[1] < 256 /\ nb[1] \div 16 = b[1] \div 16
      <4> HIDE DEF w
      <4>1. QED
        BY <3>2, <3>3, <3>5, SMT
    <3>7. Field(nb[1] + 256 * b2[1], 16, 4096) = Field(b[1] + 256 * b2[1], 16, 4096)
      <4>1. /\ (nb[1] + 256 * b2[1]) \div 16 = (nb[1] \div 16) + 16 * b2[1]
            /\ (b[1] + 256 * b2[1]) \div 16 = (b[1] \div 16) + 16 * b2[1]
        BY <1>2, <1>3, <3>6, SMT
      <4>2. QED
        BY <3>6, <4>1, SMT DEF Field
    <3>8. Field(Word(n2), 16, 4096) = Field(Word(b2), 16, 4096)
      BY <3>4, <3>7 DEF Word
    <3>9. QED
      BY <1>8, <2>2, <2>3, <3>8, SMT DEF FatValue
  <2>4. CASE g = -1
    <3> DEFINE w == UpperWord(Word(b), new)
    <3>1. nb = WordBytes(w)
      BY <1>8, <2>2, <2>4, SMT DEF FatBytes, LowerWord, UpperWord
    <3>2. w \in Nat /\ w < 65536 /\ w % 16 = Word(b) % 16
      <4>1. PICK v \in Nat : v = Word(b) /\ v < 65536
        BY <1>2
      <4>2. QED
        BY <1>1, <4>1, UpperPart
    <3>3. nb[0] = w % 256
      <4> HIDE DEF w
      <4>1. w \in Nat
        BY <3>2, SMT
      <4>2. QED
        BY <3>1, <4>1, WordBytesIs
    <3>4. n2[1] = nb[0] /\ n2[0] = b2[0] /\ b2[1] = b[0]
      BY <1>0, <2>4, Zenon
    <3>5. Word(b) % 16 = b[0] % 16
      BY <1>2, SMT
    <3>6. nb[0] \in Nat /\ nb[0] < 256 /\ nb[0] % 16 = b[0] % 16
      <4> HIDE DEF w
      <4>1. QED
        BY <3>2, <3>3, <3>5, SMT
    <3>7. Field(b2[0] + 256 * nb[0], 1, 4096) = Field(b2[0] + 256 * b[0], 1, 4096)
      <4>1. QED
        BY <1>2, <1>3, <3>6, SMT DEF Field
    <3>8. Field(Word(n2), 1, 4096) = Field(Word(b2), 1, 4096)
      BY <3>4, <3>7 DEF Word
    <3>9. QED
      BY <1>8, <2>2, <2>4, <3>8, SMT DEF FatValue
  <2>5. QED
    BY <1>6, <2>2, <2>3, <2>4
<1>9. QED
  BY <1>7, <1>8

-----------------------------------------------------------------------------
(* The MDFAT: numbers are taken apart and put together again.              *)

LEMMA Pieces ==
  ASSUME NEW v \in Nat
  PROVE  /\ Field(v, 1, 256) \in Nat /\ Field(v, 1, 256) < 256
         /\ Field(v, 256, 256) \in Nat /\ Field(v, 256, 256) < 256
         /\ v < 65536 => v = Field(v, 1, 256) + 256 * Field(v, 256, 256)
         /\ v < 2097152 => v = Field(v, 1, 256) + 256 * Field(v, 256, 256) + 65536 * Field(v, 65536, 32)
         /\ v < 4194304 => v = Field(v, 1, 256) + 256 * Field(v, 256, 256) + 65536 * Field(v, 65536, 64)
         /\ v < 16777216 => v = Field(v, 1, 256) + 256 * Field(v, 256, 256) + 65536 * Field(v, 65536, 256)
BY SMT DEF Field

LEMMA Octets3 ==
  ASSUME NEW b0 \in Nat, NEW b1 \in Nat, NEW b2 \in Nat, NEW b3,
         b0 < 256, b1 < 256, b2 < 256
  PROVE  LET b == Octets(<<b0, b1, b2, b3>>, 3) IN
         b \in [0 .. 2 -> Byte] /\ b[0] = b0 /\ b[1] = b1 /\ b[2] = b2
BY SMT DEF Octets, Byte

LEMMA Octets4 ==
  ASSUME NEW b0 \in Nat, NEW b1 \in Nat, NEW b2 \in Nat, NEW b3 \in Nat,
         b0 < 256, b1 < 256, b2 < 256, b3 < 256
  PROVE  LET b == Octets(<<b0, b1, b2, b3>>, 4) IN
         b \in [0 .. 3 -> Byte] /\ b[0] = b0 /\ b[1] = b1 /\ b[2] = b2 /\ b[3] = b3
BY SMT DEF Octets, Byte

LEMMA StacStored ==
  ASSUME NEW f \in Formats, NEW m \in StacHoldable(f)
  PROVE  /\ StacMdeBytes(f, m) \in [0 .. (IF f.wide THEN 4 ELSE 3) - 1 -> Byte]
         /\ StacMdeValue(f, StacMdeBytes(f, m)) =
              StacMde(m.sector_minus_1 + 1, m.size_lo_minus_1, (m.flags \div 16) * 16)
<1> DEFINE v == m.sector_minus_1 + 1
           size == m.size_lo_minus_1
           fl == m.flags
           b0 == Field(v, 1, 256)
           b1 == Field(v, 256, 256)
           s0 == Field(size, 1, 16)
           f0 == Field(fl, 16, 16)
           v2 == Field(v, 65536, 64)
           s1 == Field(size, 16, 4)
           b2 == s0 + 16 * f0
           b3 == v2 + 64 * s1
           nb == StacMdeBytes(f, m)
<1>1. /\ v \in Nat /\ v < 4194304 /\ (~f.wide => v < 65536)
      /\ size \in Nat /\ size < 64 /\ (~f.wide => size < 16)
      /\ fl \in Nat /\ fl < 256
  <2> DEFINE top == IF f.wide THEN 4194302 ELSE 65534
             end == IF f.wide THEN 63 ELSE 15
  <2>1. /\ m.sector_minus_1 \in Between(-1, top) /\ m.size_lo_minus_1 \in Between(0, end)
        /\ m.flags \in Between(0, 255)
    BY SMT DEF StacHoldable
  <2>2. /\ top \in Int /\ top < 4194303 /\ (~f.wide => top = 65534)
        /\ end \in Int /\ end < 64 /\ (~f.wide => end = 15)
    BY SMT
  <2> HIDE DEF top, end
  <2>3. QED
    BY <2>1, <2>2, BetweenIs, SMT DEF v, size, fl
<1>2. nb = Octets(<<b0, b1, b2, b3>>, IF f.wide THEN 4 ELSE 3)
  BY SMT DEF StacMdeBytes
<1> HIDE DEF v, size, fl, nb
<1>3. /\ b0 \in Nat /\ b0 < 256 /\ b1 \in Nat /\ b1 < 256
      /\ v = b0 + 256 * b1 + 65536 * v2 /\ (~f.wide => v = b0 + 256 * b1)
  BY <1>1, Pieces, SMT
<1>4. /\ s0 \in Nat /\ s0 < 16 /\ s1 \in Nat /\ s1 < 4 /\ size = s0 + 16 * s1
      /\ (~f.wide => size = s0)
      /\ f0 \in Nat /\ f0 < 16 /\ 16 * f0 = (fl \div 16) * 16
      /\ v2 \in Nat /\ v2 < 64
  BY <1>1, SMT DEF Field
<1> HIDE DEF b0, b1, s0, s1, f0, v2
<1>5. b2 \in Nat /\ b2 < 256 /\ Field(b2, 1, 16) = s0 /\ Field(b2, 16, 16) = f0
  BY <1>4, SMT DEF Field
<1>6. b3 \in Nat /\ b3 < 256 /\ Field(b3, 1, 64) = v2 /\ Field(b3, 64, 4) = s1
  BY <1>4, SMT DEF Field
<1> HIDE DEF b2, b3
<1>7. CASE f.wide
  <2>1. nb \in [0 .. 3 -> Byte] /\ nb[0] = b0 /\ nb[1] = b1 /\ nb[2] = b2 /\ nb[3] = b3
    BY <1>2, <1>3, <1>5, <1>6, <1>7, Octets4, SMT
  <2>2. StacMdeValue(f, nb) =
          StacMde(Word(nb) + 65536 * Field(nb[3], 1, 64),
                  Field(nb[2], 1, 16) + 16 * Field(nb[3], 64, 4), 16 * Field(nb[2], 16, 16))
    BY <1>7, SMT DEF StacMdeValue
  <2>3. /\ Word(nb) + 65536 * Field(nb[3], 1, 64) = v
        /\ Field(nb[2], 1, 16) + 16 * Field(nb[3], 64, 4) = size
        /\ 16 * Field(nb[2], 16, 16) = (fl \div 16) * 16
    BY <1>3, <1>4, <1>5, <1>6, <2>1, SMT DEF Word
  <2>4. nb \in [0 .. (IF f.wide THEN 4 ELSE 3) - 1 -> Byte]
    BY <1>7, <2>1, SMT
  <2>5. QED
    BY <2>2, <2>3, <2>4, SMT DEF v, size, fl, nb
<1>8. CASE ~f.wide
  <2>1. nb \in [0 .. 2 -> Byte] /\ nb[0] = b0 /\ nb[1] = b1 /\ nb[2] = b2
    BY <1>2, <1>3, <1>5, <1>6, <1>8, Octets3, SMT
  <2>2. StacMdeValue(f, nb) =
          StacMde(Word(nb) + 65536 * Field(0, 1, 64),
                  Field(nb[2], 1, 16) + 16 * Field(0, 64, 4), 16 * Field(nb[2], 16, 16))
    BY <1>8, SMT DEF StacMdeValue
  <2>3. Field(0, 1, 64) = 0 /\ Field(0, 64, 4) = 0
    BY SMT DEF Field
  <2>4. /\ Word(nb) + 65536 * Field(0, 1, 64) = v
        /\ Field(nb[2], 1, 16) + 16 * Field(0, 64, 4) = size
        /\ 16 * Field(nb[2], 16, 16) = (fl \div 16) * 16
    BY <1>3, <1>4, <1>5, <1>8, <2>1, <2>3, SMT DEF Word
  <2>5. nb \in [0 .. (IF f.wide THEN 4 ELSE 3) - 1 -> Byte]
    BY <1>8, <2>1, SMT
  <2>6. QED
    BY <2>2, <2>4, <2>5, SMT DEF v, size, fl, nb
<1>9. QED
  BY <1>7, <1>8

LEMMA DblStored ==
  ASSUME NEW m \in DblHoldable
  PROVE  /\ DblMdeBytes(m) \in [0 .. 3 -> Byte]
         /\ DblMdeValue(DblMdeBytes(m)) = [m EXCEPT !.unknown = 0]
<1> DEFINE v == m.sector_minus_1
           lo == m.size_lo_minus_1
           hi == m.size_hi_minus_1
           fl == m.flags
           b0 == Field(v, 1, 256)
           b1 == Field(v, 256, 256)
           v2 == Field(v, 65536, 32)
           l0 == Field(lo, 1, 4)
           l1 == Field(lo, 4, 4)
           b2 == v2 + 64 * l0
           b3 == l1 + 4 * Field(hi, 1, 16) + 64 * Field(fl, 1, 4)
           nb == DblMdeBytes(m)
<1>1. /\ v \in Nat /\ v < 2097152 /\ lo \in Nat /\ lo < 16 /\ hi \in Nat /\ hi < 16
      /\ fl \in Nat /\ fl < 4
  <2>1. /\ m.sector_minus_1 \in Between(0, 2097151) /\ m.size_lo_minus_1 \in Between(0, 15)
        /\ m.size_hi_minus_1 \in Between(0, 15) /\ m.flags \in Between(0, 3)
    BY SMT DEF DblHoldable
  <2>2. QED
    BY <2>1, BetweenIs, SMT
<1>2. nb = Octets(<<b0, b1, b2, b3>>, 4)
  BY SMT DEF DblMdeBytes
<1>3. [m EXCEPT !.unknown = 0] =
        [sector_minus_1 |-> v, unknown |-> 0, size_lo_minus_1 |-> lo, size_hi_minus_1 |-> hi, flags |-> fl]
  BY SMT DEF DblHoldable
<1> HIDE DEF v, lo, hi, fl, nb
<1>4. /\ b0 \in Nat /\ b0 < 256 /\ b1 \in Nat /\ b1 < 256 /\ v = b0 + 256 * b1 + 65536 * v2
  BY <1>1, Pieces, SMT
<1>5. /\ l0 \in Nat /\ l0 < 4 /\ l1 \in Nat /\ l1 < 4 /\ lo = l0 + 4 * l1
      /\ v2 \in Nat /\ v2 < 32 /\ Field(hi, 1, 16) = hi /\ Field(fl, 1, 4) = fl
  BY <1>1, SMT DEF Field
<1> HIDE DEF b0, b1, l0, l1, v2
<1>6. b2 \in Nat /\ b2 < 256 /\ Field(b2, 1, 32) = v2 /\ Field(b2, 32, 2) = 0 /\ Field(b2, 64, 4) = l0
  BY <1>5, SMT DEF Field
<1>7. b3 \in Nat /\ b3 < 256 /\ Field(b3, 1, 4) = l1 /\ Field(b3, 4, 16) = hi /\ Field(b3, 64, 4) = fl
  <2>1. b3 = l1 + 4 * hi + 64 * fl
    BY <1>5
  <2> HIDE DEF b3
  <2>2. QED
    BY <1>1, <1>5, <2>1, SMT DEF Field
<1> HIDE DEF b2, b3
<1>8. nb \in [0 .. 3 -> Byte] /\ nb[0] = b0 /\ nb[1] = b1 /\ nb[2] = b2 /\ nb[3] = b3
  BY <1>2, <1>4, <1>6, <1>7, Octets4, SMT
<1>9. /\ Word(nb) + 65536 * Field(nb[2], 1, 32) = v /\ Field(nb[2], 32, 2) = 0
      /\ 4 * Field(nb[3], 1, 4) + Field(nb[2], 64, 4) = lo
      /\ Field(nb[3], 4, 16) = hi /\ Field(nb[3], 64, 4) = fl
  BY <1>4, <1>5, <1>6, <1>7, <1>8, SMT DEF Word
<1>10. DblMdeValue(nb) =
         [sector_minus_1 |-> v, unknown |-> 0, size_lo_minus_1 |-> lo, size_hi_minus_1 |-> hi, flags |-> fl]
  BY <1>9, SMT DEF DblMdeValue
<1>11. QED
  BY <1>3, <1>8, <1>10 DEF nb

LEMMA DrvStored ==
  ASSUME NEW m \in DrvHoldable
  PROVE  /\ DrvMdeBytes(m) \in [0 .. 4 -> Byte]
         /\ DrvMdeValue(DrvMdeBytes(m)) = m
<1> DEFINE v == m.sector_minus_1
           un == m.unknown
           lo == m.size_lo_minus_1
           hi == m.size_hi_minus_1
           fl == m.flags
           b0 == Field(v, 1, 256)
           b1 == Field(v, 256, 256)
           b2 == Field(v, 65536, 256)
           b3 == Field(un, 1, 4) + 4 * Field(lo, 1, 64)
           b4 == Field(hi, 1, 64) + 64 * Field(fl, 1, 4)
           nb == DrvMdeBytes(m)
<1>1. /\ v \in Nat /\ v < 16777216 /\ lo \in Nat /\ lo < 64 /\ hi \in Nat /\ hi < 64
      /\ fl \in Nat /\ fl < 4 /\ un \in Nat /\ un < 4
  <2>1. /\ m.sector_minus_1 \in Between(0, 16777215) /\ m.size_lo_minus_1 \in Between(0, 63)
        /\ m.size_hi_minus_1 \in Between(0, 63) /\ m.flags \in Between(0, 3) /\ m.unknown \in Between(0, 3)
    BY SMT DEF DrvHoldable
  <2>2. QED
    BY <2>1, BetweenIs, SMT
<1>2. nb = Octets(<<b0, b1, b2, b3, b4>>, 5)
  BY SMT DEF DrvMdeBytes
<1>3. m = [sector_minus_1 |-> v, unknown |-> un, size_lo_minus_1 |-> lo, size_hi_minus_1 |-> hi, flags |-> fl]
  BY SMT DEF DrvHoldable
<1> HIDE DEF v, un, lo, hi, fl, nb
<1>4. /\ b0 \in Nat /\ b0 < 256 /\ b1 \in Nat /\ b1 < 256 /\ v = b0 + 256 * b1 + 65536 * b2
  BY <1>1, Pieces, SMT
<1>5. /\ b2 \in Nat /\ b2 < 256 /\ Field(un, 1, 4) = un /\ Field(lo, 1, 64) = lo
      /\ Field(hi, 1, 64) = hi /\ Field(fl, 1, 4) = fl
  BY <1>1, SMT DEF Field
<1>6. b3 = un + 4 * lo /\ b4 = hi + 64 * fl
  BY <1>5
<1> HIDE DEF b0, b1, b2, b3, b4
<1>7. b3 \in Nat /\ b3 < 256 /\ Field(b3, 1, 4) = un /\ Field(b3, 4, 64) = lo
  BY <1>1, <1>6, SMT DEF Field
<1>8. b4 \in Nat /\ b4 < 256 /\ Field(b4, 1, 64) = hi /\ Field(b4, 64, 4) = fl
  BY <1>1, <1>6, SMT DEF Field
<1>9. nb \in [0 .. 4 -> Byte] /\ nb[0] = b0 /\ nb[1] = b1 /\ nb[2] = b2 /\ nb[3] = b3 /\ nb[4] = b4
  <2>1. b0 \in Nat /\ b0 < 256 /\ b1 \in Nat /\ b1 < 256 /\ b2 \in Nat /\ b2 < 256
    BY <1>4, <1>5
  <2>2. b3 \in Nat /\ b3 < 256 /\ b4 \in Nat /\ b4 < 256
    BY <1>7, <1>8
  <2>3. QED
    <3> DEFINE b == Octets(<<b0, b1, b2, b3, b4>>, 5)
    <3>1. b \in [0 .. 4 -> Byte] /\ b[0] = b0 /\ b[1] = b1 /\ b[2] = b2 /\ b[3] = b3 /\ b[4] = b4
      BY <2>1, <2>2, SMT DEF Octets, Byte
    <3>2. nb = b
      BY <1>2
    <3> HIDE DEF b
    <3>3. QED
      BY <3>1, <3>2
<1>10. Word(nb) + 65536 * nb[2] = v
  BY <1>4, <1>5, <1>9, SMT DEF Word
<1>11. DrvMdeValue(nb) =
         [sector_minus_1 |-> v, unknown |-> un, size_lo_minus_1 |-> lo, size_hi_minus_1 |-> hi, flags |-> fl]
  BY <1>7, <1>8, <1>9, <1>10, SMT DEF DrvMdeValue
<1>12. QED
  BY <1>3, <1>9, <1>11 DEF nb

LEMMA MdeStored ==
  ASSUME NEW f \in Formats, NEW m \in MdeHoldable(f)
  PROVE  /\ MdeBytes(f, m) \in [0 .. LenOf(f, "mdfat") - 1 -> Byte]
         /\ MdeValue(f, MdeBytes(f, m)) = Kept(f, "mdfat", m)
<1>1. CASE Stac(f)
  <2>1. /\ StacMdeBytes(f, m) \in [0 .. (IF f.wide THEN 4 ELSE 3) - 1 -> Byte]
        /\ StacMdeValue(f, StacMdeBytes(f, m)) =
             StacMde(m.sector_minus_1 + 1, m.size_lo_minus_1, (m.flags \div 16) * 16)
    BY <1>1, StacStored DEF MdeHoldable
  <2>2. QED
    BY <1>1, <2>1, Zenon DEF MdeBytes, MdeValue, Kept, LenOf
<1>2. CASE ~Stac(f) /\ f.version = "DRVSP3"
  <2>1. DrvMdeBytes(m) \in [0 .. 5 - 1 -> Byte] /\ DrvMdeValue(DrvMdeBytes(m)) = m
    BY <1>2, DrvStored, SMT DEF MdeHoldable
  <2>2. QED
    BY <1>2, <2>1, Zenon DEF MdeBytes, MdeValue, Kept, LenOf
<1>3. CASE ~Stac(f) /\ f.version # "DRVSP3"
  <2>1. DblMdeBytes(m) \in [0 .. 4 - 1 -> Byte] /\ DblMdeValue(DblMdeBytes(m)) = [m EXCEPT !.unknown = 0]
    BY <1>3, DblStored, SMT DEF MdeHoldable
  <2>2. QED
    BY <1>3, <2>1, Zenon DEF MdeBytes, MdeValue, Kept, LenOf
<1>4. QED
  BY <1>1, <1>2, <1>3

-----------------------------------------------------------------------------
(* The BITFAT: a digit of a number is changed, and the others are not.     *)

\* The number v with the digit d at the weight w, to the base n.
WithDigit(v, w, n, d) == v + (d - Field(v, w, n)) * w

\* A number is the digits above, the digit and those below.
LEMMA DigitsOf ==
  ASSUME NEW v \in Nat, NEW w \in Nat, NEW n \in Nat, w > 0, n > 0
  PROVE  \E high \in Nat, low \in Nat :
           /\ low < w /\ v = w * (n * high + Field(v, w, n)) + low
           /\ Field(v, w, n) \in Nat /\ Field(v, w, n) < n
<1> DEFINE q == v \div w
           low == v % w
           high == q \div n
           d == q % n
<1>1. q \in Nat /\ low \in Nat /\ low < w /\ v = w * q + low
  BY DivMod, SMT
<1> HIDE DEF q, low
<1>2. high \in Nat /\ d \in Nat /\ d < n /\ q = n * high + d
  BY <1>1, DivMod, SMT
<1>3. Field(v, w, n) = d
  BY DEF Field, q
<1> HIDE DEF d, high
<1>4. QED
  BY <1>1, <1>2, <1>3

\* The number with another digit has the same digits above and below.
Number(w, n, high, d, low) == w * (n * high + d) + low
IsSplit(v, w, n, d, high, low) ==
  /\ low < w
  /\ v = Number(w, n, high, Field(v, w, n), low) /\ Field(v, w, n) \in Nat /\ Field(v, w, n) < n
  /\ WithDigit(v, w, n, d) = Number(w, n, high, d, low)
LEMMA DigitKept ==
  ASSUME NEW v \in Nat, NEW w \in Nat, NEW n \in Nat, w > 0, n > 0, NEW d \in Nat, d < n
  PROVE  /\ \E high \in Nat, low \in Nat : IsSplit(v, w, n, d, high, low)
         /\ Field(v, w, n) \in Nat
         /\ WithDigit(v, w, n, d) \in Nat
         /\ Field(WithDigit(v, w, n, d), w, n) = d
<1> DEFINE o == Field(v, w, n)
<1>1. PICK high \in Nat, low \in Nat :
        low < w /\ v = w * (n * high + o) + low /\ o \in Nat /\ o < n
  <2>1. \E high \in Nat, low \in Nat :
           /\ low < w /\ v = w * (n * high + Field(v, w, n)) + low
           /\ Field(v, w, n) \in Nat /\ Field(v, w, n) < n
    BY DigitsOf
  <2>2. QED
    BY <2>1, Zenon
<1> HIDE DEF o
<1>2. v + (d - o) * w = w * (n * high + d) + low /\ w * (n * high + d) + low \in Nat
  BY <1>1, SMT
<1>3. Field(w * (n * high + d) + low, w, n) = d
  <2> DEFINE q == n * high + d
  <2>1. high \in Nat /\ low \in Nat /\ low < w
    BY <1>1
  <2>2. q \in Nat /\ q % n = d
    BY <2>1, DivUnique, SMT
  <2> HIDE DEF q
  <2>3. (w * q + low) \div w = q
    BY <2>1, <2>2, DivUnique
  <2>4. Field(w * q + low, w, n) = d
    BY <2>2, <2>3 DEF Field
  <2>5. QED
    BY <2>4 DEF q
<1>4. QED
  BY <1>1, <1>2, <1>3 DEF WithDigit, o, IsSplit, Number

LEMMA DivDiv ==
  ASSUME NEW x \in Nat, NEW a \in Nat, NEW b \in Nat, a > 0, b > 0
  PROVE  x \div (a * b) = (x \div a) \div b
<1> DEFINE q == x \div a
           r == x % a
           h == q \div b
           l == q % b
<1>1. q \in Nat /\ r \in Nat /\ r < a /\ x = a * q + r
  BY DivMod, SMT
<1> HIDE DEF q, r
<1>2. h \in Nat /\ l \in Nat /\ l < b /\ q = b * h + l
  BY <1>1, DivMod, SMT
<1> HIDE DEF h, l
<1> DEFINE n == a * b
           y == a * l + r
<1>3. n \in Nat /\ x = n * h + y
  BY <1>1, <1>2, SMT
<1>4. y \in Nat /\ y < n
  <2>1. a * l \in Nat /\ a * l <= a * (b - 1) /\ a * (b - 1) = a * b - a
    BY <1>2, SMT
  <2>2. QED
    BY <1>1, <2>1, SMT
<1> HIDE DEF n, y
<1>5. x \div n = h
  BY <1>2, <1>3, <1>4, DivUnique
<1>6. QED
  BY <1>5 DEF n, h, q

Times(w, n, m) == w * n * m

\* A digit of more weight.
LEMMA HigherDigit ==
  ASSUME NEW w \in Nat, NEW n \in Nat, w > 0, n > 0, NEW m \in Nat, m > 0,
         NEW high \in Nat, NEW low \in Nat, low < w, NEW d \in Nat, d < n,
         NEW x, x = Number(w, n, high, d, low), NEW top, top = Times(w, n, m)
  PROVE  x \div top = high \div m
<1> DEFINE q == n * high + d
<1>1. q \in Nat /\ q \div n = high
  BY DivUnique, SMT
<1> HIDE DEF q
<1>2. x \in Nat /\ x \div w = q
  <2>1. x = w * q + low
    BY DEF q, Number
  <2>2. QED
    BY <1>1, <2>1, DivUnique, SMT
<1>3. n * m \in Nat /\ n * m > 0 /\ w * (n * m) = Times(w, n, m)
  BY SMT DEF Times
<1>4. x \div (w * (n * m)) = q \div (n * m)
  BY <1>2, <1>3, DivDiv
<1>5. q \div (n * m) = high \div m
  BY <1>1, DivDiv
<1>6. QED
  BY <1>3, <1>4, <1>5

\* A digit of less weight.
LEMMA LowerDigit ==
  ASSUME NEW v \in Nat, NEW w \in Nat, NEW n \in Nat, w > 0, n > 0, NEW m \in Nat, NEW k \in Int,
         NEW u \in Nat, u = v + k * Times(w, n, m)
  PROVE  Field(u, w, n) = Field(v, w, n)
<1> DEFINE q == v \div w
           r == v % w
           j == k * m
           h == q \div n
           d == q % n
<1>1. q \in Nat /\ r \in Nat /\ r < w /\ v = w * q + r
  BY DivMod, SMT
<1>2. j \in Int /\ u = w * (q + n * j) + r
  <2> HIDE DEF q, r
  <2>1. QED
    BY <1>1, SMT DEF Times
<1> HIDE DEF q, r, j
<1>3. u \div w = q + n * j
  <2> DEFINE z == q + n * j
  <2>1. z \in Int /\ u = w * z + r
    BY <1>1, <1>2, SMT
  <2> HIDE DEF z
  <2>2. u \div w = z
    BY <1>1, <2>1, DivUnique
  <2>3. QED
    BY <2>2 DEF z
<1>4. h \in Nat /\ d \in Nat /\ d < n /\ q = n * h + d
  BY <1>1, DivMod, SMT
<1> HIDE DEF h, d
<1>5. q + n * j = n * (h + j) + d /\ h + j \in Int
  BY <1>2, <1>4, SMT
<1>6. (q + n * j) % n = d
  BY <1>4, <1>5, DivUnique
<1>7. QED
  BY <1>3, <1>6 DEF Field, q, d

LEMMA SameAbove ==
  ASSUME NEW v \in Nat, NEW w \in Nat, NEW n \in Nat, w > 0, n > 0, NEW d \in Nat, d < n,
         NEW m \in Nat, m > 0, NEW top, top = Times(w, n, m)
  PROVE  WithDigit(v, w, n, d) \div top = v \div top
<1> DEFINE o == Field(v, w, n)
           x == WithDigit(v, w, n, d)
<1>1. PICK high \in Nat, low \in Nat : IsSplit(v, w, n, d, high, low)
  BY DigitKept
<1>2. low < w /\ v = Number(w, n, high, o, low) /\ o \in Nat /\ o < n /\ x = Number(w, n, high, d, low)
  BY <1>1 DEF IsSplit
<1> HIDE DEF o, x
<1>3. x \div top = high \div m
  BY <1>2, HigherDigit
<1>4. v \div top = high \div m
  BY <1>2, HigherDigit
<1>5. QED
  BY <1>3, <1>4 DEF x

\* A digit of another weight is kept.
LEMMA OtherDigits ==
  ASSUME NEW v \in Nat, NEW w \in Nat, NEW n \in Nat, w > 0, n > 0, NEW d \in Nat, d < n,
         NEW w2 \in Nat, w2 > 0, NEW m \in Nat, m > 0, w2 = Times(w, n, m) \/ w = Times(w2, n, m)
  PROVE  Field(WithDigit(v, w, n, d), w2, n) = Field(v, w2, n)
<1>1. CASE w2 = Times(w, n, m)
  <2>1. WithDigit(v, w, n, d) \div w2 = v \div w2
    BY <1>1, SameAbove
  <2>2. QED
    BY <2>1 DEF Field
<1>2. CASE w = Times(w2, n, m)
  <2> DEFINE k == d - Field(v, w, n)
             u == WithDigit(v, w, n, d)
  <2>1. Field(v, w, n) \in Nat /\ u \in Nat
    BY DigitKept
  <2>2. k \in Int
    BY <2>1, SMT
  <2>3. u = v + k * w
    BY DEF WithDigit
  <2> HIDE DEF k, u
  <2>4. u = v + k * Times(w2, n, m)
    BY <1>2, <2>3
  <2>5. Field(u, w2, n) = Field(v, w2, n)
    BY <2>1, <2>2, <2>4, LowerDigit
  <2>6. QED
    BY <2>5 DEF u
<1>3. QED
  BY <1>1, <1>2

LEMMA DigitBound ==
  ASSUME NEW v \in Nat, NEW w \in Nat, NEW n \in Nat, w > 0, n > 0, NEW d \in Nat, d < n,
         NEW m \in Nat, m > 0, NEW top, top = Times(w, n, m), v < top
  PROVE  /\ WithDigit(v, w, n, d) \in Nat /\ WithDigit(v, w, n, d) < top
         /\ Field(WithDigit(v, w, n, d), w, n) = d
<1> DEFINE x == WithDigit(v, w, n, d)
<1>1. x \in Nat /\ Field(x, w, n) = d
  BY DigitKept
<1>2. x \div top = v \div top
  BY SameAbove
<1>3. top \in Nat /\ top > 0
  BY SMT DEF Times
<1> HIDE DEF x
<1>4. v \div top = 0
  BY <1>3, SMT
<1>5. x < top
  BY <1>1, <1>2, <1>3, <1>4, DivMod, SMT
<1>6. QED
  BY <1>1, <1>5 DEF x

\* The weights of the digits of a byte or a word.
Powers == {1, 2, 4, 8, 16, 32, 64, 128, 256, 512, 1024, 2048, 4096, 8192, 16384, 32768}
Pow(n, i) == n ^ i
Indexed(i, w) ==
  \/ (i = 0 /\ w = 1) \/ (i = 1 /\ w = 2) \/ (i = 2 /\ w = 4) \/ (i = 3 /\ w = 8)
  \/ (i = 4 /\ w = 16) \/ (i = 5 /\ w = 32) \/ (i = 6 /\ w = 64) \/ (i = 7 /\ w = 128)
  \/ (i = 8 /\ w = 256) \/ (i = 9 /\ w = 512) \/ (i = 10 /\ w = 1024) \/ (i = 11 /\ w = 2048)
  \/ (i = 12 /\ w = 4096) \/ (i = 13 /\ w = 8192) \/ (i = 14 /\ w = 16384) \/ (i = 15 /\ w = 32768)

LEMMA PowersOf2 ==
  ASSUME NEW i \in 0 .. 15
  PROVE  Indexed(i, Pow(2, i))
<1>1. /\ Indexed(0, Pow(2, 0)) /\ Indexed(1, Pow(2, 1)) /\ Indexed(2, Pow(2, 2))
      /\ Indexed(3, Pow(2, 3)) /\ Indexed(4, Pow(2, 4)) /\ Indexed(5, Pow(2, 5))
      /\ Indexed(6, Pow(2, 6)) /\ Indexed(7, Pow(2, 7))
  <2>1. /\ Pow(2, 0) = 1 /\ Pow(2, 1) = 2 /\ Pow(2, 2) = 4 /\ Pow(2, 3) = 8 /\ Pow(2, 4) = 16
        /\ Pow(2, 5) = 32 /\ Pow(2, 6) = 64 /\ Pow(2, 7) = 128
    BY SMT DEF Pow
  <2>2. QED
    BY <2>1, SMT DEF Indexed
<1>2. /\ Indexed(8, Pow(2, 8)) /\ Indexed(9, Pow(2, 9)) /\ Indexed(10, Pow(2, 10))
      /\ Indexed(11, Pow(2, 11)) /\ Indexed(12, Pow(2, 12)) /\ Indexed(13, Pow(2, 13))
      /\ Indexed(14, Pow(2, 14)) /\ Indexed(15, Pow(2, 15))
  <2>1. /\ Pow(2, 8) = 256 /\ Pow(2, 9) = 512 /\ Pow(2, 10) = 1024 /\ Pow(2, 11) = 2048
        /\ Pow(2, 12) = 4096 /\ Pow(2, 13) = 8192 /\ Pow(2, 14) = 16384 /\ Pow(2, 15) = 32768
    BY SMT DEF Pow
  <2>2. QED
    BY <2>1, SMT DEF Indexed
<1>3. \/ i = 0 \/ i = 1 \/ i = 2 \/ i = 3 \/ i = 4 \/ i = 5 \/ i = 6 \/ i = 7
      \/ i = 8 \/ i = 9 \/ i = 10 \/ i = 11 \/ i = 12 \/ i = 13 \/ i = 14 \/ i = 15
  BY SMT
<1>4. QED
  BY <1>1, <1>2, <1>3, SMT

LEMMA PowersOf4 ==
  ASSUME NEW i \in 0 .. 3
  PROVE  (i = 0 /\ Pow(4, i) = 1) \/ (i = 1 /\ Pow(4, i) = 4)
         \/ (i = 2 /\ Pow(4, i) = 16) \/ (i = 3 /\ Pow(4, i) = 64)
<1>1. Pow(4, 0) = 1 /\ Pow(4, 1) = 4 /\ Pow(4, 2) = 16 /\ Pow(4, 3) = 64
  BY SMT DEF Pow
<1>2. i = 0 \/ i = 1 \/ i = 2 \/ i = 3
  BY SMT
<1>3. QED
  BY <1>1, <1>2, SMT

LEMMA IndexedIs ==
  ASSUME NEW i, NEW w, Indexed(i, w)
  PROVE  w \in Powers /\ \A j : Indexed(j, w) => j = i
BY SMT DEF Indexed, Powers

LEMMA PowersDivide ==
  ASSUME NEW w \in Powers, NEW w2 \in Powers, w < w2
  PROVE  \E m \in Powers : w2 = w * 2 * m
BY SMT DEF Powers

LEMMA PowersDivide4 ==
  ASSUME NEW w \in {1, 4, 16, 64}, NEW w2 \in {1, 4, 16, 64}, w < w2
  PROVE  \E m \in {1, 4, 16} : w2 = w * 4 * m
BY SMT

\* How far a byte or a word of the BITFAT goes.
TopOf(f) == IF Stac(f) THEN 256 ELSE 65536
\* The index of a sector's digit, and the greatest.
DigitOf(f, s) == (s - DataStart) % (IF Stac(f) THEN PerByte(f) ELSE 16)

LEMMA WeightIs ==
  ASSUME NEW f \in Formats, NEW s, s - DataStart \in Nat
  PROVE  /\ f.version = "STAC4" => /\ Weight(f, s) = Pow(4, DigitOf(f, s)) /\ DigitOf(f, s) \in 0 .. 3
                                   /\ Width(f) = 4
         /\ f.version = "STAC3" => /\ Weight(f, s) = Pow(2, DigitOf(f, s)) /\ DigitOf(f, s) \in 0 .. 7
                                   /\ Width(f) = 2
         /\ ~Stac(f) => /\ Weight(f, s) = Pow(2, 15 - DigitOf(f, s)) /\ DigitOf(f, s) \in 0 .. 15
                        /\ Width(f) = 2
<1> DEFINE n == s - DataStart
<1>1. n \in Nat
  OBVIOUS
<1> HIDE DEF n
<1>2. n % 4 \in 0 .. 3 /\ n % 8 \in 0 .. 7 /\ n % 16 \in 0 .. 15
  BY <1>1, SMT
<1>3. CASE f.version = "STAC4"
  BY <1>2, <1>3, Zenon DEF Weight, Width, PerByte, DigitOf, Pow, Stac, n
<1>4. CASE f.version = "STAC3"
  BY <1>2, <1>4, Zenon DEF Weight, Width, PerByte, DigitOf, Pow, Stac, n
<1>5. CASE ~Stac(f)
  BY <1>2, <1>5, Zenon DEF Weight, Width, DigitOf, Pow, Stac, n
<1>6. QED
  BY <1>3, <1>4, <1>5, Zenon DEF Stac

\* A weight is one of a digit of the byte or the word.
LEMMA WeightFits ==
  ASSUME NEW f \in Formats, NEW s, s - DataStart \in Nat
  PROVE  /\ Weight(f, s) \in Nat /\ Weight(f, s) > 0 /\ Width(f) \in {2, 4}
         /\ \E m \in Nat : m > 0 /\ TopOf(f) = Times(Weight(f, s), Width(f), m)
<1> DEFINE w == Weight(f, s)
           i == DigitOf(f, s)
<1>1. CASE f.version = "STAC4"
  <2>1. w = Pow(4, i) /\ i \in 0 .. 3 /\ Width(f) = 4
    BY <1>1, WeightIs
  <2>2. w \in {1, 4, 16, 64}
    <3> HIDE DEF i, w
    <3>1. QED
      BY <2>1, PowersOf4, SMT
  <2>3. TopOf(f) = 256
    BY <1>1, SMT DEF TopOf, Stac
  <2> HIDE DEF w
  <2>4. \E m \in {1, 4, 16, 64} : 256 = w * 4 * m
    BY <2>2, SMT
  <2>5. QED
    BY <2>1, <2>2, <2>3, <2>4, SMT DEF Times, w
<1>2. CASE f.version = "STAC3"
  <2>1. w = Pow(2, i) /\ i \in 0 .. 7 /\ Width(f) = 2
    BY <1>2, WeightIs
  <2>2. w \in {1, 2, 4, 8, 16, 32, 64, 128}
    <3> HIDE DEF i, w
    <3>1. i \in 0 .. 15 /\ i < 8
      BY <2>1, SMT
    <3>2. Indexed(i, w)
      BY <2>1, <3>1, PowersOf2
    <3>3. QED
      BY <3>1, <3>2, SMT DEF Indexed
  <2>3. TopOf(f) = 256
    BY <1>2, SMT DEF TopOf, Stac
  <2> HIDE DEF w
  <2>4. \E m \in {1, 2, 4, 8, 16, 32, 64, 128} : 256 = w * 2 * m
    BY <2>2, SMT
  <2>5. QED
    BY <2>1, <2>2, <2>3, <2>4, SMT DEF Times, w
<1>3. CASE ~Stac(f)
  <2>1. w = Pow(2, 15 - i) /\ i \in 0 .. 15 /\ Width(f) = 2
    BY <1>3, WeightIs
  <2>2. w \in Powers
    <3> HIDE DEF i, w
    <3>1. 15 - i \in 0 .. 15
      BY <2>1, SMT
    <3>2. Indexed(15 - i, w)
      BY <2>1, <3>1, PowersOf2
    <3>3. QED
      BY <3>2, IndexedIs
  <2>3. TopOf(f) = 65536
    BY <1>3, SMT DEF TopOf
  <2> HIDE DEF w
  <2>4. \E m \in Powers : 65536 = w * 2 * m
    BY <2>2, SMT DEF Powers
  <2>5. QED
    BY <2>1, <2>2, <2>3, <2>4, SMT DEF Times, Powers, w
<1>4. QED
  BY <1>1, <1>2, <1>3 DEF Stac
\* Two sectors in one byte or word have different digits of it.
LEMMA WeightsDiffer ==
  ASSUME NEW f \in Formats, NEW s \in Int, NEW s2 \in Int, s - DataStart \in Nat, s2 - DataStart \in Nat,
         s # s2, BitfatPos(f, s) = BitfatPos(f, s2)
  PROVE  \E m \in Nat : /\ m > 0
                        /\ \/ Weight(f, s2) = Times(Weight(f, s), Width(f), m)
                           \/ Weight(f, s) = Times(Weight(f, s2), Width(f), m)
<1> DEFINE i == DigitOf(f, s)
           j == DigitOf(f, s2)
           w == Weight(f, s)
           w2 == Weight(f, s2)
<1>1. i # j
  <2> DEFINE p == IF Stac(f) THEN PerByte(f) ELSE 16
  <2>1. p \in {4, 8, 16}
    BY DEF PerByte
  <2>2. (s - DataStart) \div p = (s2 - DataStart) \div p
    <3>1. CASE Stac(f)
      BY <3>1 DEF BitfatPos
    <3>2. CASE ~Stac(f)
      <4>1. ((s - DataStart) \div 16) \in Nat /\ ((s2 - DataStart) \div 16) \in Nat
        BY SMT
      <4>2. SectorSize + ((s - DataStart) \div 16) * 2 = SectorSize + ((s2 - DataStart) \div 16) * 2
        BY <3>2, SMT DEF BitfatPos
      <4>3. QED
        BY <3>2, <4>1, <4>2, SectorSizeSound, SMT
    <3>3. QED
      BY <3>1, <3>2
  <2>3. DataStart \in Nat
    BY StartsSound
  <2>4. (s - DataStart) % p # (s2 - DataStart) % p
    <3> HIDE DEF p
    <3>1. QED
      BY <2>1, <2>2, <2>3, SMT
  <2>5. QED
    BY <2>4 DEF DigitOf
<1>2. CASE f.version = "STAC4"
  <2>1. w = Pow(4, i) /\ w2 = Pow(4, j) /\ i \in 0 .. 3 /\ j \in 0 .. 3 /\ Width(f) = 4
    BY <1>2, WeightIs
  <2>2. w \in {1, 4, 16, 64} /\ w2 \in {1, 4, 16, 64} /\ w # w2
    <3> HIDE DEF i, j, w, w2
    <3>1. (i = 0 /\ w = 1) \/ (i = 1 /\ w = 4) \/ (i = 2 /\ w = 16) \/ (i = 3 /\ w = 64)
      BY <2>1, PowersOf4
    <3>2. (j = 0 /\ w2 = 1) \/ (j = 1 /\ w2 = 4) \/ (j = 2 /\ w2 = 16) \/ (j = 3 /\ w2 = 64)
      BY <2>1, PowersOf4
    <3>3. QED
      BY <1>1, <3>1, <3>2, SMT
  <2> HIDE DEF i, j, w, w2
  <2>3. CASE w < w2
    <3>1. \E m \in {1, 4, 16} : w2 = w * 4 * m
      BY <2>2, <2>3, PowersDivide4
    <3>2. QED
      BY <2>1, <3>1, SMT DEF Times, w, w2
  <2>4. CASE w2 < w
    <3>1. \E m \in {1, 4, 16} : w = w2 * 4 * m
      BY <2>2, <2>4, PowersDivide4
    <3>2. QED
      BY <2>1, <3>1, SMT DEF Times, w, w2
  <2>5. QED
    BY <2>2, <2>3, <2>4, SMT
<1>3. CASE f.version # "STAC4"
  <2> DEFINE x == IF Stac(f) THEN i ELSE 15 - i
             y == IF Stac(f) THEN j ELSE 15 - j
  <2>1. w = Pow(2, x) /\ w2 = Pow(2, y) /\ x \in 0 .. 15 /\ y \in 0 .. 15 /\ Width(f) = 2 /\ x # y
    <3>1. CASE f.version = "STAC3"
      <4>1. Stac(f)
        BY <3>1 DEF Stac
      <4>2. w = Pow(2, i) /\ w2 = Pow(2, j) /\ i \in 0 .. 7 /\ j \in 0 .. 7 /\ Width(f) = 2
        BY <3>1, WeightIs
      <4> HIDE DEF i, j, w, w2
      <4>3. QED
        BY <1>1, <4>1, <4>2, SMT
    <3>2. CASE ~Stac(f)
      <4>1. w = Pow(2, 15 - i) /\ w2 = Pow(2, 15 - j) /\ i \in 0 .. 15 /\ j \in 0 .. 15 /\ Width(f) = 2
        BY <3>2, WeightIs
      <4> HIDE DEF i, j, w, w2
      <4>3. QED
        BY <1>1, <3>2, <4>1, SMT
    <3>3. QED
      BY <1>3, <3>1, <3>2 DEF Stac
  <2> HIDE DEF i, j, w, w2, x, y
  <2>2. Indexed(x, w) /\ Indexed(y, w2)
    BY <2>1, PowersOf2
  <2>3. w \in Powers /\ w2 \in Powers /\ w # w2
    BY <2>1, <2>2, IndexedIs
  <2>4. \A p \in Powers : p \in Nat /\ p > 0
    BY SMT DEF Powers
  <2>5. CASE w < w2
    <3>1. \E m \in Powers : w2 = w * 2 * m
      BY <2>3, <2>5, PowersDivide
    <3>2. QED
      BY <2>1, <2>4, <3>1, SMT DEF Times, w, w2
  <2>6. CASE w2 < w
    <3>1. \E m \in Powers : w = w2 * 2 * m
      BY <2>3, <2>6, PowersDivide
    <3>2. QED
      BY <2>1, <2>4, <3>1, SMT DEF Times, w, w2
  <2>7. QED
    BY <2>3, <2>4, <2>5, <2>6, SMT
<1>4. QED
  BY <1>2, <1>3

LEMMA BitsWordIs ==
  ASSUME NEW f \in Formats, NEW b \in [0 .. LenOf(f, "bitfat") - 1 -> Byte]
  PROVE  BitsWord(f, b) \in Nat /\ BitsWord(f, b) < TopOf(f)
<1>1. CASE Stac(f)
  BY <1>1, SMT DEF LenOf, BitsWord, TopOf, Byte
<1>2. CASE ~Stac(f)
  <2>1. b \in [0 .. 1 -> Byte]
    BY <1>2, SMT DEF LenOf
  <2>2. QED
    BY <1>2, <2>1, WordIs, SMT DEF BitsWord, TopOf
<1>3. QED
  BY <1>1, <1>2

\* The byte or the word after a write.
LEMMA BitsBytesAre ==
  ASSUME NEW f \in Formats, NEW s, s - DataStart \in Nat,
         NEW b \in [0 .. LenOf(f, "bitfat") - 1 -> Byte], NEW new \in BitsHoldable(f)
  PROVE  /\ new \in Nat /\ new < Width(f)
         /\ BitsBytes(f, s, b, new) \in [0 .. LenOf(f, "bitfat") - 1 -> Byte]
         /\ BitsWord(f, BitsBytes(f, s, b, new)) =
              WithDigit(BitsWord(f, b), Weight(f, s), Width(f), new)
         /\ Field(BitsWord(f, BitsBytes(f, s, b, new)), Weight(f, s), Width(f)) = new
<1> DEFINE w == Weight(f, s)
           n == Width(f)
           v == BitsWord(f, b)
           u == WithDigit(v, w, n, new)
           bit == IF Stac(f) THEN new % Width(f) ELSE IF new # 0 THEN 1 ELSE 0
           nb == BitsBytes(f, s, b, new)
<1>1. w \in Nat /\ w > 0 /\ n \in {2, 4}
  BY WeightFits
<1>2. new \in Nat /\ new < n /\ bit = new
  <2>1. CASE Stac(f)
    BY <1>1, <2>1, SMT DEF BitsHoldable
  <2>2. CASE ~Stac(f)
    BY <1>1, <2>2, SMT DEF BitsHoldable
  <2>3. QED
    BY <2>1, <2>2
<1>3. v \in Nat /\ v < TopOf(f)
  BY BitsWordIs
<1>4. v + (bit - BitsValue(f, s, b)) * w = u
  BY <1>2 DEF BitsValue, WithDigit
<1>5. u \in Nat /\ u < TopOf(f) /\ Field(u, w, n) = new
  <2>1. PICK m \in Nat : m > 0 /\ TopOf(f) = Times(w, n, m)
    BY WeightFits
  <2>2. n \in Nat /\ n > 0
    BY <1>1, SMT
  <2> HIDE DEF w, n, v
  <2>3. QED
    BY <1>1, <1>2, <1>3, <2>1, <2>2, DigitBound
<1>6. nb = IF Stac(f) THEN [k \in 0 .. 0 |-> u] ELSE WordBytes(u)
  <2>1. nb = IF Stac(f) THEN [k \in 0 .. 0 |-> v + (bit - BitsValue(f, s, b)) * w]
             ELSE WordBytes(v + (bit - BitsValue(f, s, b)) * w)
    BY Zenon DEF BitsBytes
  <2> HIDE DEF u, w, bit, nb, v
  <2>2. QED
    BY <1>4, <2>1
<1>7. nb \in [0 .. LenOf(f, "bitfat") - 1 -> Byte] /\ BitsWord(f, nb) = u
  <2> HIDE DEF u, nb
  <2>1. CASE Stac(f)
    BY <1>5, <1>6, <2>1, SMT DEF LenOf, BitsWord, TopOf, Byte
  <2>2. CASE ~Stac(f)
    <3>1. nb = WordBytes(u) /\ LenOf(f, "bitfat") - 1 = 1
      BY <1>6, <2>2, SMT DEF LenOf
    <3>2. nb \in [0 .. 1 -> Byte] /\ Word(nb) = u
      BY <1>5, <2>2, <3>1, WordBytesIs, SMT DEF TopOf
    <3>3. QED
      BY <2>2, <3>1, <3>2 DEF BitsWord
  <2>3. QED
    BY <2>1, <2>2
<1>8. QED
  BY <1>2, <1>5, <1>7

LEMMA BitsStored ==
  ASSUME NEW f \in Formats, NEW s, s - DataStart \in Nat,
         NEW b \in [0 .. LenOf(f, "bitfat") - 1 -> Byte], NEW new \in BitsHoldable(f)
  PROVE  /\ BitsBytes(f, s, b, new) \in [0 .. LenOf(f, "bitfat") - 1 -> Byte]
         /\ BitsValue(f, s, BitsBytes(f, s, b, new)) = new
BY BitsBytesAre DEF BitsValue

\* The sectors in the same byte or word keep their values.
LEMMA BitsNeighbourKept ==
  ASSUME NEW f \in Formats, NEW s \in Int, NEW s2 \in Int, s - DataStart \in Nat,
         s2 - DataStart \in Nat, s # s2, BitfatPos(f, s) = BitfatPos(f, s2),
         NEW b \in [0 .. LenOf(f, "bitfat") - 1 -> Byte], NEW new \in BitsHoldable(f)
  PROVE  BitsValue(f, s2, BitsBytes(f, s, b, new)) = BitsValue(f, s2, b)
<1> DEFINE w == Weight(f, s)
           w2 == Weight(f, s2)
           n == Width(f)
           v == BitsWord(f, b)
<1>1. w \in Nat /\ w > 0 /\ w2 \in Nat /\ w2 > 0 /\ n \in {2, 4}
  BY WeightFits
<1>2. PICK m \in Nat : m > 0 /\ (w2 = Times(w, n, m) \/ w = Times(w2, n, m))
  BY WeightsDiffer
<1>3. new \in Nat /\ new < n /\ BitsWord(f, BitsBytes(f, s, b, new)) = WithDigit(v, w, n, new)
  BY BitsBytesAre
<1>4. v \in Nat
  BY BitsWordIs
<1>5. Field(WithDigit(v, w, n, new), w2, n) = Field(v, w2, n)
  <2>1. n \in Nat /\ n > 0
    BY <1>1, SMT
  <2> HIDE DEF w, w2, n, v
  <2>2. QED
    BY <1>1, <1>2, <1>3, <1>4, <2>1, OtherDigits
<1>6. QED
  BY <1>3, <1>5 DEF BitsValue

-----------------------------------------------------------------------------
(* A write changes one entry of its table.                                 *)

LEMMA DrvPlacesApart ==
  ASSUME NEW n \in Nat, NEW n2 \in Nat, n < n2
  PROVE  DrvPos(n) \in Int /\ DrvPos(n2) \in Int /\ DrvPos(n2) - DrvPos(n) >= 5
<1> DEFINE q == SectorSize \div 5
           y == SectorSize * MdfatStart
<1>1. q \in Nat /\ q > 0 /\ y \in Nat
  BY SectorSizeSound, StartsSound, SMT
<1>2. DrvPos(n) = n * 5 + (n \div q) * 2 + y /\ DrvPos(n2) = n2 * 5 + (n2 \div q) * 2 + y
  BY DEF DrvPos
<1> HIDE DEF q, y
<1>3. n \div q \in Nat /\ n2 \div q \in Nat /\ n \div q <= n2 \div q
  BY <1>1, SMT
<1>4. QED
  BY <1>1, <1>2, <1>3, SMT

\* Two entries of the MDFAT have no byte in common; two of the BITFAT have all
\* or none.
LEMMA EntriesApart ==
  ASSUME NEW f \in Formats, NEW t \in {"mdfat", "bitfat"}, NEW e \in Entries(t), NEW e2 \in Entries(t),
         e # e2
  PROVE  LET g == PosOf(f, t, e2) - PosOf(f, t, e) IN
         \/ g >= LenOf(f, t) \/ g <= -LenOf(f, t)
         \/ t = "bitfat" /\ PosOf(f, t, e2) = PosOf(f, t, e)
<1>1. e \in Nat /\ e2 \in Nat /\ (t = "bitfat" => e - DataStart \in Nat /\ e2 - DataStart \in Nat)
  BY EntryIs DEF Tables
<1>2. CASE t = "mdfat" /\ Stac(f)
  <2>1. CASE f.wide
    BY <1>1, <1>2, <2>1, SMT DEF PosOf, MdfatPos, LenOf
  <2>2. CASE ~f.wide
    BY <1>1, <1>2, <2>2, SMT DEF PosOf, MdfatPos, LenOf
  <2>3. QED
    BY <2>1, <2>2
<1>3. CASE t = "mdfat" /\ ~Stac(f) /\ f.version = "DRVSP3"
  <2>1. PosOf(f, t, e) = DrvPos(Dcluster + e) /\ PosOf(f, t, e2) = DrvPos(Dcluster + e2) /\ LenOf(f, t) = 5
    BY <1>3 DEF PosOf, MdfatPos, LenOf
  <2>2. (Dcluster + e) \in Nat /\ (Dcluster + e2) \in Nat /\ (e < e2 \/ e2 < e)
    BY <1>1, StartsSound, SMT
  <2>3. CASE e < e2
    <3>1. (Dcluster + e) < (Dcluster + e2)
      BY <1>1, <2>3, StartsSound, SMT
    <3>2. DrvPos(Dcluster + e) \in Int /\ DrvPos(Dcluster + e2) \in Int
          /\ DrvPos(Dcluster + e2) - DrvPos(Dcluster + e) >= 5
      BY <2>2, <3>1, DrvPlacesApart
    <3>3. QED
      BY <2>1, <3>2, SMT
  <2>4. CASE e2 < e
    <3>1. (Dcluster + e2) < (Dcluster + e)
      BY <1>1, <2>4, StartsSound, SMT
    <3>2. DrvPos(Dcluster + e) \in Int /\ DrvPos(Dcluster + e2) \in Int
          /\ DrvPos(Dcluster + e) - DrvPos(Dcluster + e2) >= 5
      BY <2>2, <3>1, DrvPlacesApart
    <3>3. QED
      BY <2>1, <3>2, SMT
  <2>5. QED
    BY <2>2, <2>3, <2>4
<1>4. CASE t = "mdfat" /\ ~Stac(f) /\ f.version # "DRVSP3"
  <2> DEFINE y == SectorSize * MdfatStart
  <2>1. y \in Nat
    BY SectorSizeSound, StartsSound, SMT
  <2>2. PosOf(f, t, e) = (Dcluster + e) * 4 + y /\ PosOf(f, t, e2) = (Dcluster + e2) * 4 + y /\ LenOf(f, t) = 4
    BY <1>4 DEF PosOf, MdfatPos, LenOf
  <2> HIDE DEF y
  <2>3. QED
    BY <1>1, <2>1, <2>2, StartsSound, SMT
<1>5. CASE t = "bitfat" /\ Stac(f)
  <2>1. PosOf(f, t, e) = (e - DataStart) \div PerByte(f) /\ PosOf(f, t, e2) = (e2 - DataStart) \div PerByte(f)
        /\ LenOf(f, t) = 1 /\ PerByte(f) \in {4, 8}
    BY <1>5, SMT DEF PosOf, BitfatPos, LenOf, PerByte
  <2>2. (e - DataStart) \div PerByte(f) \in Int /\ (e2 - DataStart) \div PerByte(f) \in Int
    BY <1>1, <1>5, <2>1, SMT
  <2>3. QED
    BY <1>5, <2>1, <2>2, SMT
<1>6. CASE t = "bitfat" /\ ~Stac(f)
  <2> DEFINE x == (e - DataStart) \div 16
             x2 == (e2 - DataStart) \div 16
  <2>1. x \in Int /\ x2 \in Int
    BY <1>1, <1>6, SMT
  <2>2. PosOf(f, t, e) = SectorSize + x * 2 /\ PosOf(f, t, e2) = SectorSize + x2 * 2 /\ LenOf(f, t) = 2
    BY <1>6 DEF PosOf, BitfatPos, LenOf
  <2> HIDE DEF x, x2
  <2>3. QED
    BY <1>6, <2>1, <2>2, SectorSizeSound, SMT
<1>7. QED
  BY <1>2, <1>3, <1>4, <1>5, <1>6

\* The bytes of the entries hold bytes.
BytesTyped(f, h, t) ==
  \A e \in Entries(t) : HostBytes(h, CellOf(f, t, e)) \in [0 .. LenOf(f, t) - 1 -> Byte]
\* In h2 the bytes nb have been put at the entry e's place, and the other bytes
\* of entries are those of h.
Rewritten(f, h, h2, t, e, nb) ==
  \A e2 \in Entries(t) : \A k \in 0 .. LenOf(f, t) - 1 :
    LET x == PosOf(f, t, e2) + k - PosOf(f, t, e) IN
    Peek(f, h2, t, PosOf(f, t, e2) + k) =
      IF x \in 0 .. LenOf(f, t) - 1 THEN nb[x] ELSE Peek(f, h, t, PosOf(f, t, e2) + k)

\* The new bytes of the entry itself.
LEMMA RewrittenHere ==
  ASSUME NEW f \in Formats, NEW t \in Tables, NEW e \in Entries(t), NEW h, NEW h2,
         NEW nb \in [0 .. LenOf(f, t) - 1 -> Byte], Rewritten(f, h, h2, t, e, nb)
  PROVE  HostBytes(h2, CellOf(f, t, e)) = nb
<1> DEFINE p == PosOf(f, t, e)
           len == LenOf(f, t)
<1>1. p \in Nat /\ len \in 1 .. 5
  BY PosIs
<1>2. ASSUME NEW k \in 0 .. len - 1
      PROVE  Peek(f, h2, t, p + k) = nb[k]
  <2>1. p + k - p = k
    BY <1>1, <1>2, SMT
  <2>2. Peek(f, h2, t, p + k) = IF p + k - p \in 0 .. len - 1 THEN nb[p + k - p] ELSE Peek(f, h, t, p + k)
    BY Zenon DEF Rewritten
  <2>3. QED
    BY <2>1, <2>2
<1>3. HostBytes(h2, CellOf(f, t, e)) = [k \in 0 .. len - 1 |-> Peek(f, h2, t, p + k)]
  BY BytesArePeeks
<1>4. QED
  BY <1>2, <1>3

\* An entry whose bytes are elsewhere has the bytes it had.
LEMMA RewrittenElsewhere ==
  ASSUME NEW f \in Formats, NEW t \in Tables, NEW e \in Entries(t), NEW e2 \in Entries(t),
         NEW h, NEW h2, NEW nb, Rewritten(f, h, h2, t, e, nb),
         \/ PosOf(f, t, e2) - PosOf(f, t, e) >= LenOf(f, t)
         \/ PosOf(f, t, e2) - PosOf(f, t, e) <= -LenOf(f, t)
  PROVE  HostBytes(h2, CellOf(f, t, e2)) = HostBytes(h, CellOf(f, t, e2))
<1> DEFINE p == PosOf(f, t, e)
           p2 == PosOf(f, t, e2)
           len == LenOf(f, t)
<1>1. p \in Nat /\ p2 \in Nat /\ len \in 1 .. 5
  BY PosIs
<1>2. ASSUME NEW k \in 0 .. len - 1
      PROVE  Peek(f, h2, t, p2 + k) = Peek(f, h, t, p2 + k)
  <2>1. ~(p2 + k - p \in 0 .. len - 1)
    <3> HIDE DEF p, p2, len
    <3>1. p2 - p >= len \/ p2 - p <= -len
      BY DEF p, p2, len
    <3>2. QED
      BY <1>1, <1>2, <3>1, SMT
  <2>2. Peek(f, h2, t, p2 + k) = IF p2 + k - p \in 0 .. len - 1 THEN nb[p2 + k - p] ELSE Peek(f, h, t, p2 + k)
    BY Zenon DEF Rewritten
  <2>3. QED
    BY <2>1, <2>2
<1>3. /\ HostBytes(h2, CellOf(f, t, e2)) = [k \in 0 .. len - 1 |-> Peek(f, h2, t, p2 + k)]
      /\ HostBytes(h, CellOf(f, t, e2)) = [k \in 0 .. len - 1 |-> Peek(f, h, t, p2 + k)]
  BY BytesArePeeks
<1>4. QED
  BY <1>2, <1>3

LEMMA BesideInFat ==
  ASSUME NEW f \in Formats, NEW e \in Entries("dfat"), NEW e2 \in Entries("dfat"),
         NEW h, NEW h2, NEW nb, Rewritten(f, h, h2, "dfat", e, nb)
  PROVE  WordBeside(FatPos(f, e2) - FatPos(f, e), HostBytes(h, CellOf(f, "dfat", e)), nb,
                    HostBytes(h, CellOf(f, "dfat", e2)), HostBytes(h2, CellOf(f, "dfat", e2)))
<1> DEFINE p == FatPos(f, e)
           p2 == FatPos(f, e2)
           b == HostBytes(h, CellOf(f, "dfat", e))
           b2 == HostBytes(h, CellOf(f, "dfat", e2))
           n2 == HostBytes(h2, CellOf(f, "dfat", e2))
<1>1. "dfat" \in Tables /\ LenOf(f, "dfat") = 2 /\ p = PosOf(f, "dfat", e) /\ p2 = PosOf(f, "dfat", e2)
  BY DEF Tables, LenOf, PosOf
<1>2. p \in Nat /\ p2 \in Nat
  BY <1>1, PosIs
<1>3. /\ b = [k \in 0 .. 1 |-> Peek(f, h, "dfat", p + k)]
      /\ b2 = [k \in 0 .. 1 |-> Peek(f, h, "dfat", p2 + k)]
      /\ n2 = [k \in 0 .. 1 |-> Peek(f, h2, "dfat", p2 + k)]
  <2>1. 2 - 1 = 1
    OBVIOUS
  <2>2. \A x \in Entries("dfat") : \A g :
          HostBytes(g, CellOf(f, "dfat", x)) = [k \in 0 .. LenOf(f, "dfat") - 1 |-> Peek(f, g, "dfat", PosOf(f, "dfat", x) + k)]
    BY <1>1, BytesArePeeks
  <2>3. \A x \in Entries("dfat") : \A g :
          HostBytes(g, CellOf(f, "dfat", x)) = [k \in 0 .. 1 |-> Peek(f, g, "dfat", FatPos(f, x) + k)]
    <3>1. LenOf(f, "dfat") - 1 = 1 /\ \A x : PosOf(f, "dfat", x) = FatPos(f, x)
      BY <1>1, <2>1 DEF PosOf
    <3>2. ASSUME NEW x \in Entries("dfat"), NEW g
          PROVE  HostBytes(g, CellOf(f, "dfat", x)) = [k \in 0 .. 1 |-> Peek(f, g, "dfat", FatPos(f, x) + k)]
      <4>1. PosOf(f, "dfat", x) = FatPos(f, x)
        BY <3>1
      <4>2. HostBytes(g, CellOf(f, "dfat", x)) = [k \in 0 .. LenOf(f, "dfat") - 1 |-> Peek(f, g, "dfat", PosOf(f, "dfat", x) + k)]
        BY <2>2
      <4>3. QED
        BY <3>1, <4>1, <4>2
    <3>3. QED
      BY <3>2
  <2>4. QED
    BY <2>3
<1>4. ASSUME NEW k \in 0 .. 1
      PROVE  Peek(f, h2, "dfat", p2 + k) =
               IF p2 + k - p \in 0 .. 1 THEN nb[p2 + k - p] ELSE Peek(f, h, "dfat", p2 + k)
  <2>1. 2 - 1 = 1
    OBVIOUS
  <2>2. k \in 0 .. LenOf(f, "dfat") - 1
    BY <1>1, <1>4, <2>1
  <2>3. Peek(f, h2, "dfat", p2 + k) =
          IF p2 + k - p \in 0 .. LenOf(f, "dfat") - 1 THEN nb[p2 + k - p] ELSE Peek(f, h, "dfat", p2 + k)
    BY <1>1, <2>2, Zenon DEF Rewritten
  <2>4. QED
    BY <1>1, <2>1, <2>3
<1>5. ASSUME NEW x \in Nat
      PROVE  x + 0 = x
  OBVIOUS
<1> HIDE DEF p, p2, b, b2, n2
<1>6. 0 \in 0 .. 1 /\ 1 \in 0 .. 1
  OBVIOUS
<1>7. /\ b[0] = Peek(f, h, "dfat", p) /\ b[1] = Peek(f, h, "dfat", p + 1)
      /\ b2[0] = Peek(f, h, "dfat", p2) /\ b2[1] = Peek(f, h, "dfat", p2 + 1)
      /\ n2[0] = Peek(f, h2, "dfat", p2) /\ n2[1] = Peek(f, h2, "dfat", p2 + 1)
  BY <1>2, <1>3, <1>5, <1>6
<1>8. /\ n2[0] = IF p2 - p \in 0 .. 1 THEN nb[p2 - p] ELSE b2[0]
      /\ n2[1] = IF p2 + 1 - p \in 0 .. 1 THEN nb[p2 + 1 - p] ELSE b2[1]
  BY <1>2, <1>4, <1>5, <1>6, <1>7
<1>9. WordBeside(p2 - p, b, nb, b2, n2)
  <2>1. CASE p2 - p >= 2 \/ p2 - p <= -2
    BY <1>2, <1>8, <2>1, SMT DEF WordBeside
  <2>2. CASE p2 - p = 1
    <3>1. p2 = p + 1 /\ p2 + 1 - p = 2
      BY <1>2, <2>2, SMT
    <3>2. QED
      BY <1>7, <1>8, <2>2, <3>1, SMT DEF WordBeside
  <2>3. CASE p2 - p = -1
    <3>1. p = p2 + 1 /\ p2 + 1 - p = 0
      BY <1>2, <2>3, SMT
    <3>2. QED
      BY <1>7, <1>8, <2>3, <3>1, SMT DEF WordBeside
  <2>4. CASE p2 - p = 0
    BY <2>4, SMT DEF WordBeside
  <2>5. QED
    BY <1>2, <2>1, <2>2, <2>3, <2>4, SMT
<1>10. QED
  BY <1>9 DEF p, p2, b, b2, n2

\* The new bytes of an entry are bytes, and say the new value.
LEMMA BytesAre ==
  ASSUME NEW f \in Formats, NEW t \in Tables, NEW e \in Entries(t), NEW new \in Holdable(f, t),
         NEW h, BytesTyped(f, h, t)
  PROVE  LET nb == Bytes(f, t, e, HostBytes(h, CellOf(f, t, e)), new) IN
         nb \in [0 .. LenOf(f, t) - 1 -> Byte] /\ Value(f, t, e, nb) = Kept(f, t, new)
<1> DEFINE b == HostBytes(h, CellOf(f, t, e))
<1>a. b \in [0 .. LenOf(f, t) - 1 -> Byte]
  BY DEF BytesTyped
<1>b. e \in Nat /\ (t = "bitfat" => e - DataStart \in Nat)
  BY EntryIs
<1>1. CASE t = "dfat"
  <2>1. LenOf(f, t) - 1 = 1
    BY <1>1, SMT DEF LenOf
  <2>2. new \in FatHoldable(f) /\ b \in [0 .. 1 -> Byte]
    BY <1>a, <1>1, <2>1 DEF Holdable
  <2> HIDE DEF b
  <2>3. FatBytes(f, e, b, new) \in [0 .. 1 -> Byte] /\ FatValue(f, e, FatBytes(f, e, b, new)) = new
    BY <1>b, <2>2, FatStored
  <2>4. QED
    BY <1>1, <2>1, <2>3, Zenon DEF Bytes, Value, Kept, b
<1>2. CASE t = "mdfat"
  <2>1. new \in MdeHoldable(f)
    BY <1>2 DEF Holdable
  <2>2. MdeBytes(f, new) \in [0 .. LenOf(f, "mdfat") - 1 -> Byte]
        /\ MdeValue(f, MdeBytes(f, new)) = Kept(f, "mdfat", new)
    BY <2>1, MdeStored
  <2>3. QED
    BY <1>2, <2>2, Zenon DEF Bytes, Value
<1>3. CASE t = "bitfat"
  <2>1. new \in BitsHoldable(f) /\ b \in [0 .. LenOf(f, "bitfat") - 1 -> Byte]
    BY <1>a, <1>3, Zenon DEF Holdable
  <2> HIDE DEF b
  <2>2. BitsBytes(f, e, b, new) \in [0 .. LenOf(f, "bitfat") - 1 -> Byte]
        /\ BitsValue(f, e, BitsBytes(f, e, b, new)) = new
    BY <1>b, <1>3, <2>1, BitsStored
  <2>3. QED
    BY <1>3, <2>2, Zenon DEF Bytes, Value, Kept, b
<1>4. QED
  BY <1>1, <1>2, <1>3 DEF Tables

\* What is read after a write of a value the format has room for: the value in
\* its entry, and the old values in all the others.
LEMMA EntryRewritten ==
  ASSUME NEW f \in Formats, NEW t \in Tables, NEW e \in Entries(t), NEW new \in Holdable(f, t),
         NEW h, NEW h2, BytesTyped(f, h, t),
         Rewritten(f, h, h2, t, e, Bytes(f, t, e, HostBytes(h, CellOf(f, t, e)), new))
  PROVE  /\ Bytes(f, t, e, HostBytes(h, CellOf(f, t, e)), new) \in [0 .. LenOf(f, t) - 1 -> Byte]
         /\ OnHost(f, h2, t, e) = Kept(f, t, new)
         /\ \A e2 \in Entries(t) \ {e} : OnHost(f, h2, t, e2) = OnHost(f, h, t, e2)
<1> DEFINE b == HostBytes(h, CellOf(f, t, e))
           nb == Bytes(f, t, e, b, new)
<1>1. b \in [0 .. LenOf(f, t) - 1 -> Byte]
  BY DEF BytesTyped
<1>2. e \in Nat /\ (t = "bitfat" => e - DataStart \in Nat)
  BY EntryIs
<1>3. nb \in [0 .. LenOf(f, t) - 1 -> Byte] /\ Value(f, t, e, nb) = Kept(f, t, new)
  BY BytesAre
<1>4. HostBytes(h2, CellOf(f, t, e)) = nb
  <2> HIDE DEF nb
  <2>1. Rewritten(f, h, h2, t, e, nb)
    BY DEF nb
  <2>2. QED
    BY <1>3, <2>1, RewrittenHere
<1>5. ASSUME NEW e2 \in Entries(t), e2 # e
      PROVE  OnHost(f, h2, t, e2) = OnHost(f, h, t, e2)
  <2> DEFINE b2 == HostBytes(h, CellOf(f, t, e2))
             n2 == HostBytes(h2, CellOf(f, t, e2))
  <2>0. Rewritten(f, h, h2, t, e, nb)
    OBVIOUS
  <2>1. b2 \in [0 .. LenOf(f, t) - 1 -> Byte]
    BY DEF BytesTyped
  <2>2. e2 \in Nat /\ (t = "bitfat" => e2 - DataStart \in Nat)
    BY EntryIs
  <2>3. CASE t = "dfat"
    <3>1. LenOf(f, t) - 1 = 1
      BY <2>3, SMT DEF LenOf
    <3>2. new \in FatHoldable(f) /\ b \in [0 .. 1 -> Byte] /\ b2 \in [0 .. 1 -> Byte]
          /\ nb = FatBytes(f, e, b, new)
      BY <1>1, <2>1, <2>3, <3>1, Zenon DEF Holdable, Bytes
    <3>3. WordBeside(FatPos(f, e2) - FatPos(f, e), b, nb, b2, n2)
      <4> HIDE DEF nb
      <4>1. QED
        BY <2>0, <2>3, BesideInFat
    <3> HIDE DEF b, b2, n2, nb
    <3>4. FatValue(f, e2, n2) = FatValue(f, e2, b2)
      BY <1>2, <1>5, <2>2, <3>2, <3>3, FatNeighbourKept
    <3>5. QED
      BY <2>3, <3>4, Zenon DEF OnHost, Value, b2, n2
  <2>4. CASE /\ t # "dfat"
             /\ \/ PosOf(f, t, e2) - PosOf(f, t, e) >= LenOf(f, t)
                \/ PosOf(f, t, e2) - PosOf(f, t, e) <= -LenOf(f, t)
    <3> HIDE DEF nb
    <3>1. n2 = b2
      BY <2>0, <2>4, RewrittenElsewhere
    <3>2. QED
      BY <3>1 DEF OnHost
  <2>5. CASE t = "bitfat" /\ PosOf(f, t, e2) = PosOf(f, t, e)
    <3>1. CellOf(f, t, e2) = CellOf(f, t, e)
      BY <2>5, CellIs
    <3>2. n2 = nb /\ b2 = b
      BY <1>4, <3>1
    <3>3. new \in BitsHoldable(f) /\ b \in [0 .. LenOf(f, "bitfat") - 1 -> Byte]
          /\ nb = BitsBytes(f, e, b, new) /\ BitfatPos(f, e) = BitfatPos(f, e2)
      BY <1>1, <2>5, Zenon DEF Holdable, Bytes, PosOf
    <3>4. e \in Int /\ e2 \in Int /\ e - DataStart \in Nat /\ e2 - DataStart \in Nat /\ e # e2
      BY <1>2, <1>5, <2>2, <2>5, SMT
    <3> HIDE DEF b, nb, n2, b2
    <3>5. BitsValue(f, e2, nb) = BitsValue(f, e2, b)
      BY <3>3, <3>4, BitsNeighbourKept
    <3>6. QED
      BY <2>5, <3>2, <3>5, Zenon DEF OnHost, Value, n2, b2
  <2>6. QED
    <3>1. CASE t = "dfat"
      BY <2>3, <3>1
    <3>2. CASE t # "dfat"
      <4>1. t \in {"mdfat", "bitfat"}
        BY <3>2 DEF Tables
      <4>2. \/ PosOf(f, t, e2) - PosOf(f, t, e) >= LenOf(f, t)
            \/ PosOf(f, t, e2) - PosOf(f, t, e) <= -LenOf(f, t)
            \/ t = "bitfat" /\ PosOf(f, t, e2) = PosOf(f, t, e)
        BY <1>5, <4>1, EntriesApart
      <4>3. QED
        BY <2>4, <2>5, <3>2, <4>2
    <3>3. QED
      BY <3>1, <3>2
<1>6. QED
  BY <1>3, <1>4, <1>5, Zenon DEF OnHost

-----------------------------------------------------------------------------
(* A cache has some of the sectors of its table, each at most once and as  *)
(* they are on the host.                                                   *)

Loaded(h, a) == [area |-> a, data |-> h[a]]
CacheIs(h, cache, areas) ==
  /\ cache = [k \in Slots |-> cache[k]]
  /\ \A k \in Slots : cache[k] = Empty \/ \E a \in areas : cache[k] = Loaded(h, a)
  /\ \A j, k \in Slots : cache[j] # Empty /\ cache[j].area = cache[k].area => j = k

LEMMA SlotsAre ==
  /\ Empty.area = -1
  /\ \A h, a : Loaded(h, a).area = a /\ Loaded(h, a).data = h[a]
  /\ \A k \in Slots : k \in Nat
  /\ -1 \notin Slots
<1>1. Empty.area = -1
  BY Zenon DEF Empty
<1>2. \A h, a : Loaded(h, a).area = a /\ Loaded(h, a).data = h[a]
  BY DEF Loaded
<1>3. \A k \in Slots : k \in Nat
  BY TablesAssumption, SMT DEF Slots
<1>4. QED
  BY <1>1, <1>2, <1>3, SMT

LEMMA AcacheGetIs ==
  ASSUME NEW h, NEW cache, NEW areas \in SUBSET Nat, CacheIs(h, cache, areas),
         NEW area \in areas, NEW never, NEW o \in AcacheGet(h, cache, area, never)
  PROVE  /\ CacheIs(h, o.cache, areas)
         /\ o.index = -1 \/ (o.index \in Slots /\ o.cache[o.index] = Loaded(h, area))
         /\ never \in Slots => o.cache[never] = cache[never]
<1>0. area \in Nat /\ \A a \in areas : a \in Nat /\ a # -1
  BY SMT
<1>1. CASE Holding(cache, area) # {}
  <2> DEFINE i == CHOOSE k \in Holding(cache, area) : TRUE
  <2>1. o = [cache |-> cache, index |-> i]
    BY <1>1 DEF AcacheGet
  <2>2. i \in Slots /\ cache[i].area = area
    <3>1. i \in Holding(cache, area)
      BY <1>1
    <3> HIDE DEF i
    <3>2. QED
      BY <3>1 DEF Holding
  <2>3. cache[i] = Loaded(h, area)
    <3> HIDE DEF i
    <3>1. cache[i] # Empty
      BY <1>0, <2>2, SlotsAre
    <3>2. PICK a \in areas : cache[i] = Loaded(h, a)
      BY <2>2, <3>1 DEF CacheIs
    <3>3. a = area
      BY <2>2, <3>2, SlotsAre
    <3>4. QED
      BY <3>2, <3>3
  <2> HIDE DEF i
  <2>4. QED
    BY <2>1, <2>2, <2>3
<1>2. CASE Holding(cache, area) = {}
  <2>1. PICK k \in Victims(never) :
          \/ o = [cache |-> [cache EXCEPT ![k] = Loaded(h, area)], index |-> k]
          \/ o = [cache |-> [cache EXCEPT ![k] = Empty], index |-> -1]
    BY <1>2, Zenon DEF AcacheGet, Loaded
  <2>2. k \in Slots /\ k # never
    BY <2>1 DEF Victims
  <2>3. PICK s : /\ s \in {Loaded(h, area), Empty} /\ o.cache = [cache EXCEPT ![k] = s]
                 /\ s = Empty => o.index = -1
                 /\ s # Empty => o.index = k
    <3>1. Loaded(h, area) # Empty
      BY <1>0, SlotsAre
    <3>2. QED
      BY <2>1, <3>1
  <2>4. o.cache = [j \in Slots |-> IF j = k THEN s ELSE cache[j]]
    BY <2>2, <2>3 DEF CacheIs
  <2>5. \A j \in Slots : cache[j].area # area
    BY <1>2 DEF Holding
  <2>6. \A j \in Slots : o.cache[j] = Empty \/ \E a \in areas : o.cache[j] = Loaded(h, a)
    BY <2>3, <2>4 DEF CacheIs
  <2>7. ASSUME NEW i \in Slots, NEW j \in Slots, o.cache[i] # Empty, o.cache[i].area = o.cache[j].area
        PROVE  i = j
    <3>1. CASE i = k /\ j # k
      <4>1. s = Loaded(h, area) /\ o.cache[i] = s /\ o.cache[j] = cache[j]
        BY <2>3, <2>4, <2>7, <3>1
      <4>2. cache[j].area = area
        BY <2>7, <4>1, SlotsAre
      <4>3. QED
        BY <2>5, <4>2
    <3>2. CASE i # k /\ j = k
      <4>1. o.cache[i] = cache[i] /\ o.cache[j] = s
        BY <2>4, <3>2
      <4>2. CASE s = Empty
        <5>1. PICK a \in areas : o.cache[i] = Loaded(h, a)
          BY <2>6, <2>7
        <5>2. QED
          BY <1>0, <2>7, <4>1, <4>2, <5>1, SlotsAre
      <4>3. CASE s = Loaded(h, area)
        BY <2>5, <2>7, <4>1, <4>3, SlotsAre
      <4>4. QED
        BY <2>3, <4>2, <4>3
    <3>3. CASE i # k /\ j # k
      BY <2>4, <2>7, <3>3 DEF CacheIs
    <3>4. QED
      BY <3>1, <3>2, <3>3
  <2>8. CacheIs(h, o.cache, areas)
    <3>1. o.cache = [j \in Slots |-> o.cache[j]]
      BY <2>4
    <3>2. QED
      BY <2>6, <2>7, <3>1 DEF CacheIs
  <2>9. QED
    BY <2>2, <2>3, <2>4, <2>8
<1>3. QED
  BY <1>1, <1>2

\* The one or two slots that acache_get is asked for.
BuffersHold(h, o, cell) ==
  /\ o.first \in Slots /\ o.cache[o.first] = Loaded(h, cell.area)
  /\ o.second \in Slots
  /\ IF Straddles(cell) THEN o.second # o.first /\ o.cache[o.second] = Loaded(h, cell.area + 1)
     ELSE o.second = o.first

LEMMA BuffersAre ==
  ASSUME NEW h, NEW cache, NEW areas \in SUBSET Nat, CacheIs(h, cache, areas),
         NEW cell, Spans(cell) \subseteq areas, NEW o \in Buffers(h, cache, cell)
  PROVE  /\ CacheIs(h, o.cache, areas)
         /\ o.first # -1 => BuffersHold(h, o, cell)
<1>1. cell.area \in areas /\ (Straddles(cell) => cell.area + 1 \in areas)
  BY DEF Spans
<1>2. PICK p \in AcacheGet(h, cache, cell.area, -1) :
        \/ /\ p.index = -1 \/ ~Straddles(cell)
           /\ o = [cache |-> p.cache, first |-> p.index, second |-> p.index]
        \/ /\ p.index # -1 /\ Straddles(cell)
           /\ \E q \in AcacheGet(h, p.cache, cell.area + 1, p.index) :
                o = [cache |-> q.cache, first |-> IF q.index = -1 THEN -1 ELSE p.index, second |-> q.index]
  BY Zenon DEF Buffers
<1>3. CacheIs(h, p.cache, areas)
      /\ (p.index = -1 \/ (p.index \in Slots /\ p.cache[p.index] = Loaded(h, cell.area)))
  <2>1. \A a \in areas : \A x \in AcacheGet(h, cache, a, -1) :
           /\ CacheIs(h, x.cache, areas)
           /\ x.index = -1 \/ (x.index \in Slots /\ x.cache[x.index] = Loaded(h, a))
    BY AcacheGetIs
  <2>2. QED
    BY <1>1, <2>1
<1>4. CASE p.index = -1 \/ ~Straddles(cell)
  <2>1. o.cache = p.cache /\ o.first = p.index /\ o.second = p.index
    BY <1>2, <1>4
  <2>2. QED
    BY <1>3, <1>4, <2>1 DEF BuffersHold
<1>5. CASE p.index # -1 /\ Straddles(cell)
  <2>1. PICK q \in AcacheGet(h, p.cache, cell.area + 1, p.index) :
          o = [cache |-> q.cache, first |-> IF q.index = -1 THEN -1 ELSE p.index, second |-> q.index]
    BY <1>2, <1>5
  <2>2. /\ CacheIs(h, q.cache, areas)
        /\ q.index = -1 \/ (q.index \in Slots /\ q.cache[q.index] = Loaded(h, cell.area + 1))
        /\ p.index \in Slots => q.cache[p.index] = p.cache[p.index]
    <3>1. PICK next \in areas : next = cell.area + 1
      BY <1>1, <1>5
    <3>2. q \in AcacheGet(h, p.cache, next, p.index)
      BY <2>1, <3>1
    <3>3. CacheIs(h, p.cache, areas)
      BY <1>3
    <3>4. /\ CacheIs(h, q.cache, areas)
          /\ q.index = -1 \/ (q.index \in Slots /\ q.cache[q.index] = Loaded(h, next))
          /\ p.index \in Slots => q.cache[p.index] = p.cache[p.index]
      BY <3>2, <3>3, AcacheGetIs
    <3>5. QED
      BY <3>1, <3>4
  <2>3. o.cache = q.cache /\ o.second = q.index /\ o.first = IF q.index = -1 THEN -1 ELSE p.index
    BY <2>1
  <2>4. CASE q.index = -1
    BY <2>2, <2>3, <2>4
  <2>5. CASE q.index # -1
    <3>1. o.first = p.index /\ p.index \in Slots /\ q.index \in Slots
      BY <1>3, <1>5, <2>2, <2>3, <2>5
    <3>2. o.cache[o.first] = Loaded(h, cell.area) /\ o.cache[o.second] = Loaded(h, cell.area + 1)
      BY <1>3, <1>5, <2>2, <2>3, <2>5, <3>1
    <3>3. Loaded(h, cell.area) # Loaded(h, cell.area + 1)
      <4>1. cell.area \in Nat
        BY <1>1
      <4>2. cell.area # cell.area + 1
        BY <4>1, SMT
      <4>3. QED
        BY <4>2, SlotsAre
    <3>4. QED
      BY <1>5, <2>2, <2>3, <3>1, <3>2, <3>3 DEF BuffersHold
  <2>6. QED
    BY <2>4, <2>5
<1>6. QED
  BY <1>4, <1>5

\* The bytes in the buffers are those on the host.
LEMMA BytesInAre ==
  ASSUME NEW f \in Formats, NEW t \in Tables, NEW e \in Entries(t), NEW h, NEW o,
         BuffersHold(h, o, CellOf(f, t, e))
  PROVE  BytesIn(o, CellOf(f, t, e)) = HostBytes(h, CellOf(f, t, e))
<1> DEFINE cell == CellOf(f, t, e)
           r == PosOf(f, t, e) % SectorSize
           len == LenOf(f, t)
<1>1. cell.offset = r /\ cell.len = len /\ cell.two = TwoOf(f, t)
  BY CellIs
<1>2. r \in Nat /\ r < SectorSize /\ len \in 1 .. 5
  <2>1. PosOf(f, t, e) \in Nat /\ len \in 1 .. 5
    BY PosIs
  <2>2. QED
    BY <2>1, SectorSizeSound, SMT
<1>3. cell.two \/ r + len <= SectorSize
  BY <1>1, OneSectorCells
<1>4. ASSUME NEW k \in 0 .. cell.len - 1
      PROVE  (IF Inside(cell, k) THEN o.cache[o.first].data[cell.offset + k]
              ELSE IF cell.two THEN o.cache[o.second].data[cell.offset + k - SectorSize] ELSE 0)
             = (IF Inside(cell, k) THEN h[cell.area][cell.offset + k]
                ELSE h[cell.area + 1][cell.offset + k - SectorSize])
  <2>1. CASE Inside(cell, k)
    <3>1. o.cache[o.first].data = h[cell.area]
      BY SlotsAre DEF BuffersHold
    <3>2. QED
      BY <2>1, <3>1
  <2>2. CASE ~Inside(cell, k)
    <3> HIDE DEF cell, r, len
    <3>1. Straddles(cell) /\ cell.two
      BY <1>1, <1>2, <1>3, <1>4, <2>2, SectorSizeSound, SMT DEF Inside, Straddles
    <3>2. o.cache[o.second].data = h[cell.area + 1]
      BY <3>1, SlotsAre DEF BuffersHold, cell
    <3>3. QED
      BY <2>2, <3>1, <3>2
  <2>3. QED
    BY <2>1, <2>2
<1> HIDE DEF cell
<1>5. BytesIn(o, cell) = HostBytes(h, cell)
  BY <1>4, Zenon DEF BytesIn, HostBytes
<1>6. QED
  BY <1>5 DEF cell

\* A sector of a cell with the bytes b.
WithEntry(h, cell, b, a) == PutIn(h[a], cell, b, IF a = cell.area THEN 0 ELSE SectorSize)

\* The cache after a write: the slots of the cell have its bytes, and the others
\* are as they were.
HasEntry(h, o, cell, b, cache) ==
  /\ cache = [k \in Slots |-> cache[k]]
  /\ \A k \in Slots :
       cache[k] = IF k \in {o.first, o.second}
                  THEN [area |-> o.cache[k].area, data |-> WithEntry(h, cell, b, o.cache[k].area)]
                  ELSE o.cache[k]
LEMMA WithBytesIs ==
  ASSUME NEW h, NEW o, NEW areas \in SUBSET Nat, CacheIs(h, o.cache, areas),
         NEW cell, cell.area \in Nat, BuffersHold(h, o, cell), NEW b
  PROVE  HasEntry(h, o, cell, b, WithBytes(o, cell, b))
<1> DEFINE first == [o.cache EXCEPT ![o.first].data = PutIn(@, cell, b, 0)]
           new(k, shift) == [area |-> o.cache[k].area, data |-> PutIn(o.cache[k].data, cell, b, shift)]
<1>1. /\ o.first \in Slots /\ o.cache[o.first] = Loaded(h, cell.area)
      /\ o.cache = [k \in Slots |-> o.cache[k]]
  BY DEF BuffersHold, CacheIs
<1>2. first = [k \in Slots |-> IF k = o.first THEN new(k, 0) ELSE o.cache[k]]
  <2>1. first = [o.cache EXCEPT ![o.first] = [o.cache[o.first] EXCEPT !.data = PutIn(o.cache[o.first].data, cell, b, 0)]]
    OBVIOUS
  <2>2. [o.cache[o.first] EXCEPT !.data = PutIn(o.cache[o.first].data, cell, b, 0)] = new(o.first, 0)
    BY <1>1, SlotsAre DEF Loaded
  <2> HIDE DEF first, new
  <2>3. first = [o.cache EXCEPT ![o.first] = new(o.first, 0)]
    BY <2>1, <2>2
  <2>4. QED
    BY <1>1, <2>3
<1>3. new(o.first, 0).data = WithEntry(h, cell, b, o.cache[o.first].area)
  BY <1>1, SlotsAre DEF WithEntry
<1>4. CASE ~Straddles(cell)
  <2>1. WithBytes(o, cell, b) = first /\ o.second = o.first
    BY <1>4 DEF WithBytes, BuffersHold
  <2>2. QED
    BY <1>2, <1>3, <2>1 DEF HasEntry
<1>5. CASE Straddles(cell)
  <2>1. o.second \in Slots /\ o.second # o.first /\ o.cache[o.second] = Loaded(h, cell.area + 1)
    BY <1>5 DEF BuffersHold
  <2>2. new(o.second, SectorSize).data = WithEntry(h, cell, b, o.cache[o.second].area)
    <3>1. o.cache[o.second].area = cell.area + 1 /\ o.cache[o.second].data = h[cell.area + 1]
      BY <2>1, SlotsAre
    <3>2. cell.area + 1 # cell.area
      BY SMT
    <3>3. QED
      BY <3>1, <3>2 DEF WithEntry
  <2> DEFINE last == [first EXCEPT ![o.second].data = PutIn(@, cell, b, SectorSize)]
  <2>3. WithBytes(o, cell, b) = last
    BY <1>5, Zenon DEF WithBytes
  <2>4. last = [k \in Slots |-> IF k = o.second THEN new(k, SectorSize) ELSE first[k]]
    <3>1. last = [first EXCEPT ![o.second] = [first[o.second] EXCEPT !.data = PutIn(first[o.second].data, cell, b, SectorSize)]]
      OBVIOUS
    <3> HIDE DEF first
    <3>2. first[o.second] = o.cache[o.second]
      BY <1>2, <2>1
    <3>3. [o.cache[o.second] EXCEPT !.data = PutIn(o.cache[o.second].data, cell, b, SectorSize)] = new(o.second, SectorSize)
      BY <2>1, SlotsAre DEF Loaded
    <3> HIDE DEF last, new
    <3>4. last = [first EXCEPT ![o.second] = new(o.second, SectorSize)]
      BY <3>1, <3>2, <3>3
    <3>5. first = [k \in Slots |-> first[k]]
      BY <1>2
    <3>6. QED
      BY <3>4, <3>5
  <2> HIDE DEF last, first
  <2>5. ASSUME NEW k \in Slots
        PROVE  last[k] = IF k \in {o.first, o.second}
                         THEN [area |-> o.cache[k].area, data |-> WithEntry(h, cell, b, o.cache[k].area)]
                         ELSE o.cache[k]
    <3>1. CASE k = o.second
      BY <2>2, <2>4, <3>1
    <3>2. CASE k = o.first
      BY <1>2, <1>3, <2>1, <2>4, <3>2
    <3>3. CASE k # o.first /\ k # o.second
      BY <1>2, <2>4, <3>3
    <3>4. QED
      BY <3>1, <3>2, <3>3
  <2>6. last = [k \in Slots |-> last[k]]
    BY <2>4
  <2>7. QED
    BY <2>3, <2>5, <2>6 DEF HasEntry
<1>6. QED
  BY <1>4, <1>5

\* A sector of the host after a write: the cell's are new, and those that were
\* copied.
NewSector(f, h, cell, b, copies, a) ==
  IF a \in Spans(cell) THEN WithEntry(h, cell, b, a)
  ELSE IF a - f.second \in copies THEN WithEntry(h, cell, b, a - f.second)
  ELSE h[a]

\* The buffers of a cell are those of its sectors.
LEMMA BufferedAre ==
  ASSUME NEW h, NEW areas \in SUBSET Nat, areas \subseteq DOMAIN h,
         NEW o, CacheIs(h, o.cache, areas),
         NEW cell, Spans(cell) \subseteq areas, BuffersHold(h, o, cell), NEW b
  PROVE  LET cache == WithBytes(o, cell, b) IN
         Buffered(cache, o) = Spans(cell) /\ cache[o.first].area \in Spans(cell)
<1> DEFINE cache == WithBytes(o, cell, b)
<1>1. cell.area \in areas /\ cell.area \in Nat /\ (Straddles(cell) => cell.area + 1 \in areas)
  BY DEF Spans
<1>2. \A k \in Slots : k \in {o.first, o.second} => cache[k].area = o.cache[k].area
  <2>1. HasEntry(h, o, cell, b, cache)
    BY <1>1, WithBytesIs
  <2> HIDE DEF cache
  <2>2. QED
    BY <2>1 DEF HasEntry
<1> HIDE DEF cache
<1>3. CASE Straddles(cell)
  <2>1. /\ o.first \in Slots /\ o.cache[o.first] = Loaded(h, cell.area)
        /\ o.second \in Slots /\ o.cache[o.second] = Loaded(h, cell.area + 1)
    BY <1>3 DEF BuffersHold
  <2>2. o.cache[o.first].area = cell.area /\ o.cache[o.second].area = cell.area + 1
        /\ Spans(cell) = {cell.area, cell.area + 1}
    BY <1>3, <2>1, SlotsAre DEF Spans
  <2>3. QED
    BY <1>2, <2>1, <2>2 DEF Buffered, cache
<1>4. CASE ~Straddles(cell)
  <2>1. o.first \in Slots /\ o.cache[o.first] = Loaded(h, cell.area) /\ o.second = o.first
    BY <1>4 DEF BuffersHold
  <2>2. o.cache[o.first].area = cell.area /\ Spans(cell) = {cell.area}
    BY <1>4, <2>1, SlotsAre DEF Spans
  <2>3. QED
    BY <1>2, <2>1, <2>2 DEF Buffered, cache
<1>5. QED
  BY <1>3, <1>4

LEMMA WrittenIs ==
  ASSUME NEW f \in Formats, NEW h, DOMAIN h \subseteq Nat,
         NEW areas \in SUBSET Nat, areas \subseteq DOMAIN h,
         NEW o, CacheIs(h, o.cache, areas),
         NEW cell, Spans(cell) \subseteq areas, BuffersHold(h, o, cell), NEW b,
         NEW copies \in SUBSET Spans(cell),
         copies # {} => \A a \in areas : a + f.second \notin areas
  PROVE  LET cache == WithBytes(o, cell, b)
             h2 == Written(f, h, cache, o, copies)
         IN /\ DOMAIN h2 = DOMAIN h
            /\ \A a \in DOMAIN h : h2[a] = NewSector(f, h, cell, b, copies, a)
            /\ CacheIs(h2, cache, areas)
<1> DEFINE cache == WithBytes(o, cell, b)
           h2 == Written(f, h, cache, o, copies)
           From(a) == {k \in {o.first, o.second} :
                         \/ cache[k].area = a
                         \/ cache[k].area \in copies /\ cache[k].area + f.second = a}
<1>1. cell.area \in areas /\ cell.area \in Nat /\ (Straddles(cell) => cell.area + 1 \in areas)
  BY DEF Spans
<1>2. /\ cache = [k \in Slots |-> cache[k]]
      /\ \A k \in Slots :
           cache[k] = IF k \in {o.first, o.second}
                      THEN [area |-> o.cache[k].area, data |-> WithEntry(h, cell, b, o.cache[k].area)]
                      ELSE o.cache[k]
  <2>1. HasEntry(h, o, cell, b, cache)
    BY <1>1, WithBytesIs
  <2> HIDE DEF cache
  <2>2. QED
    BY <2>1 DEF HasEntry
<1>3. f.second \in Nat
  BY FormatIs
<1> DEFINE mine == {o.first, o.second}
<1>4. /\ mine \subseteq Slots
      /\ \A k \in mine : o.cache[k] = Loaded(h, o.cache[k].area) /\ o.cache[k].area \in Spans(cell)
      /\ \A a \in Spans(cell) : \E k \in mine : o.cache[k].area = a
  <2>1. CASE Straddles(cell)
    <3>1. /\ o.first \in Slots /\ o.cache[o.first] = Loaded(h, cell.area)
          /\ o.second \in Slots /\ o.cache[o.second] = Loaded(h, cell.area + 1)
      BY <2>1 DEF BuffersHold
    <3>2. o.cache[o.first].area = cell.area /\ o.cache[o.second].area = cell.area + 1
          /\ Spans(cell) = {cell.area, cell.area + 1}
      BY <2>1, <3>1, SlotsAre DEF Spans
    <3>3. QED
      BY <3>1, <3>2
  <2>2. CASE ~Straddles(cell)
    <3>1. o.first \in Slots /\ o.cache[o.first] = Loaded(h, cell.area) /\ o.second = o.first
      BY <2>2 DEF BuffersHold
    <3>2. o.cache[o.first].area = cell.area /\ Spans(cell) = {cell.area}
      BY <2>2, <3>1, SlotsAre DEF Spans
    <3>3. QED
      BY <3>1, <3>2
  <2>3. QED
    BY <2>1, <2>2
<1>5. \A k \in mine : /\ cache[k].area = o.cache[k].area
                      /\ cache[k].data = WithEntry(h, cell, b, cache[k].area)
                      /\ cache[k].area \in Spans(cell)
  BY <1>2, <1>4
<1>6. h2 = [a \in DOMAIN h |-> IF From(a) = {} THEN h[a] ELSE cache[CHOOSE k \in From(a) : TRUE].data]
  BY Zenon DEF Written
<1> HIDE DEF cache, h2, mine
<1>7. ASSUME NEW a \in DOMAIN h
      PROVE  h2[a] = NewSector(f, h, cell, b, copies, a)
  <2>0. a \in Nat /\ \A x \in Spans(cell) : x \in Nat /\ x \in areas
    BY <1>7
  <2>1. ASSUME NEW k \in mine
        PROVE  k \in From(a) <=> \/ cache[k].area = a
                                 \/ cache[k].area \in copies /\ cache[k].area = a - f.second
    <3>1. cache[k].area \in Nat
      BY <1>5, <2>0, <2>1
    <3>2. cache[k].area + f.second = a <=> cache[k].area = a - f.second
      BY <1>3, <2>0, <3>1, SMT
    <3>3. QED
      BY <2>1, <3>2 DEF mine
  <2>2. CASE a \in Spans(cell)
    <3>1. \A k \in mine : k \in From(a) <=> cache[k].area = a
      <4>1. ASSUME NEW k \in mine, cache[k].area \in copies, cache[k].area = a - f.second PROVE FALSE
        <5>1. cache[k].area \in areas /\ cache[k].area + f.second = a /\ a \in areas
          BY <1>3, <1>5, <2>0, <2>2, <4>1, SMT
        <5>2. QED
          BY <4>1, <5>1
      <4>2. QED
        BY <2>1, <4>1
    <3>2. From(a) # {} /\ \A k \in From(a) : cache[k].data = WithEntry(h, cell, b, a)
      <4>1. From(a) \subseteq mine
        BY DEF mine
      <4> HIDE DEF From
      <4>2. QED
        BY <1>4, <1>5, <2>2, <3>1, <4>1
    <3> HIDE DEF From
    <3>3. h2[a] = WithEntry(h, cell, b, a)
      BY <1>6, <3>2
    <3>4. QED
      BY <2>2, <3>3 DEF NewSector
  <2>3. CASE a \notin Spans(cell) /\ a - f.second \in copies
    <3>1. \A k \in mine : k \in From(a) <=> cache[k].area = a - f.second
      BY <1>5, <2>1, <2>3
    <3>2. From(a) # {} /\ \A k \in From(a) : cache[k].data = WithEntry(h, cell, b, a - f.second)
      <4>1. From(a) \subseteq mine
        BY DEF mine
      <4> HIDE DEF From
      <4>2. QED
        BY <1>4, <1>5, <2>3, <3>1, <4>1
    <3> HIDE DEF From
    <3>3. h2[a] = WithEntry(h, cell, b, a - f.second)
      BY <1>6, <3>2
    <3>4. QED
      BY <2>3, <3>3 DEF NewSector
  <2>4. CASE a \notin Spans(cell) /\ a - f.second \notin copies
    <3>1. From(a) = {}
      <4>1. From(a) \subseteq mine
        BY DEF mine
      <4> HIDE DEF From
      <4>2. QED
        BY <1>5, <2>1, <2>4, <4>1
    <3> HIDE DEF From
    <3>2. h2[a] = h[a]
      BY <1>6, <3>1
    <3>3. QED
      BY <2>4, <3>2 DEF NewSector
  <2>5. QED
    BY <2>2, <2>3, <2>4
<1>8. DOMAIN h2 = DOMAIN h
  BY <1>6
<1>9. ASSUME NEW k \in Slots
      PROVE  cache[k] = Empty \/ \E a \in areas : cache[k] = Loaded(h2, a)
  <2>1. CASE k \in mine
    <3> DEFINE a == o.cache[k].area
    <3>1. a \in Spans(cell) /\ a \in areas /\ a \in DOMAIN h
      BY <1>4, <2>1
    <3>2. cache[k] = [area |-> a, data |-> WithEntry(h, cell, b, a)]
      BY <1>2, <2>1 DEF mine
    <3>3. h2[a] = WithEntry(h, cell, b, a)
      BY <1>7, <3>1 DEF NewSector
    <3>4. QED
      BY <3>1, <3>2, <3>3 DEF Loaded
  <2>2. CASE k \notin mine /\ o.cache[k] # Empty
    <3>1. cache[k] = o.cache[k]
      BY <1>2, <2>2 DEF mine
    <3>2. PICK a \in areas : o.cache[k] = Loaded(h, a)
      BY <2>2 DEF CacheIs
    <3>3. a \notin Spans(cell)
      <4>1. SUFFICES ASSUME a \in Spans(cell) PROVE FALSE
        OBVIOUS
      <4>2. PICK j \in mine : o.cache[j].area = a
        BY <1>4, <4>1
      <4>3. o.cache[k].area = a
        BY <3>2, SlotsAre
      <4>4. j \in Slots
        BY <1>4
      <4>5. k = j
        BY <2>2, <4>2, <4>3, <4>4 DEF CacheIs
      <4>6. QED
        BY <2>2, <4>5
    <3>4. a - f.second \notin copies
      <4>1. SUFFICES ASSUME a - f.second \in copies PROVE FALSE
        OBVIOUS
      <4>2. a - f.second \in areas /\ a \in Nat
        BY <4>1
      <4>3. (a - f.second) + f.second = a
        BY <1>3, <4>2, SMT
      <4>4. QED
        BY <4>1, <4>2, <4>3
    <3>5. h2[a] = h[a]
      <4>1. a \in DOMAIN h
        OBVIOUS
      <4>2. QED
        BY <1>7, <3>3, <3>4, <4>1 DEF NewSector
    <3>6. QED
      BY <3>1, <3>2, <3>5 DEF Loaded
  <2>3. CASE k \notin mine /\ o.cache[k] = Empty
    BY <1>2, <2>3 DEF mine
  <2>4. QED
    BY <2>1, <2>2, <2>3
<1>10. ASSUME NEW j \in Slots, NEW k \in Slots, cache[j] # Empty, cache[j].area = cache[k].area
       PROVE  j = k
  <2>1. cache[j].area = o.cache[j].area /\ cache[k].area = o.cache[k].area
    BY <1>2
  <2>2. o.cache[j] # Empty
    <3>1. CASE j \in mine
      <4>1. o.cache[j].area \in Nat
        BY <1>4, <3>1
      <4>2. o.cache[j].area # -1
        BY <4>1, SMT
      <4>3. QED
        BY <4>2, SlotsAre
    <3>2. CASE j \notin mine
      BY <1>2, <1>10, <3>2 DEF mine
    <3>3. QED
      BY <3>1, <3>2
  <2>3. QED
    BY <1>10, <2>1, <2>2 DEF CacheIs
<1>11. CacheIs(h2, cache, areas)
  BY <1>2, <1>9, <1>10 DEF CacheIs
<1>12. QED
  BY <1>7, <1>8, <1>11 DEF h2, cache

-----------------------------------------------------------------------------
(* What lies where: the tables are apart from one another, and so are      *)
(* their copies.                                                           *)

LEMMA SpansAre ==
  ASSUME NEW f \in Formats, NEW t \in Tables, NEW e \in Entries(t)
  PROVE  LET cell == CellOf(f, t, e)
             i == PosOf(f, t, e) \div SectorSize
         IN /\ cell.area = Home(f, t, i) /\ cell.offset = PosOf(f, t, e) % SectorSize
            /\ cell.len = LenOf(f, t) /\ cell.two = TwoOf(f, t)
            /\ i \in Nat /\ cell.area \in Nat
            /\ Straddles(cell) <=> (PosOf(f, t, e) % SectorSize) + LenOf(f, t) > SectorSize
            /\ Straddles(cell) => Home(f, t, i + 1) = cell.area + 1
            /\ Spans(cell) \subseteq Reached(f, t)
<1> DEFINE cell == CellOf(f, t, e)
           i == PosOf(f, t, e) \div SectorSize
<1>1. cell = [area |-> Home(f, t, i), offset |-> PosOf(f, t, e) % SectorSize, len |-> LenOf(f, t),
              two |-> TwoOf(f, t)]
  BY CellIs
<1>2. PosOf(f, t, e) \in Nat
  BY PosIs
<1>3. i \in Nat
  BY <1>2, SectorSizeSound, DivMod
<1>4. Straddles(cell) <=> (PosOf(f, t, e) % SectorSize) + LenOf(f, t) > SectorSize
  BY <1>1, NextHome DEF Straddles
<1>5. Straddles(cell) => Home(f, t, i + 1) = cell.area + 1
  BY <1>1, <1>4, NextHome
<1>6. cell.area \in Nat
  BY <1>1, <1>3, HomesDiffer
<1>7. Spans(cell) \subseteq Reached(f, t)
  BY DEF Reached
<1>8. QED
  BY <1>1, <1>3, <1>4, <1>5, <1>6, <1>7

LEMMA ReachedAre ==
  ASSUME NEW f \in Formats, NEW t \in Tables, NEW a \in Reached(f, t)
  PROVE  a \in Nat /\ \E i \in Nat : a = Home(f, t, i)
<1>1. PICK e \in Entries(t) : a \in Spans(CellOf(f, t, e))
  BY DEF Reached
<1> DEFINE cell == CellOf(f, t, e)
           i == PosOf(f, t, e) \div SectorSize
<1>2. /\ cell.area = Home(f, t, i) /\ i \in Nat /\ cell.area \in Nat
      /\ Straddles(cell) => Home(f, t, i + 1) = cell.area + 1
  BY SpansAre
<1>3. a = cell.area \/ (Straddles(cell) /\ a = cell.area + 1)
  BY <1>1 DEF Spans
<1> HIDE DEF cell, i
<1>4. i + 1 \in Nat /\ cell.area + 1 \in Nat
  BY <1>2, SMT
<1>5. QED
  BY <1>2, <1>3, <1>4

\* Of nine sectors Stacker uses three for the FAT and six for the MDFAT.
LEMMA StacInterleaved ==
  ASSUME NEW f, Stac(f), NEW i \in Nat, NEW j \in Nat
  PROVE  FatHome(f, i) # MdfatHome(f, j)
<1>1. FatHome(f, i) = FatStart + (i \div 3) * 9 + (i % 3)
  BY StartsSound, SMT DEF FatHome
<1>2. MdfatHome(f, j) = (j \div 6) * 9 + (j % 6) + 3 + FatStart
  BY DEF MdfatHome
<1>3. QED
  BY <1>1, <1>2, StartsSound, SMT

LEMMA TablesApart ==
  ASSUME NEW f \in Formats, Apart(f), NEW t \in Tables, NEW t2 \in Tables, t # t2,
         NEW a \in Reached(f, t)
  PROVE  a \notin Reached(f, t2)
<1>1. CASE Stac(f) => "bitfat" \in {t, t2}
  BY <1>1 DEF Apart
<1>2. CASE Stac(f) /\ {t, t2} = {"dfat", "mdfat"}
  <2>1. SUFFICES ASSUME a \in Reached(f, t2) PROVE FALSE
    OBVIOUS
  <2>2. PICK i \in Nat : a = Home(f, t, i)
    BY ReachedAre
  <2>3. PICK j \in Nat : a = Home(f, t2, j)
    BY <2>1, ReachedAre
  <2>4. CASE t = "dfat" /\ t2 = "mdfat"
    BY <1>2, <2>2, <2>3, <2>4, StacInterleaved DEF Home
  <2>5. CASE t = "mdfat" /\ t2 = "dfat"
    BY <1>2, <2>2, <2>3, <2>5, StacInterleaved DEF Home
  <2>6. QED
    BY <1>2, <2>4, <2>5
<1>3. QED
  BY <1>1, <1>2 DEF Tables

\* The bytes of an entry are in sectors that the table reaches.
LEMMA PlaceReached ==
  ASSUME NEW f \in Formats, NEW t \in Tables, NEW e \in Entries(t), NEW k \in 0 .. LenOf(f, t) - 1,
         NEW x, x = PosOf(f, t, e) + k
  PROVE  /\ x \in Nat /\ x \div SectorSize \in Nat
         /\ x % SectorSize \in Nat /\ x % SectorSize < SectorSize
         /\ x = SectorSize * (x \div SectorSize) + (x % SectorSize)
         /\ Home(f, t, x \div SectorSize) \in Reached(f, t)
<1> DEFINE cell == CellOf(f, t, e)
           p == PosOf(f, t, e)
           len == LenOf(f, t)
           r == p % SectorSize
<1>1. /\ cell.area = Home(f, t, p \div SectorSize)
      /\ Straddles(cell) <=> r + len > SectorSize
      /\ Straddles(cell) => Home(f, t, (p \div SectorSize) + 1) = cell.area + 1
      /\ Spans(cell) \subseteq Reached(f, t)
  BY SpansAre
<1>2. p \in Nat /\ len \in 1 .. 5 /\ SectorSize \in Nat /\ SectorSize >= 12
  BY PosIs, SectorSizeSound
<1> HIDE DEF p
<1>3. k \in Nat /\ k < len /\ k <= SectorSize /\ x \in Nat /\ x = p + k
  <2>1. x = p + k
    BY DEF p
  <2>2. QED
    BY <1>2, <2>1, SMT
<1>4. r \in Nat
  BY <1>2, DivMod, SMT
<1>5. /\ x \div SectorSize \in Nat
      /\ x % SectorSize \in Nat /\ x % SectorSize < SectorSize
      /\ x = SectorSize * (x \div SectorSize) + (x % SectorSize)
  <2>1. SectorSize > 0
    BY <1>2, SMT
  <2>2. /\ x \div SectorSize \in Nat /\ x % SectorSize \in 0 .. SectorSize - 1
        /\ x = SectorSize * (x \div SectorSize) + (x % SectorSize)
    BY <1>2, <1>3, <2>1, DivMod
  <2>3. x % SectorSize \in Nat /\ x % SectorSize < SectorSize
    BY <1>2, <2>2, SMT
  <2>4. QED
    BY <2>2, <2>3
<1>6. CASE r + k < SectorSize
  <2>1. x \div SectorSize = p \div SectorSize
    BY <1>2, <1>3, <1>6, DivSame
  <2>2. QED
    BY <1>1, <1>3, <1>5, <2>1 DEF Spans
<1>7. CASE r + k >= SectorSize
  <2>1. x \div SectorSize = (p \div SectorSize) + 1
    <3>1. SectorSize > 0
      BY <1>2, SMT
    <3>2. (p + k) \div SectorSize = (p \div SectorSize) + 1
      BY <1>2, <1>3, <1>7, <3>1, DivNext
    <3>3. QED
      BY <1>3, <3>2
  <2>2. r + len > SectorSize
    <3> HIDE DEF r, len
    <3>1. QED
      BY <1>2, <1>3, <1>4, <1>7, SMT
  <2>3. QED
    BY <1>1, <1>3, <1>5, <2>1, <2>2 DEF Spans
<1>8. QED
  <2> HIDE DEF r
  <2>1. QED
    BY <1>2, <1>3, <1>4, <1>6, <1>7, SMT

\* A write puts the bytes into the row of bytes that the table is.
LEMMA StoreRewrites ==
  ASSUME NEW f \in Formats, Apart(f), NEW t \in Tables, NEW e \in Entries(t),
         NEW h, Reached(f, t) \subseteq DOMAIN h,
         \A a \in Reached(f, t) : h[a] \in [0 .. SectorSize - 1 -> Byte],
         NEW b, DOMAIN b = 0 .. LenOf(f, t) - 1,
         NEW copies \in SUBSET Spans(CellOf(f, t, e)), copies # {} => Copied(f, t),
         NEW h2, \A a \in Reached(f, t) : h2[a] = NewSector(f, h, CellOf(f, t, e), b, copies, a)
  PROVE  Rewritten(f, h, h2, t, e, b)
<1> DEFINE cell == CellOf(f, t, e)
           p == PosOf(f, t, e)
           i0 == p \div SectorSize
           r == p % SectorSize
           len == LenOf(f, t)
<1>1. /\ cell.area = Home(f, t, i0) /\ cell.offset = r
      /\ i0 \in Nat /\ cell.area \in Nat
      /\ Straddles(cell) <=> r + len > SectorSize
      /\ Straddles(cell) => Home(f, t, i0 + 1) = cell.area + 1
      /\ Spans(cell) \subseteq Reached(f, t)
  BY SpansAre
<1>2. p \in Nat /\ len \in 1 .. 5 /\ SectorSize \in Nat /\ SectorSize >= 12
  BY PosIs, SectorSizeSound
<1>3. r \in Nat /\ r < SectorSize /\ p = SectorSize * i0 + r
  <2> HIDE DEF p
  <2>1. QED
    BY <1>2, DivMod, SMT
<1>4. \A a \in Reached(f, t) : a - f.second \notin copies
  <2>1. SUFFICES ASSUME NEW a \in Reached(f, t), Copied(f, t), a - f.second \in copies PROVE FALSE
    OBVIOUS
  <2>2. a - f.second \in Reached(f, t)
    BY <1>1, <2>1
  <2>3. a \in Nat /\ f.second \in Nat
    BY FormatIs, ReachedAre
  <2>4. (a - f.second) + f.second = a
    BY <2>3, SMT
  <2>5. QED
    BY <2>1, <2>2, <2>4 DEF Apart
<1> SUFFICES ASSUME NEW e2 \in Entries(t), NEW k \in 0 .. len - 1
             PROVE  Peek(f, h2, t, PosOf(f, t, e2) + k) =
                      IF PosOf(f, t, e2) + k - p \in 0 .. len - 1 THEN b[PosOf(f, t, e2) + k - p]
                      ELSE Peek(f, h, t, PosOf(f, t, e2) + k)
  BY Zenon DEF Rewritten
<1>x. PICK x : x = PosOf(f, t, e2) + k
  BY Zenon
<1> SUFFICES Peek(f, h2, t, x) = IF x - p \in 0 .. len - 1 THEN b[x - p] ELSE Peek(f, h, t, x)
  <2>1. PosOf(f, t, e2) \in Nat
    BY PosIs
  <2> HIDE DEF p, len, cell, i0, r
  <2>2. PosOf(f, t, e2) + k - p = x - p
    BY <1>2, <1>x, <2>1, SMT
  <2>3. QED
    BY <1>x, <2>2
<1> DEFINE i == x \div SectorSize
           y == x % SectorSize
           a == Home(f, t, i)
<1>5. x \in Nat
  BY <1>x, PlaceReached
<1>6. i \in Nat /\ y \in Nat /\ y < SectorSize /\ x = SectorSize * i + y
  BY <1>x, PlaceReached
<1>7. a \in Reached(f, t)
  BY <1>x, PlaceReached
<1>8. /\ h2[a] = IF a \in Spans(cell) THEN WithEntry(h, cell, b, a) ELSE h[a]
      /\ y \in DOMAIN h[a]
  <2>1. h2[a] = NewSector(f, h, cell, b, copies, a)
    BY <1>7
  <2>2. h[a] \in [0 .. SectorSize - 1 -> Byte]
    BY <1>7
  <2>3. y \in 0 .. SectorSize - 1
    <3> HIDE DEF y
    <3>1. QED
      BY <1>2, <1>6, SMT
  <2> HIDE DEF a, y, cell
  <2>4. DOMAIN h[a] = 0 .. SectorSize - 1
    BY <2>2
  <2>5. QED
    BY <1>4, <1>7, <2>1, <2>3, <2>4 DEF NewSector
<1>9. Peek(f, h2, t, x) = h2[a][y] /\ Peek(f, h, t, x) = h[a][y]
  BY DEF Peek
<1>10. CASE i = i0
  <2>1. a = cell.area /\ a \in Spans(cell)
    BY <1>1, <1>10 DEF Spans
  <2>2. h2[a][y] = IF y + 0 - r \in DOMAIN b THEN b[y + 0 - r] ELSE h[a][y]
    <3>1. h2[a] = PutIn(h[a], cell, b, 0)
      BY <1>8, <2>1 DEF WithEntry
    <3> HIDE DEF a, y, cell
    <3>2. QED
      BY <1>1, <1>8, <3>1 DEF PutIn
  <2>3. y + 0 - r = x - p
    <3> HIDE DEF p, i, i0, y, r
    <3>1. QED
      BY <1>2, <1>3, <1>6, <1>10, SMT
  <2> HIDE DEF p, y, r, a
  <2>4. QED
    BY <1>9, <2>2, <2>3
<1>11. CASE i = i0 + 1 /\ Straddles(cell)
  <2>1. a = cell.area + 1 /\ a \in Spans(cell) /\ a # cell.area
    <3>1. a = cell.area + 1
      BY <1>1, <1>11
    <3>2. cell.area + 1 # cell.area
      BY <1>1, SMT
    <3>3. QED
      BY <1>11, <3>1, <3>2 DEF Spans
  <2>2. h2[a][y] = IF y + SectorSize - r \in DOMAIN b THEN b[y + SectorSize - r] ELSE h[a][y]
    <3>1. h2[a] = PutIn(h[a], cell, b, SectorSize)
      BY <1>8, <2>1 DEF WithEntry
    <3> HIDE DEF a, y, cell
    <3>2. QED
      BY <1>1, <1>8, <3>1 DEF PutIn
  <2>3. y + SectorSize - r = x - p
    <3> HIDE DEF p, i, i0, y, r
    <3>1. QED
      <4>1. i0 \in Nat /\ x = SectorSize * (i0 + 1) + y
        BY <1>1, <1>6, <1>11
      <4>2. SectorSize * (i0 + 1) = SectorSize * i0 + SectorSize
        BY <1>2, <4>1, SMT
      <4>3. SectorSize * i0 \in Int
        BY <1>2, <4>1, SMT
      <4>4. x = SectorSize * i0 + SectorSize + y
        BY <1>6, <4>1, <4>2
      <4>5. p = SectorSize * i0 + r /\ p \in Int /\ r \in Int /\ y \in Int /\ SectorSize \in Int
        BY <1>2, <1>3, <1>6, <4>1, SMT
      <4>6. QED
        BY <4>3, <4>4, <4>5, SMT
  <2> HIDE DEF p, y, r, a
  <2>4. QED
    BY <1>9, <2>2, <2>3
<1>12. CASE i # i0 /\ ~(i = i0 + 1 /\ Straddles(cell))
  <2>1. a \notin Spans(cell)
    <3>1. a # cell.area
      BY <1>1, <1>6, <1>12, HomesDiffer
    <3>2. ASSUME Straddles(cell), a = cell.area + 1 PROVE FALSE
      <4>1. Home(f, t, i0 + 1) = Home(f, t, i) /\ i0 + 1 \in Nat
        BY <1>1, <3>2
      <4> HIDE DEF i, i0
      <4>2. i0 + 1 = i
        BY <1>6, <4>1, HomesDiffer
      <4>3. QED
        BY <1>12, <3>2, <4>2
    <3>3. QED
      BY <3>1, <3>2 DEF Spans
  <2>2. x - p \notin 0 .. len - 1
    <3>1. SUFFICES ASSUME x - p \in 0 .. len - 1 PROVE FALSE
      OBVIOUS
    <3> DEFINE d == x - p
    <3>2. d \in Nat /\ d < len /\ d <= SectorSize /\ x = p + d /\ SectorSize > 0
      <4> HIDE DEF p, len
      <4>1. QED
        BY <1>2, <1>5, <3>1, SMT
    <3>3. CASE r + d < SectorSize
      <4>1. i = i0
        <5> HIDE DEF p, d
        <5>1. (p + d) \div SectorSize = p \div SectorSize
          BY <1>2, <3>2, <3>3, DivSame
        <5>2. QED
          BY <3>2, <5>1
      <4>2. QED
        BY <1>12, <4>1
    <3>4. CASE r + d >= SectorSize
      <4>1. i = i0 + 1
        <5> HIDE DEF p, d
        <5>1. (p + d) \div SectorSize = (p \div SectorSize) + 1
          BY <1>2, <3>2, <3>4, DivNext
        <5>2. QED
          BY <3>2, <5>1
      <4>2. r + len > SectorSize
        <5>1. r \in Nat
          BY <1>3
        <5> HIDE DEF r, len, d
        <5>2. QED
          BY <1>2, <3>2, <3>4, <5>1, SMT
      <4>3. QED
        BY <1>1, <1>12, <4>1, <4>2
    <3>5. QED
      <4> HIDE DEF r, d
      <4>1. QED
        BY <1>2, <1>3, <3>2, <3>3, <3>4, SMT
  <2> HIDE DEF p, y, a, len, cell
  <2>3. QED
    BY <1>8, <1>9, <2>1, <2>2
<1>13. QED
  BY <1>10, <1>11, <1>12

-----------------------------------------------------------------------------
(* A call of a table, apart from the variables.                            *)

HostTyped(f, h) == h \in [AllAreas(f) -> [0 .. SectorSize - 1 -> Byte]]
\* The second copies have the sectors of the first, but for those in late.
SectorsCopied(f, h, late) ==
  \A t \in Tables : Copied(f, t) => \A a \in Reached(f, t) \ late : h[a + f.second] = h[a]
\* The sectors of a table whose copies are late after a write of a cell.
Later(f, t, cell, late, copies) ==
  (late \ copies) \cup (IF Copied(f, t) THEN Spans(cell) \ copies ELSE {})

LEMMA VolumesAre ==
  ASSUME NEW f \in Formats
  PROVE  /\ Apart(f) /\ ContentSound(f)
         /\ \A v \in FatValues : v \in Holdable(f, "dfat")
         /\ \A m \in Mdes(f) : m \in Holdable(f, "mdfat")
         /\ \A v \in Bits(f) : v \in Holdable(f, "bitfat")
BY VolumesAssumption

LEMMA AreasAre ==
  ASSUME NEW f \in Formats
  PROVE  /\ AllAreas(f) \subseteq Nat
         /\ \A t \in Tables : \A a \in Reached(f, t) : a \in AllAreas(f) /\ a + f.second \in AllAreas(f)
<1> DEFINE Around(t, e) == {CellOf(f, t, e).area, CellOf(f, t, e).area + 1}
           some == UNION {UNION {Around(t, e) : e \in Entries(t)} : t \in Tables}
<1>1. AllAreas(f) = some \cup {n + f.second : n \in some}
  BY DEF AllAreas
<1>2. \A t \in Tables : \A a \in Reached(f, t) : a \in some
  <2>1. SUFFICES ASSUME NEW t \in Tables, NEW e \in Entries(t), NEW a \in Spans(CellOf(f, t, e))
                 PROVE  a \in some
    BY DEF Reached
  <2>2. a \in Around(t, e)
    BY DEF Spans
  <2> HIDE DEF Around
  <2>3. QED
    BY <2>2
<1>3. some \subseteq Nat
  <2>1. SUFFICES ASSUME NEW t \in Tables, NEW e \in Entries(t) PROVE Around(t, e) \subseteq Nat
    <3> HIDE DEF Around
    <3>1. QED
      OBVIOUS
  <2>2. CellOf(f, t, e).area \in Nat
    BY SpansAre
  <2>3. CellOf(f, t, e).area + 1 \in Nat
    BY <2>2, SMT
  <2>4. QED
    BY <2>2, <2>3
<1>4. f.second \in Nat
  BY FormatIs
<1> HIDE DEF some
<1>5. \A n \in some : n + f.second \in Nat
  BY <1>3, <1>4, SMT
<1>6. QED
  BY <1>1, <1>2, <1>3, <1>5

LEMMA HostBytesTyped ==
  ASSUME NEW f \in Formats, NEW t \in Tables, NEW h, HostTyped(f, h)
  PROVE  BytesTyped(f, h, t)
<1> SUFFICES ASSUME NEW e \in Entries(t)
             PROVE  HostBytes(h, CellOf(f, t, e)) \in [0 .. LenOf(f, t) - 1 -> Byte]
  BY DEF BytesTyped
<1>1. ASSUME NEW k \in 0 .. LenOf(f, t) - 1
      PROVE  Peek(f, h, t, PosOf(f, t, e) + k) \in Byte
  <2>0. PICK x : x = PosOf(f, t, e) + k
    BY Zenon
  <2>1. /\ Home(f, t, x \div SectorSize) \in Reached(f, t)
        /\ x % SectorSize \in Nat /\ x % SectorSize < SectorSize
    BY <2>0, PlaceReached
  <2>2. x % SectorSize \in 0 .. SectorSize - 1
    BY <2>1, SectorSizeSound, SMT
  <2>3. h[Home(f, t, x \div SectorSize)] \in [0 .. SectorSize - 1 -> Byte]
    BY <2>1, AreasAre DEF HostTyped
  <2>4. Peek(f, h, t, x) \in Byte
    BY <2>2, <2>3 DEF Peek
  <2>5. QED
    BY <2>0, <2>4
<1>2. HostBytes(h, CellOf(f, t, e)) = [k \in 0 .. LenOf(f, t) - 1 |-> Peek(f, h, t, PosOf(f, t, e) + k)]
  BY BytesArePeeks
<1>3. QED
  BY <1>1, <1>2

\* Entries whose sectors are as they were have the bytes they had.
LEMMA SameSectorsSameBytes ==
  ASSUME NEW f \in Formats, NEW t \in Tables, NEW e \in Entries(t), NEW h, NEW h2,
         \A a \in Reached(f, t) : h2[a] = h[a]
  PROVE  HostBytes(h2, CellOf(f, t, e)) = HostBytes(h, CellOf(f, t, e))
<1>1. ASSUME NEW k \in 0 .. LenOf(f, t) - 1
      PROVE  Peek(f, h2, t, PosOf(f, t, e) + k) = Peek(f, h, t, PosOf(f, t, e) + k)
  <2>0. PICK x : x = PosOf(f, t, e) + k
    BY Zenon
  <2>1. Home(f, t, x \div SectorSize) \in Reached(f, t)
    BY <2>0, PlaceReached
  <2>2. Peek(f, h2, t, x) = Peek(f, h, t, x)
    BY <2>1 DEF Peek
  <2>3. QED
    BY <2>0, <2>2
<1>2. /\ HostBytes(h2, CellOf(f, t, e)) = [k \in 0 .. LenOf(f, t) - 1 |-> Peek(f, h2, t, PosOf(f, t, e) + k)]
      /\ HostBytes(h, CellOf(f, t, e)) = [k \in 0 .. LenOf(f, t) - 1 |-> Peek(f, h, t, PosOf(f, t, e) + k)]
  BY BytesArePeeks
<1>3. QED
  BY <1>1, <1>2

LEMMA PutInTyped ==
  ASSUME NEW data \in [0 .. SectorSize - 1 -> Byte], NEW cell, NEW n, NEW b \in [0 .. n -> Byte], NEW shift
  PROVE  PutIn(data, cell, b, shift) \in [0 .. SectorSize - 1 -> Byte]
BY DEF PutIn

\* The sectors after a write to an entry of t.
After(f, h, h2, cell, b, copies) ==
  DOMAIN h2 = DOMAIN h /\ \A a \in DOMAIN h : h2[a] = NewSector(f, h, cell, b, copies, a)

\* No sector of a table is a copy.
LEMMA NoCopyReached ==
  ASSUME NEW f \in Formats, NEW t \in Tables, NEW t2 \in Tables, Copied(f, t), NEW a \in Reached(f, t2)
  PROVE  a - f.second \notin Reached(f, t)
<1>1. SUFFICES ASSUME a - f.second \in Reached(f, t) PROVE FALSE
  OBVIOUS
<1>2. a \in Nat /\ f.second \in Nat
  BY FormatIs, ReachedAre
<1>3. (a - f.second) + f.second = a
  BY <1>2, SMT
<1>4. QED
  BY <1>1, <1>3, VolumesAre DEF Apart

LEMMA AfterTyped ==
  ASSUME NEW f \in Formats, NEW t \in Tables, NEW e \in Entries(t), NEW h, HostTyped(f, h), NEW h2,
         NEW b \in [0 .. LenOf(f, t) - 1 -> Byte], NEW copies \in SUBSET Spans(CellOf(f, t, e)), After(f, h, h2, CellOf(f, t, e), b, copies),
         h2 = [a \in DOMAIN h |-> h2[a]]
  PROVE  HostTyped(f, h2)
<1> DEFINE cell == CellOf(f, t, e)
<1>1. Spans(cell) \subseteq AllAreas(f)
  BY SpansAre, AreasAre
<1>2. ASSUME NEW a \in AllAreas(f)
      PROVE  WithEntry(h, cell, b, a) \in [0 .. SectorSize - 1 -> Byte]
  BY <1>2, PutInTyped DEF WithEntry, HostTyped
<1>3. ASSUME NEW a \in AllAreas(f)
      PROVE  h2[a] \in [0 .. SectorSize - 1 -> Byte]
  <2>1. h2[a] = NewSector(f, h, cell, b, copies, a) /\ h[a] \in [0 .. SectorSize - 1 -> Byte]
    BY DEF After, HostTyped
  <2>2. copies \subseteq AllAreas(f)
    BY <1>1
  <2> HIDE DEF cell
  <2>3. ASSUME NEW x \in AllAreas(f)
        PROVE  WithEntry(h, cell, b, x) \in [0 .. SectorSize - 1 -> Byte]
    BY <1>2
  <2>4. CASE a \in Spans(cell)
    BY <2>1, <2>3, <2>4 DEF NewSector
  <2>5. CASE a \notin Spans(cell) /\ a - f.second \in copies
    <3>1. h2[a] = WithEntry(h, cell, b, a - f.second)
      BY <2>1, <2>5 DEF NewSector
    <3>2. QED
      BY <2>2, <2>3, <2>5, <3>1
  <2>6. CASE a \notin Spans(cell) /\ a - f.second \notin copies
    BY <2>1, <2>6 DEF NewSector
  <2>7. QED
    BY <2>4, <2>5, <2>6
<1>4. DOMAIN h = AllAreas(f)
  BY DEF HostTyped
<1>5. QED
  BY <1>3, <1>4 DEF HostTyped

LEMMA AfterElsewhere ==
  ASSUME NEW f \in Formats, NEW t \in Tables, NEW e \in Entries(t), NEW h, HostTyped(f, h), NEW h2, NEW b,
         NEW copies \in SUBSET Spans(CellOf(f, t, e)), copies # {} => Copied(f, t),
         After(f, h, h2, CellOf(f, t, e), b, copies), NEW t2 \in Tables, t2 # t, NEW a \in Reached(f, t2)
  PROVE  h2[a] = h[a]
<1> DEFINE cell == CellOf(f, t, e)
<1>1. Spans(cell) \subseteq Reached(f, t)
  BY SpansAre
<1>2. a \in DOMAIN h
  BY AreasAre DEF HostTyped
<1>3. a \notin Spans(cell)
  BY <1>1, TablesApart, VolumesAre
<1>4. a - f.second \notin copies
  BY <1>1, NoCopyReached
<1>5. h2[a] = NewSector(f, h, cell, b, copies, a)
  BY <1>2 DEF After
<1> HIDE DEF cell
<1>6. QED
  BY <1>3, <1>4, <1>5 DEF NewSector

LEMMA AfterCopied ==
  ASSUME NEW f \in Formats, NEW t \in Tables, NEW e \in Entries(t), NEW h, HostTyped(f, h), NEW h2, NEW b,
         NEW copies \in SUBSET Spans(CellOf(f, t, e)), copies # {} => Copied(f, t),
         After(f, h, h2, CellOf(f, t, e), b, copies), NEW late, SectorsCopied(f, h, late)
  PROVE  SectorsCopied(f, h2, Later(f, t, CellOf(f, t, e), late, copies))
<1> DEFINE cell == CellOf(f, t, e)
<1>1. Spans(cell) \subseteq Reached(f, t)
  BY SpansAre
<1> SUFFICES ASSUME NEW t2 \in Tables, Copied(f, t2),
                    NEW a \in Reached(f, t2) \ Later(f, t, cell, late, copies)
             PROVE  h2[a + f.second] = h2[a]
  BY DEF SectorsCopied
<1>2. a \in DOMAIN h /\ a + f.second \in DOMAIN h
  BY AreasAre DEF HostTyped
<1>3. a \notin copies => h[a + f.second] = h[a]
  BY DEF SectorsCopied, Later
<1>4. /\ h2[a] = NewSector(f, h, cell, b, copies, a)
      /\ h2[a + f.second] = NewSector(f, h, cell, b, copies, a + f.second)
  BY <1>2 DEF After
<1>5. a - f.second \notin copies
  BY <1>1, NoCopyReached
<1>6. a + f.second \notin Spans(cell)
  BY <1>1, VolumesAre DEF Apart
<1>7. (a + f.second) - f.second = a
  <2>1. a \in Nat /\ f.second \in Nat
    BY FormatIs, ReachedAre
  <2>2. QED
    BY <2>1, SMT
<1>8. a \in Spans(cell) => a \in copies
  <2>0. Copied(f, t) => a \notin Spans(cell) \ copies
    BY DEF Later
  <2>1. CASE t = t2
    BY <2>0, <2>1
  <2>2. CASE t # t2
    BY <1>1, <2>2, TablesApart, VolumesAre
  <2>3. QED
    BY <2>1, <2>2
<1>9. copies \subseteq Spans(cell)
  OBVIOUS
<1> HIDE DEF cell
<1>10. CASE a \in copies
  <2>1. h2[a] = WithEntry(h, cell, b, a)
    BY <1>4, <1>9, <1>10 DEF NewSector
  <2>2. h2[a + f.second] = WithEntry(h, cell, b, a)
    BY <1>4, <1>6, <1>7, <1>10 DEF NewSector
  <2>3. QED
    BY <2>1, <2>2
<1>11. CASE a \notin copies
  <2>1. h2[a] = h[a]
    BY <1>4, <1>5, <1>8, <1>11 DEF NewSector
  <2>2. h2[a + f.second] = h[a + f.second]
    BY <1>4, <1>6, <1>7, <1>11 DEF NewSector
  <2>3. QED
    BY <1>3, <1>11, <2>1, <2>2
<1>12. QED
  BY <1>10, <1>11

\* A write to an entry through the buffers o of its cache.
Stored(f, h, h2, t, e, cache, new, copies) ==
  /\ HostTyped(f, h2)
  /\ CacheIs(h2, cache, Reached(f, t))
  /\ \A t2 \in Tables \ {t} : \A a \in Reached(f, t2) : h2[a] = h[a]
  /\ OnHost(f, h2, t, e) = Kept(f, t, new)
  /\ \A t2 \in Tables : \A e2 \in Entries(t2) :
       (t2 # t \/ e2 # e) => OnHost(f, h2, t2, e2) = OnHost(f, h, t2, e2)
  /\ \A late : SectorsCopied(f, h, late) => SectorsCopied(f, h2, Later(f, t, CellOf(f, t, e), late, copies))

LEMMA TablesStored ==
  ASSUME NEW f \in Formats, NEW t \in Tables, NEW e \in Entries(t), NEW new \in Holdable(f, t),
         NEW h, HostTyped(f, h), NEW c, CacheIs(h, c, Reached(f, t)),
         NEW o \in Buffers(h, c, CellOf(f, t, e)), o.first # -1
  PROVE  LET cell == CellOf(f, t, e)
             b == BytesIn(o, cell)
             cache == WithBytes(o, cell, Bytes(f, t, e, b, new))
         IN /\ Value(f, t, e, b) = OnHost(f, h, t, e)
            /\ Buffered(cache, o) = Spans(cell)
            /\ \A copies \in CopyRuns(f, t, cache, o) :
                 Stored(f, h, Written(f, h, cache, o, copies), t, e, cache, new, copies)
<1> DEFINE cell == CellOf(f, t, e)
           areas == Reached(f, t)
           b == HostBytes(h, cell)
           nb == Bytes(f, t, e, b, new)
           cache == WithBytes(o, cell, nb)
<1>1. Apart(f) /\ DOMAIN h = AllAreas(f) /\ DOMAIN h \subseteq Nat /\ areas \subseteq DOMAIN h
      /\ areas \in SUBSET Nat /\ Spans(cell) \subseteq areas
  BY VolumesAre, AreasAre, SpansAre DEF HostTyped
<1>2. CacheIs(h, o.cache, areas) /\ BuffersHold(h, o, cell)
  <2> HIDE DEF areas, cell
  <2>1. CacheIs(h, c, areas) /\ o \in Buffers(h, c, cell)
    BY DEF areas, cell
  <2>2. QED
    BY <1>1, <2>1, BuffersAre
<1>3. BytesIn(o, cell) = b
  BY <1>2, BytesInAre
<1>4. Copied(f, t) => \A a \in areas : a + f.second \notin areas
  BY <1>1 DEF Apart
<1>b. Buffered(cache, o) = Spans(cell) /\ cache[o.first].area \in Spans(cell)
  <2> HIDE DEF areas, cell, nb
  <2>1. QED
    BY <1>1, <1>2, BufferedAre
<1>s. SUFFICES ASSUME NEW copies \in CopyRuns(f, t, cache, o)
               PROVE  Stored(f, h, Written(f, h, cache, o, copies), t, e, cache, new, copies)
  BY <1>3, <1>b DEF OnHost
<1>c. copies \in SUBSET Spans(cell) /\ (copies # {} => Copied(f, t))
  <2> HIDE DEF cell, cache
  <2>1. QED
    BY <1>b DEF CopyRuns
<1> DEFINE h2 == Written(f, h, cache, o, copies)
<1>5. /\ DOMAIN h2 = DOMAIN h
      /\ \A a \in DOMAIN h : h2[a] = NewSector(f, h, cell, nb, copies, a)
      /\ CacheIs(h2, cache, areas)
  <2> HIDE DEF areas, cell, nb
  <2>1. QED
    BY <1>1, <1>2, <1>4, <1>c, WrittenIs
<1>6. h2 = [a \in DOMAIN h |-> h2[a]]
  <2>1. h2 = [a \in DOMAIN h |->
                LET From == {k \in {o.first, o.second} : \/ cache[k].area = a
                                                         \/ cache[k].area \in copies /\ cache[k].area + f.second = a}
                IN IF From = {} THEN h[a] ELSE cache[CHOOSE k \in From : TRUE].data]
    BY Zenon DEF Written
  <2> HIDE DEF cache, h2
  <2>2. QED
    BY <2>1
<1>7. After(f, h, h2, cell, nb, copies)
  <2> HIDE DEF h2, cell, nb
  <2>1. QED
    BY <1>5 DEF After
<1> HIDE DEF h2, cache
<1>8. BytesTyped(f, h, t)
  BY HostBytesTyped
<1>9. nb \in [0 .. LenOf(f, t) - 1 -> Byte]
  <2>1. b \in [0 .. LenOf(f, t) - 1 -> Byte]
    BY <1>8 DEF BytesTyped
  <2>2. Bytes(f, t, e, HostBytes(h, CellOf(f, t, e)), new) \in [0 .. LenOf(f, t) - 1 -> Byte]
    BY <1>8, BytesAre
  <2>3. QED
    BY <2>2
<1>10. Rewritten(f, h, h2, t, e, nb)
  <2>1. DOMAIN nb = 0 .. LenOf(f, t) - 1
    BY <1>9
  <2>2. \A a \in Reached(f, t) : h2[a] = NewSector(f, h, CellOf(f, t, e), nb, copies, a)
    BY <1>1, <1>5
  <2>3. \A a \in Reached(f, t) : h[a] \in [0 .. SectorSize - 1 -> Byte]
    BY <1>1 DEF HostTyped
  <2> HIDE DEF nb
  <2>4. QED
    BY <1>1, <1>c, <2>1, <2>2, <2>3, StoreRewrites
<1>11. /\ OnHost(f, h2, t, e) = Kept(f, t, new)
       /\ \A e2 \in Entries(t) \ {e} : OnHost(f, h2, t, e2) = OnHost(f, h, t, e2)
  BY <1>8, <1>10, EntryRewritten
<1>12. HostTyped(f, h2)
  <2> HIDE DEF nb
  <2>1. QED
    BY <1>6, <1>7, <1>9, <1>c, AfterTyped
<1>13. \A t2 \in Tables \ {t} : \A a \in Reached(f, t2) : h2[a] = h[a]
  <2> HIDE DEF nb
  <2>1. QED
    BY <1>7, <1>c, AfterElsewhere
<1>14. \A late : SectorsCopied(f, h, late) => SectorsCopied(f, h2, Later(f, t, CellOf(f, t, e), late, copies))
  <2> HIDE DEF nb
  <2>1. QED
    BY <1>7, <1>c, AfterCopied
<1>15. ASSUME NEW t2 \in Tables, t2 # t, NEW e2 \in Entries(t2)
       PROVE  OnHost(f, h2, t2, e2) = OnHost(f, h, t2, e2)
  <2>1. \A a \in Reached(f, t2) : h2[a] = h[a]
    BY <1>13, <1>15
  <2>2. HostBytes(h2, CellOf(f, t2, e2)) = HostBytes(h, CellOf(f, t2, e2))
    BY <2>1, SameSectorsSameBytes
  <2>3. QED
    BY <2>2 DEF OnHost
<1>16. Stored(f, h, h2, t, e, cache, new, copies)
  BY <1>5, <1>11, <1>12, <1>13, <1>14, <1>15 DEF Stored
<1>17. QED
  BY <1>16 DEF h2

-----------------------------------------------------------------------------
(* The invariant.  Beside what the runs check: a cache holds sectors that  *)
(* its own table reaches, as they are on the host, which is what makes the *)
(* bytes of an entry in the buffers those on the host; and the copies of *)
(* sectors that are not behind are the same in all their bytes, which is   *)
(* what a write keeps.                                                     *)

CachesHold ==
  /\ DOMAIN acache = Tables
  /\ \A t \in Tables : CacheIs(host, acache[t], Reached(format, t))
PromisesTyped ==
  /\ DOMAIN promised = Tables
  /\ \A t \in Tables : DOMAIN promised[t] = Entries(t)
CountTyped == free \in Int /\ free >= -1 /\ calls \in 0 .. MaxCalls
IInv ==
  /\ format \in Formats /\ HostTyped(format, host) /\ CountTyped
  /\ CachesHold /\ PromisesTyped
  /\ EntriesKept /\ SectorsCopied(format, host, behind) /\ FreeIsUnused
  /\ behind \subseteq AllAreas(format)

LEMMA SectorsFinite ==
  /\ IsFiniteSet(Sectors)
  /\ \A f, h : /\ IsFiniteSet({s \in Sectors : OnHost(f, h, "bitfat", s) = 0})
               /\ Unused(f, h) \in Nat /\ Unused(f, h) <= Cardinality(Sectors)
<1>1. IsFiniteSet(Sectors)
  BY TablesAssumption, FS_Interval, StartsSound
<1>2. ASSUME NEW f, NEW h
      PROVE  /\ IsFiniteSet({s \in Sectors : OnHost(f, h, "bitfat", s) = 0})
             /\ Unused(f, h) \in Nat /\ Unused(f, h) <= Cardinality(Sectors)
  <2>1. {s \in Sectors : OnHost(f, h, "bitfat", s) = 0} \subseteq Sectors
    OBVIOUS
  <2>2. QED
    BY <1>1, <2>1, FS_Subset, FS_CardinalityType DEF Unused
<1>3. QED
  BY <1>1, <1>2

\* The caches are those of a volume's tables.
LEMMA CachesAreSound ==
  ASSUME IInv
  PROVE  /\ \A t \in Tables, k \in Slots : acache[t][k] = Empty \/ acache[t][k].area \in DOMAIN host
         /\ CacheCoherent
<1>1. format \in Formats /\ DOMAIN host = AllAreas(format)
  BY DEF IInv, HostTyped
<1>2. \A t \in Tables, k \in Slots : acache[t][k] # Empty =>
        \E a \in Reached(format, t) : acache[t][k] = Loaded(host, a)
  BY DEF IInv, CachesHold, CacheIs
<1>3. \A t \in Tables, k \in Slots : acache[t][k] # Empty =>
        /\ acache[t][k].area \in Reached(format, t) /\ acache[t][k].data = host[acache[t][k].area]
        /\ acache[t][k].area \in Nat /\ acache[t][k].area \in DOMAIN host
  <2>1. SUFFICES ASSUME NEW t \in Tables, NEW k \in Slots, acache[t][k] # Empty
                 PROVE  /\ acache[t][k].area \in Reached(format, t)
                        /\ acache[t][k].data = host[acache[t][k].area]
                        /\ acache[t][k].area \in Nat /\ acache[t][k].area \in DOMAIN host
    OBVIOUS
  <2>2. PICK a \in Reached(format, t) : acache[t][k] = Loaded(host, a)
    BY <1>2, <2>1
  <2>3. a \in Nat /\ a \in DOMAIN host
    BY <1>1, AreasAre, ReachedAre
  <2>4. QED
    BY <2>2, <2>3, SlotsAre
<1>4. CacheCoherent
  <2>1. SUFFICES ASSUME NEW t \in Tables, NEW k \in Slots, acache[t][k] # Empty,
                        NEW t2 \in Tables, NEW j \in Slots, acache[t2][j].area = acache[t][k].area
                 PROVE  t2 = t /\ j = k
    BY <1>3 DEF CacheCoherent
  <2>2. acache[t2][j] # Empty
    <3>1. acache[t][k].area # -1
      BY <1>3, <2>1, SMT
    <3>2. QED
      BY <2>1, <3>1, SlotsAre
  <2>3. acache[t][k].area \in Reached(format, t) /\ acache[t][k].area \in Reached(format, t2)
    BY <1>3, <2>1, <2>2
  <2>4. t2 = t
    BY <1>1, <2>3, TablesApart, VolumesAre
  <2>5. QED
    BY <2>1, <2>4 DEF IInv, CachesHold, CacheIs
<1>5. QED
  BY <1>3, <1>4

\* What the runs check follows.
LEMMA IInvImplies ==
  ASSUME IInv
  PROVE  EntriesKept /\ CacheSound /\ CopiesAgree /\ FreeIsUnused
<1>1. format \in Formats
  BY DEF IInv
<1>2. free \in -1 .. Cardinality(Sectors)
  <2>1. free \in Int /\ free >= -1 /\ (free >= 0 => free = Unused(format, host))
    BY DEF IInv, CountTyped, FreeIsUnused
  <2>2. Unused(format, host) \in Nat /\ Unused(format, host) <= Cardinality(Sectors)
    BY SectorsFinite
  <2>3. Cardinality(Sectors) \in Nat
    BY SectorsFinite, FS_CardinalityType
  <2>4. QED
    BY <2>1, <2>2, <2>3, SMT
<1>3. CacheSound
  BY <1>2, CachesAreSound DEF CacheSound, TypeOK, IInv, HostTyped, CountTyped
<1>4. CopiesAgree
  BY DEF CopiesAgree, IInv, SectorsCopied
<1>5. QED
  BY <1>3, <1>4 DEF IInv

LEMMA InitSound == Init => IInv
<1> SUFFICES ASSUME Init PROVE IInv
  OBVIOUS
<1>1. format \in Formats /\ calls = 0 /\ MaxCalls \in Nat
  BY TablesAssumption DEF Init
<1>2. host = [a \in AllAreas(format) |-> [n \in 0 .. SectorSize - 1 |-> Content(a, n)]]
  BY DEF Init
<1>3. HostTyped(format, host)
  BY <1>1, <1>2, VolumesAre DEF HostTyped, ContentSound
<1>4. free = IF format.counted THEN Unused(format, host) ELSE -1
  BY DEF Init
<1>5. CountTyped /\ FreeIsUnused
  <2>1. Unused(format, host) \in Nat
    BY SectorsFinite
  <2>2. calls \in 0 .. MaxCalls
    BY <1>1, SMT
  <2>3. free \in Int /\ free >= -1 /\ (free >= 0 => free = Unused(format, host))
    BY <1>4, <2>1, SMT
  <2>4. QED
    BY <2>2, <2>3 DEF CountTyped, FreeIsUnused
<1>6. CachesHold
  <2>1. acache = [t \in Tables |-> [k \in Slots |-> Empty]]
    BY DEF Init
  <2>2. CacheIs(host, [k \in Slots |-> Empty], Reached(format, "dfat"))
        /\ CacheIs(host, [k \in Slots |-> Empty], Reached(format, "mdfat"))
        /\ CacheIs(host, [k \in Slots |-> Empty], Reached(format, "bitfat"))
    BY DEF CacheIs
  <2>3. QED
    BY <2>1, <2>2 DEF CachesHold, Tables
<1>7. promised = [t \in Tables |-> [e \in Entries(t) |-> OnHost(format, host, t, e)]]
  BY DEF Init
<1>8. PromisesTyped /\ EntriesKept
  BY <1>7 DEF PromisesTyped, EntriesKept
<1>9. SectorsCopied(format, host, behind) /\ behind \subseteq AllAreas(format)
  <2>0. behind = {}
    BY DEF Init
  <2>1. SUFFICES ASSUME NEW t \in Tables, Copied(format, t), NEW a \in Reached(format, t)
                 PROVE  host[a + format.second] = host[a]
    BY <2>0 DEF SectorsCopied
  <2>2. a \in AllAreas(format) /\ a + format.second \in AllAreas(format)
    BY <1>1, AreasAre
  <2>3. \A n \in 0 .. SectorSize - 1 : Content(a + format.second, n) = Content(a, n)
    BY <1>1, <2>1, VolumesAre DEF ContentSound
  <2>4. QED
    BY <1>2, <2>2, <2>3
<1>10. QED
  BY <1>1, <1>3, <1>5, <1>6, <1>8, <1>9 DEF IInv

\* A lookup changes a cache only.
LEMMA LookupSound ==
  ASSUME IInv, NEW t \in Tables, NEW e \in Entries(t), Lookup(t, e)
  PROVE  IInv'
<1>1. format \in Formats /\ UNCHANGED <<format, host, free, promised, behind>>
  BY DEF IInv, Lookup
<1>2. PICK o \in Buffers(host, acache[t], CellOf(format, t, e)) : acache' = [acache EXCEPT ![t] = o.cache]
  BY DEF Lookup
<1>3. CacheIs(host, o.cache, Reached(format, t))
  <2> DEFINE cell == CellOf(format, t, e)
             areas == Reached(format, t)
  <2>1. areas \in SUBSET Nat /\ Spans(cell) \subseteq areas
    BY <1>1, ReachedAre, SpansAre
  <2>2. CacheIs(host, acache[t], areas) /\ o \in Buffers(host, acache[t], cell)
    BY DEF IInv, CachesHold
  <2> HIDE DEF cell, areas
  <2>3. CacheIs(host, o.cache, areas)
    BY <2>1, <2>2, BuffersAre
  <2>4. QED
    BY <2>3 DEF areas
<1>4. CachesHold'
  <2>1. DOMAIN acache = Tables
    BY DEF IInv, CachesHold
  <2>2. DOMAIN acache' = Tables /\ acache'[t] = o.cache
        /\ \A t2 \in Tables \ {t} : acache'[t2] = acache[t2]
    BY <1>2, <2>1
  <2>3. \A t2 \in Tables : CacheIs(host, acache'[t2], Reached(format, t2))
    BY <1>3, <2>2 DEF IInv, CachesHold
  <2>4. QED
    BY <1>1, <2>2, <2>3 DEF CachesHold
<1>5. CountTyped'
  <2>1. calls < MaxCalls /\ calls' = calls + 1 /\ calls \in 0 .. MaxCalls /\ MaxCalls \in Nat
    BY TablesAssumption DEF IInv, CountTyped, Lookup
  <2>2. calls' \in 0 .. MaxCalls
    BY <2>1, SMT
  <2>3. QED
    BY <1>1, <2>2 DEF IInv, CountTyped
<1>6. QED
  BY <1>1, <1>4, <1>5 DEF IInv, PromisesTyped, EntriesKept, FreeIsUnused

\* The free sectors after a write of the value new for the sector s.
LEMMA UnusedAfter ==
  ASSUME NEW f, NEW h, NEW h2, NEW s \in Sectors, NEW new, OnHost(f, h2, "bitfat", s) = new,
         \A s2 \in Sectors : s2 # s => OnHost(f, h2, "bitfat", s2) = OnHost(f, h, "bitfat", s2)
  PROVE  LET old == OnHost(f, h, "bitfat", s) IN
         /\ old = 0 /\ new # 0 => Unused(f, h2) = Unused(f, h) - 1
         /\ old # 0 /\ new = 0 => Unused(f, h2) = Unused(f, h) + 1
         /\ (old = 0 <=> new = 0) => Unused(f, h2) = Unused(f, h)
<1> DEFINE u == {x \in Sectors : OnHost(f, h, "bitfat", x) = 0}
           u2 == {x \in Sectors : OnHost(f, h2, "bitfat", x) = 0}
           old == OnHost(f, h, "bitfat", s)
<1>1. IsFiniteSet(u) /\ Unused(f, h) = Cardinality(u) /\ Unused(f, h2) = Cardinality(u2)
  BY SectorsFinite DEF Unused
<1>2. (s \in u <=> old = 0) /\ (s \in u2 <=> new = 0) /\ \A x : x # s => (x \in u <=> x \in u2)
  OBVIOUS
<1> HIDE DEF u, u2, old
<1>3. CASE old = 0 /\ new # 0
  <2>1. u2 = u \ {s} /\ s \in u
    BY <1>2, <1>3
  <2>2. QED
    BY <1>1, <1>3, <2>1, FS_RemoveElement DEF old
<1>4. CASE old # 0 /\ new = 0
  <2>1. u2 = u \cup {s} /\ s \notin u
    BY <1>2, <1>4
  <2>2. QED
    BY <1>1, <1>4, <2>1, FS_AddElement DEF old
<1>5. CASE old = 0 <=> new = 0
  <2>1. u2 = u
    BY <1>2, <1>5
  <2>2. QED
    BY <1>1, <1>5, <2>1 DEF old
<1>6. QED
  BY <1>3, <1>4, <1>5 DEF old

LEMMA StoreSound ==
  ASSUME IInv, NEW t \in Tables, NEW e \in Entries(t), NEW new \in Holdable(format, t), Store(t, e, new)
  PROVE  IInv'
<1> DEFINE cell == CellOf(format, t, e)
<1>1. format \in Formats /\ format' = format /\ HostTyped(format, host)
      /\ SectorsCopied(format, host, behind) /\ EntriesKept
      /\ behind \subseteq AllAreas(format)
  BY DEF IInv, Store
<1>2. PICK o \in Buffers(host, acache[t], cell) :
        LET b == BytesIn(o, cell)
            cache == WithBytes(o, cell, Bytes(format, t, e, b, new))
        IN /\ o.first # -1
           /\ acache' = [acache EXCEPT ![t] = cache]
           /\ \E copies \in CopyRuns(format, t, cache, o) :
                /\ host' = Written(format, host, cache, o, copies)
                /\ behind' = Behind(format, t, cache, o, copies)
           /\ free' = Counted(t, Value(format, t, e, b), new)
  BY DEF Store
<1> DEFINE b == BytesIn(o, cell)
           cache == WithBytes(o, cell, Bytes(format, t, e, b, new))
<1>3. /\ acache' = [acache EXCEPT ![t] = cache]
      /\ free' = Counted(t, Value(format, t, e, b), new)
  BY <1>2
<1>c. PICK copies \in CopyRuns(format, t, cache, o) :
        /\ host' = Written(format, host, cache, o, copies)
        /\ behind' = Behind(format, t, cache, o, copies)
  BY <1>2
<1>4. /\ Value(format, t, e, b) = OnHost(format, host, t, e)
      /\ Stored(format, host, host', t, e, cache, new, copies)
      /\ Buffered(cache, o) = Spans(cell)
  <2>1. CacheIs(host, acache[t], Reached(format, t))
    BY DEF IInv, CachesHold
  <2>2. o.first # -1 /\ o \in Buffers(host, acache[t], CellOf(format, t, e))
    BY <1>2
  <2>3. LET cell1 == CellOf(format, t, e)
            b1 == BytesIn(o, cell1)
            cache1 == WithBytes(o, cell1, Bytes(format, t, e, b1, new))
        IN /\ Value(format, t, e, b1) = OnHost(format, host, t, e)
           /\ Buffered(cache1, o) = Spans(cell1)
           /\ \A c \in CopyRuns(format, t, cache1, o) :
                Stored(format, host, Written(format, host, cache1, o, c), t, e, cache1, new, c)
    BY <1>1, <2>1, <2>2, TablesStored
  <2>4. QED
    BY <1>c, <2>3
<1> HIDE DEF cell, b, cache
<1>5. HostTyped(format', host') /\ SectorsCopied(format', host', behind') /\ behind' \subseteq AllAreas(format')
  <2>1. behind' = Later(format, t, CellOf(format, t, e), behind, copies)
    BY <1>c, <1>4 DEF Behind, Later, cell
  <2>2. Spans(CellOf(format, t, e)) \subseteq AllAreas(format)
    BY <1>1, SpansAre, AreasAre
  <2>3. behind' \subseteq AllAreas(format)
    BY <1>1, <2>1, <2>2 DEF Later
  <2>4. QED
    BY <1>1, <1>4, <2>1, <2>3 DEF Stored
<1>6. CachesHold'
  <2>1. DOMAIN acache = Tables
    BY DEF IInv, CachesHold
  <2>2. DOMAIN acache' = Tables /\ acache'[t] = cache
        /\ \A t2 \in Tables \ {t} : acache'[t2] = acache[t2]
    BY <1>3, <2>1
  <2>3. ASSUME NEW t2 \in Tables, t2 # t
        PROVE  CacheIs(host', acache[t2], Reached(format, t2))
    <3>1. CacheIs(host, acache[t2], Reached(format, t2))
      BY DEF IInv, CachesHold
    <3>2. \A a \in Reached(format, t2) : Loaded(host', a) = Loaded(host, a)
      BY <1>4, <2>3 DEF Stored, Loaded
    <3>3. QED
      BY <3>1, <3>2 DEF CacheIs
  <2>4. CacheIs(host', cache, Reached(format, t))
    BY <1>4 DEF Stored
  <2>5. \A t2 \in Tables : CacheIs(host', acache'[t2], Reached(format, t2))
    BY <2>2, <2>3, <2>4
  <2>6. QED
    BY <1>1, <2>2, <2>5 DEF CachesHold
<1>7. promised' = [promised EXCEPT ![t][e] = Kept(format, t, new)] /\ PromisesTyped
  BY DEF Store, IInv
<1>8. /\ PromisesTyped'
      /\ promised'[t][e] = Kept(format, t, new)
      /\ \A t2 \in Tables : \A e2 \in Entries(t2) : (t2 # t \/ e2 # e) => promised'[t2][e2] = promised[t2][e2]
  BY <1>7 DEF PromisesTyped
<1>9. EntriesKept'
  <2>1. ASSUME NEW t2 \in Tables, NEW e2 \in Entries(t2)
        PROVE  OnHost(format, host', t2, e2) = promised'[t2][e2]
    <3>1. CASE t2 = t /\ e2 = e
      BY <1>4, <1>8, <3>1 DEF Stored
    <3>2. CASE t2 # t \/ e2 # e
      <4>1. OnHost(format, host', t2, e2) = OnHost(format, host, t2, e2)
        BY <1>4, <3>2 DEF Stored
      <4>2. QED
        BY <1>1, <1>8, <3>2, <4>1 DEF EntriesKept
    <3>3. QED
      BY <3>1, <3>2
  <2>2. QED
    BY <1>1, <2>1 DEF EntriesKept
<1>10. (FreeIsUnused /\ free \in Int /\ free >= -1)'
  <2>0. free \in Int /\ free >= -1 /\ (free >= 0 => free = Unused(format, host))
    BY DEF IInv, CountTyped, FreeIsUnused
  <2>1. CASE t # "bitfat"
    <3>1. free' = free
      BY <1>3, <2>1 DEF Counted
    <3>2. \A s \in Sectors : OnHost(format, host', "bitfat", s) = OnHost(format, host, "bitfat", s)
      BY <1>4, <2>1 DEF Stored, Tables, Entries
    <3>3. Unused(format, host') = Unused(format, host)
      BY <3>2 DEF Unused
    <3>4. QED
      BY <1>1, <2>0, <3>1, <3>3 DEF FreeIsUnused
  <2>2. CASE t = "bitfat" /\ free < 0
    <3>1. free' = free
      BY <1>3, <2>2 DEF Counted
    <3>2. ~(free >= 0)
      BY <2>0, <2>2, SMT
    <3>3. QED
      BY <2>0, <3>1, <3>2 DEF FreeIsUnused
  <2>3. CASE t = "bitfat" /\ ~(free < 0)
    <3> DEFINE old == OnHost(format, host, "bitfat", e)
               was == Unused(format, host)
               is == Unused(format, host')
    <3>1. /\ e \in Sectors /\ OnHost(format, host', "bitfat", e) = new
          /\ \A s \in Sectors : s # e => OnHost(format, host', "bitfat", s) = OnHost(format, host, "bitfat", s)
      BY <1>4, <2>3 DEF Stored, Tables, Entries, Kept
    <3>2. /\ old = 0 /\ new # 0 => is = was - 1
          /\ old # 0 /\ new = 0 => is = was + 1
          /\ (old = 0 <=> new = 0) => is = was
      BY <3>1, UnusedAfter
    <3>3. free' = free + (IF old # 0 /\ new = 0 THEN 1 ELSE 0) - (IF old = 0 /\ new # 0 THEN 1 ELSE 0)
      BY <1>3, <1>4, <2>3 DEF Counted
    <3>4. was \in Nat /\ is \in Nat /\ free = was
      <4>1. was \in Nat /\ is \in Nat
        BY SectorsFinite
      <4>2. free >= 0
        BY <2>0, <2>3, SMT
      <4>3. QED
        BY <2>0, <4>1, <4>2
    <3> HIDE DEF old, was, is
    <3>5. free' = is /\ free' \in Int /\ free' >= -1
      BY <3>2, <3>3, <3>4, SMT
    <3>6. QED
      BY <1>1, <3>5 DEF FreeIsUnused, is
  <2>4. QED
    BY <2>1, <2>2, <2>3
<1>11. calls' \in 0 .. MaxCalls
  <2>1. calls < MaxCalls /\ calls' = calls + 1 /\ calls \in 0 .. MaxCalls /\ MaxCalls \in Nat
    BY TablesAssumption DEF IInv, CountTyped, Store
  <2>2. QED
    BY <2>1, SMT
<1>12. QED
  BY <1>1, <1>5, <1>6, <1>8, <1>9, <1>10, <1>11 DEF IInv, CountTyped

LEMMA NextSound == IInv /\ [Next]_vars => IInv'
<1> SUFFICES ASSUME IInv, [Next]_vars PROVE IInv'
  OBVIOUS
<1>0. format \in Formats
  BY DEF IInv
<1>1. ASSUME NEW c \in Clusters, FatNextcluster(c) PROVE IInv'
  <2>1. "dfat" \in Tables /\ c \in Entries("dfat")
    BY DEF Tables, Entries
  <2>2. \A v \in FatValues : v \in Holdable(format, "dfat")
    BY <1>0, VolumesAre
  <2>3. QED
    BY <1>1, <2>1, <2>2, LookupSound, StoreSound DEF FatNextcluster
<1>2. ASSUME NEW c \in Clusters, MdfatValue(c) PROVE IInv'
  <2>1. "mdfat" \in Tables /\ c \in Entries("mdfat")
    BY DEF Tables, Entries
  <2>2. \A m \in Mdes(format) : m \in Holdable(format, "mdfat")
    BY <1>0, VolumesAre
  <2>3. QED
    BY <1>2, <2>1, <2>2, LookupSound, StoreSound DEF MdfatValue
<1>3. ASSUME NEW s \in Sectors, BitfatValue(s) PROVE IInv'
  <2>1. "bitfat" \in Tables /\ s \in Entries("bitfat")
    BY DEF Tables, Entries
  <2>2. \A v \in Bits(format) : v \in Holdable(format, "bitfat")
    BY <1>0, VolumesAre
  <2>3. QED
    BY <1>3, <2>1, <2>2, LookupSound, StoreSound DEF BitfatValue
<1>4. CASE UNCHANGED vars
  BY <1>4 DEF IInv, CountTyped, CachesHold, PromisesTyped, EntriesKept, FreeIsUnused, vars
<1>5. QED
  BY <1>1, <1>2, <1>3, <1>4 DEF Next

\* The invariant holds in every state of every volume.
THEOREM TablesStaySound == Spec => []IInv
<1>1. Init => IInv
  BY InitSound
<1>2. IInv /\ [Next]_vars => IInv'
  BY NextSound
<1>3. QED
  BY <1>1, <1>2, PTL DEF Spec

\* An entry of any table, in any format and any sector size, is what was last
\* written to it: no write disturbs another entry, another table, the half byte
\* of a neighbour or a digit of the same byte.
THEOREM EntriesAlwaysKept == Spec => []EntriesKept
<1>1. IInv => EntriesKept
  BY IInvImplies
<1>2. QED
  BY <1>1, TablesStaySound, PTL

\* The buffers in the caches are always those on the host, and no sector is in
\* two of them.
THEOREM CachesAlwaysSound == Spec => []CacheSound
<1>1. IInv => CacheSound
  BY IInvImplies
<1>2. QED
  BY <1>1, TablesStaySound, PTL

\* A sector of Stacker's FAT or MDFAT never differs from its copy, unless the
\* last write of the sector could not get the copy.
THEOREM CopiesAlwaysAgree == Spec => []CopiesAgree
<1>1. IInv => CopiesAgree
  BY IInvImplies
<1>2. QED
  BY <1>1, TablesStaySound, PTL

\* The count of free sectors is always the number of free bits, once it is known.
THEOREM FreeAlwaysCounted == Spec => []FreeIsUnused
<1>1. IInv => FreeIsUnused
  BY IInvImplies
<1>2. QED
  BY <1>1, TablesStaySound, PTL

=============================================================================
