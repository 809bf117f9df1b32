------------------------------- MODULE Tables -------------------------------
(***************************************************************************)
(* The tables of a compressed volume as bytes in sectors                   *)
(* (src/src/dblspace_tables.c): the FAT of 12 or 16 bits, the MDFAT and    *)
(* the BITFAT in the formats of Stacker, DoubleSpace, DriveSpace and       *)
(* DriveSpace 3, read and written through three small caches of sectors    *)
(* (acache_get) whose buffers are written through to the host.             *)
(*                                                                         *)
(* Sectors have SectorSize bytes instead of 512: the arithmetic is that of *)
(* the code, with 511 and 512 as SectorSize - 1 and SectorSize, and 102,   *)
(* the DriveSpace 3 entries in a sector, as SectorSize \div 5.             *)
(***************************************************************************)
EXTENDS Integers, Sequences, FiniteSets

CONSTANTS
  SectorSize,                    \* SECTOR_SIZE
  Formats,                       \* [version, wide (s_16bitfat), second (s_2nd_fat_offset), counted]
  FatStart, MdfatStart,          \* s_fatstart, s_mdfatstart
  DataStart, DataEnd,            \* s_datastart, s_dataend
  Dcluster, SectPerClust,        \* s_dcluster, s_sectperclust
  CacheSize,                     \* DFATCACHESIZE, MDFATCACHESIZE, BITFATCACHESIZE
  Clusters, Sectors,             \* the entries that are accessed
  FatValues, Mdes(_), Bits(_),   \* the values written
  Content(_, _),                 \* the bytes of the sectors before
  MaxCalls                       \* bound: calls in a behaviour

ASSUME TablesAssumption ==
  /\ SectorSize \in Nat /\ SectorSize % 4 = 0 /\ SectorSize % 5 = 512 % 5
  /\ Formats \subseteq [version : {"STAC3", "STAC4", "DBLSP", "DRVSP", "DRVSP3"},
                       wide : BOOLEAN, second : Nat, counted : BOOLEAN]
  /\ {FatStart, MdfatStart, DataStart, DataEnd, Dcluster, SectPerClust} \subseteq Nat
  /\ CacheSize \in Nat /\ CacheSize >= 2
  /\ MaxCalls \in Nat
  /\ Clusters \subseteq Nat /\ \A c \in Clusters : c >= 2
  /\ Sectors = DataStart .. DataEnd

VARIABLES
  format,     \* of the mounted volume
  host,       \* the sectors
  acache,     \* dfat, mdfat, bitfat: the slots of the three caches
  free,       \* s_free_sectors, -1 while it is not known
  promised,   \* what the entries are, after the writes so far
  behind,     \* the sectors whose copy the last write could not get
  calls
vars == <<format, host, acache, free, promised, behind, calls>>

Tables == {"dfat", "mdfat", "bitfat"}
Entries(t) == IF t = "bitfat" THEN Sectors ELSE Clusters
Byte == 0 .. 255
\* f: the format of the volume.
Stac(f) == f.version \in {"STAC3", "STAC4"}

-----------------------------------------------------------------------------
(* Where an entry is: the sector and the offset of its first byte, how     *)
(* many bytes it has, and whether the code looks for them in two sectors.  *)

Cell(pos, area, len, two) ==
  [area |-> area, offset |-> pos % SectorSize, len |-> len, two |-> two]

FatCell(f, c) ==
  LET pos == IF f.wide THEN 2 * c ELSE (3 * c) \div 2
      a == pos \div SectorSize
  IN Cell(pos, FatStart + (IF Stac(f) THEN (a \div 3) * 9 + (a % 3) ELSE a), 2, TRUE)

\* Stacker: three sectors of FAT and six of MDFAT alternate.
StacMdfatCell(f, c) ==
  LET len == IF f.wide THEN 4 ELSE 3
      a == (c * len) \div SectorSize
  IN Cell(c * len, (a \div 6) * 9 + (a % 6) + 3 + FatStart, len, TRUE)
DblMdfatCell(c) ==
  LET pos == (Dcluster + c) * 4 + SectorSize * MdfatStart
  IN Cell(pos, pos \div SectorSize, 4, FALSE)
DrvMdfatCell(c) ==
  LET n == Dcluster + c
      pos == n * 5 + (n \div (SectorSize \div 5)) * 2 + SectorSize * MdfatStart
  IN Cell(pos, pos \div SectorSize, 5, FALSE)
MdfatCell(f, c) ==
  IF Stac(f) THEN StacMdfatCell(f, c)
  ELSE IF f.version = "DRVSP3" THEN DrvMdfatCell(c) ELSE DblMdfatCell(c)

\* How many sectors a byte of a Stacker BITFAT is for; two bytes stand for 16
\* sectors otherwise.
PerByte(f) == IF f.version = "STAC3" THEN 8 ELSE 4
BitfatCell(f, s) ==
  LET n == s - DataStart IN
  IF Stac(f) THEN LET pos == n \div PerByte(f)
               IN Cell(pos, pos \div SectorSize + MdfatStart, 1, FALSE)
  ELSE LET pos == SectorSize + (n \div 16) * 2
       IN Cell(pos, pos \div SectorSize, 2, FALSE)

CellOf(f, t, e) ==
  CASE t = "dfat" -> FatCell(f, e) [] t = "mdfat" -> MdfatCell(f, e)
    [] t = "bitfat" -> BitfatCell(f, e)

-----------------------------------------------------------------------------
(* What the bytes of an entry say, and the bytes for a new value.          *)

\* (x >> ..) & ..: the n values of x from weight w on.
Field(x, w, n) == (x \div w) % n
Word(b) == b[0] + 256 * b[1]
Octets(bytes, len) == [k \in 0 .. len - 1 |-> bytes[k + 1]]
WordBytes(v) == Octets(<<Field(v, 1, 256), Field(v, 256, 256)>>, 2)

\* An entry of the 12 bit FAT is the upper or the lower part of its word.
FatValue(f, c, b) ==
  LET v == IF f.wide THEN Word(b)
           ELSE IF c % 2 = 1 THEN Field(Word(b), 16, 4096) ELSE Field(Word(b), 1, 4096)
  IN IF v >= (IF f.wide THEN 65527 ELSE 4087) THEN -1 ELSE v
\* Mutant: the half byte of the neighbour is not kept.
FatBytesAlone(f, c, b, new) ==
  WordBytes(IF f.wide THEN new % 65536
            ELSE IF c % 2 = 1 THEN (new % 4096) * 16 ELSE new % 4096)
FatBytes(f, c, b, new) ==
  WordBytes(IF f.wide THEN new % 65536
            ELSE IF c % 2 = 1 THEN Field(Word(b), 1, 16) + (new % 4096) * 16
            ELSE Field(Word(b), 4096, 16) * 4096 + Field(new, 1, 4096))

\* A Stacker entry: the flags keep their upper half; "used" and "not
\* compressed" are set for the sake of the other code.
StacMde(sector, size, flags) ==
  LET kind == Field(flags, 32, 2) + 2 * Field(flags, 128, 2)      \* flags & 0xa0
      plain == kind = 1 \/ (kind # 3 /\ size + 1 = SectPerClust)
  IN [sector_minus_1 |-> sector - 1, unknown |-> flags, size_lo_minus_1 |-> size,
      size_hi_minus_1 |-> IF kind = 3 THEN SectPerClust - 1 ELSE size,
      flags |-> flags + (IF sector # 0 THEN 2 ELSE 0) + (IF plain THEN 1 ELSE 0)]
StacMdeValue(f, b) ==
  LET b3 == IF f.wide THEN b[3] ELSE 0
  IN StacMde(Word(b) + 65536 * Field(b3, 1, 64),
             Field(b[2], 1, 16) + 16 * Field(b3, 64, 4), 16 * Field(b[2], 16, 16))
StacMdeBytes(f, m) ==
  LET v == m.sector_minus_1 + 1
      size == m.size_lo_minus_1
  IN Octets(<<Field(v, 1, 256), Field(v, 256, 256),
              Field(size, 1, 16) + 16 * Field(m.flags, 16, 16),
              Field(v, 65536, 64) + 64 * Field(size, 16, 4)>>, IF f.wide THEN 4 ELSE 3)

DblMdeValue(b) ==
  [sector_minus_1 |-> Word(b) + 65536 * Field(b[2], 1, 32), unknown |-> Field(b[2], 32, 2),
   size_lo_minus_1 |-> 4 * Field(b[3], 1, 4) + Field(b[2], 64, 4),
   size_hi_minus_1 |-> Field(b[3], 4, 16), flags |-> Field(b[3], 64, 4)]
DblMdeBytes(m) ==
  LET v == m.sector_minus_1
      size == m.size_lo_minus_1
  IN Octets(<<Field(v, 1, 256), Field(v, 256, 256),
              Field(v, 65536, 32) + 64 * Field(size, 1, 4),
              Field(size, 4, 4) + 4 * Field(m.size_hi_minus_1, 1, 16) + 64 * Field(m.flags, 1, 4)>>, 4)

DrvMdeValue(b) ==
  [sector_minus_1 |-> Word(b) + 65536 * b[2], unknown |-> Field(b[3], 1, 4),
   size_lo_minus_1 |-> Field(b[3], 4, 64), size_hi_minus_1 |-> Field(b[4], 1, 64),
   flags |-> Field(b[4], 64, 4)]
DrvMdeBytes(m) ==
  LET v == m.sector_minus_1
  IN Octets(<<Field(v, 1, 256), Field(v, 256, 256), Field(v, 65536, 256),
              Field(m.unknown, 1, 4) + 4 * Field(m.size_lo_minus_1, 1, 64),
              Field(m.size_hi_minus_1, 1, 64) + 64 * Field(m.flags, 1, 4)>>, 5)

MdeValue(f, b) ==
  IF Stac(f) THEN StacMdeValue(f, b)
  ELSE IF f.version = "DRVSP3" THEN DrvMdeValue(b) ELSE DblMdeValue(b)
MdeBytes(f, m) ==
  IF Stac(f) THEN StacMdeBytes(f, m)
  ELSE IF f.version = "DRVSP3" THEN DrvMdeBytes(m) ELSE DblMdeBytes(m)

\* The BITFAT: how many values a sector has, and where its bits start in the
\* byte or the word.
Width(f) == IF f.version = "STAC4" THEN 4 ELSE 2
Weight(f, s) ==
  LET n == s - DataStart IN
  IF ~Stac(f) THEN 2 ^ (15 - (n % 16))
  ELSE Width(f) ^ (n % PerByte(f))
BitsWord(f, b) == IF Stac(f) THEN b[0] ELSE Word(b)
BitsValue(f, s, b) == Field(BitsWord(f, b), Weight(f, s), Width(f))
BitsBytes(f, s, b, new) ==
  LET bit == IF Stac(f) THEN new % Width(f) ELSE IF new # 0 THEN 1 ELSE 0
      v == BitsWord(f, b) + (bit - BitsValue(f, s, b)) * Weight(f, s)
  IN IF Stac(f) THEN [k \in 0 .. 0 |-> v] ELSE WordBytes(v)

Value(f, t, e, b) ==
  CASE t = "dfat" -> FatValue(f, e, b) [] t = "mdfat" -> MdeValue(f, b)
    [] t = "bitfat" -> BitsValue(f, e, b)
Bytes(f, t, e, b, new) ==
  CASE t = "dfat" -> FatBytes(f, e, b, new) [] t = "mdfat" -> MdeBytes(f, new)
    [] t = "bitfat" -> BitsBytes(f, e, b, new)

-----------------------------------------------------------------------------
(* acache_get: a slot with the sector, or the one used longest ago, which  *)
(* is read anew, but never the slot the caller still needs.  Which one was *)
(* used longest ago depends on the clock: any slot but "never".            *)

Empty == [area |-> -1, data |-> <<>>]
Slots == 0 .. CacheSize - 1
\* Mutant: the sector is not looked for in the cache.
HoldingNone(cache, area) == {}
Holding(cache, area) == {k \in Slots : cache[k].area = area}
Victims(never) == Slots \ {never}
AcacheGet(h, cache, area, never) ==
  IF Holding(cache, area) # {}
  THEN {[cache |-> cache, index |-> CHOOSE k \in Holding(cache, area) : TRUE]}
  ELSE UNION {{[cache |-> [cache EXCEPT ![k] = [area |-> area, data |-> h[area]]], index |-> k],
               [cache |-> [cache EXCEPT ![k] = Empty], index |-> -1]} : k \in Victims(never)}

\* The one or two buffers with the bytes of a cell; -1 if one cannot be read.
Straddles(cell) == cell.two /\ cell.offset + cell.len > SectorSize
Buffers(h, cache, cell) ==
  LET Second(o) ==
        IF o.index = -1 \/ ~Straddles(cell)
        THEN {[cache |-> o.cache, first |-> o.index, second |-> o.index]}
        ELSE {[cache |-> p.cache, first |-> IF p.index = -1 THEN -1 ELSE o.index,
               second |-> p.index] : p \in AcacheGet(h, o.cache, cell.area + 1, o.index)}
  IN UNION {Second(o) : o \in AcacheGet(h, cache, cell.area, -1)}

\* The bytes of a cell in its buffers; what follows the end of a buffer is not
\* part of it.
Inside(cell, k) == cell.offset + k < SectorSize
BytesIn(o, cell) ==
  [k \in 0 .. cell.len - 1 |->
     IF Inside(cell, k) THEN o.cache[o.first].data[cell.offset + k]
     ELSE IF cell.two THEN o.cache[o.second].data[cell.offset + k - SectorSize]
     ELSE 0]
PutIn(data, cell, b, shift) ==
  [n \in DOMAIN data |-> IF n + shift - cell.offset \in DOMAIN b
                         THEN b[n + shift - cell.offset] ELSE data[n]]
WithBytes(o, cell, b) ==
  LET first == [o.cache EXCEPT ![o.first].data = PutIn(@, cell, b, 0)]
  IN IF Straddles(cell)
     THEN [first EXCEPT ![o.second].data = PutIn(@, cell, b, SectorSize)]
     ELSE first

\* raw_mark_buffer_dirty writes a buffer to the host; the FAT and the MDFAT of
\* Stacker have a second copy.
Copied(f, t) == t # "bitfat" /\ Stac(f) /\ f.second # 0
Buffered(cache, o) == {cache[o.first].area, cache[o.second].area}
\* The sectors that are copied: when raw_getblk does not give a buffer for the
\* copy of one, neither it nor the next is.
CopyRuns(f, t, cache, o) ==
  IF Copied(f, t) THEN {{}, {cache[o.first].area}, Buffered(cache, o)} ELSE {{}}
\* Whether it fails or not, the call returns success.
Behind(f, t, cache, o, copies) ==
  (behind \ copies) \cup (IF Copied(f, t) THEN Buffered(cache, o) \ copies ELSE {})
\* Mutant: of an entry in two sectors only the first is written to the copy.
WrittenFirst(f, h, cache, o, copies) ==
  [a \in DOMAIN h |->
     IF a \in Buffered(cache, o)
     THEN cache[CHOOSE k \in {o.first, o.second} : cache[k].area = a].data
     ELSE IF copies # {} /\ a - f.second = cache[o.first].area
     THEN cache[o.first].data
     ELSE h[a]]
Written(f, h, cache, o, copies) ==
  LET From(a) == {k \in {o.first, o.second} :
                    \/ cache[k].area = a
                    \/ cache[k].area \in copies /\ cache[k].area + f.second = a}
  IN [a \in DOMAIN h |-> IF From(a) = {} THEN h[a] ELSE cache[CHOOSE k \in From(a) : TRUE].data]

-----------------------------------------------------------------------------

\* The bytes of a cell on the host, in the sector and the one after it.
HostBytes(h, cell) ==
  [k \in 0 .. cell.len - 1 |-> IF Inside(cell, k) THEN h[cell.area][cell.offset + k]
                               ELSE h[cell.area + 1][cell.offset + k - SectorSize]]
OnHost(f, h, t, e) == Value(f, t, e, HostBytes(h, CellOf(f, t, e)))

\* The sectors that a cell, and the entries of a table, lie in.
Spans(cell) == IF Straddles(cell) THEN {cell.area, cell.area + 1} ELSE {cell.area}
Reached(f, t) == UNION {Spans(CellOf(f, t, e)) : e \in Entries(t)}
AllAreas(f) ==
  LET Around(t, e) == {CellOf(f, t, e).area, CellOf(f, t, e).area + 1}
      a == UNION {UNION {Around(t, e) : e \in Entries(t)} : t \in Tables}
  IN a \cup {n + f.second : n \in a}
Unused(f, h) == Cardinality({s \in Sectors : OnHost(f, h, "bitfat", s) = 0})

-----------------------------------------------------------------------------
(* The volumes and the calls that are meant.                               *)

\* No two tables, nor a table and a copy, have a sector in common.
\* (The FAT and the MDFAT of Stacker alternate in the same area: that they are
\* apart is proved.)
Apart(f) ==
  /\ \A t, t2 \in Tables : t # t2 /\ (Stac(f) => "bitfat" \in {t, t2}) =>
       \A a \in Reached(f, t) : a \notin Reached(f, t2)
  /\ \A t, t2 \in Tables : Copied(f, t) => \A a \in Reached(f, t) : a + f.second \notin Reached(f, t2)

\* The sectors have bytes, and the copies are copies.
ContentSound(f) ==
  /\ \A a \in AllAreas(f), n \in 0 .. SectorSize - 1 : Content(a, n) \in Byte
  /\ \A t \in Tables : Copied(f, t) =>
       \A a \in Reached(f, t), n \in 0 .. SectorSize - 1 : Content(a + f.second, n) = Content(a, n)

\* The values that a table has room for.
Between(low, high) == low .. high
FatHoldable(f) == -1 .. (IF f.wide THEN 65526 ELSE 4086)
BitsHoldable(f) == 0 .. (IF Stac(f) THEN Width(f) - 1 ELSE 1)
StacHoldable(f) ==
  [sector_minus_1 : Between(-1, IF f.wide THEN 4194302 ELSE 65534), unknown : Int,
   size_lo_minus_1 : Between(0, IF f.wide THEN 63 ELSE 15), size_hi_minus_1 : Int,
   flags : Between(0, 255)]
DrvHoldable ==
  [sector_minus_1 : Between(0, 16777215), unknown : Between(0, 3), size_lo_minus_1 : Between(0, 63),
   size_hi_minus_1 : Between(0, 63), flags : Between(0, 3)]
DblHoldable ==
  [sector_minus_1 : Between(0, 2097151), unknown : Int, size_lo_minus_1 : Between(0, 15),
   size_hi_minus_1 : Between(0, 15), flags : Between(0, 3)]
MdeHoldable(f) ==
  IF Stac(f) THEN StacHoldable(f) ELSE IF f.version = "DRVSP3" THEN DrvHoldable ELSE DblHoldable
Holdable(f, t) ==
  IF t = "dfat" THEN FatHoldable(f) ELSE IF t = "mdfat" THEN MdeHoldable(f) ELSE BitsHoldable(f)

ASSUME VolumesAssumption ==
  \A f \in Formats :
    /\ Apart(f) /\ ContentSound(f)
    /\ FatValues \subseteq Holdable(f, "dfat")
    /\ Mdes(f) \subseteq Holdable(f, "mdfat") /\ Bits(f) \subseteq Holdable(f, "bitfat")

-----------------------------------------------------------------------------

Init ==
  /\ format \in Formats
  /\ host = [a \in AllAreas(format) |-> [n \in 0 .. SectorSize - 1 |-> Content(a, n)]]
  /\ acache = [t \in Tables |-> [k \in Slots |-> Empty]]
  /\ free = IF format.counted THEN Unused(format, host) ELSE -1
  /\ promised = [t \in Tables |-> [e \in Entries(t) |-> OnHost(format, host, t, e)]]
  /\ behind = {} /\ calls = 0

\* A lookup, or a write that finds its sectors unreadable: only the cache
\* changes.
Lookup(t, e) ==
  /\ calls < MaxCalls /\ calls' = calls + 1
  /\ \E o \in Buffers(host, acache[t], CellOf(format, t, e)) :
       acache' = [acache EXCEPT ![t] = o.cache]
  /\ UNCHANGED <<format, host, free, promised, behind>>

\* What a format can keep of a value.
Kept(f, t, new) ==
  IF t # "mdfat" THEN new
  ELSE IF Stac(f) THEN StacMde(new.sector_minus_1 + 1, new.size_lo_minus_1, (new.flags \div 16) * 16)
  ELSE IF f.version = "DRVSP3" THEN new
  ELSE [new EXCEPT !.unknown = 0]

\* Mutant: a sector that is marked used again is counted again.
CountedAgain(t, old, new) ==
  IF t # "bitfat" \/ free < 0 THEN free
  ELSE free + (IF old # 0 /\ new = 0 THEN 1 ELSE 0) - (IF new # 0 THEN 1 ELSE 0)
Counted(t, old, new) ==
  IF t # "bitfat" \/ free < 0 THEN free
  ELSE free + (IF old # 0 /\ new = 0 THEN 1 ELSE 0) - (IF old = 0 /\ new # 0 THEN 1 ELSE 0)

Store(t, e, new) ==
  LET cell == CellOf(format, t, e) IN
  /\ calls < MaxCalls /\ calls' = calls + 1
  /\ \E o \in Buffers(host, acache[t], cell) :
       LET b == BytesIn(o, cell)
           cache == WithBytes(o, cell, Bytes(format, t, e, b, new))
       IN /\ o.first # -1
          /\ acache' = [acache EXCEPT ![t] = cache]
          /\ \E copies \in CopyRuns(format, t, cache, o) :
               /\ host' = Written(format, host, cache, o, copies)
               /\ behind' = Behind(format, t, cache, o, copies)
          /\ free' = Counted(t, Value(format, t, e, b), new)
  /\ promised' = [promised EXCEPT ![t][e] = Kept(format, t, new)]
  /\ UNCHANGED format

\* dbl_fat_nextcluster, dbl_mdfat_value and dbl_bitfat_value.
FatNextcluster(c) == Lookup("dfat", c) \/ \E v \in FatValues : Store("dfat", c, v)
MdfatValue(c) == Lookup("mdfat", c) \/ \E m \in Mdes(format) : Store("mdfat", c, m)
BitfatValue(s) == Lookup("bitfat", s) \/ \E v \in Bits(format) : Store("bitfat", s, v)

Next ==
  \/ \E c \in Clusters : FatNextcluster(c)
  \/ \E c \in Clusters : MdfatValue(c)
  \/ \E s \in Sectors : BitfatValue(s)
Spec == Init /\ [][Next]_vars

-----------------------------------------------------------------------------

(* Bytes, buffers and calls keep their types.                              *)
TypeOK ==
  /\ format \in Formats
  /\ host \in [AllAreas(format) -> [0 .. SectorSize - 1 -> Byte]]
  /\ \A t \in Tables, k \in Slots :
       acache[t][k] = Empty \/ acache[t][k].area \in DOMAIN host
  /\ behind \subseteq DOMAIN host
  /\ free \in -1 .. Cardinality(Sectors) /\ calls \in 0 .. MaxCalls

\* Every entry of the three tables is what was last written to it: the tables
\* do not overlap, an entry does not disturb the half byte of its neighbour,
\* and one that lies in two sectors is put together from both.
EntriesKept ==
  \A t \in Tables : \A e \in Entries(t) : OnHost(format, host, t, e) = promised[t][e]

\* A buffer in a cache is what the host has, and no sector is cached twice, so
\* that lookups need not care which slot they find.
CacheCoherent ==
  \A t \in Tables, k \in Slots :
     LET s == acache[t][k] IN
     s # Empty => /\ s.data = host[s.area]
                  /\ \A t2 \in Tables, j \in Slots :
                       acache[t2][j].area = s.area => t2 = t /\ j = k

\* The caches are typed and hold what the host has.
CacheSound == TypeOK /\ CacheCoherent

\* A sector of the FAT or the MDFAT and its copy are the same, unless the last
\* write of that sector could not get the copy: of an entry in two sectors both
\* are copied, a write of one table leaves the copies of the other alone, and the
\* next write that gets the copy makes up for all that the copy has missed.
CopiesAgree ==
  \A t \in Tables : Copied(format, t) =>
    \A a \in Reached(format, t) \ behind : host[a + format.second] = host[a]

\* The count of free sectors, once it is known, is the number of free bits.
FreeIsUnused == free >= 0 => free = Unused(format, host)

=============================================================================
