----------------------------- MODULE MappingTable -----------------------------
(***************************************************************************)
(* The address decoding of the platforms (TP2_etudiant/mapping_table.cpp,  *)
(* segment.h, int_tab.h and the two table classes): what the tables hold   *)
(* that are built from a list of segments.                                 *)
(*                                                                         *)
(* A map is a record [levels, unit, entries, mask, segs]: per level of the *)
(* hierarchy the number of entries of a table and the addresses an entry   *)
(* stands for (both are powers of 2: 2^m_use_bits and 2^m_drop_bits), the  *)
(* same two numbers for the cacheability mask, and the list of segments.   *)
(* A composite index (IntTab) is a sequence, one number per level.         *)
(***************************************************************************)
EXTENDS Integers, Sequences, FiniteSets

(* IntTab::idMatches: one index is a prefix of the other.                  *)
IdMatches(i, j) ==
  \A l \in 1 .. (IF Len(i) <= Len(j) THEN Len(i) ELSE Len(j)) : i[l] = j[l]

(* The addresses of segment s.                                             *)
Contains(s, a) == s.base <= a /\ a < s.base + s.size

Overlapping(s, t) == ~(t.base + t.size <= s.base) /\ ~(s.base + s.size <= t.base)

(* AddressDecodingTable::id: the entry of address a in a table t.          *)
Entry(t, a) == (a \div t.unit) % t.entries

(* m_rt_size: the finer of the last level and of the cacheability table.   *)
RtSize(m) == LET u == m.levels[Len(m.levels)].unit
             IN  IF m.mask.unit <= u THEN m.mask.unit ELSE u

(* A walk that starts at the segment, not at the page it lies in.          *)
PagesFromBase(m, s) == (s.base + RtSize(m) - 1) \div RtSize(m) .. (s.base + s.size - 1) \div RtSize(m)

(* The loops over a segment visit every page of m_rt_size it touches, the  *)
(* first one from its start: the numbers of these pages.                   *)
Pages(m, s) == s.base \div RtSize(m) .. (s.base + s.size - 1) \div RtSize(m)

(* The entries of table t those loops set for segment s.                   *)
Covered(m, t, s) == {Entry(t, p * RtSize(m)) : p \in Pages(m, s)}

Segs(m) == {m.segs[k] : k \in 1 .. Len(m.segs)}

(* add() finds another cacheability under the same masked bits.            *)
CacheClash(m, s, t) ==
  s.cached /= t.cached /\ Covered(m, m.mask, s) \cap Covered(m, m.mask, t) /= {}

(* getSegmentList.                                                         *)
SegmentList(m, index) == {s \in Segs(m) : s.index = index}

(* The segments a table at position index of the hierarchy is built from.  *)
AtIndex(m, index) == {s \in Segs(m) : IdMatches(s.index, index)}

(* What a table is built from: a function from segments to the values they *)
(* want in the entries they cover.                                         *)
Wanted(m, t, F, e) == {F[s] : s \in {x \in DOMAIN F : e \in Covered(m, t, x)}}

(* One value per entry, or the mapping table is incoherent and throws.     *)
Coherent(m, t, F) ==
  \A e \in 0 .. t.entries - 1 : \A v, w \in Wanted(m, t, F, e) : v = w

(* reset(default), then set() for each page of each segment.               *)
Filled(m, t, F, default) ==
  [e \in 0 .. t.entries - 1 |->
     IF Wanted(m, t, F, e) = {} THEN default ELSE CHOOSE v \in Wanted(m, t, F, e) : TRUE]

(* getRoutingTable: where to go to from position index of the hierarchy.   *)
Level(m, index) == m.levels[Len(index) + 1]

NextIndex(m, index) == [s \in AtIndex(m, index) |-> s.index[Len(index) + 1]]

RoutingTable(m, index) == Filled(m, Level(m, index), NextIndex(m, index), 0)

(* getCacheabilityTable.                                                   *)
Cacheability(m) == [s \in Segs(m) |-> s.cached]

CacheabilityTable(m) == Filled(m, m.mask, Cacheability(m), FALSE)

(* getLocalityTable: is the address in the cluster of this index?          *)
Locality(m, index) == [s \in Segs(m) |-> IdMatches(s.index, index)]

LocalityTable(m, index) == Filled(m, m.levels[Len(index)], Locality(m, index), TRUE)
===============================================================================
