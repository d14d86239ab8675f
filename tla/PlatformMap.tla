------------------------------ MODULE PlatformMap ------------------------------
(***************************************************************************)
(* The elaboration of a platform: sc_main hands the segments one by one to *)
(* MappingTable::add, which may throw, and the components then build their *)
(* tables, which may throw again (the sc_main of the top cells and         *)
(* TP2_etudiant/mapping_table.cpp).                                        *)
(***************************************************************************)
EXTENDS MappingTable

CONSTANT Maps       \* the maps the top cells declare

(* In every table an entry is a whole number of pages, and a segment is    *)
(* inside the address space, of which the first level covers the whole.    *)
Size(m) == m.levels[1].entries * m.levels[1].unit

Multiple(u, r) == \E k \in 1 .. u : u = k * r

WellFormed(m) ==
  /\ Len(m.levels) \in Nat \ {0} /\ Len(m.segs) \in Nat
  /\ \A l \in 1 .. Len(m.levels) :
       /\ m.levels[l].unit \in Nat \ {0} /\ m.levels[l].entries \in Nat \ {0}
       /\ Multiple(m.levels[l].unit, RtSize(m))
  /\ m.mask.unit \in Nat \ {0} /\ m.mask.entries \in Nat \ {0}
  /\ Multiple(m.mask.unit, RtSize(m))
  /\ \A s \in Segs(m) :
       /\ s.base \in Nat /\ s.size \in Nat \ {0} /\ s.base + s.size <= Size(m)
       /\ s.index \in Seq(Nat) /\ s.cached \in BOOLEAN

ASSUME MapsAssumption == \A m \in Maps : WellFormed(m)

VARIABLES map,      \* the map sc_main declares
          added,    \* how many of its segments are in m_segment_list
          stage     \* "add", "built", or the exception thrown

mapVars == <<map, added, stage>>

MapInit == map \in Maps /\ added = 0 /\ stage = "add"

-------------------------------------------------------------------------------
Adding == stage = "add" /\ added < Len(map.segs)

Seg == map.segs[added + 1]

WrongLevel == Len(Seg.index) /= Len(map.levels)

(* The segment at place k of the list stands against the new one.          *)
Collides(k) == Overlapping(map.segs[k], Seg)
Clashes(k)  == CacheClash(map, map.segs[k], Seg)
Against(k)  == Collides(k) \/ Clashes(k)

AddSegment ==
  /\ Adding /\ ~WrongLevel /\ \A k \in 1 .. added : ~Against(k)
  /\ added' = added + 1
  /\ UNCHANGED <<map, stage>>

Throw(exception) == stage' = exception /\ UNCHANGED <<map, added>>

(* The first segment of the list that stands against the new one decides.  *)
RejectSegment ==
  /\ Adding
  /\ \/ WrongLevel /\ Throw("ValueError")
     \/ /\ ~WrongLevel
        /\ \E k \in 1 .. added :
             /\ Against(k) /\ \A j \in 1 .. k - 1 : ~Against(j)
             /\ Throw(IF Collides(k) THEN "Collision" ELSE "RunTimeError")

(* The tables a network of one level asks for; a hierarchical one asks for *)
(* a routing and a locality table at each of its crossbars.                *)
Crossbars(m) ==
  {<<>>} \cup IF Len(m.levels) = 1 THEN {} ELSE {<<c>> : c \in 0 .. m.levels[1].entries - 1}

TablesCoherent(m) ==
  /\ Coherent(m, m.mask, Cacheability(m))
  /\ \A i \in Crossbars(m) :
       /\ Coherent(m, Level(m, i), NextIndex(m, i))
       /\ i /= <<>> => Coherent(m, m.levels[Len(i)], Locality(m, i))

BuildTables ==
  /\ stage = "add" /\ added = Len(map.segs)
  /\ stage' = IF TablesCoherent(map) THEN "built" ELSE "RunTimeError"
  /\ UNCHANGED <<map, added>>

MapNext == AddSegment \/ RejectSegment \/ BuildTables

MapSpec == MapInit /\ [][MapNext]_mapVars

-------------------------------------------------------------------------------
MapTypeOK ==
  /\ map \in Maps /\ added \in 0 .. Len(map.segs)
  /\ stage \in {"add", "built", "ValueError", "Collision", "RunTimeError"}

(* Address a of segment s is sent to its target by the tables on the way,  *)
(* is local to its cluster alone, and has its cacheability.                *)
Decoded(m, s, a) ==
  /\ CacheabilityTable(m)[Entry(m.mask, a)] = s.cached
  /\ \A i \in Crossbars(m) :
       /\ IdMatches(s.index, i) =>
            RoutingTable(m, i)[Entry(Level(m, i), a)] = s.index[Len(i) + 1]
       /\ i /= <<>> =>
            LocalityTable(m, i)[Entry(m.levels[Len(i)], a)] = IdMatches(s.index, i)

(* The ends of a segment, and one address of each page in between.         *)
Probes(m, s) ==
  {s.base, s.base + s.size - 1}
    \cup {a \in {p * RtSize(m) : p \in Pages(m, s)} : Contains(s, a)}

RightMaps == {m \in Maps : \A s \in Segs(m) : \A a \in Probes(m, s) : Decoded(m, s, a)}

(***************************************************************************)
(* When the tables could be built, every access to a segment reaches the   *)
(* component that the top cell gives the segment to, and is cached or not  *)
(* as it says, although an entry stands for far more addresses than the    *)
(* segment has (mapping_table.cpp, getRoutingTable and the other tables).  *)
(***************************************************************************)
DecodesRight == stage = "built" => map \in RightMaps
===============================================================================
