--------------------------- MODULE NodeSelection ----------------------------
(***************************************************************************)
(* Which regions a task gets and which node probes a region                *)
(* (internal/service/scheduling.go 15-265), as operators on the node and   *)
(* region rows.                                                            *)
(*                                                                         *)
(* A node is [id, region, local, default, up, age, schedulable]: up is     *)
(* status = "online"; the age of its heartbeat is "fresh" (90 s), "minutes"*)
(* (within the 900 s a local node is given) or "old" (or none).  A region  *)
(* is [code, order, id].                                                   *)
(***************************************************************************)
EXTENDS Ordering, SequencesExt

CONSTANT Global     \* the code "global"

Ages == {"fresh", "minutes", "old"}
NoNode == [id |-> 0]

\* The rows of nodes and of active regions: ids are primary keys, and so is the
\* code of a region.
NodeTable(nodes) ==
    /\ IsFiniteSet(nodes)
    /\ \A n \in nodes : /\ n.id \in Nat \ {0} /\ n.age \in Ages
                        /\ {n.local, n.default, n.up, n.schedulable} \subseteq BOOLEAN
    /\ \A m, n \in nodes : m.id = n.id => m = n
RegionTable(regions) ==
    /\ IsFiniteSet(regions)
    /\ \A r \in regions : r.id \in Nat /\ r.order \in Int
    /\ \A r, s \in regions : r.id = s.id \/ r.code = s.code => r = s

heartbeatFresh(n) == n.age = "fresh" \/ (n.local /\ n.age = "minutes")
nodeOnline(n) == n.up /\ heartbeatFresh(n)

boolToInt(b) == IF b THEN 1 ELSE 0

rankSingleNode(n) ==
    <<boolToInt(~ nodeOnline(n)), boolToInt(~ n.up), boolToInt(n.local),
      boolToInt(~ n.default), n.id>>

\* The first of a pool that is not empty.
Best(pool) == CHOOSE n \in pool : \A m \in pool \ {n} : Before(rankSingleNode(n), rankSingleNode(m))

schedulableNodes(nodes) == {n \in nodes : n.schedulable}
InRegion(pool, region) == {n \in pool : n.region = region}

\* The pool cut down to those with a property, unless none has it.
Prefer(part, pool) == IF part = {} THEN pool ELSE part

\* Without a schedulable node the first default one is taken, whatever its state.
AnyNode(nodes) ==
    IF nodes = {} THEN NoNode
    ELSE CHOOSE n \in nodes : \A m \in nodes \ {n} :
            Before(<<boolToInt(~ n.default), n.id>>, <<boolToInt(~ m.default), m.id>>)

getDefaultNode(nodes, region) ==
    LET pool == schedulableNodes(nodes) IN
    IF pool = {} THEN AnyNode(nodes) ELSE Best(Prefer(InRegion(pool, region), pool))

OfMode(pool, mode) ==
    IF mode = "auto" THEN pool
    ELSE Prefer({n \in pool : n.local = (mode = "local")}, pool)

\* Mutant: the best of all nodes when the region has none that is online.
getOnlineNode(nodes, region, mode) ==
    LET all == schedulableNodes(nodes)
        pool == OfMode(InRegion(all, region), mode)
        online == {n \in pool : nodeOnline(n)}
    IN IF online = {} THEN getDefaultNode(all, "") ELSE Best(online)

getSingleExecutionNode(nodes, region, mode) ==
    LET pool == OfMode(InRegion(schedulableNodes(nodes), region), mode)
    IN IF pool = {} THEN getDefaultNode(nodes, region)
       ELSE Best(Prefer({n \in pool : nodeOnline(n)}, pool))

-----------------------------------------------------------------------------
(* Regions.                                                                *)

\* Mutant: a region is ranked by the nodes it has, online or not.
rankByNodes(region, nodes) ==
    LET here == InRegion(schedulableNodes(nodes), region.code)
    IN <<boolToInt(here = {}), boolToInt(region.code = Global), region.order, region.id>>

regionRank(region, nodes) ==
    LET here == InRegion(schedulableNodes(nodes), region.code) IN
    <<boolToInt(\A n \in here : n.local \/ ~ nodeOnline(n)),
      boolToInt(\A n \in here : ~ nodeOnline(n)),
      boolToInt(here = {}),
      boolToInt(region.code = Global), region.order, region.id>>

defaultRegionCodes(regions, nodes, limit) ==
    LET ranked == InOrder(regions, [r \in regions |-> regionRank(r, nodes)])
    IN FirstOf([i \in DOMAIN ranked |-> ranked[i].code], IF limit = 0 THEN 1 ELSE limit)

\* Mutant: duplicates are kept.
keepActive(regions, codes) ==
    SelectSeq(codes, LAMBDA c : \E r \in regions : r.code = c)

\* The active codes that were asked for, once each.
askedCodes(regions, codes) ==
    Kept(codes, {i \in DOMAIN codes : /\ \E r \in regions : r.code = codes[i]
                                     /\ \A j \in 1..(i - 1) : codes[j] # codes[i]})

\* regions: the active ones; a limit of 0 is none for codes that were asked
\* for, and one for the default.
normalizeRegionCodes(regions, nodes, codes, limit) ==
    LET asked == askedCodes(regions, codes) IN
    IF asked = <<>> THEN defaultRegionCodes(regions, nodes, limit)
    ELSE IF limit = 0 THEN asked ELSE FirstOf(asked, limit)
=============================================================================
