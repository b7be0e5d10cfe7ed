------------------------------ MODULE RiskBoard ------------------------------
(***************************************************************************)
(* The risk board (internal/service/riskboard.go 184-380, 514-640;         *)
(* riskboard_extra.go 79-189): anomalies among the newest rows of single   *)
(* and batch probes, and the two pages that count them.                    *)
(*                                                                         *)
(* A stored row is [time, region, node, probe], probe being a row of       *)
(* ProbeReport; rows come in the order of their ids.  A region is [code,   *)
(* name, active].  The environment filters nothing and is left out, as is  *)
(* the cache of 30 seconds in front of each page.                          *)
(***************************************************************************)
EXTENDS ProbeReport, Ordering

CONSTANTS
    RowLimit,       \* rows of each kind that are looked at: 240
    StreamLimit,    \* events shown as a stream: 20
    GlobalCode,     \* the region "global", where an event of no active region is put
    GlobalName      \* the name of that region when it is not active either

ASSUME LimitsAssumption == RowLimit \in Nat /\ StreamLimit \in Nat

\* What is on the tables: codes tell regions apart.
BoardRows(rows) ==
    /\ rows \in Seq({rows[i] : i \in DOMAIN rows})
    /\ \A i \in DOMAIN rows :
        /\ rows[i].time \in Nat
        /\ rows[i].probe.protocol \in {"http", "ping", "mtr", "traceroute", "dns"}
BoardTables(board) ==
    /\ BoardRows(board.single) /\ BoardRows(board.batch)
    /\ IsFiniteSet(board.regions)
    /\ \A r, s \in board.regions : r.code = s.code => r = s

Newest(rows, ids) == InOrder(ids, [i \in ids |-> <<- rows[i].time, - i>>])

\* Mutant: the rows are taken as they come.
OldestLooked(rows, since, protocols) ==
    LET ids == {i \in DOMAIN rows : rows[i].time >= since /\ rows[i].probe.protocol \in protocols}
        sorted == Newest(rows, ids)
    IN FirstOf(Reverse(sorted), RowLimit)

\* The ids the query returns.
Looked(rows, since, protocols) ==
    LET ids == {i \in DOMAIN rows : rows[i].time >= since /\ rows[i].probe.protocol \in protocols}
        sorted == Newest(rows, ids)
    IN FirstOf(sorted, RowLimit)

\* Mutant: the region as it is stored.
SourceAsStored(regions, code) == [code |-> code, name |-> code]

buildSource(regions, code) ==
    LET active == {r \in regions : r.active}
        at(c) == CHOOSE r \in active : r.code = c
        placed(c) == [code |-> c, name |-> at(c).name]
    IN CASE \E r \in active : r.code = code -> placed(code)
         [] (\A r \in active : r.code # code) /\ (\E r \in active : r.code = GlobalCode) ->
                placed(GlobalCode)
         [] OTHER -> [code |-> GlobalCode, name |-> GlobalName]

EventOf(row, regions) ==
    [source |-> buildSource(regions, row.region), node |-> row.node, time |-> row.time,
     protocol |-> row.probe.protocol, severity |-> protocolAnomaly(row.probe)]

\* The rows of the ids that show an anomaly.
Events(rows, ids, regions) ==
    LET all == [k \in DOMAIN ids |-> EventOf(rows[ids[k]], regions)]
    IN Kept(all, {k \in DOMAIN all : all[k].severity # ""})

nonDNSProtocols(protocol) ==
    CASE protocol = "dns" -> {}
      [] protocol = "all" -> {"http", "ping", "mtr", "traceroute"}
      [] OTHER -> {protocol}

\* A stable sort by time.
LatestFirst(all) ==
    LET order == InOrder(DOMAIN all, [i \in DOMAIN all |-> <<- all[i].time, i>>])
    IN [k \in DOMAIN order |-> all[order[k]]]

buildRiskEvents(board) ==
    LET looked(rows) == Looked(rows, board.since, nonDNSProtocols(board.protocol))
        events(rows) == Events(rows, looked(rows), board.regions)
    IN LatestFirst(events(board.single) \o events(board.batch))

\* How often each value occurs.
Tally(values) ==
    [v \in {values[k] : k \in DOMAIN values} |-> Cardinality({k \in DOMAIN values : values[k] = v})]

Overview(board, events) ==
    LET hits(r) == {k \in DOMAIN events : events[k].source.name = r.name}
    IN [total |-> Len(events),
        protocols |-> Tally([k \in DOMAIN events |-> events[k].protocol]),
        severities |-> Tally([k \in DOMAIN events |-> events[k].severity]),
        points |-> [r \in {x \in board.regions : x.active} |-> Cardinality(hits(r))],
        impacted |-> Cardinality({events[k].source.code : k \in DOMAIN events}),
        stream |-> FirstOf(events, StreamLimit)]

BuildRiskBoardOverview(board) == Overview(board, buildRiskEvents(board))

Distribution(board, events) ==
    LET hits(r) == {k \in DOMAIN events : events[k].source.code = r.code}
        rows == [r \in {x \in board.regions : x.active} |-> Cardinality(hits(r))]
    IN [total |-> Len(events), regions |-> rows,
        nodes |-> [n \in board.nodes |-> Cardinality({k \in DOMAIN events : events[k].node = n})],
        impacted |-> Cardinality({r \in DOMAIN rows : rows[r] > 0}),
        last |-> IF events = <<>> THEN Nil ELSE events[1].time]

BuildNodeDistribution(board) == Distribution(board, buildRiskEvents(board))
=============================================================================
