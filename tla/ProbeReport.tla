----------------------------- MODULE ProbeReport -----------------------------
(***************************************************************************)
(* From what the command of a probe saw to what the risk board says of it: *)
(* the probers' results (internal/engine/prober: http.go, ping.go,         *)
(* route.go), the field names of the API (internal/service/tasks.go        *)
(* 402-479) and the anomalies of the board (riskboard.go 31-39, 101-179).  *)
(*                                                                         *)
(* Times are in milliseconds.  What was seen is                            *)
(*   http:       [error, status, time]                                     *)
(*   ping:       [error, sent, times] with the times of the packets that   *)
(*               came back                                                 *)
(*   mtr:        [error, lines], a line being [address, avg]               *)
(*   traceroute: [error, lines], a line being [address, times]             *)
(* where error says that the command failed or ran out of time.  A line    *)
(* without times stands for one that has only stars: stars beside a time   *)
(* are dropped by the parser.                                              *)
(***************************************************************************)
EXTENDS Integers, Sequences, SequencesExt

CONSTANTS
    Destination,    \* the address a route is to reach
    NoAddress,      \* of a line that names none
    Nil             \* a number that is not there

ASSUME NilAssumption == Nil \notin Int

\* What a command can have seen: an address on a traceroute line comes with times.
Seen(protocol, seen) ==
    /\ seen.error \in BOOLEAN
    /\ ~ seen.error /\ protocol = "http" => seen.status \in Nat /\ seen.time \in Nat
    /\ ~ seen.error /\ protocol = "ping" =>
        seen.sent \in Nat \ {0} /\ seen.times \in Seq(Nat) /\ Len(seen.times) <= seen.sent
    /\ ~ seen.error /\ protocol \in {"mtr", "traceroute"} =>
        /\ seen.lines \in Seq({seen.lines[i] : i \in DOMAIN seen.lines})
        /\ \A i \in DOMAIN seen.lines :
            LET line == seen.lines[i] IN
            IF protocol = "mtr" THEN "avg" \in DOMAIN line /\ line.avg \in Nat
            ELSE /\ "avg" \notin DOMAIN line /\ line.times \in Seq(Nat)
                 /\ line.address = Destination => line.times # <<>>

SumOf(times) ==
    LET sum[n \in 0..Len(times)] == IF n = 0 THEN 0 ELSE sum[n - 1] + times[n]
    IN sum[Len(times)]

Found(detail, name) == name \in DOMAIN detail

-----------------------------------------------------------------------------
(* Results: [success, error, latency, detail].                             *)

failedResult == [success |-> FALSE, error |-> TRUE, latency |-> Nil, detail |-> <<>>]

ExecuteHTTP(seen) ==
    IF seen.error THEN failedResult
    ELSE LET success == seen.status \in 200..299
         IN [success |-> success, error |-> ~ success, latency |-> seen.time,
             detail |-> [http_status |-> seen.status, total_ms |-> seen.time]]

ExecutePING(seen, elapsed) ==
    IF seen.error THEN failedResult
    ELSE LET received == Len(seen.times)
             avg == IF received = 0 THEN Nil ELSE SumOf(seen.times) \div received
         IN [success |-> received > 0, error |-> received = 0,
             latency |-> IF avg = Nil THEN elapsed ELSE avg,
             detail |-> [loss_pct |-> (100 * (seen.sent - received)) \div seen.sent,
                         avg_ms |-> avg]]

\* The average of a line, which mtr prints and traceroute does not.
AvgOf(line) ==
    IF "avg" \in DOMAIN line THEN line.avg
    ELSE IF line.times = <<>> THEN Nil ELSE SumOf(line.times) \div Len(line.times)

\* The latency of the line at the destination: averages of traceroute lines are
\* not there yet.
LatencyAt(line) ==
    IF "avg" \in DOMAIN line THEN line.avg
    ELSE IF line.times = <<>> THEN Nil ELSE Last(line.times)

\* Mutant: a route is read from its end.
ParseFromTheEnd(lines) ==
    LET at == {i \in DOMAIN lines : lines[i].address = Destination}
        averaged == {i \in DOMAIN lines : AvgOf(lines[i]) # Nil}
    IN [reached |-> at # {}, hops |-> Len(lines),
        latency |-> IF averaged = {} THEN Nil ELSE AvgOf(lines[Max(averaged)])]

buildRouteParse(lines) ==
    LET at == {i \in DOMAIN lines : lines[i].address = Destination}
        averaged == {i \in DOMAIN lines : AvgOf(lines[i]) # Nil}
    IN [reached |-> at # {}, hops |-> Len(lines),
        latency |-> IF at # {} THEN LatencyAt(lines[Min(at)])
                    ELSE IF averaged = {} THEN Nil ELSE AvgOf(lines[Max(averaged)])]

\* A route that is not reached may be asked to count as a success.
buildRouteResult(protocol, parsed, complete, elapsed) ==
    LET success == parsed.reached \/ complete
    IN [success |-> success, error |-> ~ success,
        latency |-> IF parsed.latency = Nil THEN elapsed ELSE parsed.latency,
        detail |-> IF protocol = "mtr"
                   THEN [hop_count |-> parsed.hops, destination_reached |-> parsed.reached,
                         packet_loss_pct |-> Nil, avg_latency_ms |-> Nil]
                   ELSE [hop_count |-> parsed.hops, destination_reached |-> parsed.reached]]

ExecuteRoute(protocol, seen, complete, elapsed) ==
    IF seen.error THEN failedResult
    ELSE buildRouteResult(protocol, buildRouteParse(seen.lines), complete, elapsed)

executeProtocol(p) ==
    CASE p.protocol = "http" -> ExecuteHTTP(p.seen)
      [] p.protocol = "ping" -> ExecutePING(p.seen, p.elapsed)
      [] OTHER -> ExecuteRoute(p.protocol, p.seen, p.complete, p.elapsed)

-----------------------------------------------------------------------------
(* The stored row: the detail under the names of the API.                  *)

ApiName == [http_status |-> "httpStatus", total_ms |-> "totalMs", loss_pct |-> "lossPct",
            avg_ms |-> "avgMs", hop_count |-> "hopCount",
            destination_reached |-> "destinationReached",
            packet_loss_pct |-> "packetLossPct", avg_latency_ms |-> "avgLatencyMs"]

\* Mutant: the detail is stored as the prober returned it.
DetailAsIs(detail) == detail

protocolDetailForAPI(detail) ==
    LET name(new) == CHOOSE old \in DOMAIN detail : ApiName[old] = new
    IN [new \in {ApiName[old] : old \in DOMAIN detail} |-> detail[name(new)]]

StoredRow(p) ==
    LET result == executeProtocol(p)
    IN [protocol |-> p.protocol, success |-> result.success, error |-> result.error,
        latency |-> result.latency, detail |-> protocolDetailForAPI(result.detail)]

\* A region row before its result.
PendingRow(protocol) ==
    [protocol |-> protocol, success |-> FALSE, error |-> FALSE, latency |-> Nil, detail |-> <<>>]

-----------------------------------------------------------------------------
(* The board.                                                              *)

\* toF and derefF: a number that is missing is 0.
Number(detail, name) ==
    IF Found(detail, name) /\ detail[name] # Nil THEN detail[name] ELSE 0

NumberOr(detail, name, other) ==
    LET n == Number(detail, name) IN IF n # 0 THEN n ELSE IF other = Nil THEN 0 ELSE other

Unreached(detail) == Found(detail, "destinationReached") /\ ~ detail["destinationReached"]

\* "" is no anomaly.
protocolAnomaly(row) ==
    LET d == row.detail
        failed == ~ row.success \/ row.error
    IN CASE row.protocol = "http" ->
                IF failed \/ Number(d, "httpStatus") >= 500 THEN "high"
                ELSE IF NumberOr(d, "totalMs", row.latency) >= 1500 THEN "medium" ELSE ""
         [] row.protocol = "ping" ->
                IF failed THEN "high"
                ELSE IF \/ Number(d, "lossPct") >= 20
                        \/ NumberOr(d, "avgMs", row.latency) >= 300 THEN "medium" ELSE ""
         [] row.protocol = "mtr" ->
                IF failed \/ Unreached(d) THEN "high"
                ELSE IF \/ Number(d, "packetLossPct") >= 20
                        \/ NumberOr(d, "avgMs", row.latency) >= 500 THEN "medium" ELSE ""
         [] row.protocol = "traceroute" ->
                IF failed \/ Unreached(d) THEN "high"
                ELSE IF \/ Number(d, "hopCount") >= 20
                        \/ (row.latency # Nil /\ row.latency >= 800) THEN "medium" ELSE ""
=============================================================================
