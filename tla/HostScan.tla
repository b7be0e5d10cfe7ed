------------------------------ MODULE HostScan ------------------------------
(***************************************************************************)
(* One DNS query as the client reports it (internal/engine/dnsclient       *)
(* 117-132, 188-200, 241-332) and the scan of one host: its query plan,    *)
(* how the results are gathered into an observation, and the result of     *)
(* judging it (scanHost, internal/service/scanner.go 295-530).             *)
(*                                                                         *)
(* What happens to a query is [event, rcode, records]: an event of         *)
(* "timeout", "refused" (the connection) or "unresolved" (no server found  *)
(* for it), or a "reply" with its rcode and records.                       *)
(***************************************************************************)
EXTENDS RiskRules

DetectErrorKind(event, rcode) ==
    CASE event = "refused" -> "connection_refused"
      [] rcode = "SERVFAIL" -> "servfail"
      [] rcode = "REFUSED" -> "refused"
      [] OTHER -> "dns_error"

\* RunQuery; an empty answer has a kind although its rcode is NOERROR.
RunQuery(e) ==
    CASE e.event = "timeout" -> [rcode |-> "TIMEOUT", kind |-> "timeout", records |-> {}]
      [] e.event = "reply" ->
            [rcode |-> e.rcode, records |-> e.records,
             kind |-> IF e.rcode = "NOERROR" /\ Answers(e.records) # {} THEN ""
                      ELSE DetectErrorKind("reply", e.rcode)]
      [] OTHER -> [rcode |-> "DNSERROR", kind |-> DetectErrorKind(e.event, "DNSERROR"),
                   records |-> {}]

\* The types asked for a host: the apex, a name server, any other.
QueryPlan(host) ==
    CASE host.role = "apex" -> <<"A", "AAAA", "NS", "SOA">>
      [] host.role = "ns" -> <<"A", "AAAA">>
      [] OTHER -> <<"A", "AAAA", "CNAME">>

\* Mutant: the last failure counts, with its kind.
AbsorbLast(s, r) ==
    IF r.rcode # "NOERROR" THEN [rcode |-> r.rcode, kind |-> r.kind]
    ELSE IF s.rcode = "" THEN [rcode |-> "NOERROR", kind |-> ""] ELSE s

\* The rcode and kind of a snapshot after one more result: the first two
\* conditions of the loop, in their order.
Absorb(s, r) ==
    LET failed == r.rcode # "NOERROR" /\ r.kind # "" /\ s.rcode = ""
        first == IF failed THEN [rcode |-> r.rcode, kind |-> r.kind] ELSE s
    IN IF first.rcode \notin {"", "NOERROR"} THEN first
       ELSE [rcode |-> r.rcode, kind |-> IF r.rcode = "NOERROR" THEN "" ELSE first.kind]

Snapshot(results) ==
    LET after[n \in 0..Len(results)] ==
            IF n = 0 THEN [rcode |-> "", kind |-> ""] ELSE Absorb(after[n - 1], results[n])
    IN after[Len(results)]

\* The observation of a host: the results of its plan, the answers of the
\* other resolvers, and whether a random name below the apex has an answer.
\* No trace, latency samples or zone transfer are taken.
Observe(host, results, resolvers, randomAnswered) ==
    LET records == UNION {results[i].records : i \in DOMAIN results}
        snapshot == Snapshot(results)
    IN [rcode |-> snapshot.rcode, kind |-> snapshot.kind, records |-> records,
        ns |-> {r.value : r \in {o \in records : o.type = "NS" /\ o.name = host.zone}},
        ips |-> {r.value : r \in {o \in Answers(records) : o.type \in Addresses
                                                             /\ o.name = host.name}},
        glue |-> {r.value : r \in {o \in records : o.section = "additional"
                                                     /\ o.type \in Addresses}},
        resolvers |-> resolvers,
        wildcard |-> host.role = "apex" /\ randomAnswered,
        traceBroken |-> FALSE, samples |-> <<>>, axfr |-> FALSE]

\* The columns of the result row that depend on the verdicts; events tells what
\* happens to the query for each type.
scanHost(host, baseline, events, resolvers, randomAnswered) ==
    LET plan == QueryPlan(host)
        results == [i \in DOMAIN plan |-> RunQuery(events[plan[i]])]
        risks == Evaluate(host, baseline, Observe(host, results, resolvers, randomAnswered))
    IN [status |-> IF risks = {} THEN "normal" ELSE "suspicious",
        risks |-> risks,
        severity |-> HighestSeverity(risks),
        tier |-> HighestConfidenceTier(risks)]
=============================================================================
