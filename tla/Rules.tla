-------------------------------- MODULE Rules -------------------------------
(***************************************************************************)
(* The decisions the service takes on the data of one request, as one      *)
(* machine: it is given an input of one kind and computes the result with  *)
(* the operators of NodeSelection, HostScan, ProbeOptions, DnsTrace,       *)
(* BatchInput, Manifest, RiskBoard (with ProbeReport) and SetReport.  The  *)
(* properties compare the results with what they are to mean, without the  *)
(* steps of the code.                                                      *)
(***************************************************************************)
EXTENDS NodeSelection, HostScan, ProbeOptions, DnsTrace, BatchInput,
        Manifest, RiskBoard, SetReport

CONSTANTS
    Inputs,     \* records with a kind and the fields its operation takes
    Unknown     \* no result yet

\* What the operations of each kind are given.
Numeric == Int \cup {Absent, Junk}
Event(e) ==
    /\ e.event \in {"timeout", "refused", "unresolved", "reply"}
    /\ e.event = "reply" => e.rcode # ""
    /\ IsFiniteSet(e.records) /\ \A r \in e.records : r.ttl \in Nat
ASSUME RulesAssumption ==
    \A g \in Inputs :
        /\ g.kind = "node" => NodeTable(g.nodes)
        /\ g.kind = "regions" =>
            /\ NodeTable(g.nodes) /\ RegionTable(g.regions)
            /\ g.codes \in Seq({g.codes[i] : i \in DOMAIN g.codes}) /\ g.limit \in Nat
        /\ g.kind = "scan" =>
            /\ g.host.role \in {"apex", "ns", "other"}
            /\ IsFiniteSet(g.baseline) /\ IsFiniteSet(DOMAIN g.resolvers)
            /\ \A b \in g.baseline : {b.min, b.max} \subseteq Nat \cup {NoBound}
            /\ LET plan == QueryPlan(g.host)
               IN \A i \in DOMAIN plan : Event(g.events[plan[i]])
        /\ g.kind = "options" =>
            /\ g.protocol \in Protocols \ {"dns"}
            /\ g.raw \in [timeout : Numeric, count : Numeric, hops : Numeric]
        /\ g.kind = "dns" =>
            /\ g.raw.repeat \in Numeric
            /\ g.raw.plan \in Seq({g.raw.plan[i] : i \in DOMAIN g.raw.plan})
            /\ \A i \in DOMAIN g.raw.plan : g.raw.plan[i].repeat \in Numeric
        /\ g.kind = "trace" =>
            /\ g.maxHops \in Int /\ g.world.labels \in Nat \ {0}
            /\ g.world.cut \in 0..g.world.labels
        /\ g.kind = "probe" =>
            /\ g.plan \in Seq({g.plan[i] : i \in DOMAIN g.plan})
            /\ \A i \in DOMAIN g.plan : g.plan[i].repeat \in Nat \ {0}
        /\ g.kind = "text" => g.lines \in Seq({g.lines[i] : i \in DOMAIN g.lines})
        /\ g.kind = "csv" => CsvFile(g.records)
        /\ g.kind = "day" => DayRows(g.single) /\ DayRows(g.batch)
        /\ g.kind = "manifest" => Written(g.lines, g.items, g.at)
        /\ g.kind = "sets" => SetQuery(g.query)
        /\ g.kind = "report" =>
            /\ g.probe.protocol \in Protocols \ {"dns"} /\ g.probe.elapsed \in Nat
            /\ Seen(g.probe.protocol, g.probe.seen)
        /\ g.kind = "board" => BoardTables(g.board)

VARIABLES given, result

vars == <<given, result>>

Init == given \in Inputs /\ result = Unknown

Compute(kind, value) ==
    /\ given.kind = kind /\ result = Unknown
    /\ result' = value
    /\ UNCHANGED given

SelectNode == Compute("node", getSingleExecutionNode(given.nodes, given.region, given.mode))

\* The regions of a task and the node of each.
PlaceTask ==
    Compute("regions",
        LET codes == normalizeRegionCodes(given.regions, given.nodes, given.codes, given.limit)
        IN [i \in DOMAIN codes |->
                [code |-> codes[i],
                 node |-> getSingleExecutionNode(given.nodes, codes[i], "auto")]])

JudgeHost ==
    Compute("scan", scanHost(given.host, given.baseline, given.events, given.resolvers,
                             given.random))

\* The options of a batch probe, stored and then cleaned again by the prober.
CleanOptions ==
    Compute("options",
        LET stored == CleanBatch(given.protocol, given.raw)
        IN [stored |-> stored, used |-> CleanProber(given.protocol, stored),
            single |-> CleanProber(given.protocol, given.raw)])

PlanDns ==
    Compute("dns", [single |-> SinglePlan(given.target, given.raw),
                    batch |-> BatchPlan(given.target, given.raw)])

ReadText == Compute("text", ParseBatchInput(TextRows(given.lines)))
ReadCsv == Compute("csv", ParseBatchInput(CsvRows(given.records)))
AggregateDay == Compute("day", AggregateDailyMetrics(given.single, given.batch))
Trace == Compute("trace", TraceResolutionPath(given.world, given.maxHops))
ProbeDns == Compute("probe", ExecuteDNS(given.plan, given.oracle))

ReadManifest ==
    Compute("manifest",
        LET items == parseYAMLSubsetManifest(given.lines)
        IN [items |-> items,
            normal |-> IF items = Refused THEN Refused ELSE normalizeManifest(items)])

\* A probe from what its command saw to its place on the board.
ReportProbe ==
    Compute("report", LET row == StoredRow(given.probe)
                      IN [row |-> row, severity |-> protocolAnomaly(row)])

ShowBoard ==
    Compute("board", [overview |-> BuildRiskBoardOverview(given.board),
                      nodes |-> BuildNodeDistribution(given.board)])

AnalyseSets == Compute("sets", BuildSetAnalysis(given.query))

Next ==
    \/ SelectNode \/ PlaceTask \/ JudgeHost \/ CleanOptions \/ PlanDns \/ ReadText \/ ReadCsv
    \/ AggregateDay \/ Trace \/ ProbeDns \/ ReadManifest
    \/ ReportProbe \/ ShowBoard \/ AnalyseSets

Spec == Init /\ [][Next]_vars

Is(kind) == given.kind = kind /\ result # Unknown

-----------------------------------------------------------------------------
(* Properties.                                                             *)

TypeOK ==
    /\ Is("node") => result \in given.nodes \cup {NoNode}
    /\ Is("scan") =>
        /\ result.status \in {"normal", "suspicious"} /\ result.risks \subseteq Risks
        /\ result.severity \in {"", "low", "medium", "high", "critical"}
        /\ result.tier \in {"", "review_required", "high_confidence"}
    /\ Is("text") \/ Is("csv") =>
        result = Nothing \/ \A i \in DOMAIN result :
                                result[i].status \in {"valid", "invalid", "duplicate"}

\* A node is preferred to another for being schedulable, in the region, of the
\* mode, online, remote, and so on, in this order: the filters and fallbacks of
\* the selection amount to one ordering, but for the mode, which is forgotten
\* when the region has no schedulable node (scheduling.go 62-163).
SelectionPrefers ==
    Is("node") =>
        LET placed(n) == n.schedulable /\ n.region = given.region
            anyPlaced == \E n \in given.nodes : placed(n)
            fits(n) == given.mode = "auto" \/ ~ anyPlaced \/ n.local = (given.mode = "local")
            key(n) == IF ~ n.schedulable
                      THEN <<1, 0, 0, 0, 0, 0, boolToInt(~ n.default), n.id>>
                      ELSE <<0, boolToInt(~ placed(n)), boolToInt(~ fits(n)),
                             boolToInt(~ nodeOnline(n)), boolToInt(~ n.up),
                             boolToInt(n.local), boolToInt(~ n.default), n.id>>
        IN /\ result = NoNode <=> given.nodes = {}
           /\ result # NoNode =>
                \A n \in given.nodes \ {result} : Before(key(result), key(n))

\* The regions of a task are active, each once, those asked for if one of them
\* is active, and no more than the limit (scheduling.go 172-200).
RegionsAreAsked ==
    Is("regions") =>
        LET codes == [i \in DOMAIN result |-> result[i].code]
            active == {r.code : r \in given.regions}
        IN /\ IsInjective(codes) /\ \A i \in DOMAIN codes : codes[i] \in active
           /\ codes = <<>> <=> active = {}
           /\ given.limit > 0 => Len(codes) <= given.limit
           /\ active \cap ToSet(given.codes) # {} =>
                /\ ToSet(codes) \subseteq ToSet(given.codes)
                /\ given.limit = 0 => ToSet(codes) = active \cap ToSet(given.codes)

\* A task that names no region is probed by an online node whenever an active
\* region has one, by a remote one whenever an active region has a remote one:
\* the ranking of regions and the choice of a node in them agree (scheduling.go
\* 202-265 with 62-116).
DefaultIsOnline ==
    Is("regions") /\ given.codes = <<>> /\ result # <<>> =>
        LET usable == {n \in given.nodes : n.schedulable /\ nodeOnline(n)
                                            /\ \E r \in given.regions : r.code = n.region}
        IN /\ usable # {} => nodeOnline(result[1].node)
           /\ (\E n \in usable : ~ n.local) => ~ result[1].node.local

\* What happened to the queries of a scan, in the order of its plan.
Asked ==
    LET plan == QueryPlan(given.host) IN [i \in DOMAIN plan |-> given.events[plan[i]]]

\* Which failure of a scan is reported: REFUSED if it is the first rcode that is
\* not NOERROR, a timeout or a server failure only if the very first query met
\* it, however the other queries of the plan went; a failure after a first
\* good answer has no kind (scanner.go 333-344, engine.go 235-246).
FirstFailureDecides ==
    Is("scan") =>
        LET rcode(i) == RunQuery(Asked[i]).rcode
            failed == {i \in DOMAIN Asked : rcode(i) # "NOERROR"}
            firstEvent == Asked[1]
            expected == primaryExpected(given.baseline) # {}
        IN /\ "refused" \in result.risks <=> failed # {} /\ rcode(Min(failed)) = "REFUSED"
           /\ "unreach" \in result.risks <=> expected /\ firstEvent.event = "timeout"
           /\ "no_service" \in result.risks <=>
                expected /\ (firstEvent.event = "refused" \/ rcode(1) = "SERVFAIL")

\* What was seen when the records were approved.
AnswersAsApproved ==
    LET seen == UNION {Asked[i].records : i \in DOMAIN Asked}
    IN /\ \A i \in DOMAIN Asked :
            Asked[i].event = "reply" /\ Asked[i].rcode = "NOERROR"
       /\ {<<r.section, r.name, r.type, r.value>> : r \in seen}
            = {<<r.section, r.name, r.type, r.value>> : r \in given.baseline}
       /\ \A r \in seen : \A b \in given.baseline :
            <<r.name, r.type>> = <<b.name, b.type>> =>
                (b.min # NoBound => b.min <= r.ttl) /\ (b.max # NoBound => r.ttl <= b.max)
       /\ Cardinality({given.resolvers[r] : r \in DOMAIN given.resolvers}) <= 1
       /\ given.random => given.host.allowWildcard \/ given.host.role # "apex"

\* A host that answers as approved is normal but for what was approved itself:
\* private and public addresses, or bounds of some addresses only, which the others
\* are held to; name servers of another zone; addresses that come along and are
\* not those of name servers; nothing under the name of the host (engine.go
\* 82-278).
ApprovedIsNormal ==
    Is("scan") /\ AnswersAsApproved =>
        LET baseline == given.baseline
            addresses == {b \in Answers(baseline) : b.type \in Addresses}
        IN /\ result.risks \subseteq
                {"dns_rebind", "ns_name_hijack", "ns_ip_hijack", "empty_answer"}
           /\ "dns_rebind" \in result.risks =>
                /\ ~ given.host.allowRebind
                /\ \E b, c \in addresses : \/ ipClass(b.value) # ipClass(c.value)
                                           \/ b.min = NoBound /\ c.min # NoBound
                                           \/ b.max = NoBound /\ c.max # NoBound
           /\ "ns_name_hijack" \in result.risks =>
                \E b \in baseline : b.type = "NS" /\ b.name # given.host.zone
           /\ "ns_ip_hijack" \in result.risks =>
                \E b \in baseline : /\ b.section = "additional" /\ b.type \in Addresses
                                    /\ b.name \notin baselineNSNames(baseline)
           /\ "empty_answer" \in result.risks =>
                \A b \in Answers(baseline) : b.type \in Primary => b.name # given.host.name

\* A host with approved answers that answers none of its queries is suspicious,
\* whatever combination of failures explains it: no failure passes for normal
\* (engine.go 120-131, 235-249; scanner.go 486-497).
UnansweredIsSuspicious ==
    Is("scan") /\ Answers(given.baseline) # {}
        /\ (\A i \in DOMAIN Asked : Answers(Asked[i].records) = {})
    => result.status = "suspicious"

\* What a batch task stores is what its probes use: the bounds of the prober
\* never cut options the batch has cleaned (batch.go 194-225, ping.go 15-28,
\* http.go 18-24, route.go 18-75).
OptionsSurvive == Is("options") => result.used = result.stored

\* The context a prober makes for its command outlives it, so that it ends by its
\* own timeouts and is parsed (ping.go 25, route.go 33, 72), and its caller's
\* context an HTTP request (tasks.go 344, batch.go 498).  Callers' contexts are
\* shorter than many a ping or route: those are cut off.
BudgetCovers ==
    Is("options") =>
        IF given.protocol = "http"
        THEN /\ result.single.timeout < CallerBudget("single", given.raw)
             /\ result.used.timeout <= CallerBudget("batch", given.raw)
        ELSE \A o \in {result.used, result.single} :
                LongestRun(given.protocol, o) < Budget(given.protocol, o)

\* The plan of a batch DNS probe is that of a single probe in all but the names:
\* cleaning options twice changes nothing (batch.go 195-203, dns.go 117-168).
BatchPlanAsSingle ==
    Is("dns") =>
        /\ IsRejected(result.single) <=> IsRejected(result.batch)
        /\ ~ IsRejected(result.single) =>
            LET unnamed(plan) == [i \in DOMAIN plan |-> [plan[i] EXCEPT !.name = ""]]
            IN unnamed(result.single.plan) = unnamed(result.batch.plan)

\* dns_test.go 19: the plan of a probe without a plan of its own asks for its
\* target.
BatchDnsAsksTheTarget ==
    Is("dns") /\ given.raw.plan = <<>> /\ ~ IsRejected(result.batch)
    => \A i \in DOMAIN result.batch.plan : result.batch.plan[i].name = given.target

\* Reading gives every value that is not blank one record, marks each distinct
\* valid name once, at its first place, and is refused exactly when there is
\* nothing valid or too much (batch.go 62-100).
Accounts(values) ==
    LET names == {NormalizeBatchDomain(values[i]) : i \in DOMAIN values}
        valid == {n \in names : IsValidBatchDomain(n)}
    IN IF valid = {} \/ Cardinality(valid) > MaxValidTarget THEN result = Nothing
       ELSE /\ result # Nothing
            /\ {result[i].target : i \in {j \in DOMAIN result : result[j].status = "valid"}} = valid
            /\ Cardinality({j \in DOMAIN result : result[j].status = "valid"}) = Cardinality(valid)
            /\ Len(result) = Cardinality({i \in DOMAIN values :
                                    ~ IsBlank(NormalizeBatchDomain(values[i]))})
            /\ \A i, j \in DOMAIN result :
                    result[i].status = "valid" /\ result[j].status = "duplicate"
                        /\ result[i].target = result[j].target => i < j

TargetsAccount ==
    Is("text") => Accounts(Kept(given.lines, {i \in DOMAIN given.lines :
                                                given.lines[i] \notin {Empty, Comment}}))

\* A CSV file is read as the text of one of its columns: the one a header names,
\* else the first with nothing left out; ragged records are nothing (batch.go
\* 140-171).
CsvIsOneColumn ==
    Is("csv") =>
        LET records == given.records
            even == \A i \in DOMAIN records : Len(records[i]) = Len(records[1])
            header == \E i \in DOMAIN records[1] :
                        records[1][i] \notin {Empty, Comment} /\ records[1][i].name \in Headers
            column(c) == [i \in DOMAIN records |-> IF header /\ i = 1 THEN Empty ELSE records[i][c]]
        IN IF records = <<>> \/ ~ even THEN result = Nothing
           ELSE \E c \in DOMAIN records[1] :
                    /\ header \/ c = 1
                    /\ Accounts(Kept(column(c), {i \in DOMAIN records :
                                                    column(c)[i] \notin {Empty, Comment}}))

\* A manifest written the documented way is read back as it was meant, item by
\* item and host by host, whatever fields each gives (trust.go 114-200).
ManifestIsRead ==
    Is("manifest") => result.items = given.items

\* What is imported has each apex and each host that was listed by name once, no
\* host nobody listed, and one environment for all items (trust.go 264-307).
NormalManifest ==
    Is("manifest") /\ result.normal # Refused =>
        \A i \in DOMAIN result.normal.items :
            LET item == result.normal.items[i]
                names == [k \in DOMAIN item.hosts |-> item.hosts[k].fqdn]
                listed == {given.items[i].hosts[k].fqdn : k \in DOMAIN given.items[i].hosts}
            IN /\ IsInjective(names)
               /\ ToSet(names) = {item.domain} \cup (listed \ {NoName})
               /\ item.environment = result.normal.environment

\* The median and the 95th percentile of a day are latencies that were measured,
\* in order, with at least half of the samples at or above the median and at
\* least 5% at or above the other (batch.go 864-898).
PercentilesAreSamples ==
    Is("day") /\ result # Nothing =>
        LET all == given.single \o given.batch
            samples == {i \in DOMAIN all : all[i].latency >= 0}
            above(v) == Cardinality({i \in samples : all[i].latency >= v})
        IN samples # {} =>
            /\ {result.p50, result.p95} \subseteq {all[i].latency : i \in samples}
            /\ result.p50 <= result.p95
            /\ 2 * above(result.p50) >= Cardinality(samples)
            /\ 20 * above(result.p95) >= Cardinality(samples)

\* Labels are taken off at the left while the path leads down, so that the two
\* meet halfway: no trace asks a server further down than that, and one with hops
\* for every label, whichever servers answer, never both ends whole and asks a
\* server of the zone of a delegated name (client.go 436-512).
TraceFallsShort ==
    Is("trace") =>
        LET levels == {result.hops[d].level : d \in DOMAIN result.hops}
            hops == IF given.maxHops <= 0 THEN DefaultHops ELSE given.maxHops
        IN /\ \A l \in levels : 2 * l <= given.world.labels + 1
           /\ hops >= given.world.labels /\ given.world.cut >= 2
                => result.brokenAt # None \/ \A l \in levels : l < given.world.cut

\* What a DNS probe has shown is not lost by the queries after it: its verdict,
\* a wildcard, a zone that was transferred; only the transfer itself is that of
\* the last attempt, and then has a zone (dns.go 301-370).
EvidenceIsKept ==
    Is("probe") =>
        /\ \A n \in 1..Len(given.plan) :
            LET before == ExecuteDNS(SubSeq(given.plan, 1, n), given.oracle)
            IN /\ before.success = result.success
               /\ before.wildcard => result.wildcard
               /\ before.hash => result.hash
        /\ result.axfr => result.hash

\* The probe got what it asked for, as its command saw it.
Answered(p) ==
    /\ ~ p.seen.error
    /\ p.protocol = "http" => p.seen.status \in 200..299
    /\ p.protocol = "ping" => p.seen.times # <<>>
    /\ p.protocol \in {"mtr", "traceroute"} =>
        \E i \in DOMAIN p.seen.lines : p.seen.lines[i].address = Destination

\* The board calls a finished probe a failure exactly if its target did not
\* answer, although a route that is not reached may count as a success everywhere
\* else (route.go 270-318, tasks.go 449-472, riskboard.go 101-163).
FailureIsShown ==
    Is("report") => (result.severity = "high" <=> ~ Answered(given.probe))

\* A probe of which the board says nothing was quick, by a time that was measured
\* at the target, lost less than a fifth of its packets and, for traceroute, took
\* less than 20 hops.  Nothing is said of the loss mtr sees (riskboard.go 101-163).
QuietIsHealthy ==
    Is("report") /\ result.severity = "" =>
        LET p == given.probe
            quick(limit) == \E i \in DOMAIN p.seen.lines :
                LET line == p.seen.lines[i] IN
                /\ line.address = Destination
                /\ IF p.protocol = "mtr" THEN line.avg < limit
                   ELSE \E k \in DOMAIN line.times : line.times[k] < limit
        IN CASE p.protocol = "http" -> p.seen.time < 1500
             [] p.protocol = "ping" ->
                    /\ \E k \in DOMAIN p.seen.times : p.seen.times[k] < 300
                    /\ 5 * (p.seen.sent - Len(p.seen.times)) < p.seen.sent
             [] p.protocol = "mtr" -> quick(500)
             [] p.protocol = "traceroute" -> quick(800) /\ Len(p.seen.lines) < 20

\* The sum of the values of a function.
Total(f) == Cardinality(UNION {{v} \X (1..f[v]) : v \in DOMAIN f})

\* The two pages of the board agree: on each region, if names tell regions apart,
\* and on the number of regions hit, but for the region that stands in for those
\* no longer active (riskboard.go 217-226, 524-577; riskboard_extra.go 86-148).
BoardsAgree ==
    Is("board") =>
        LET over == result.overview
            dist == result.nodes
            active == {r \in given.board.regions : r.active}
            named == {r.name : r \in active}
            homeless == \A r \in active : r.code # GlobalCode
        IN Cardinality(named) = Cardinality(active) /\ (homeless => GlobalName \notin named) =>
            /\ over.points = dist.regions
            /\ over.impacted = dist.impacted
                + boolToInt(homeless /\ Total(dist.regions) < over.total)

\* Every anomaly among the newest rows of each kind is counted once by protocol
\* and by severity, and the stream shows the newest of them (riskboard.go 200-208,
\* 524-540, 590-597).
BoardAccounts ==
    Is("board") =>
        LET board == given.board
            shown(rows, i) ==
                /\ rows[i].time >= board.since
                /\ rows[i].probe.protocol # "dns"
                /\ board.protocol \in {"all", rows[i].probe.protocol}
            newer(rows, i) == {j \in DOMAIN rows : shown(rows, j) /\
                                <<rows[j].time, j>> # <<rows[i].time, i>>
                                /\ ~ Before(<<rows[j].time, j>>, <<rows[i].time, i>>)}
            hits(rows) == {i \in DOMAIN rows : /\ shown(rows, i)
                                               /\ Cardinality(newer(rows, i)) < RowLimit
                                               /\ protocolAnomaly(rows[i].probe) # ""}
            times == [i \in hits(board.single) |-> board.single[i].time]
            batchTimes == [i \in hits(board.batch) |-> board.batch[i].time]
            over == result.overview
            above(t) == Cardinality({i \in hits(board.single) : times[i] > t})
                        + Cardinality({i \in hits(board.batch) : batchTimes[i] > t})
        IN /\ over.total = Cardinality(hits(board.single)) + Cardinality(hits(board.batch))
           /\ over.total = result.nodes.total
           /\ Total(over.protocols) = over.total
           /\ Total(over.severities) = over.total
           /\ Len(over.stream) = IF StreamLimit < over.total THEN StreamLimit ELSE over.total
           /\ \A k \in DOMAIN over.stream : above(over.stream[k].time) < k

\* The four operations are those on the sets of hosts that show a risk in some
\* result looked at, and account for all hosts; the third, of more than two sets,
\* is the first without what is in all (scan_reporting.go 453-541).
OperationsAccount ==
    Is("sets") =>
        LET q == given.query
            ops == result.operations
            seen == ToSet(Selected(q.results, q.job))
            shows(i) == {KeyOf(q.results, q.hosts, j) :
                            j \in {l \in seen : result.codes[i] \in q.results[l].risks}}
            all == {KeyOf(q.results, q.hosts, j) : j \in seen}
            chosen == DOMAIN result.codes
        IN /\ ops.union = UNION {shows(i) : i \in chosen}
           /\ ops.complement = all \ ops.union
           /\ \A key \in all : key \in ops.intersection
                    <=> chosen # {} /\ \A i \in chosen : key \in shows(i)
           /\ Len(result.codes) = 2 => ops.difference = shows(1) \ shows(2)
           /\ Len(result.codes) < 2 => ops.difference = {}

\* Turning the pages shows each host of an operation once, and a page beyond the
\* end shows the last one (scan_reporting.go 566-585).
PagesPartition ==
    Is("sets") =>
        LET q == given.query
            pages == TotalPages(result.total, q.size)
            page(n) == BuildSetAnalysis([q EXCEPT !.page = n]).rows
            shown == UNION {{<<n, k>> : k \in DOMAIN page(n)} : n \in 1..pages}
            key(at) == page(at[1])[at[2]].key
        IN /\ {key(at) : at \in shown} = result.operations[q.operation]
           /\ \A at, other \in shown : key(at) = key(other) => at = other
           /\ q.page > pages /\ pages > 0 => result.rows = page(pages)
           /\ \A n \in 1..(pages - 1) : Len(page(n)) = q.size

\* The row of a host in the union shows one of the risks it was found for, when
\* one scan is looked at; over a time window its newest result may show none
\* (scan_reporting.go 463-494).
RowShowsItsRisk ==
    Is("sets") /\ given.query.job # 0 /\ given.query.operation = "union" =>
        \A n \in DOMAIN result.rows :
            given.query.results[result.rows[n].result].risks \cap ToSet(result.codes) # {}

-----------------------------------------------------------------------------
(* What is checked, by the decision it is about.                           *)

\* Nodes and regions (scheduling.go 62-265).
PlacementIsBest == SelectionPrefers /\ RegionsAreAsked /\ DefaultIsOnline

\* The verdict on a scanned host (scanner.go 310-497, engine.go 82-278).
HostIsJudged == TypeOK /\ FirstFailureDecides /\ ApprovedIsNormal /\ UnansweredIsSuspicious

\* Options, time budgets, plans and the results of DNS probes (batch.go 173-225,
\* dns.go 117-370, client.go 436-512).
ProbesAreSound ==
    OptionsSurvive /\ BudgetCovers /\ BatchPlanAsSingle /\ TraceFallsShort /\ EvidenceIsKept

\* Batch input, manifests and samples (batch.go 62-171, 864-898; trust.go 114-307).
InputIsRead ==
    TargetsAccount /\ CsvIsOneColumn /\ ManifestIsRead /\ NormalManifest /\ PercentilesAreSamples

\* The way of a probe to the board, and the board (riskboard.go 101-226, 524-597;
\* riskboard_extra.go 86-148).
BoardIsTrue == FailureIsShown /\ QuietIsHealthy /\ BoardsAgree /\ BoardAccounts

\* Set analysis (scan_reporting.go 453-585).
SetsAccount == OperationsAccount /\ PagesPartition /\ RowShowsItsRisk
=============================================================================
