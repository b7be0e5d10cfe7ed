------------------------------ MODULE MCRules -------------------------------
EXTENDS Rules

CONSTANTS dst, via, h, z, n1, n2, v1, v2, p1, c1, ra, rb, dead, a, b, c, junk, head, apex, www

-----------------------------------------------------------------------------
(* Nodes and regions.                                                      *)

FullNodes(i) == [id : {i}, region : {ra, rb}, local : BOOLEAN, default : BOOLEAN,
                 up : BOOLEAN, age : Ages, schedulable : BOOLEAN]
FewNodes(i) == [id : {i}, region : {ra, rb}, local : BOOLEAN, default : {i = 2},
                up : BOOLEAN, age : {"fresh", "old"}, schedulable : {TRUE}]
PlacedNodes(i) == [id : {i}, region : {ra, rb, Global}, local : BOOLEAN, default : {FALSE},
                   up : BOOLEAN, age : {"fresh", "old"}, schedulable : {TRUE}]

NodeSets ==
    {{}} \cup {{x} : x \in FullNodes(1)} \cup {{x, y} : x \in FullNodes(1), y \in FullNodes(2)}
    \cup {{w, x, y} : w \in FewNodes(1), x \in FewNodes(2), y \in FewNodes(3)}

NodeInputs == [kind : {"node"}, nodes : NodeSets, region : {ra}, mode : {"auto", "local", "remote"}]

Region(code, order, id) == [code |-> code, order |-> order, id |-> id]
RegionInputs ==
    [kind : {"regions"},
     regions : {{}, {Region(ra, 1, 1), Region(rb, 1, 2)},
                {Region(Global, 0, 3), Region(ra, 2, 1), Region(rb, 1, 2)}},
     nodes : {{x, y} : x \in PlacedNodes(1), y \in PlacedNodes(2)},
     codes : {<<>>, <<rb>>, <<rb, ra>>, <<ra, ra, rb>>, <<dead>>, <<dead, rb, ra>>},
     limit : 0..2]

-----------------------------------------------------------------------------
(* Scans.                                                                  *)

Failures == [event : {"timeout", "refused", "unresolved"}, rcode : {""}, records : {{}}]
            \cup [event : {"reply"}, rcode : {"SERVFAIL", "REFUSED", "NXDOMAIN"}, records : {{}}]
Reply(records) == [event |-> "reply", rcode |-> "NOERROR", records |-> records]
RR(section, name, type, value) ==
    [section |-> section, name |-> name, type |-> type, value |-> value, ttl |-> 60]
Old(record, min, max) ==
    [section |-> record.section, name |-> record.name, type |-> record.type,
     value |-> record.value, min |-> min, max |-> max]

Unbound(record) == Old(record, NoBound, NoBound)

A(name, value) == RR("answer", name, "A", value)
AAAA(name, value) == RR("answer", name, "AAAA", value)
Alias == RR("answer", h, "CNAME", c1)
AtTtl(record, ttl) == [record EXCEPT !.ttl = ttl]

Hosts(name, role) ==
    [name : {name}, zone : {z}, role : {role}, allowRebind : BOOLEAN,
     allowWildcard : IF role = "apex" THEN BOOLEAN ELSE {FALSE}, allowAXFR : {FALSE}]

HostScans ==
    [kind : {"scan"}, host : Hosts(h, "other"),
     baseline : {{}, {Old(A(h, v1), 30, 90)}, {Unbound(A(h, v1)), Unbound(A(h, p1))},
                 {Unbound(A(h, v1)), Old(A(h, v2), 30, NoBound)}, {Unbound(Alias)},
                 {Unbound(A(h, v1)), Old(AAAA(h, v2), 30, NoBound)}, {Unbound(A(n1, v1))}},
     events :
        {[A |-> e, AAAA |-> f, CNAME |-> g] :
            e \in Failures \cup {Reply({}), Reply({A(h, v1)}), Reply({A(h, v1), A(h, p1)}),
                                 Reply({A(h, v1), A(h, v2)}), Reply({AtTtl(A(h, v1), 20), A(h, v2)}),
                                 Reply({AtTtl(A(h, v1), 20)}), Reply({A(n1, v1)})},
            f \in Failures \cup {Reply({}), Reply({AAAA(h, v2)})},
            g \in {Reply({}), Reply({Alias})} \cup {x \in Failures : x.event # "reply"}},
     resolvers : {<<>>, <<{v1}, {v1}>>, <<{v1}, {v2}>>}, random : {FALSE}]

Ns(value) == RR("answer", z, "NS", value)
Foreign == RR("authority", h, "NS", n2)
Glue(name, value) == RR("additional", name, "A", value)

ApexScans ==
    [kind : {"scan"}, host : Hosts(z, "apex"),
     baseline : {{Unbound(A(z, v1))},
                 {Unbound(A(z, v1)), Unbound(Ns(n1)), Unbound(Glue(n1, p1))},
                 {Unbound(A(z, v1)), Unbound(Ns(n1)), Unbound(Foreign)},
                 {Unbound(A(z, v1)), Unbound(Ns(n1)), Unbound(A(n1, p1)), Unbound(Glue(h, v2))}},
     events :
        {[A |-> e, AAAA |-> f, NS |-> g, SOA |-> s] :
            e \in Failures \cup {Reply({A(z, v1)})}, f \in {Reply({})} \cup Failures,
            g \in {Reply({}), Reply({Ns(n1), Glue(n1, p1)}), Reply({Ns(n1), Glue(n1, v2)}),
                   Reply({Ns(n2), Glue(n2, p1), Glue(n2, v2)}), Reply({Ns(n1), Foreign}),
                   Reply({Ns(n1), A(n1, p1), Glue(h, v2)})} \cup Failures,
            s \in {Reply({})}},
     resolvers : {<<>>}, random : BOOLEAN]

NsScans ==
    [kind : {"scan"}, host : Hosts(n1, "ns"),
     baseline : {{}, {Unbound(A(n1, v1))}},
     events : [A : Failures \cup {Reply({A(n1, v1)}), Reply({A(n1, v2)})},
               AAAA : Failures \cup {Reply({})}],
     resolvers : {<<>>}, random : {FALSE}]

-----------------------------------------------------------------------------
(* Options and plans.                                                      *)

OptionInputs ==
    [kind : {"options"}, protocol : Protocols \ {"dns"},
     raw : [timeout : {Absent, Junk, -15, 0, 1, 5, 10, 15, 20, 25, 100, 105, 300, 305, 2000},
            count : {Absent, Junk, -1, 0, 1, 5, 10, 11}, hops : {Absent, -1, 0, 1, 15, 30, 31}]]

RawStep == [name : {Absent, "other"}, type : {Absent, "AXFR", "NONE"}, transport : {Absent, "udp"},
            mode : {"authoritative"}, repeat : {Absent, 9}, random : {TRUE, Absent}]

DnsInputs ==
    [kind : {"dns"}, target : {"target", Example},
     raw : [type : {Absent, "A", "AXFR", "NONE"}, transport : {Absent, "udp", "tcp", "none"},
            mode : {Absent, "authoritative"}, repeat : {Absent, Junk, -1, 0, 3, 9},
            random : {Absent, TRUE},
            plan : {<<>>} \cup {<<s>> : s \in RawStep}
                    \cup {<<s, t>> : s \in {x \in RawStep : x.repeat = 9 /\ x.random = TRUE},
                                     t \in {x \in RawStep : x.name = Absent /\ x.repeat = 9}}]]

-----------------------------------------------------------------------------
(* Batch input and daily figures.                                          *)

Value(name, dots) == [name |-> name, dots |-> dots]
Values == {Empty, Comment, Value(a, 0), Value(a, 1), Value(a, 2), Value(b, 0), Value(c, 0),
           Value(junk, 0), Value(Empty, 1)}
Cells == {Empty, Value(a, 0), Value(b, 1), Value(head, 0)}
Records == UNION {[1..n -> Cells] : n \in 1..2}

TextInputs == [kind : {"text"}, lines : UNION {[1..n -> Values] : n \in 0..4}]
CsvInputs == [kind : {"csv"}, records : UNION {[1..n -> Records] : n \in 0..3}]

Samples == [success : BOOLEAN, latency : {-1, 5, 7}]
DayInputs ==
    [kind : {"day"}, single : UNION {[1..n -> Samples] : n \in 0..1},
     batch : UNION {[1..n -> Samples] : n \in 0..3}]
    \cup {[kind |-> "day", single |-> <<>>,
           batch |-> [i \in 1..n |-> [success |-> i % 3 # 0, latency |-> (i * 17) % 43]]] : n \in 1..42}

-----------------------------------------------------------------------------
(* Traces, probes and manifests.                                           *)

TraceInputs ==
    UNION {[kind : {"trace"}, maxHops : {0, 1, 3, 4},
            world : [labels : {n}, cut : 1..n, silent : SUBSET (0..n), bare : SUBSET (0..n),
                     deaf : BOOLEAN]] : n \in 1..4}

Steps == [type : {"A", "AXFR"}, repeat : 1..2, random : BOOLEAN]
Outcomes == [rcode : BOOLEAN, answers : BOOLEAN]
ProbeInputs ==
    [kind : {"probe"}, plan : UNION {[1..n -> Steps] : n \in 1..2},
     oracle : [1..2 -> [1..2 -> Outcomes]]]

TrustHosts == [fqdn : {apex, www, NoName}, enabled : BOOLEAN, notes : {"", "role"}]
TrustItems(hosts) ==
    [domain : {apex}, environment : {"", "prod", "lab", "none"}, enabled : BOOLEAN,
     hosts : UNION {[1..n -> hosts] : n \in 0..2}]
SmallItems == {i \in TrustItems([fqdn : {apex, www}, enabled : {FALSE}, notes : {"role"}]) : i.enabled}

Rendered(item) ==
    <<Line(0, TRUE, "domain", item.domain)>>
    \o (IF item.environment = "" THEN <<>> ELSE <<Line(2, FALSE, "environment", item.environment)>>)
    \o <<Line(2, FALSE, "enabled", YesNo(item.enabled)), Line(2, FALSE, "key_hosts", "")>>
    \o FlattenSeq([k \in DOMAIN item.hosts |->
            <<Line(4, TRUE, "fqdn", item.hosts[k].fqdn),
              Line(6, FALSE, "enabled", YesNo(item.hosts[k].enabled)),
              Line(6, FALSE, "notes", item.hosts[k].notes)>>])

LinesOf(items, n) == Len(FlattenSeq([i \in 1..n |-> Rendered(items[i])]))
ManifestOf(items) ==
    [kind |-> "manifest", items |-> items,
     at |-> [n \in 1..(Len(items) + 1) |-> LinesOf(items, n - 1) + 1],
     lines |-> FlattenSeq([i \in DOMAIN items |-> Rendered(items[i])])]
ManifestInputs ==
    {ManifestOf(<<i>>) : i \in TrustItems(TrustHosts)}
    \cup {ManifestOf(<<i, j>>) : i \in SmallItems, j \in SmallItems}

-----------------------------------------------------------------------------
(* Reports.                                                                *)

Probe(protocol, seen, complete, elapsed) ==
    [protocol |-> protocol, seen |-> seen, complete |-> complete, elapsed |-> elapsed]

HttpSeen == [error : {FALSE}, status : {200, 299, 300, 404, 500}, time : {0, 20, 1499, 1500}]
            \cup [error : {TRUE}]
PingTimes == {0, 290, 310}
PingSeen == UNION {[error : {FALSE}, sent : {s}, times : UNION {[1..k -> PingTimes] : k \in 0..s}]
                    : s \in 1..4}
            \cup {[error |-> FALSE, sent |-> 6, times |-> [i \in 1..k |-> 5]] : k \in 0..6}
            \cup [error : {TRUE}]
MtrLines == [address : {dst, via}, avg : {0, 490, 510}]
RouteLines == [address : {dst, via}, times : UNION {[1..k -> {790, 810}] : k \in 1..2}]
              \cup {[address |-> NoAddress, times |-> <<>>]}
Path(n) == [i \in 1..n |-> [address |-> IF i = n THEN dst ELSE via, times |-> <<9>>]]
RoutesOver(lines) ==
    [error : {FALSE}, lines : UNION {[1..n -> lines] : n \in 0..3}] \cup [error : {TRUE}]
LongRoutes == [error : {FALSE}, lines : {Path(n) : n \in {19, 20, 21}}]

ReportInputs ==
    [kind : {"report"}, probe :
        {Probe("http", s, FALSE, 2000) : s \in HttpSeen}
        \cup {Probe("ping", s, FALSE, 2000) : s \in PingSeen}
        \cup {Probe("mtr", s, w, 2000) : s \in RoutesOver(MtrLines), w \in BOOLEAN}
        \cup {Probe("traceroute", s, w, 3000) : s \in RoutesOver(RouteLines) \cup LongRoutes,
                                                w \in BOOLEAN}]

Shown == {StoredRow(Probe("http", [error |-> FALSE, status |-> 200, time |-> 5], FALSE, 9)),
          StoredRow(Probe("http", [error |-> TRUE], FALSE, 9)),
          StoredRow(Probe("ping", [error |-> FALSE, sent |-> 1, times |-> <<400>>], FALSE, 500)),
          PendingRow("traceroute"), PendingRow("dns")}
StoredRows(region, node, probes) ==
    [time : 1..2, region : {region}, node : {node}, probe : probes]
Lost == StoredRow(Probe("mtr", [error |-> FALSE, lines |-> <<>>], FALSE, 9))
SomeRows == UNION {[1..n -> StoredRows(ra, 1, Shown) \cup StoredRows(dead, Nil, Shown)] : n \in 0..2}
OtherRows == UNION {[1..n -> StoredRows(rb, 1, {Lost})] : n \in 0..3}

Place(code, name, active) == [code |-> code, name |-> name, active |-> active]
BoardInputs ==
    [kind : {"board"}, board :
        [single : SomeRows, batch : OtherRows, since : {1, 2}, protocol : {"all", "http", "dns"},
         nodes : {{1}},
         regions : {{Place(ra, "A", TRUE), Place(rb, "B", TRUE), Place(dead, "D", FALSE)},
                    {Place(ra, "A", TRUE), Place(rb, "A", TRUE)},
                    {Place(ra, "A", TRUE), Place(rb, "B", TRUE), Place(GlobalCode, "G", TRUE)}}]]

Scanned(job, recent) ==
    [job : {job}, host : 1..3, recent : {recent}, risks : {{}, {1}, {1, 2}, {3}}]
OneScan == {s \in UNION {[1..n -> Scanned(1, TRUE)] : n \in 0..2} :
                Len(s) = 2 => s[1].host # s[2].host}
OtherScan == {<<>>} \cup [1..1 -> Scanned(2, FALSE) \cup Scanned(2, TRUE)]
Queries(operations, page, size) ==
    [results : {x \o y : x \in OtherScan, y \in OneScan}, hosts : {{1}}, job : 0..1,
     asked : {<<>>, <<2, 1>>, <<1, 3, 2>>}, operation : operations, page : {page}, size : {size}]
SetInputs ==
    [kind : {"sets"}, query :
        Queries({"union", "intersection", "difference", "complement"}, 1, 2)
        \cup Queries({"union"}, 2, 1) \cup Queries({"union", "complement"}, 5, 1)]

MCInputs ==
    NodeInputs \cup RegionInputs \cup HostScans \cup ApexScans \cup NsScans
    \cup OptionInputs \cup DnsInputs
    \cup TextInputs \cup CsvInputs \cup DayInputs \cup TraceInputs \cup ProbeInputs
    \cup ManifestInputs \cup ReportInputs \cup BoardInputs \cup SetInputs
=============================================================================
