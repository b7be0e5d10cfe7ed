------------------------------ MODULE RiskRules -----------------------------
(***************************************************************************)
(* The risk catalog and the rules by which the observation of a host is    *)
(* judged against its approved records (internal/risk/catalog.go and       *)
(* engine.go), as operators.                                               *)
(*                                                                         *)
(* An observed record is [section, name, type, value, ttl], an approved    *)
(* one has min and max instead of a ttl.  Names and values are compared as  *)
(* model values, normalised already.  Every value of an address record is  *)
(* an address.                                                             *)
(***************************************************************************)
EXTENDS Integers, FiniteSets, Sequences, SequencesExt, FiniteSetsExt

CONSTANT Private    \* addresses that are private, loopback or link-local

NoBound == -1       \* a ttl that is not bounded on this side

RiskSeverity ==
    [unreach |-> "high", no_service |-> "high", refused |-> "high",
     empty_answer |-> "medium", record_deletion |-> "medium",
     resolution_path_anomaly |-> "high", latency_distribution_anomaly |-> "medium",
     route_path_anomaly |-> "medium", ns_ip_hijack |-> "medium", ns_name_hijack |-> "medium",
     resolver_divergence |-> "medium", wildcard_poisoning |-> "high",
     dns_rebind |-> "critical", axfr_exposed |-> "high"]

Risks == DOMAIN RiskSeverity

highConfidenceRisks == {"unreach", "no_service", "refused"}
untieredRisks == {"wildcard_poisoning", "dns_rebind", "axfr_exposed"}

ConfidenceTier(risk) ==
    IF risk \in highConfidenceRisks THEN "high_confidence"
    ELSE IF risk \in untieredRisks THEN "" ELSE "review_required"

HighestConfidenceTier(risks) ==
    LET tiers == {ConfidenceTier(r) : r \in risks} IN
    IF "high_confidence" \in tiers THEN "high_confidence"
    ELSE IF "review_required" \in tiers THEN "review_required" ELSE ""

SeverityRank(severity) ==
    CASE severity = "critical" -> 4 [] severity = "high" -> 3
      [] severity = "medium" -> 2 [] severity = "low" -> 1 [] OTHER -> 0

\* Mutant: a host without risks has a severity of its own.
SeverityOfNone(risks) == IF risks = {} THEN "none" ELSE "low"

HighestSeverity(risks) ==
    IF risks = {} THEN ""
    ELSE RiskSeverity[CHOOSE r \in risks : \A s \in risks :
            SeverityRank(RiskSeverity[r]) >= SeverityRank(RiskSeverity[s])]

-----------------------------------------------------------------------------
(* The sets the rules compare.                                             *)

Addresses == {"A", "AAAA"}
Primary == Addresses \cup {"CNAME"}

Answers(records) == {r \in records : r.section = "answer"}
NameTypes(records) == {<<r.name, r.type>> : r \in Answers(records)}

primaryExpected(baseline) == {r.value : r \in {b \in Answers(baseline) : b.type \in Primary}}
baselineNSNames(baseline) == {r.value : r \in {b \in baseline : b.type = "NS"}}
baselineGlueIPs(baseline) ==
    {r.value : r \in {b \in baseline : b.type \in Addresses
                                         /\ b.name \in baselineNSNames(baseline)}}

primaryObserved(host, obs) ==
    {r.value : r \in {o \in Answers(obs.records) : o.type \in Primary /\ o.name = host.name}}

ipClass(ip) == IF ip \in Private THEN "private" ELSE "public"

\* Bounds of the approved addresses: the smallest and the largest there are.
TTLMins(baseline) == {r.min : r \in {b \in Answers(baseline) : b.type \in Addresses}} \ {NoBound}
TTLMaxs(baseline) == {r.max : r \in {b \in Answers(baseline) : b.type \in Addresses}} \ {NoBound}

ttlOut(host, baseline, obs) ==
    \E r \in Answers(obs.records) :
        /\ r.type = "A" /\ r.name = host.name
        /\ \/ TTLMins(baseline) # {} /\ r.ttl < Min(TTLMins(baseline))
           \/ TTLMaxs(baseline) # {} /\ r.ttl > Max(TTLMaxs(baseline))

rebindHit(host, baseline, obs) ==
    /\ ~ host.allowRebind /\ Cardinality(obs.ips) > 1
    /\ \/ Cardinality({ipClass(ip) : ip \in obs.ips}) > 1
       \/ baseline # {} /\ ~ obs.ips \subseteq primaryExpected(baseline)
       \/ ttlOut(host, baseline, obs)

\* Mutant: an observation without answers is not compared.
deletionIfAnswered(baseline, obs) ==
    Answers(obs.records) # {} /\ ~ NameTypes(baseline) \subseteq NameTypes(obs.records)

\* Mutant: the records of all sections are looked for among the answers.
deletionOfAny(baseline, obs) ==
    ~ {<<r.name, r.type>> : r \in baseline} \subseteq NameTypes(obs.records)

recordDeletionHit(baseline, obs) ==
    ~ NameTypes(baseline) \subseteq NameTypes(obs.records)

nsNameHit(baseline, obs) ==
    LET names == baselineNSNames(baseline)
    IN names # {} /\ obs.ns # {} /\ names # obs.ns

\* The addresses of the name servers have nothing in common with the approved.
nsIPHit(baseline, obs) ==
    LET ips == baselineGlueIPs(baseline)
    IN ips # {} /\ obs.glue # {} /\ ips \cap obs.glue = {}

\* resolvers: resolver -> the addresses it answered with.
divergenceHit(obs) ==
    Cardinality({obs.resolvers[r] : r \in DOMAIN obs.resolvers}) > 1

\* 95th percentile by rank of the samples, with three of them at least.
p95(samples) ==
    SortSeq(samples, LAMBDA a, b : a < b)[(Len(samples) * 95) \div 100 + 1]

latencyHit(samples) == Len(samples) >= 3 /\ p95(samples) > 2000

\* Evaluate and SuspiciousOf: the risks that are suspicious; all others get
\* a normal verdict.
Evaluate(host, baseline, obs) ==
    LET expected == primaryExpected(baseline) # {}
        hit == [unreach |-> expected /\ obs.kind = "timeout",
                no_service |-> expected /\ obs.kind \in {"servfail", "connection_refused"},
                refused |-> obs.rcode = "REFUSED",
                empty_answer |-> expected /\ obs.rcode = "NOERROR"
                                    /\ primaryObserved(host, obs) = {},
                record_deletion |-> recordDeletionHit(baseline, obs),
                resolution_path_anomaly |-> obs.traceBroken,
                latency_distribution_anomaly |-> latencyHit(obs.samples),
                route_path_anomaly |-> FALSE,
                ns_ip_hijack |-> nsIPHit(baseline, obs),
                ns_name_hijack |-> nsNameHit(baseline, obs),
                resolver_divergence |-> divergenceHit(obs),
                wildcard_poisoning |-> ~ host.allowWildcard /\ obs.wildcard,
                dns_rebind |-> rebindHit(host, baseline, obs),
                axfr_exposed |-> ~ host.allowAXFR /\ obs.axfr]
    IN {r \in Risks : hit[r]}
=============================================================================
