------------------------------ MODULE SetReport ------------------------------
(***************************************************************************)
(* Set analysis of scan results (internal/service/scan_reporting.go        *)
(* 394-643): hosts are elements, each risk type is the set of hosts that   *)
(* show it, and the page asked for is one of four operations on the sets   *)
(* chosen.                                                                 *)
(*                                                                         *)
(* The results of one environment come in the order they were stored, a    *)
(* result being [job, host, recent, risks]; hosts and risk types are       *)
(* positive numbers in the order of their names.  A host that was deleted  *)
(* meanwhile has no name: each of its results is an element of its own.    *)
(***************************************************************************)
EXTENDS Ordering, SequencesExt, FiniteSetsExt

CONSTANT ResultLimit    \* results that are looked at: 1000

ASSUME ResultLimitAssumption == ResultLimit \in Nat \ {0}

\* What is asked of the results: a scan writes one result for each of its hosts.
SetQuery(q) ==
    /\ DOMAIN q = {"results", "hosts", "job", "asked", "operation", "page", "size"}
    /\ q.results \in Seq({q.results[i] : i \in DOMAIN q.results})
    /\ \A i \in DOMAIN q.results :
            /\ q.results[i].host \in Nat \ {0}
            /\ q.results[i].risks \subseteq Nat /\ IsFiniteSet(q.results[i].risks)
    /\ \A i, j \in DOMAIN q.results :
            q.results[i].job = q.results[j].job /\ q.results[i].host = q.results[j].host => i = j
    /\ q.asked \in Seq({q.asked[i] : i \in DOMAIN q.asked})
    /\ q.operation \in {"union", "intersection", "difference", "complement"}
    /\ q.page \in Nat \ {0} /\ q.size \in Nat \ {0}

\* The ids of the results looked at, newest first.
Selected(results, job) ==
    LET ids == {i \in DOMAIN results :
                    IF job = 0 THEN results[i].recent ELSE results[i].job = job}
    IN FirstOf(InOrder(ids, [i \in ids |-> <<-i>>]), ResultLimit)

\* Mutant: all deleted hosts have one name.
KeyOfDeleted(results, hosts, i) == IF results[i].host \in hosts THEN results[i].host ELSE 0

KeyOf(results, hosts, i) ==
    IF results[i].host \in hosts THEN results[i].host ELSE -i

\* What is looked at: elements with their result and its risks, newest first.
Elements(q) ==
    LET ids == Selected(q.results, q.job)
    IN [n \in DOMAIN ids |-> [key |-> KeyOf(q.results, q.hosts, ids[n]), result |-> ids[n],
                              risks |-> q.results[ids[n]].risks]]

Universe(elements) == {elements[n].key : n \in DOMAIN elements}

\* Mutant: only the newest result of a host counts.
SetOfNewest(elements, risk) ==
    {elements[n].key : n \in {m \in DOMAIN elements :
        /\ risk \in elements[m].risks
        /\ \A l \in 1..(m - 1) : elements[l].key # elements[m].key}}

\* The hosts that show a risk in any of their results.
SetOf(elements, risk) ==
    {elements[n].key : n \in {m \in DOMAIN elements : risk \in elements[m].risks}}

\* The result shown for a host: its newest.
RowOf(elements, key) == elements[Min({n \in DOMAIN elements : elements[n].key = key})].result

\* The sets the operation is on: those asked for, else the three largest.
SetCodes(elements, asked) ==
    LET found == UNION {elements[n].risks : n \in DOMAIN elements}
        size(risk) == Cardinality(SetOf(elements, risk))
        largest == InOrder(found, [risk \in found |-> <<-size(risk), risk>>])
    IN IF asked # <<>> THEN asked ELSE FirstOf(largest, 3)

Operations(elements, codes) ==
    LET has(key, i) == key \in SetOf(elements, codes[i])
        inAny == {key \in Universe(elements) : \E i \in DOMAIN codes : has(key, i)}
        inAll == {key \in Universe(elements) : \A i \in DOMAIN codes : has(key, i)}
    IN [union |-> inAny, complement |-> Universe(elements) \ inAny,
        intersection |-> IF codes = <<>> THEN {} ELSE inAll,
        difference |-> IF Len(codes) > 1 THEN SetOf(elements, codes[1]) \ inAll ELSE {}]

TotalPages(total, size) == (total + size - 1) \div size

\* Mutant: pages count from zero.
PageFromZero(ordered, page, size) ==
    LET total == TotalPages(Len(ordered), size)
        shown == IF page > total /\ total > 0 THEN total ELSE page
        start == Min({shown * size, Len(ordered)})
    IN SubSeq(ordered, start + 1, Min({start + size, Len(ordered)}))

PageOf(ordered, page, size) ==
    LET total == TotalPages(Len(ordered), size)
        shown == IF page > total /\ total > 0 THEN total ELSE page
        start == Min({(shown - 1) * size, Len(ordered)})
    IN SubSeq(ordered, start + 1, Min({start + size, Len(ordered)}))

Rows(elements, keys) ==
    [n \in DOMAIN keys |-> [key |-> keys[n], result |-> RowOf(elements, keys[n])]]

Analysis(q, elements, codes, operations) ==
    LET keys == operations[q.operation]
        ordered == InOrder(keys, [key \in keys |-> <<key>>])
    IN [operations |-> operations, codes |-> codes, total |-> Len(ordered),
        rows |-> Rows(elements, PageOf(ordered, q.page, q.size))]

BuildSetAnalysis(q) ==
    LET elements == Elements(q)
        codes == SetCodes(elements, q.asked)
    IN Analysis(q, elements, codes, Operations(elements, codes))
=============================================================================
