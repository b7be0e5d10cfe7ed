------------------------------ MODULE DnsTrace ------------------------------
(***************************************************************************)
(* The trace of a resolution path from the root to the authority           *)
(* (internal/engine/dnsclient/client.go 420-526), and the DNS probe that   *)
(* takes it after the queries of its plan (internal/engine/prober/dns.go   *)
(* 278-427), as operators.                                                 *)
(*                                                                         *)
(* A world is [labels, cut, silent, bare, deaf]: a name of so many labels, *)
(* its suffixes of up to cut labels being zones; the levels whose servers  *)
(* are silent, those whose referrals carry no addresses, and whether the   *)
(* resolver that is then asked does not answer.  Level 0 is the root; the  *)
(* servers of a level know the zones above the cut that way DNS has it.    *)
(***************************************************************************)
EXTENDS Integers, Sequences, SequencesExt

CONSTANT DefaultHops    \* 8

ASSUME HopsAssumption == DefaultHops \in Nat \ {0}

None == -1

\* The level whose servers the answer of a server of the given level names,
\* when it is asked without recursion for the NS of the suffix with so many
\* labels: a referral one level down, its own NS, or nothing (outside of its
\* zone, or below the cut).
NamedLevel(world, level, labels) ==
    IF level \in world.silent THEN None
    ELSE CASE level < labels /\ level < world.cut -> level + 1
           [] labels = level /\ level > 0 -> level
           [] OTHER -> None

\* Addresses come with the referral or from the resolver.
Reachable(world, level) == level \notin world.bare \/ ~ world.deaf

\* Mutant: the suffix grows from the top-level domain on.
queryFromTop(world, depth) == depth + 1

\* Labels of the name asked at a depth: labels are taken off at the left.
queryLabels(world, depth) == world.labels - depth

Limit(world, maxHops) == IF maxHops < world.labels THEN maxHops ELSE world.labels

\* hop[d]: what hop d asks, whom, and whose addresses it leaves for the next,
\* None if there are none.
Trail(world) ==
    LET hop[d \in 0..world.labels] ==
            LET level == IF d = 0 THEN 0 ELSE hop[d - 1].next
                labels == queryLabels(world, d)
                named == IF level = None THEN None ELSE NamedLevel(world, level, labels)
            IN [level |-> level, labels |-> labels, named |-> named,
                next |-> IF named # None /\ Reachable(world, level) THEN named ELSE None]
    IN hop

Hops(world, maxHops) == [d \in 0..(Limit(world, maxHops) - 1) |-> Trail(world)[d]]

\* BrokenAt: labels of the name at which the trace ended early, or None.
TraceResolutionPath(world, maxHops) ==
    LET hops == Hops(world, IF maxHops <= 0 THEN DefaultHops ELSE maxHops)
        taken == {d \in DOMAIN hops : hops[d].level # None}
        broken == {d \in taken : hops[d].next = None}
    IN [hops |-> [d \in taken |-> hops[d]],
        brokenAt |-> IF broken = {} THEN None ELSE hops[CHOOSE d \in broken : TRUE].labels]

-----------------------------------------------------------------------------
\* Every query of a plan, repeats included, in order, with the result an oracle
\* gives it: [rcode, answers], whether it is NOERROR and whether it has answers.
Runs(plan, oracle) ==
    FlattenSeq([i \in DOMAIN plan |->
                    [k \in 1..plan[i].repeat |-> plan[i] @@ oracle[i][k]]])

\* Mutant: a random name shows a wildcard if it is answered to the end.
WildcardAtLast(runs) == runs # <<>> /\ runs[Len(runs)].random /\ runs[Len(runs)].answers

WildcardHit(runs) == \E i \in DOMAIN runs : runs[i].random /\ runs[i].answers

\* ExecuteDNS: the verdict is that of the first query, the transfer that of the
\* last AXFR query, and the hash of a zone that of the last one transferred.
ExecuteDNS(plan, oracle) ==
    LET runs == Runs(plan, oracle)
        transfers == {i \in DOMAIN runs : runs[i].type = "AXFR"}
        last == runs[CHOOSE i \in transfers : \A j \in transfers : j <= i]
    IN [success |-> runs # <<>> /\ runs[1].rcode /\ runs[1].answers,
        wildcard |-> WildcardHit(runs),
        axfr |-> transfers # {} /\ last.rcode /\ last.answers,
        hash |-> \E i \in transfers : runs[i].answers]
=============================================================================
