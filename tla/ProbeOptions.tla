---------------------------- MODULE ProbeOptions ----------------------------
(***************************************************************************)
(* How the options of a probe are cleaned: once when a batch task is       *)
(* created (internal/service/batch.go 175-227) and by the prober of each   *)
(* protocol when it runs (internal/engine/prober: dns.go 54-275, ping.go   *)
(* 18-28, http.go 18-24, route.go 18-75), and the DNS query plan that is   *)
(* made of them.                                                           *)
(*                                                                         *)
(* A raw option is a number, Absent or Junk (of another type or not        *)
(* parsable).  Timeouts are in tenths of a second; those a cleaner takes   *)
(* as integers lose their fraction.                                        *)
(***************************************************************************)
EXTENDS Integers, Sequences

CONSTANTS
    Absent, Junk,   \* raw options that are not numbers
    Example,        \* the name "example.com"
    Types, Transports, Modes    \* accepted record types, transports, server modes

ASSUME OptionsAssumption ==
    /\ {Absent, Junk} \cap Int = {} /\ Absent \notin Types \cup Transports \cup Modes
    /\ "A" \in Types /\ {"udp", "tcp"} \subseteq Transports /\ "resolver" \in Modes

Protocols == {"http", "ping", "dns", "mtr", "traceroute"}

MaxInt(a, b) == IF a > b THEN a ELSE b

\* toInt and toFloat: what is not a number is the default; 0 is as well.
Given(raw, default) == IF raw \in {Absent, Junk, 0} THEN default ELSE raw

\* clampInt, clampFloat.
Clamp(raw, knob) ==
    LET v == Given(raw, knob.default)
    IN IF v < knob.min THEN knob.min ELSE IF v > knob.max THEN knob.max ELSE v

Knob(min, max, default) == [min |-> min, max |-> max, default |-> default]

Whole(raw) == IF raw \in {Absent, Junk} \/ raw % 10 = 0 THEN raw
              ELSE IF raw < 0 THEN -10 * ((-raw) \div 10) ELSE 10 * (raw \div 10)

ClampWhole(raw, knob) == Clamp(Whole(raw), knob)

-----------------------------------------------------------------------------
(* Batch creation.  Raw options of the numeric kind are                    *)
(* [timeout, count, hops].                                                 *)

\* cleanSingleBatchOptions.
CleanBatch(protocol, raw) ==
    CASE protocol = "http" -> [timeout |-> ClampWhole(raw.timeout, Knob(10, 300, 100))]
      [] protocol = "ping" ->
            [count |-> Clamp(raw.count, Knob(1, 10, 4)),
             timeout |-> ClampWhole(raw.timeout, Knob(10, 100, 20))]
      [] OTHER ->
            [hops |-> Clamp(raw.hops, Knob(1, 30, 20)),
             count |-> Clamp(raw.count, Knob(1, 10, 3)),
             timeout |-> ClampWhole(raw.timeout, Knob(10, 100, 20))]

\* Mutant: the hops are looked for under another name.
OptButHops(options, field) ==
    IF field \in DOMAIN options /\ field # "hops" THEN options[field] ELSE Absent

Opt(options, field) == IF field \in DOMAIN options THEN options[field] ELSE Absent

\* What the prober makes of the options it is run with.
CleanProber(protocol, options) ==
    CASE protocol = "http" -> [timeout |-> Clamp(Opt(options, "timeout"), Knob(1, 1200, 100))]
      [] protocol = "ping" ->
            [count |-> Clamp(Opt(options, "count"), Knob(1, 10, 4)),
             timeout |-> ClampWhole(Opt(options, "timeout"), Knob(10, 100, 20))]
      [] protocol = "mtr" ->
            [hops |-> Clamp(Opt(options, "hops"), Knob(1, 30, 10)),
             count |-> Clamp(Opt(options, "count"), Knob(1, 10, 1)),
             timeout |-> Clamp(Opt(options, "timeout"), Knob(1, 100, 10))]
      [] protocol = "traceroute" ->
            [hops |-> Clamp(Opt(options, "hops"), Knob(1, 30, 12)),
             count |-> Clamp(Opt(options, "count"), Knob(1, 10, 3)),
             timeout |-> Clamp(Opt(options, "timeout"), Knob(1, 100, 10))]

\* Seconds after which the context of a prober ends, and the seconds the
\* command may take with the arguments it is given: ping waits timeout for
\* each packet and at least 2 seconds, traceroute for each query of each hop.
Seconds(timeout) == MaxInt(timeout \div 10, 1)

\* Mutant: the waits of one hop.
BudgetOfOneHop(protocol, o) ==
    IF protocol = "ping" THEN o.count * (o.timeout \div 10) + 5
    ELSE MaxInt(15, o.count * Seconds(o.timeout) + 10)

Budget(protocol, o) ==
    CASE protocol = "ping" -> o.count * (o.timeout \div 10) + 5
      [] protocol = "mtr" -> MaxInt(20, o.count * Seconds(o.timeout) + 15)
      [] protocol = "traceroute" -> MaxInt(15, o.hops * o.count * Seconds(o.timeout) + 10)

LongestRun(protocol, o) ==
    CASE protocol = "ping" -> MaxInt(2, o.count * (o.timeout \div 10))
      [] protocol = "mtr" -> o.count
      [] protocol = "traceroute" -> o.hops * o.count * Seconds(o.timeout)

\* Tenths of a second after which the caller's context ends whatever the prober
\* is doing: a single probe's leaves one second above its timeout, once.
CallerBudget(caller, raw) ==
    CASE caller = "batch" -> 300
      [] raw.timeout \notin {Absent, Junk} /\ raw.timeout > 0 /\ caller = "single" ->
            raw.timeout + 10
      [] OTHER -> 110

-----------------------------------------------------------------------------
(* DNS.  Raw options are [type, transport, mode, repeat, random, plan] with *)
(* a plan of raw steps [name, type, transport, mode, repeat, random] that   *)
(* may be empty; cleaned options have the same fields and a plan of steps.  *)

Rejected == [error |-> TRUE]
IsRejected(o) == "error" \in DOMAIN o

Text(raw, default) == IF raw = Absent THEN default ELSE raw
Flag(raw) == raw = TRUE

\* Mutant: the repetitions come on top of the first query.
RepeatBesides(raw) == 1 + Clamp(raw, Knob(1, 5, 1))

Repeat(raw) == Clamp(raw, Knob(1, 5, 1))

\* AXFR needs a stream.
TransportOf(type, transport) == IF type = "AXFR" THEN "tcp" ELSE transport

Acceptable(raw) ==
    /\ Text(raw.type, "A") \in Types
    /\ Text(raw.transport, "udp") \in Transports
    /\ Text(raw.mode, "resolver") \in Modes

normalizeQueryStep(raw, target) ==
    LET type == Text(raw.type, "A") IN
    [name |-> Text(raw.name, target), type |-> type,
     transport |-> TransportOf(type, Text(raw.transport, "udp")),
     mode |-> Text(raw.mode, "resolver"),
     repeat |-> Repeat(raw.repeat), random |-> Flag(raw.random)]

\* The plan of options without one; the random label is not passed on.
buildQueryPlan(target, raw) ==
    LET type == Text(raw.type, "A") IN
    << [name |-> target, type |-> type,
        transport |-> TransportOf(type, Text(raw.transport, "udp")),
        mode |-> Text(raw.mode, "resolver"),
        repeat |-> Repeat(raw.repeat), random |-> FALSE] >>

CleanDNSOptions(target, raw) ==
    IF ~ Acceptable(raw) \/ \E i \in DOMAIN raw.plan : ~ Acceptable(raw.plan[i])
    THEN Rejected
    ELSE [type |-> Text(raw.type, "A"), transport |-> Text(raw.transport, "udp"),
          mode |-> Text(raw.mode, "resolver"), repeat |-> Repeat(raw.repeat),
          random |-> Flag(raw.random),
          plan |-> IF raw.plan = <<>> THEN buildQueryPlan(target, raw)
                   ELSE [i \in DOMAIN raw.plan |-> normalizeQueryStep(raw.plan[i], target)]]

\* The plan of a single probe: tasks.go cleans the options to refuse bad ones
\* and keeps them as they came.
SinglePlan(target, raw) == CleanDNSOptions(target, raw)

\* The plan of a batch probe of target: what CreateBatchTask stores is the
\* cleaned options, plan included.
BatchPlan(target, raw) ==
    LET stored == CleanDNSOptions(Example, raw)
    IN IF IsRejected(stored) THEN Rejected ELSE CleanDNSOptions(target, stored)
=============================================================================
