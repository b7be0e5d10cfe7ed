------------------------------ MODULE Manifest ------------------------------
(***************************************************************************)
(* The manifest from which trusted domains are imported: the subset of     *)
(* YAML that is read line by line and the normalisation of its items       *)
(* (internal/service/trust.go 113-307), as operators.                      *)
(*                                                                         *)
(* A line is [indent, dash, key, value]: a key of "" if it has no colon.   *)
(* Lines that are empty or a comment are left out, and none comes first.   *)
(* Names are normalised already; enabled is the only flag kept here.       *)
(***************************************************************************)
EXTENDS Ordering, SequencesExt

CONSTANTS
    NoName,         \* the name an entry has that gives none
    Environments,   \* "prod" and "lab"
    Refused         \* a manifest that is refused

Line(indent, dash, key, value) ==
    [indent |-> indent, dash |-> dash, key |-> key, value |-> value]

NewHost(name) == [fqdn |-> name, enabled |-> TRUE, notes |-> ""]
NewItem(name) == [domain |-> name, environment |-> "", enabled |-> TRUE, hosts |-> <<>>]

NoHost == [fqdn |-> "none"]

\* Reader: the items read, whether one is being read ("item") and its hosts have
\* begun ("hosts"), that item, and its host being read.
Reader == [items |-> <<>>, reads |-> "nothing", item |-> NewItem(NoName), host |-> NoHost]

\* Mutant: the host that is being read is forgotten.
flushNoHost(s) == [s EXCEPT !.host = NoHost]

flushHost(s) ==
    IF s.host = NoHost THEN s
    ELSE [s EXCEPT !.item.hosts = Append(@, s.host), !.host = NoHost]

flushItem(s) ==
    LET f == flushHost(s)
    IN IF f.reads = "nothing" THEN f
       ELSE [f EXCEPT !.items = Append(@, f.item), !.reads = "nothing"]

applyItemField(item, key, value) ==
    CASE key = "domain" -> [item EXCEPT !.domain = value]
      [] key = "environment" -> [item EXCEPT !.environment = value]
      [] key = "enabled" -> [item EXCEPT !.enabled = value # "false"]
      [] OTHER -> item

applyHostField(host, key, value) ==
    CASE key = "fqdn" -> [host EXCEPT !.fqdn = value]
      [] key = "enabled" -> [host EXCEPT !.enabled = value # "false"]
      [] key = "notes" -> [host EXCEPT !.notes = value]
      [] OTHER -> host

\* Once the hosts have begun a field belongs to the last host.
field(s, line) ==
    CASE s.reads = "hosts" /\ s.host # NoHost ->
            [s EXCEPT !.host = applyHostField(@, line.key, line.value)]
      [] s.reads = "item" -> [s EXCEPT !.item = applyItemField(@, line.key, line.value)]
      [] OTHER -> s

\* The name a list entry gives: the value of the expected key, or the whole text.
NameOf(line, key) == IF line.key \in {key, ""} THEN line.value ELSE <<line.key, line.value>>

\* One line that is neither empty nor a comment.  A line without a key is
\* dropped, that of a bare host too.
ReadLine(s, line) ==
    IF line.indent = 0
    THEN IF ~ line.dash THEN s
         ELSE [flushItem(s) EXCEPT !.reads = "item",
                                   !.item = NewItem(NameOf(line, "domain"))]
    ELSE IF s.reads = "nothing" \/ line.key = "" THEN s
    ELSE IF line.dash
    THEN IF s.reads # "hosts" THEN s
         ELSE [flushHost(s) EXCEPT !.host = NewHost(NameOf(line, "fqdn"))]
    ELSE IF line.key \in {"key_hosts", "hosts"} THEN [flushHost(s) EXCEPT !.reads = "hosts"]
    ELSE field(s, line)

\* The reader after so many lines.
Reading(lines) ==
    LET after[n \in 0..Len(lines)] ==
            IF n = 0 THEN Reader ELSE ReadLine(after[n - 1], lines[n])
    IN after

\* A first line that starts no item is an error, as is a text without items.
parseYAMLSubsetManifest(lines) ==
    LET items == flushItem(Reading(lines)[Len(lines)]).items
    IN IF items = <<>> \/ lines[1].indent # 0 \/ ~ lines[1].dash THEN Refused ELSE items

-----------------------------------------------------------------------------
(* The documented form: an item gives its domain, its environment if it is *)
(* not the usual one, whether it is enabled, and its hosts in three lines  *)
(* each.  at is the line each item begins at.                              *)

YesNo(flag) == IF flag THEN "true" ELSE "false"

\* The line of an item that begins its hosts.
HostsLine(item, start) == start + (IF item.environment = "" THEN 2 ELSE 3)

WrittenHost(lines, host, before) ==
    /\ host = [fqdn |-> host.fqdn, enabled |-> host.enabled, notes |-> host.notes]
    /\ host.enabled \in BOOLEAN
    /\ lines[before + 1] = Line(4, TRUE, "fqdn", host.fqdn)
    /\ lines[before + 2] = Line(6, FALSE, "enabled", YesNo(host.enabled))
    /\ lines[before + 3] = Line(6, FALSE, "notes", host.notes)

WrittenItem(lines, item, start) ==
    LET begins == HostsLine(item, start) IN
    /\ item = [domain |-> item.domain, environment |-> item.environment,
               enabled |-> item.enabled, hosts |-> item.hosts]
    /\ item.enabled \in BOOLEAN
    /\ item.hosts \in Seq({item.hosts[k] : k \in DOMAIN item.hosts})
    /\ lines[start] = Line(0, TRUE, "domain", item.domain)
    /\ item.environment # "" =>
            lines[start + 1] = Line(2, FALSE, "environment", item.environment)
    /\ lines[begins - 1] = Line(2, FALSE, "enabled", YesNo(item.enabled))
    /\ lines[begins] = Line(2, FALSE, "key_hosts", "")
    /\ \A k \in DOMAIN item.hosts : WrittenHost(lines, item.hosts[k], begins + 3 * (k - 1))

Written(lines, items, at) ==
    /\ lines \in Seq({lines[n] : n \in DOMAIN lines})
    /\ items \in Seq({items[i] : i \in DOMAIN items}) /\ items # <<>>
    /\ at \in [1..(Len(items) + 1) -> Nat]
    /\ at[1] = 1 /\ at[Len(items) + 1] = Len(lines) + 1
    /\ \A i \in DOMAIN items :
            /\ WrittenItem(lines, items[i], at[i])
            /\ at[i + 1] = HostsLine(items[i], at[i]) + 3 * Len(items[i].hosts) + 1

-----------------------------------------------------------------------------
\* Mutant: the apex is added beside one that is listed.
withApexAlways(item) ==
    [item EXCEPT !.hosts = <<[NewHost(item.domain) EXCEPT !.notes = "auto apex"]>> \o @]

\* The hosts once each, with the apex in front if it is not listed.
withApex(item) ==
    LET first(i) == \A j \in 1..(i - 1) : item.hosts[j].fqdn # item.hosts[i].fqdn
        hosts == Kept(item.hosts, {i \in DOMAIN item.hosts :
                                        first(i) /\ item.hosts[i].fqdn # NoName})
    IN [item EXCEPT !.hosts =
            IF \E i \in DOMAIN hosts : hosts[i].fqdn = item.domain THEN hosts
            ELSE <<[NewHost(item.domain) EXCEPT !.notes = "auto apex"]>> \o hosts]

EnvironmentOf(item) == IF item.environment = "" THEN "prod" ELSE item.environment

normalizeManifest(items) ==
    IF \E i \in DOMAIN items :
            \/ items[i].domain = NoName
            \/ EnvironmentOf(items[i]) \notin Environments
            \/ EnvironmentOf(items[i]) # EnvironmentOf(items[1])
    THEN Refused
    ELSE [items |-> [i \in DOMAIN items |->
                        [withApex(items[i]) EXCEPT !.environment = EnvironmentOf(items[i])]],
          environment |-> IF items = <<>> THEN "prod" ELSE EnvironmentOf(items[1])]
=============================================================================
