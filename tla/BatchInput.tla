----------------------------- MODULE BatchInput -----------------------------
(***************************************************************************)
(* The targets of a batch task as they are read from a text or a file      *)
(* (internal/service/batch.go 55-171), and the daily figures made of its   *)
(* rows (810-898), as operators.                                           *)
(*                                                                         *)
(* A value is [name, dots]: a name in lower case followed by so many dots; *)
(* Empty and Comment are what trims to nothing or starts with #.           *)
(***************************************************************************)
EXTENDS Ordering, SequencesExt, FiniteSetsExt

CONSTANTS
    Empty, Comment,
    Domains,            \* names batchDomainRe matches
    Headers,            \* names of the column csvTargetColumn looks for
    MaxValidTarget

ASSUME DomainsAssumption == Empty \notin Domains

Nothing == <<>>         \* of an input that is refused, of a day without rows

\* The records of a CSV file have at least one field.
CsvFile(records) ==
    /\ records \in Seq({records[i] : i \in DOMAIN records})
    /\ \A i \in DOMAIN records :
            /\ records[i] \in Seq({records[i][j] : j \in DOMAIN records[i]})
            /\ records[i] # <<>>

\* NormalizeBatchDomain removes one dot.
NormalizeBatchDomain(v) == [v EXCEPT !.dots = IF @ > 0 THEN @ - 1 ELSE 0]

IsValidBatchDomain(v) == v.name \in Domains /\ v.dots = 0

\* What normalizes to the empty string: no name and at most one dot.
IsBlank(v) == v.name = Empty /\ v.dots = 0

\* Rows of a text: the lines that are neither empty nor a comment.
TextRows(lines) ==
    Kept([i \in DOMAIN lines |-> [line |-> i, value |-> lines[i]]],
         {i \in DOMAIN lines : lines[i] \notin {Empty, Comment}})

\* The first column with a known header, or 0.
csvTargetColumn(record) ==
    LET known == {i \in DOMAIN record : record[i] \notin {Empty, Comment}
                                         /\ record[i].name \in Headers}
    IN IF known = {} THEN 0 ELSE Min(known)

\* Mutant: the first record is taken for a header.
CsvRowsBelow(records) ==
    TextRows([i \in DOMAIN records |-> IF i = 1 THEN Empty ELSE records[i][1]])

\* Rows of a CSV file: none if its records differ in length; with a header
\* the column it names, otherwise the first.
CsvRows(records) ==
    IF records = <<>> \/ \E i \in DOMAIN records : Len(records[i]) # Len(records[1]) THEN <<>>
    ELSE LET column == csvTargetColumn(records[1])
         IN TextRows([i \in DOMAIN records |->
                        IF column = 0 THEN records[i][1]
                        ELSE IF i = 1 THEN Empty ELSE records[i][column]])

\* Mutant: values are compared as they were written.
MarkRaw(rows, i) ==
    IF ~ IsValidBatchDomain(NormalizeBatchDomain(rows[i].value)) THEN "invalid"
    ELSE IF \E j \in 1..(i - 1) : rows[j].value = rows[i].value THEN "duplicate" ELSE "valid"

\* The input status of row i: the first of equal names is valid, the later
\* ones duplicates.
Mark(rows, i) ==
    LET target == NormalizeBatchDomain(rows[i].value) IN
    IF ~ IsValidBatchDomain(target) THEN "invalid"
    ELSE IF \E j \in 1..(i - 1) : NormalizeBatchDomain(rows[j].value) = target
         THEN "duplicate" ELSE "valid"

\* The rows that name something.
NamedRows(all) ==
    Kept(all, {i \in DOMAIN all : ~ IsBlank(NormalizeBatchDomain(all[i].value))})

ParseBatchInput(all) ==
    LET rows == NamedRows(all)
        records == [i \in DOMAIN rows |->
                        [line |-> rows[i].line,
                         target |-> NormalizeBatchDomain(rows[i].value),
                         status |-> Mark(rows, i)]]
        valid == Cardinality({i \in DOMAIN records : records[i].status = "valid"})
    IN IF all = <<>> \/ valid = 0 \/ valid > MaxValidTarget THEN Nothing ELSE records

-----------------------------------------------------------------------------
(* Daily figures of one region and protocol.  single and batch are the     *)
(* rows of the day by source, sequences of [success, latency] with a       *)
(* latency of -1 for none.                                                 *)

DayRows(rows) ==
    /\ rows \in Seq({rows[i] : i \in DOMAIN rows})
    /\ \A i \in DOMAIN rows : rows[i].latency \in Int

percentile(sorted, p) == sorted[((Len(sorted) - 1) * p) \div 100 + 1]

Sampled(rows) == {i \in DOMAIN rows : rows[i].latency >= 0}

\* Mutant: the samples are taken in the order of the rows.
LatenciesAsRead(rows) ==
    LET order == InOrder(Sampled(rows), [i \in Sampled(rows) |-> <<i>>])
    IN [k \in DOMAIN order |-> rows[order[k]].latency]

Latencies(rows) ==
    LET order == InOrder(Sampled(rows), [i \in Sampled(rows) |-> <<rows[i].latency, i>>])
    IN [k \in DOMAIN order |-> rows[order[k]].latency]

\* The groups of the second query replace those of the first, so that only
\* batch rows are counted, while latencies come from both sources.
AggregateDailyMetrics(single, batch) ==
    LET latencies == Latencies(single \o batch)
        done == Cardinality({i \in DOMAIN batch : batch[i].success})
    IN IF batch = <<>> THEN Nothing
       ELSE [total |-> Len(batch), success |-> done,
             ratio |-> (10000 * done + Len(batch) \div 2) \div Len(batch),
             p50 |-> IF latencies = <<>> THEN -1 ELSE percentile(latencies, 50),
             p95 |-> IF latencies = <<>> THEN -1 ELSE percentile(latencies, 95)]
=============================================================================
