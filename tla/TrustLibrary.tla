---------------------------- MODULE TrustLibrary ----------------------------
(***************************************************************************)
(* The trust library of internal/service/trust.go: manifest imports,       *)
(* candidate discovery, reviews that rebuild a host's baseline, and the    *)
(* build jobs that chain the three over the chunks of a file.  Requests    *)
(* and runs of build jobs are actors that interleave between statements;   *)
(* no transaction spans two of them.                                       *)
(*                                                                         *)
(* A record is represented by the batch that discovered it.  All rows of   *)
(* the library stay enabled: the columns default to true, which gorm also  *)
(* stores for false (model/trust.go 14, 35).  One environment.             *)
(***************************************************************************)
EXTENDS Integers, Sequences, FiniteSets

CONSTANTS
    Domains,        \* registrable domains
    NumHosts,       \* host names, in the order of names and of ids
    ApexOf,         \* domain -> host of the same name
    NsOf,           \* host -> hosts that NS records in its answers name
    Importances,    \* importance levels
    High,           \* the level build jobs import with
    Manifests,      \* manifests users import, as sequences of rows
    Known,          \* domains whose apex is in the library initially
    Inputs,         \* requests for the build job: its file, a sequence of
                    \* domains, and whether it is to import only
    ChunkSize,      \* lines per chunk
    Users,          \* bound: requests of users, one each
    Runs,           \* bound: runs of the build job
    NumBatches,     \* bound: discovery batches
    MaxTogether,    \* bound: actors at work at the same time
    MaxCrashes      \* bound: 1 if the server may die once, else 0

Hosts == 1..NumHosts
NoHost == 0                     \* the row of a manifest that is the domain
Row == [domain : Domains, importance : Importances, host : Hosts \cup {NoHost}]
Actors == Users \cup Runs
Batches == 1..NumBatches
Input == [lines : Seq(Domains), importOnly : BOOLEAN]

ASSUME TrustAssumption ==
    /\ NumHosts \in Nat
    /\ High \in Importances
    /\ ApexOf \in [Domains -> Hosts]
    /\ NsOf \in [Hosts -> SUBSET Hosts]
    /\ Manifests \subseteq Seq(Row) /\ << >> \notin Manifests
    /\ Known \subseteq Domains
    /\ Inputs \subseteq Input
    /\ ChunkSize \in Nat \ {0} /\ NumBatches \in Nat /\ MaxTogether \in Nat
    /\ MaxCrashes \in {0, 1}
    /\ Users \cap Runs = {}

VARIABLES
    domain,     \* domain -> importance of its row, "none"
    host,       \* host -> baseline_status of its row, "none"
    nsNote,     \* hosts whose notes say that an NS record named them
    baseline,   \* host -> batches its baseline records come from
    status,     \* batch -> its status, "none" before the insert
    record,     \* batch -> host -> status of the candidate records
    job,        \* the row of the build job
    pc,         \* actor -> control point
    local,      \* actor -> local variables
    created,    \* history: hosts that runs have inserted
    disputed,   \* history: hosts under two approvals at once, or a cut one
    mingled,    \* history: batches under two reviews at once, or a cut one
    crowded,    \* history: two runs at once
    crashes     \* history: number of crashes

library == <<domain, host, nsNote>>
reviewed == <<baseline, status, record>>
history == <<created, disputed, mingled, crowded, crashes>>
vars == <<library, reviewed, job, pc, local, history>>

Decided == {"approved", "rejected"}
Settled == {"completed", "failed"}
Approving == {"delete", "rebuild", "trust", "mark"}
Reviewing == Approving \cup {"targets", "review", "refresh", "write"}
Discovering == {"discover", "resolve", "store"}
Importing == {"look", "insert"}
Building == Importing \cup Discovering \cup Reviewing \cup
            {"read", "progress", "reload", "finish"}
Active == Building \cup {"retry", "queued"}

Local == [todo : Seq(Row), queue : SUBSET Hosts, seen : SUBSET Hosts,
          rows : SUBSET Hosts, batch : Batches \cup {0}, at : Hosts \cup {NoHost},
          approve : BOOLEAN, bulk : BOOLEAN,
          counted : SUBSET (Decided \cup {"draft"}),
          chunk : Nat, base : Nat, made : Nat]

Fresh == [todo |-> << >>, queue |-> {}, seen |-> {}, rows |-> {}, batch |-> 0,
          at |-> NoHost, approve |-> TRUE, bulk |-> TRUE, counted |-> {},
          chunk |-> 0, base |-> 0, made |-> 0]

TypeOK ==
    /\ domain \in [Domains -> Importances \cup {"none"}]
    /\ host \in [Hosts -> {"none", "draft", "trusted"}]
    /\ nsNote \subseteq Hosts
    /\ baseline \in [Hosts -> SUBSET Batches]
    /\ status \in [Batches -> {"none", "draft"} \cup Decided]
    /\ record \in [Batches -> [Hosts -> {"none", "draft"} \cup Decided]]
    /\ job \in [status : {"none", "pending", "running"} \cup Settled,
                processed : Nat, imported : Nat,
                input : Input]
    /\ pc \in [Actors -> {"idle", "done", "dead"} \cup Active]
    /\ local \in [Actors -> Local]
    /\ created \subseteq Hosts /\ disputed \subseteq Hosts /\ mingled \subseteq Batches
    /\ crowded \in BOOLEAN /\ crashes \in 0..MaxCrashes

Init ==
    /\ domain = [d \in Domains |-> IF d \in Known THEN High ELSE "none"]
    /\ host = [h \in Hosts |-> IF \E d \in Known : h = ApexOf[d] THEN "draft" ELSE "none"]
    /\ nsNote = {}
    /\ baseline = [h \in Hosts |-> {}]
    /\ status = [b \in Batches |-> "none"]
    /\ record = [b \in Batches |-> [h \in Hosts |-> "none"]]
    /\ \E i \in Inputs :
        job = [status |-> "none", processed |-> 0, imported |-> 0, input |-> i]
    /\ pc = [a \in Actors |-> "idle"]
    /\ local = [a \in Actors |-> Fresh]
    /\ created = {} /\ disputed = {} /\ mingled = {}
    /\ crowded = FALSE /\ crashes = 0

Goto(a, from, to) == pc[a] = from /\ pc' = [pc EXCEPT ![a] = to]

\* A request begins.
Begin(a, to) ==
    /\ Cardinality({c \in Actors : pc[c] \in Active}) < MaxTogether
    /\ Goto(a, "idle", to)

\* Where an actor goes when its operation has ended or was refused.
AfterImport(a) ==
    IF a \in Users THEN "done" ELSE IF job.input.importOnly THEN "progress" ELSE "discover"
AfterRefusal(a) == IF a \in Users THEN "done" ELSE "progress"

-----------------------------------------------------------------------------
(* ImportTrustManifest.                                                    *)

BeginImport(u) ==
    /\ Begin(u, "look")
    /\ \E m \in Manifests : local' = [local EXCEPT ![u].todo = m]
    /\ UNCHANGED <<library, reviewed, job, history>>

\* The conditions of FirstOrCreate: what the manifest says of a row has to be
\* in it, and the status of a host has to be draft.
Matches(row) ==
    IF row.host = NoHost THEN domain[row.domain] = row.importance
                         ELSE host[row.host] = "draft"

Absent(row) ==
    IF row.host = NoHost THEN domain[row.domain] = "none" ELSE host[row.host] = "none"

RestPc(a) == IF Len(local[a].todo) = 1 THEN AfterImport(a) ELSE "look"

LookRow(a) ==
    LET row == Head(local[a].todo)
    IN  /\ Goto(a, "look", IF Matches(row) THEN RestPc(a) ELSE "insert")
        /\ local' = IF Matches(row) THEN [local EXCEPT ![a].todo = Tail(@)] ELSE local
        /\ UNCHANGED <<library, reviewed, job, history>>

InsertRow(a) ==
    LET row == Head(local[a].todo)
        isHost == row.host # NoHost
    IN  /\ Goto(a, "insert", RestPc(a))
        /\ Absent(row)
        /\ domain' = IF isHost THEN domain
                     ELSE [domain EXCEPT ![row.domain] = row.importance]
        /\ host' = IF isHost THEN [host EXCEPT ![row.host] = "draft"] ELSE host
        /\ local' = [local EXCEPT ![a].todo = Tail(@),
                                  ![a].made = IF isHost THEN @ + 1 ELSE @]
        /\ created' = IF isHost /\ a \in Runs THEN created \cup {row.host} ELSE created
        /\ UNCHANGED <<nsNote, reviewed, job, disputed, mingled, crowded, crashes>>

\* Mutant: the run returns without finishBuildJob.
RefuseRowSilently(a) ==
    /\ Goto(a, "insert", "done")
    /\ ~ Absent(Head(local[a].todo))
    /\ UNCHANGED <<library, reviewed, job, local, history>>

\* The unique key refuses a row that exists although it did not match: the
\* import ends, what it has inserted stays, and a build job has failed.
RefuseRow(a) ==
    /\ Goto(a, "insert", "done")
    /\ ~ Absent(Head(local[a].todo))
    /\ job' = IF a \in Runs THEN [job EXCEPT !.status = "failed"] ELSE job
    /\ UNCHANGED <<library, reviewed, local, history>>

Import(a) == LookRow(a) \/ InsertRow(a) \/ RefuseRow(a)

\* POST /domains, refused when the domain exists.
CreateTrustDomain(u, d) ==
    /\ domain[d] = "none"
    /\ Begin(u, "done")
    /\ \E i \in Importances : domain' = [domain EXCEPT ![d] = i]
    /\ UNCHANGED <<host, nsNote, reviewed, job, local, history>>

\* POST /hosts: such a host may be trusted, and is so by default, without a
\* baseline.
CreateTrustHost(u, h) ==
    /\ host[h] = "none"
    /\ \E d \in Domains : domain[d] # "none"
    /\ Begin(u, "done")
    /\ \E s \in {"draft", "trusted"} : host' = [host EXCEPT ![h] = s]
    /\ UNCHANGED <<domain, nsNote, reviewed, job, local, history>>

-----------------------------------------------------------------------------
(* DiscoverCandidates.                                                     *)

Present == {h \in Hosts : host[h] # "none"}

BeginDiscover(u) ==
    /\ Begin(u, "discover")
    /\ UNCHANGED <<library, reviewed, job, local, history>>

\* The hosts in the library, and a new batch.
StartDiscovery(a) ==
    \E b \in Batches :
        /\ Present # {}
        /\ status[b] = "none" /\ \A c \in 1..(b - 1) : status[c] # "none"
        /\ Goto(a, "discover", "resolve")
        /\ status' = [status EXCEPT ![b] = "draft"]
        /\ local' = [local EXCEPT ![a].batch = b, ![a].queue = Present,
                                  ![a].seen = {}, ![a].rows = {}]
        /\ UNCHANGED <<library, baseline, record, job, history>>

NothingToDiscover(a) ==
    /\ Present = {}
    /\ Goto(a, "discover", AfterRefusal(a))
    /\ UNCHANGED <<library, reviewed, job, local, history>>

IsNext(a, h) == h \in local[a].queue /\ \A g \in local[a].queue : h =< g

\* A host either answers or does not.  Servers that its NS records name are
\* added to the library, and to the queue when they were added so before and
\* are drafts still; FirstOrCreate fails for others and they are passed over.
ResolveHost(a, h) ==
    \E answers \in BOOLEAN :
        LET named == IF answers THEN NsOf[h] ELSE {}
            new == {n \in named : host[n] = "none"}
            again == {n \in named : host[n] = "draft" /\ n \in nsNote}
            done == local[a].seen \cup {h}
            rest == (local[a].queue \cup new \cup again) \ done
        IN  /\ IsNext(a, h)
            /\ Goto(a, "resolve", IF rest = {} THEN "store" ELSE "resolve")
            /\ host' = [n \in Hosts |-> IF n \in new THEN "draft" ELSE host[n]]
            /\ nsNote' = nsNote \cup new
            /\ local' = [local EXCEPT ![a].queue = rest, ![a].seen = done,
                                      ![a].rows = IF answers THEN @ \cup {h} ELSE @]
            /\ UNCHANGED <<domain, reviewed, job, history>>

\* All candidate records in one transaction.
StoreCandidates(a) ==
    /\ Goto(a, "store", IF a \in Users THEN "done" ELSE "targets")
    /\ record' = [record EXCEPT ![local[a].batch] =
                     [h \in Hosts |-> IF h \in local[a].rows THEN "draft" ELSE "none"]]
    /\ local' = [local EXCEPT ![a].seen = {}, ![a].rows = {}]
    /\ UNCHANGED <<library, baseline, status, job, history>>

Discover(a) ==
    \/ StartDiscovery(a) \/ NothingToDiscover(a) \/ StoreCandidates(a)
    \/ \E h \in Hosts : ResolveHost(a, h)

-----------------------------------------------------------------------------
(* ReviewHostCandidates, of one host or of all that a bulk review selects. *)

InReview(a, b) == pc[a] \in Reviewing /\ local[a].batch = b
Mingles(a, b) ==
    IF \E c \in Actors \ {a} : InReview(c, b) THEN mingled \cup {b} ELSE mingled

\* A request to review a host, or a bulk review, of an existing batch; the
\* latter only approves.
BeginReview(u, b, h) ==
    /\ status[b] # "none"
    /\ \E approve \in IF h = NoHost THEN {TRUE} ELSE BOOLEAN :
        local' = [local EXCEPT ![u].batch = b, ![u].approve = approve,
                               ![u].bulk = (h = NoHost),
                               ![u].queue = IF h = NoHost THEN {} ELSE {h}]
    /\ Begin(u, IF h = NoHost THEN "targets" ELSE "review")
    /\ mingled' = Mingles(u, b)
    /\ UNCHANGED <<library, reviewed, job, created, disputed, crowded, crashes>>

DraftsOf(b) == {h \in Hosts : record[b][h] = "draft"}

\* The hosts of a bulk review.
SelectTargets(a) ==
    /\ Goto(a, "targets", "review")
    /\ DraftsOf(local[a].batch) # {}
    /\ local' = [local EXCEPT ![a].queue = DraftsOf(local[a].batch)]
    /\ mingled' = Mingles(a, local[a].batch)
    /\ UNCHANGED <<library, reviewed, job, created, disputed, crowded, crashes>>

NoTargets(a) ==
    /\ Goto(a, "targets", AfterRefusal(a))
    /\ DraftsOf(local[a].batch) = {}
    /\ UNCHANGED <<library, reviewed, job, local, history>>

\* Mutant: the review of a single host leaves the batch alone.
OnwardUnlessSingle(a, failed) ==
    CASE local[a].queue # {} -> "review"
      [] local[a].queue = {} /\ ~ local[a].bulk -> "done"
      [] OTHER -> "refresh"

\* The host has been dealt with: a bulk review continues with the next one.
Onward(a, failed) ==
    CASE local[a].queue # {} -> "review"
      [] local[a].queue = {} /\ failed /\ ~ local[a].bulk -> "done"
      [] OTHER -> "refresh"

Disputes(a, h) ==
    IF \E c \in Actors \ {a} : pc[c] \in Approving /\ local[c].at = h
    THEN disputed \cup {h} ELSE disputed

\* The draft records of the host are read.
LoadRecords(a, h) ==
    /\ IsNext(a, h)
    /\ h \in DraftsOf(local[a].batch)
    /\ Goto(a, "review", IF local[a].approve THEN "delete" ELSE "mark")
    /\ local' = [local EXCEPT ![a].at = h, ![a].queue = @ \ {h}]
    /\ disputed' = Disputes(a, h)
    /\ UNCHANGED <<library, reviewed, job, created, mingled, crowded, crashes>>

\* Somebody else has reviewed the host meanwhile.
NoRecords(a, h) ==
    /\ IsNext(a, h)
    /\ h \notin DraftsOf(local[a].batch)
    /\ local' = [local EXCEPT ![a].queue = @ \ {h}]
    /\ Goto(a, "review", CASE local[a].queue # {h} -> "review"
                           [] local[a].queue = {h} /\ local[a].bulk -> "refresh"
                           [] OTHER -> "done")
    /\ UNCHANGED <<library, reviewed, job, history>>

\* Mutant: the records are added to those of the previous baseline.
KeepBaseline(a) ==
    /\ Goto(a, "delete", "rebuild")
    /\ UNCHANGED <<library, reviewed, job, local, history>>

DeleteBaseline(a) ==
    /\ Goto(a, "delete", "rebuild")
    /\ baseline' = [baseline EXCEPT ![local[a].at] = {}]
    /\ UNCHANGED <<library, status, record, job, local, history>>

\* Mutant: the records of a host that is trusted already are not inserted.
InsertFirstBaseline(a) ==
    /\ Goto(a, "rebuild", "trust")
    /\ local[a].batch \notin baseline[local[a].at]
    /\ baseline' = IF host[local[a].at] = "trusted" THEN baseline
                   ELSE [baseline EXCEPT ![local[a].at] = @ \cup {local[a].batch}]
    /\ UNCHANGED <<library, status, record, job, local, history>>

InsertBaseline(a) ==
    /\ Goto(a, "rebuild", "trust")
    /\ local[a].batch \notin baseline[local[a].at]
    /\ baseline' = [baseline EXCEPT ![local[a].at] = @ \cup {local[a].batch}]
    /\ UNCHANGED <<library, status, record, job, local, history>>

\* Another approval has inserted records since, one of them with the same hash.
RefuseBaseline(a) ==
    /\ Goto(a, "rebuild", Onward(a, TRUE))
    /\ baseline[local[a].at] # {}
    /\ UNCHANGED <<library, reviewed, job, local, history>>

TrustHost(a) ==
    /\ Goto(a, "trust", "mark")
    /\ host' = [host EXCEPT ![local[a].at] = "trusted"]
    /\ UNCHANGED <<domain, nsNote, reviewed, job, local, history>>

\* The records that were read get the verdict, whatever their status is now.
MarkRecords(a) ==
    /\ Goto(a, "mark", Onward(a, FALSE))
    /\ record' = [record EXCEPT ![local[a].batch][local[a].at] =
                     IF local[a].approve THEN "approved" ELSE "rejected"]
    /\ local' = [local EXCEPT ![a].at = NoHost]
    /\ UNCHANGED <<library, baseline, status, job, history>>

\* refreshCandidateBatchStatus: count the records by status, then write.
CountRecords(a) ==
    /\ Goto(a, "refresh", "write")
    /\ local' = [local EXCEPT ![a].counted =
                    {record[local[a].batch][h] : h \in Hosts} \ {"none"}]
    /\ UNCHANGED <<library, reviewed, job, history>>

\* Mutant: one approved host approves the batch.
StatusOfAny(counted) ==
    CASE "approved" \in counted -> "approved"
      [] counted = {"rejected"}  -> "rejected"
      [] OTHER                   -> "draft"

StatusOf(counted) ==
    CASE counted = {} \/ "draft" \in counted -> "draft"
      [] "draft" \notin counted /\ "approved" \in counted -> "approved"
      [] counted = {"rejected"} -> "rejected"

WriteStatus(a) ==
    /\ Goto(a, "write", AfterRefusal(a))
    /\ status' = [status EXCEPT ![local[a].batch] = StatusOf(local[a].counted)]
    /\ local' = [local EXCEPT ![a].batch = 0, ![a].counted = {}]
    /\ UNCHANGED <<library, baseline, record, job, history>>

Review(a) ==
    \/ SelectTargets(a) \/ NoTargets(a)
    \/ \E h \in Hosts : LoadRecords(a, h) \/ NoRecords(a, h)
    \/ DeleteBaseline(a) \/ InsertBaseline(a) \/ RefuseBaseline(a)
    \/ TrustHost(a) \/ MarkRecords(a) \/ CountRecords(a) \/ WriteStatus(a)

-----------------------------------------------------------------------------
(* Build jobs: a run imports, discovers and approves chunk after chunk.    *)

CreateBuildJob(r) ==
    /\ job.status = "none"
    /\ Begin(r, "queued")
    /\ job' = [job EXCEPT !.status = "pending"]
    /\ UNCHANGED <<library, reviewed, local, history>>

\* Only a job that is running is not run again, a pending one is.
RetryRead(r) ==
    /\ job.status \notin {"none", "running"}
    /\ Begin(r, "retry")
    /\ UNCHANGED <<library, reviewed, job, local, history>>

\* Mutant: a status that the table does not know.
RetryQueues(r) ==
    /\ Goto(r, "retry", "queued")
    /\ job' = [job EXCEPT !.status = "queued"]
    /\ UNCHANGED <<library, reviewed, local, history>>

RetryWrite(r) ==
    /\ Goto(r, "retry", "queued")
    /\ job' = [job EXCEPT !.status = "pending"]
    /\ UNCHANGED <<library, reviewed, local, history>>

\* Mutant: a run starts with the first chunk again.
StartRunAfresh(r) ==
    /\ Goto(r, "queued", "read")
    /\ job' = [job EXCEPT !.status = "running", !.processed = 0]
    /\ local' = [local EXCEPT ![r].chunk = 0, ![r].base = job.imported]
    /\ crowded' = (crowded \/ \E q \in Runs \ {r} : pc[q] \in Building)
    /\ UNCHANGED <<library, reviewed, created, disputed, mingled, crashes>>

\* A slot of the pool; the row is loaded with the progress made so far.
StartRun(r) ==
    /\ Goto(r, "queued", "read")
    /\ job' = [job EXCEPT !.status = "running"]
    /\ local' = [local EXCEPT ![r].chunk = job.processed, ![r].base = job.imported]
    /\ crowded' = (crowded \/ \E q \in Runs \ {r} : pc[q] \in Building)
    /\ UNCHANGED <<library, reviewed, created, disputed, mingled, crashes>>

\* Two rows for each line of chunk i: the domain, and its apex, which
\* normalizeManifest adds.
ChunkRows(i) ==
    LET file == job.input.lines
        last == IF (i + 1) * ChunkSize < Len(file) THEN (i + 1) * ChunkSize ELSE Len(file)
        lines == SubSeq(file, i * ChunkSize + 1, last)
    IN  [k \in 1..(2 * Len(lines)) |->
            LET d == lines[(k + 1) \div 2]
            IN  [domain |-> d, importance |-> High,
                 host |-> IF k % 2 = 1 THEN NoHost ELSE ApexOf[d]]]

NumChunks == (Len(job.input.lines) + ChunkSize - 1) \div ChunkSize

Chunk(a, i) == [local EXCEPT ![a].chunk = i, ![a].made = 0,
                             ![a].todo = IF i < NumChunks THEN ChunkRows(i) ELSE << >>]
ChunkPc(i) == IF i < NumChunks THEN "look" ELSE "finish"

ReadFile(r) ==
    /\ Goto(r, "read", ChunkPc(local[r].chunk))
    /\ local' = Chunk(r, local[r].chunk)
    /\ UNCHANGED <<library, reviewed, job, history>>

ReadFileFails(r) ==
    /\ Goto(r, "read", "done")
    /\ job' = [job EXCEPT !.status = "failed"]
    /\ UNCHANGED <<library, reviewed, local, history>>

\* Mutant: the counter starts anew with each chunk.
UpdateProgressFromZero(r) ==
    /\ Goto(r, "progress", "reload")
    /\ job' = [job EXCEPT !.processed = local[r].chunk + 1, !.imported = local[r].made]
    /\ UNCHANGED <<library, reviewed, local, history>>

UpdateProgress(r) ==
    /\ Goto(r, "progress", "reload")
    /\ job' = [job EXCEPT !.processed = local[r].chunk + 1,
                          !.imported = local[r].base + local[r].made]
    /\ UNCHANGED <<library, reviewed, local, history>>

\* Only the counters of the reloaded row are used, the loop has its own index.
Reload(r) ==
    /\ Goto(r, "reload", ChunkPc(local[r].chunk + 1))
    /\ local' = [Chunk(r, local[r].chunk + 1) EXCEPT ![r].base = job.imported]
    /\ UNCHANGED <<library, reviewed, job, history>>

Finish(r) ==
    /\ Goto(r, "finish", "done")
    /\ job' = [job EXCEPT !.status = "completed"]
    /\ UNCHANGED <<library, reviewed, local, history>>

Build(r) ==
    \/ RetryWrite(r) \/ StartRun(r) \/ ReadFile(r) \/ ReadFileFails(r)
    \/ UpdateProgress(r) \/ Reload(r) \/ Finish(r)

-----------------------------------------------------------------------------
\* The server dies and with it all that it was doing.
Crash ==
    /\ crashes < MaxCrashes /\ crashes' = crashes + 1
    /\ \E a \in Actors : pc[a] \in Active
    /\ pc' = [a \in Actors |-> IF pc[a] \in Active THEN "dead" ELSE pc[a]]
    /\ disputed' = disputed \cup {local[a].at : a \in {c \in Actors : pc[c] \in Approving}}
    /\ mingled' = mingled \cup {local[a].batch : a \in {c \in Actors : pc[c] \in Reviewing}}
    /\ local' = [a \in Actors |-> IF pc[a] \in Active THEN Fresh ELSE local[a]]
    /\ UNCHANGED <<library, reviewed, job, created, crowded>>

Request(u) ==
    \/ BeginImport(u) \/ BeginDiscover(u)
    \/ \E h \in Hosts : CreateTrustHost(u, h)
    \/ \E d \in Domains : CreateTrustDomain(u, d)
    \/ \E b \in Batches, h \in Hosts \cup {NoHost} : BeginReview(u, b, h)

Proceed(a) == Import(a) \/ Discover(a) \/ Review(a)

Next ==
    \/ \E u \in Users : Request(u)
    \/ \E r \in Runs : CreateBuildJob(r) \/ RetryRead(r) \/ Build(r)
    \/ \E a \in Actors : Proceed(a)
    \/ Crash

Spec == Init /\ [][Next]_vars

(* Statements and queries end, by their own deadlines if nothing else, and  *)
(* a slot of the pool becomes free.                                        *)
Fairness == \A r \in Runs : WF_vars(Build(r) \/ Proceed(r))

FairSpec == Spec /\ Fairness

-----------------------------------------------------------------------------
(* Properties.                                                             *)

\* A batch that reads as decided has no candidate left to review, in every
\* interleaving of single, bulk and build-job reviews, crashes included
\* (trust.go 751-787).
DecidedHasNoDraft ==
    \A b \in Batches : status[b] \in Decided => DraftsOf(b) = {}

\* Between reviews the status of a batch is what its records say, unless two
\* reviews of it overlapped or one was cut short (trust.go 701-711, 824).
BatchStatusAgrees ==
    \A b \in Batches \ mingled :
        status[b] = "none"
        \/ (\E a \in Actors : InReview(a, b))
        \/ status[b] = StatusOf({record[b][h] : h \in Hosts} \ {"none"})

\* A batch and its candidates belong together, whoever reviews them
\* (trust.go 701-711, 751-787, 824).
BatchesAgree == TypeOK /\ DecidedHasNoDraft /\ BatchStatusAgrees

Undisturbed(h) ==
    h \notin disputed /\ \A a \in Actors : pc[a] \in Approving => local[a].at # h

\* The baseline of a host is that of one batch, whose records are marked as
\* approved, however imports, discoveries and reviews of several batches
\* interleave; approvals of the same host that overlap, or are cut short
\* between DELETE and UPDATE, void this (trust.go 683-709).
BaselineIsApproved ==
    \A h \in Hosts : Undisturbed(h) =>
        /\ Cardinality(baseline[h]) <= 1
        /\ \A b \in baseline[h] : record[b][h] = "approved"

\* A host with an approved record is trusted and has a baseline, with the
\* same reservation: DELETE, INSERT and UPDATE are not a transaction.
ApprovedHasBaseline ==
    \A h \in Hosts : Undisturbed(h) =>
        ((\E b \in Batches : record[b][h] = "approved") =>
            host[h] = "trusted" /\ baseline[h] # {})

\* The baseline of a host is exactly what was approved for it (trust.go 683-709).
BaselineIsReviewed == BaselineIsApproved /\ ApprovedHasBaseline

\* A completed build job has gone through all chunks, however often it was
\* retried in between, unless two runs of it overlapped, and never claims
\* hosts that its runs did not insert; a single run that completes claims
\* all of them (trust.go 893-959, 962-969).
BuildAccounts ==
    /\ job.imported <= Cardinality(created)
    /\ job.status = "completed" /\ ~ crowded => job.processed = NumChunks
    /\ job.status = "completed" /\ Cardinality({r \in Runs : pc[r] # "idle"}) = 1
        => job.imported = Cardinality(created)

\* Retries and crashes never set the progress of a job back, only runs that
\* overlap do (trust.go 893, 945, 1009-1030).
ProgressKept == [][~ crowded => job'.processed >= job.processed]_vars

\* The progress of a build job is what its runs have done, and no run loses it
\* (trust.go 893-969, 1009-1030).
BuildProgress == []BuildAccounts /\ ProgressKept

\* A build job that has been created, or retried, comes to an end, unless the
\* server dies meanwhile: then it may stay pending or running, and a running
\* one cannot be retried (trust.go 862-871, 1014).
BuildSettles == <>[](job.status \in Settled \/ job.status = "none" \/ crashes > 0)

\* The comments in ImportTrustManifest (trust.go 311, 352): an import creates
\* rows or upgrades those that exist; it never tries to insert those.
ImportUpserts ==
    [][\A a \in Actors : pc[a] = "look" /\ pc'[a] = "insert"
                          => Absent(Head(local[a].todo))]_vars
=============================================================================
