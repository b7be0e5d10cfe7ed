------------------------- MODULE TrustLibraryProofs --------------------------
(***************************************************************************)
(* Proofs about TrustLibrary for every library, every manifest and file,   *)
(* and any number of users, runs, batches and crashes.                     *)
(*                                                                         *)
(* The inductive invariant has four parts.  ActorInv says what an actor    *)
(* that has come to a control point has in its local variables; BatchInv   *)
(* relates batches, their records and the counts taken of them; AgreeInv   *)
(* says who still has to write the status of a batch; BaselineInv follows  *)
(* an approval through DELETE, INSERT and UPDATE.  BuildInv, inductive on  *)
(* top of these, relates the row of the build job to where its runs are    *)
(* and to the hosts they have inserted.                                    *)
(***************************************************************************)
EXTENDS TrustLibrary, FiniteSetTheorems, SequenceTheorems, TLAPS

Storing == {"resolve", "store"}

\* What the local variables of an actor are good for where it is.
ActorOK(a) ==
    /\ pc[a] \in Importing => local[a].todo # << >>
    /\ pc[a] \in Storing \cup Reviewing => local[a].batch \in Batches
    /\ pc[a] \in Approving => local[a].at \in Hosts
    /\ ~ local[a].bulk =>
        /\ a \in Users /\ pc[a] # "targets"
        /\ pc[a] = "review" => \E h \in Hosts : local[a].queue = {h}
        /\ pc[a] \in Approving => local[a].queue = {}
    /\ pc[a] \in {"delete", "rebuild", "trust"} => local[a].approve

ActorInv == \A a \in Actors : ActorOK(a)

Found(b) == {record[b][h] : h \in Hosts} \ {"none"}
Agrees(b) == status[b] = StatusOf(Found(b))

\* Records appear once, after the batch and before its status is decided.
BatchInv ==
    /\ \A a, c \in Actors : pc[a] \in Storing /\ pc[c] \in Storing
                              /\ local[a].batch = local[c].batch => a = c
    /\ \A a \in Actors : pc[a] \in Storing => Found(local[a].batch) = {}
    /\ \A a \in Actors : pc[a] \in Storing \cup Reviewing => status[local[a].batch] # "none"
    /\ \A a \in Actors : pc[a] \in Approving => Found(local[a].batch) # {}
    /\ \A b \in Batches :
        /\ status[b] = "none" => Found(b) = {}
        /\ status[b] \in Decided => Found(b) # {} /\ "draft" \notin Found(b)
    /\ \A a \in Actors : pc[a] = "write" /\ StatusOf(local[a].counted) \in Decided =>
          Found(local[a].batch) # {} /\ "draft" \notin Found(local[a].batch)

\* An actor that will write the status of the batch before it leaves the review.
Pending(a, b) ==
    /\ local[a].batch = b
    /\ \/ pc[a] \in {"refresh", "write"}
       \/ pc[a] \in {"review"} \cup Approving /\ local[a].bulk

AgreeInv ==
    \A b \in Batches \ mingled :
        /\ \A a, c \in Actors :
              InReview(a, b) /\ InReview(c, b) /\ pc[a] # "targets" /\ pc[c] # "targets" => a = c
        /\ status[b] = "none" \/ Agrees(b) \/ \E a \in Actors : Pending(a, b)
        /\ \A a \in Actors : pc[a] = "write" /\ local[a].batch = b =>
              StatusOf(local[a].counted) = StatusOf(Found(b))

\* A host that no approval is at work on.
AtRest(h) ==
    /\ baseline[h] = {} \/ \E b \in Batches : baseline[h] = {b} /\ record[b][h] = "approved"
    /\ \A b \in Batches : record[b][h] = "approved" => host[h] = "trusted" /\ baseline[h] # {}

Approves(a, h) == pc[a] \in Approving /\ local[a].at = h

\* How far the approval, or rejection, of the host has come.
ApprovalOK(a, h) ==
    /\ record[local[a].batch][h] = "draft"
    /\ pc[a] = "delete" => AtRest(h)
    /\ pc[a] = "rebuild" => baseline[h] = {}
    /\ pc[a] = "trust" => baseline[h] = {local[a].batch}
    /\ pc[a] = "mark" /\ local[a].approve =>
          baseline[h] = {local[a].batch} /\ host[h] = "trusted"
    /\ pc[a] = "mark" /\ ~ local[a].approve => AtRest(h)

BaselineInv ==
    \A h \in Hosts \ disputed :
        /\ \A a, c \in Actors : Approves(a, h) /\ Approves(c, h) => a = c
        /\ (\A a \in Actors : ~ Approves(a, h)) => AtRest(h)
        /\ \A a \in Actors : Approves(a, h) => ApprovalOK(a, h)

IInv == TypeOK /\ ActorInv /\ BatchInv /\ AgreeInv /\ BaselineInv

-----------------------------------------------------------------------------
(* Local variables: an assignment to some leaves the others alone.         *)

LEMMA SetTodo ==
    ASSUME NEW r \in Local,
           NEW t \in Seq(Row)
    PROVE  LET u == [r EXCEPT !.todo = t]
           IN  /\ u \in Local
               /\ u.todo = t
               /\ u.queue = r.queue /\ u.seen = r.seen /\ u.rows = r.rows
               /\ u.batch = r.batch /\ u.at = r.at /\ u.approve = r.approve
               /\ u.bulk = r.bulk /\ u.counted = r.counted /\ u.chunk = r.chunk
               /\ u.base = r.base /\ u.made = r.made
  BY DEF Local

LEMMA SetInserted ==
    ASSUME NEW r \in Local,
           NEW t \in Seq(Row),
           NEW m \in Nat
    PROVE  LET u == [r EXCEPT !.todo = t, !.made = m]
           IN  /\ u \in Local
               /\ u.todo = t /\ u.made = m
               /\ u.queue = r.queue /\ u.seen = r.seen /\ u.rows = r.rows
               /\ u.batch = r.batch /\ u.at = r.at /\ u.approve = r.approve
               /\ u.bulk = r.bulk /\ u.counted = r.counted /\ u.chunk = r.chunk
               /\ u.base = r.base
  BY DEF Local

LEMMA SetStarted ==
    ASSUME NEW r \in Local,
           NEW i \in Nat,
           NEW x \in Nat
    PROVE  LET u == [r EXCEPT !.chunk = i, !.base = x]
           IN  /\ u \in Local
               /\ u.chunk = i /\ u.base = x
               /\ u.todo = r.todo /\ u.queue = r.queue /\ u.seen = r.seen
               /\ u.rows = r.rows /\ u.batch = r.batch /\ u.at = r.at
               /\ u.approve = r.approve /\ u.bulk = r.bulk /\ u.counted = r.counted
               /\ u.made = r.made
  BY DEF Local

-----------------------------------------------------------------------------
(* Steps of one actor.                                                     *)

Others(a) == \A c \in Actors : c # a => pc'[c] = pc[c] /\ local'[c] = local[c]

LEMMA Moves ==
    ASSUME TypeOK,
           NEW a \in Actors,
           NEW from,
           NEW to \in {"idle", "done", "dead"} \cup Active,
           Goto(a, from, to)
    PROVE  /\ pc' \in [Actors -> {"idle", "done", "dead"} \cup Active]
           /\ pc[a] = from /\ pc'[a] = to
           /\ \A c \in Actors : c # a => pc'[c] = pc[c]
  BY DEF TypeOK, Goto

LEMMA Assigns ==
    ASSUME TypeOK,
           NEW a \in Actors,
           NEW u \in Local,
           local' = [local EXCEPT ![a] = u]
    PROVE  /\ local' \in [Actors -> Local]
           /\ local'[a] = u
           /\ \A c \in Actors : c # a => local'[c] = local[c]
  BY DEF TypeOK

-----------------------------------------------------------------------------
(* The chunks of a file.                                                   *)

\* A chunk whose index is below their number starts within the file.
LEMMA ChunkStarts ==
    ASSUME NEW n \in Nat,
           NEW c \in Nat \ {0},
           NEW i \in Nat,
           i < (n + c - 1) \div c
    PROVE  i * c + 1 <= n
<1> DEFINE q == (n + c - 1) \div c
<1>1. q \in Int /\ c * q <= n + c - 1
  BY SMTT(30)
<1>2. i + 1 <= q
  BY <1>1
<1> HIDE DEF q
<1>3. (i + 1) * c <= q * c
  BY <1>1, <1>2, SMTT(30)
<1>4. (i + 1) * c = i * c + c /\ q * c = c * q
  BY <1>1, SMTT(30)
<1>5. i * c \in Nat
  BY SMTT(30)
<1> QED
  BY <1>1, <1>3, <1>4, <1>5

LEMMA ChunkHasRows ==
    ASSUME TrustAssumption, TypeOK,
           NEW i \in Nat,
           i < NumChunks
    PROVE  ChunkRows(i) \in Seq(Row) /\ ChunkRows(i) # << >>
<1> DEFINE file == job.input.lines
           last == IF (i + 1) * ChunkSize < Len(file) THEN (i + 1) * ChunkSize ELSE Len(file)
           lines == SubSeq(file, i * ChunkSize + 1, last)
           row(k) == [domain |-> lines[(k + 1) \div 2], importance |-> High,
                      host |-> IF k % 2 = 1 THEN NoHost ELSE ApexOf[lines[(k + 1) \div 2]]]
           rows == [k \in 1..(2 * Len(lines)) |-> row(k)]
<1>1. file \in Seq(Domains) /\ ChunkSize \in Nat \ {0}
  BY DEF TypeOK, Input, TrustAssumption
<1>2. i * ChunkSize + 1 <= Len(file)
  <2>1. Len(file) \in Nat
    BY <1>1
  <2>2. i < (Len(file) + ChunkSize - 1) \div ChunkSize
    BY Zenon DEF NumChunks
  <2> QED
    BY ONLY <1>1, <2>1, <2>2, i \in Nat, ChunkStarts
<1>3. /\ i * ChunkSize \in Nat /\ (i + 1) * ChunkSize \in Nat
      /\ i * ChunkSize + 1 <= (i + 1) * ChunkSize
  BY <1>1, SMTT(30)
<1>4. last \in Nat /\ i * ChunkSize + 1 <= last /\ last <= Len(file)
  BY <1>1, <1>2, <1>3
<1>5. lines \in Seq(Domains) /\ Len(lines) \in Nat \ {0}
  BY <1>1, <1>3, <1>4
<1> HIDE DEF lines
<1>6. \A k \in 1..(2 * Len(lines)) : (k + 1) \div 2 \in 1..Len(lines)
  BY <1>5
<1>7. \A k \in 1..(2 * Len(lines)) : lines[(k + 1) \div 2] \in Domains
  BY <1>5, <1>6
<1>8. \A k \in 1..(2 * Len(lines)) : row(k) \in Row
  BY <1>7 DEF Row, TrustAssumption
<1> HIDE DEF row
<1>9. rows \in [1..(2 * Len(lines)) -> Row] /\ 2 * Len(lines) \in Nat \ {0}
  BY <1>5, <1>8
<1>10. rows \in Seq(Row) /\ Len(rows) = 2 * Len(lines)
  BY <1>9, SeqDef
<1>11. rows # << >>
  BY <1>9, <1>10
<1>12. ChunkRows(i) = rows
  BY DEF ChunkRows, row, lines
<1> QED
  BY <1>10, <1>11, <1>12

-----------------------------------------------------------------------------
(* Steps that leave the batches and their records alone.                   *)

LEMMA ActorKept ==
    ASSUME ActorInv,
           NEW a \in Actors,
           Others(a),
           ActorOK(a)'
    PROVE  ActorInv'
  BY DEF ActorInv, ActorOK, Others

LEMMA BatchKept ==
    ASSUME BatchInv,
           NEW a \in Actors,
           Others(a),
           UNCHANGED <<status, record>>,
           pc'[a] \in Storing => pc[a] \in Storing /\ local'[a].batch = local[a].batch,
           pc'[a] \in Reviewing => status[local'[a].batch] # "none",
           pc'[a] \in Approving => Found(local'[a].batch) # {},
           pc'[a] = "write" /\ StatusOf(local'[a].counted) \in Decided =>
              Found(local'[a].batch) # {} /\ "draft" \notin Found(local'[a].batch)
    PROVE  BatchInv'
<1>1. \A b : Found(b)' = Found(b)
  BY DEF Found
<1>2. \A c \in Actors : pc'[c] \in Storing => pc[c] \in Storing /\ local'[c].batch = local[c].batch
  BY DEF Others
<1>3. \A c, d \in Actors : pc'[c] \in Storing /\ pc'[d] \in Storing
                              /\ local'[c].batch = local'[d].batch => c = d
  BY <1>2 DEF BatchInv
<1>4. \A c \in Actors : pc'[c] \in Storing => Found(local'[c].batch) = {}
  BY <1>2 DEF BatchInv
<1>5. \A c \in Actors : pc'[c] \in Storing \cup Reviewing => status[local'[c].batch] # "none"
  BY <1>2 DEF BatchInv, Others
<1>6. \A c \in Actors : pc'[c] = "write" /\ StatusOf(local'[c].counted) \in Decided =>
         Found(local'[c].batch) # {} /\ "draft" \notin Found(local'[c].batch)
  BY DEF BatchInv, Others
<1>7. \A c \in Actors : pc'[c] \in Approving => Found(local'[c].batch) # {}
  BY DEF BatchInv, Others
<1> QED
  BY <1>1, <1>3, <1>4, <1>5, <1>6, <1>7 DEF BatchInv

LEMMA AgreeKept ==
    ASSUME AgreeInv,
           NEW a \in Actors,
           Others(a),
           UNCHANGED <<status, record>>,
           mingled \subseteq mingled',
           \A b \in Batches \ mingled' :
              /\ InReview(a, b)' /\ pc'[a] # "targets" =>
                    \/ InReview(a, b) /\ pc[a] # "targets"
                    \/ \A c \in Actors \ {a} : ~ InReview(c, b)
              /\ Pending(a, b) => Pending(a, b)'
              /\ pc'[a] = "write" /\ local'[a].batch = b =>
                    StatusOf(local'[a].counted) = StatusOf(Found(b))
    PROVE  AgreeInv'
<1>1. \A b : Found(b)' = Found(b) /\ Agrees(b)' = Agrees(b)
  BY DEF Found, Agrees
<1>2. \A c \in Actors : \A b : c # a => /\ InReview(c, b)' = InReview(c, b)
                                        /\ Pending(c, b)' = Pending(c, b)
                                        /\ pc'[c] = pc[c]
  BY DEF Others, InReview, Pending
<1> SUFFICES ASSUME NEW b \in Batches \ mingled'
             PROVE  /\ \A c, d \in Actors :
                          InReview(c, b)' /\ InReview(d, b)' /\ pc'[c] # "targets"
                             /\ pc'[d] # "targets" => c = d
                    /\ status[b] = "none" \/ Agrees(b) \/ \E c \in Actors : Pending(c, b)'
                    /\ \A c \in Actors : pc'[c] = "write" /\ local'[c].batch = b =>
                          StatusOf(local'[c].counted) = StatusOf(Found(b))
  BY <1>1 DEF AgreeInv
<1>3. b \in Batches \ mingled
  OBVIOUS
<1>4. \A c, d \in Actors : InReview(c, b)' /\ InReview(d, b)' /\ pc'[c] # "targets"
                              /\ pc'[d] # "targets" => c = d
  <2>1. \A c, d \in Actors : InReview(c, b) /\ InReview(d, b) /\ pc[c] # "targets"
                                /\ pc[d] # "targets" => c = d
    BY <1>3 DEF AgreeInv
  <2> QED
    BY <1>2, <2>1
<1>5. status[b] = "none" \/ Agrees(b) \/ \E c \in Actors : Pending(c, b)'
  <2>1. status[b] = "none" \/ Agrees(b) \/ \E c \in Actors : Pending(c, b)
    BY <1>3 DEF AgreeInv
  <2> QED
    BY <1>2, <2>1
<1>6. \A c \in Actors : pc'[c] = "write" /\ local'[c].batch = b =>
         StatusOf(local'[c].counted) = StatusOf(Found(b))
  BY <1>3 DEF AgreeInv, Others
<1> QED
  BY <1>4, <1>5, <1>6

\* The actor neither is nor becomes one that approves.
LEMMA BaselineKept ==
    ASSUME BaselineInv,
           NEW a \in Actors,
           Others(a), pc[a] \notin Approving, pc'[a] \notin Approving,
           UNCHANGED <<baseline, record, disputed>>,
           \A h \in Hosts : host[h] = "trusted" => host'[h] = "trusted"
    PROVE  BaselineInv'
<1>1. \A h \in Hosts : AtRest(h) => AtRest(h)'
  BY DEF AtRest
<1>2. \A c \in Actors, h \in Hosts : Approves(c, h)' <=> Approves(c, h)
  BY DEF Approves, Others
<1>3. \A c \in Actors, h \in Hosts : Approves(c, h) => pc'[c] = pc[c] /\ local'[c] = local[c]
  BY DEF Approves, Others
<1> QED
  BY <1>1, <1>2, <1>3 DEF BaselineInv, ApprovalOK

-----------------------------------------------------------------------------
(* Steps that neither begin nor continue a discovery or a review.          *)

Apart(p) == p \notin Storing \cup Reviewing

LEMMA ElsewhereStep ==
    ASSUME IInv,
           NEW a \in Actors,
           Others(a), Apart(pc[a]), Apart(pc'[a]),
           UNCHANGED <<reviewed, disputed, mingled>>,
           TypeOK',
           local'[a].bulk = local[a].bulk,
           pc'[a] \in Importing => local'[a].todo # << >>,
           \A h \in Hosts : host[h] = "trusted" => host'[h] = "trusted"
    PROVE  IInv'
<1>1. ActorOK(a)'
  <2>1. ActorOK(a)
    BY DEF IInv, ActorInv
  <2> QED
    BY <2>1 DEF ActorOK, Apart, Storing, Reviewing, Approving
<1>2. ActorInv'
  BY <1>1, ActorKept DEF IInv
<1>3. BatchInv'
  BY BatchKept DEF IInv, reviewed, Apart, Reviewing
<1>4. AgreeInv'
  <2>1. \A b : ~ InReview(a, b)' /\ ~ Pending(a, b) /\ pc'[a] # "write"
    BY DEF InReview, Pending, Apart, Reviewing
  <2> QED
    BY <2>1, AgreeKept DEF IInv, reviewed
<1>5. BaselineInv'
  BY BaselineKept DEF IInv, reviewed, Apart, Reviewing
<1> QED
  BY <1>2, <1>3, <1>4, <1>5 DEF IInv

-----------------------------------------------------------------------------
(* Imports.                                                                *)

Places == {"idle", "done", "dead"} \cup Active
JobRow == [status : {"none", "pending", "running"} \cup Settled,
           processed : Nat, imported : Nat, input : Input]

LEMMA Ends ==
    ASSUME NEW a \in Actors
    PROVE  /\ AfterImport(a) \in {"done", "progress", "discover"}
           /\ AfterRefusal(a) \in {"done", "progress"}
           /\ RestPc(a) \in {"done", "progress", "discover", "look"}
           /\ RestPc(a) = "look" => Len(local[a].todo) # 1
  BY DEF AfterImport, AfterRefusal, RestPc

LEMMA PlacesApart ==
    /\ \A p \in {"idle", "done", "dead", "progress", "discover", "look", "insert",
                 "queued", "retry", "read", "reload", "finish"} : Apart(p) /\ p \in Places
    /\ \A p \in Reviewing \cup Storing : p \in Places
  BY DEF Apart, Places, Storing, Reviewing, Approving, Active, Building, Importing,
         Discovering

\* Nothing but the local variables of the actor and its place.
LEMMA LocalElsewhere ==
    ASSUME IInv,
           NEW a \in Actors,
           NEW from, NEW to \in Places,
           NEW u \in Local,
           Goto(a, from, to), Apart(from), Apart(to),
           local' = [local EXCEPT ![a] = u],
           u.bulk = local[a].bulk,
           to \in Importing => u.todo # << >>,
           UNCHANGED <<library, reviewed, job, history>>
    PROVE  IInv'
<1>1. TypeOK
  BY DEF IInv
<1>2. /\ pc' \in [Actors -> Places]
      /\ pc[a] = from /\ pc'[a] = to
      /\ \A c \in Actors : c # a => pc'[c] = pc[c]
  BY <1>1, Moves DEF Places
<1>3. /\ local' \in [Actors -> Local] /\ local'[a] = u
      /\ \A c \in Actors : c # a => local'[c] = local[c]
  BY <1>1, Assigns
<1>4. TypeOK'
  BY <1>1, <1>2, <1>3 DEF TypeOK, Places, library, reviewed, history
<1>5. Others(a)
  BY <1>2, <1>3 DEF Others
<1> QED
  BY <1>2, <1>3, <1>4, <1>5, ElsewhereStep DEF library, history

\* Everything but the local variables and the records of reviews.
LEMMA SharedElsewhere ==
    ASSUME IInv,
           NEW a \in Actors,
           NEW from, NEW to \in Places,
           Goto(a, from, to), Apart(from), Apart(to),
           to \in Importing => local[a].todo # << >>,
           domain' \in [Domains -> Importances \cup {"none"}],
           host' \in [Hosts -> {"none", "draft", "trusted"}],
           \A h \in Hosts : host[h] = "trusted" => host'[h] = "trusted",
           job' \in JobRow,
           UNCHANGED <<nsNote, reviewed, local, history>>
    PROVE  IInv'
<1>1. TypeOK
  BY DEF IInv
<1>2. /\ pc' \in [Actors -> Places]
      /\ pc[a] = from /\ pc'[a] = to
      /\ \A c \in Actors : c # a => pc'[c] = pc[c]
  BY <1>1, Moves DEF Places
<1>3. TypeOK'
  BY <1>1, <1>2 DEF TypeOK, Places, JobRow, reviewed, history
<1>4. Others(a)
  BY <1>2 DEF Others
<1> QED
  BY <1>2, <1>3, <1>4, ElsewhereStep DEF history

\* Nothing but the job and the place of a run.
LEMMA JobElsewhere ==
    ASSUME IInv,
           NEW a \in Actors,
           NEW from, NEW to \in Places,
           Goto(a, from, to), Apart(from), Apart(to), to \notin Importing,
           job' \in JobRow,
           UNCHANGED <<library, reviewed, local, history>>
    PROVE  IInv'
<1>1. /\ domain' \in [Domains -> Importances \cup {"none"}]
      /\ host' \in [Hosts -> {"none", "draft", "trusted"}]
  BY DEF IInv, TypeOK, library
<1> QED
  BY <1>1, SharedElsewhere DEF library

LEMMA BeginImportStep ==
    ASSUME TrustAssumption, IInv,
           NEW u \in Users,
           BeginImport(u)
    PROVE  IInv'
<1>1. PICK m \in Manifests : local' = [local EXCEPT ![u].todo = m]
  BY DEF BeginImport
<1> DEFINE r == [local[u] EXCEPT !.todo = m]
<1>2. m \in Seq(Row) /\ m # << >> /\ local[u] \in Local /\ u \in Actors
  BY DEF TrustAssumption, IInv, TypeOK, Actors
<1>3. r \in Local /\ r.todo = m /\ r.bulk = local[u].bulk
  BY <1>2, SetTodo
<1>4. local' = [local EXCEPT ![u] = r]
  BY <1>1
<1> HIDE DEF r
<1>5. /\ Goto(u, "idle", "look")
      /\ UNCHANGED <<library, reviewed, job, history>>
  BY DEF BeginImport, Begin
<1> QED
  BY <1>2, <1>3, <1>4, <1>5, PlacesApart, LocalElsewhere

\* The row at hand, and the rest.
LEMMA RowAtHand ==
    ASSUME IInv,
           NEW a \in Actors,
           pc[a] \in Importing
    PROVE  /\ local[a].todo \in Seq(Row) /\ local[a] \in Local
           /\ Head(local[a].todo) \in Row
           /\ Tail(local[a].todo) \in Seq(Row)
           /\ Len(local[a].todo) # 1 => Tail(local[a].todo) # << >>
<1>1. local[a].todo # << >>
  BY DEF IInv, ActorInv, ActorOK
<1>2. local[a].todo \in Seq(Row) /\ local[a] \in Local
  BY DEF IInv, TypeOK, Local
<1> DEFINE t == local[a].todo
<1>3. /\ Head(t) \in Row /\ Tail(t) \in Seq(Row) /\ Len(Tail(t)) = Len(t) - 1
      /\ Len(t) \in Nat /\ Len(t) # 0
  <2>1. t \in Seq(Row) /\ t # << >>
    BY <1>1, <1>2
  <2> HIDE DEF t
  <2> QED
    BY <2>1, HeadTailProperties, EmptySeq
<1>4. Tail(t) = << >> => Len(Tail(t)) = 0
  BY EmptySeq
<1> QED
  BY <1>1, <1>2, <1>3, <1>4

LEMMA LookRowStep ==
    ASSUME IInv,
           NEW a \in Actors,
           LookRow(a)
    PROVE  IInv'
<1>1. pc[a] = "look" /\ UNCHANGED <<library, reviewed, job, history>>
  BY DEF LookRow, Goto
<1> DEFINE row == Head(local[a].todo)
           r == [local[a] EXCEPT !.todo = Tail(local[a].todo)]
<1>2. /\ local[a].todo # << >> /\ local[a] \in Local
      /\ Tail(local[a].todo) \in Seq(Row)
      /\ Len(local[a].todo) # 1 => Tail(local[a].todo) # << >>
  BY <1>1, RowAtHand DEF Importing, IInv, ActorInv, ActorOK
<1>3. CASE Matches(row)
  <2>1. Goto(a, "look", RestPc(a)) /\ local' = [local EXCEPT ![a].todo = Tail(@)]
    BY <1>3 DEF LookRow
  <2>2. local' = [local EXCEPT ![a] = r]
    BY <2>1
  <2>3. r \in Local /\ r.bulk = local[a].bulk /\ r.todo = Tail(local[a].todo)
    BY <1>2, SetTodo
  <2> HIDE DEF r
  <2>4. RestPc(a) \in Places /\ Apart(RestPc(a)) /\ Apart("look")
    BY Ends, PlacesApart
  <2>5. RestPc(a) \in Importing => r.todo # << >>
    BY <1>2, <2>3, Ends DEF Importing
  <2> QED
    BY <1>1, <2>1, <2>2, <2>3, <2>4, <2>5, LocalElsewhere
<1>4. CASE ~ Matches(row)
  <2>1. Goto(a, "look", "insert") /\ local' = local
    BY <1>4 DEF LookRow
  <2>2. local' = [local EXCEPT ![a] = local[a]]
    BY <2>1 DEF IInv, TypeOK
  <2> QED
    BY <1>1, <1>2, <2>1, <2>2, PlacesApart, LocalElsewhere
<1> QED
  BY <1>3, <1>4

LEMMA InsertRowStep ==
    ASSUME IInv,
           NEW a \in Actors,
           InsertRow(a)
    PROVE  IInv'
<1> DEFINE row == Head(local[a].todo)
           isHost == row.host # NoHost
           m == IF isHost THEN local[a].made + 1 ELSE local[a].made
           r == [local[a] EXCEPT !.todo = Tail(local[a].todo), !.made = m]
<1>1. /\ TypeOK
      /\ Goto(a, "insert", RestPc(a)) /\ pc[a] = "insert"
      /\ UNCHANGED <<nsNote, reviewed, job, disputed, mingled, crowded, crashes>>
  BY DEF InsertRow, Goto, IInv
<1>2. /\ local[a] \in Local /\ row \in Row
      /\ Tail(local[a].todo) \in Seq(Row)
      /\ Len(local[a].todo) # 1 => Tail(local[a].todo) # << >>
  BY <1>1, RowAtHand DEF Importing
<1>3. /\ row.domain \in Domains /\ row.importance \in Importances
      /\ isHost => row.host \in Hosts
  BY <1>2 DEF Row
<1>4. m \in Nat
  BY <1>2 DEF Local
<1> HIDE DEF m
<1>5. local' = [local EXCEPT ![a] = r]
  <2>1. local' = [local EXCEPT ![a].todo = Tail(@),
                               ![a].made = IF isHost THEN @ + 1 ELSE @]
    BY Zenon DEF InsertRow
  <2>2. [local EXCEPT ![a].todo = Tail(@), ![a].made = IF isHost THEN @ + 1 ELSE @] =
        [local EXCEPT ![a] = r]
    BY DEF m
  <2> QED
    BY <2>1, <2>2
<1>6. r \in Local /\ r.bulk = local[a].bulk /\ r.todo = Tail(local[a].todo)
  <2> DEFINE own == local[a]
             rest == Tail(local[a].todo)
  <2>1. own \in Local /\ rest \in Seq(Row)
    BY <1>2
  <2>2. r = [own EXCEPT !.todo = rest, !.made = m]
    OBVIOUS
  <2> HIDE DEF own, rest, r
  <2>3. r \in Local /\ r.bulk = own.bulk /\ r.todo = rest
    BY ONLY <2>1, <2>2, <1>4, SetInserted
  <2> QED
    BY <2>3 DEF own, rest
<1> HIDE DEF r
<1>7. /\ local' \in [Actors -> Local] /\ local'[a] = r
      /\ \A c \in Actors : c # a => local'[c] = local[c]
  BY <1>1, <1>5, <1>6, Assigns
<1>8. /\ pc' \in [Actors -> Places] /\ pc'[a] = RestPc(a)
      /\ \A c \in Actors : c # a => pc'[c] = pc[c]
  BY <1>1, Ends, PlacesApart, Moves DEF Places
<1>9. domain' \in [Domains -> Importances \cup {"none"}]
  BY <1>1, <1>3 DEF InsertRow, TypeOK
<1>10. /\ host' \in [Hosts -> {"none", "draft", "trusted"}]
       /\ \A h \in Hosts : host[h] = "trusted" => host'[h] = "trusted"
  <2>1. isHost => host[row.host] = "none" /\ host' = [host EXCEPT ![row.host] = "draft"]
    BY DEF InsertRow, Absent
  <2>2. ~ isHost => host' = host
    BY DEF InsertRow
  <2> QED
    BY <1>1, <1>3, <2>1, <2>2 DEF TypeOK
<1>11. created' \subseteq Hosts
  BY <1>1, <1>3 DEF InsertRow, TypeOK
<1>12. TypeOK'
  BY <1>1, <1>7, <1>8, <1>9, <1>10, <1>11 DEF TypeOK, Places, reviewed
<1>13. Others(a)
  BY <1>7, <1>8 DEF Others
<1>14. pc'[a] \in Importing => local'[a].todo # << >>
  BY <1>2, <1>6, <1>7, <1>8, Ends DEF Importing
<1>15. Apart(pc[a]) /\ Apart(pc'[a])
  BY <1>1, <1>8, Ends, PlacesApart
<1> QED
  BY <1>1, <1>6, <1>7, <1>10, <1>12, <1>13, <1>14, <1>15, ElsewhereStep

\* The row of the job, whatever is assigned to its status.
LEMMA JobWithStatus ==
    ASSUME TypeOK,
           NEW s \in {"none", "pending", "running"} \cup Settled
    PROVE  job \in JobRow /\ [job EXCEPT !.status = s] \in JobRow
  BY DEF TypeOK, JobRow

LEMMA RefuseRowStep ==
    ASSUME IInv,
           NEW a \in Actors,
           RefuseRow(a)
    PROVE  IInv'
<1>1. /\ Goto(a, "insert", "done")
      /\ UNCHANGED <<library, reviewed, local, history>>
      /\ job' = IF a \in Runs THEN [job EXCEPT !.status = "failed"] ELSE job
  BY DEF RefuseRow
<1>2. job' \in JobRow
  BY <1>1, JobWithStatus DEF IInv, Settled
<1>3. "done" \notin Importing
  BY DEF Importing
<1> QED
  BY <1>1, <1>2, <1>3, PlacesApart, JobElsewhere

LEMMA CreateTrustDomainStep ==
    ASSUME IInv,
           NEW u \in Users, NEW d \in Domains,
           CreateTrustDomain(u, d)
    PROVE  IInv'
<1>1. /\ Goto(u, "idle", "done")
      /\ UNCHANGED <<host, nsNote, reviewed, job, local, history>>
  BY DEF CreateTrustDomain, Begin
<1>2. domain' \in [Domains -> Importances \cup {"none"}]
  BY DEF CreateTrustDomain, IInv, TypeOK
<1>3. host' \in [Hosts -> {"none", "draft", "trusted"}] /\ job' \in JobRow
  BY <1>1 DEF IInv, TypeOK, JobRow
<1>4. u \in Actors /\ "done" \notin Importing
  BY DEF Actors, Importing
<1> QED
  BY <1>1, <1>2, <1>3, <1>4, PlacesApart, SharedElsewhere

LEMMA CreateTrustHostStep ==
    ASSUME IInv,
           NEW u \in Users, NEW h \in Hosts,
           CreateTrustHost(u, h)
    PROVE  IInv'
<1>1. /\ Goto(u, "idle", "done") /\ host[h] = "none"
      /\ UNCHANGED <<domain, nsNote, reviewed, job, local, history>>
  BY DEF CreateTrustHost, Begin
<1>2. PICK s \in {"draft", "trusted"} : host' = [host EXCEPT ![h] = s]
  BY DEF CreateTrustHost
<1>3. /\ host' \in [Hosts -> {"none", "draft", "trusted"}]
      /\ \A g \in Hosts : host[g] = "trusted" => host'[g] = "trusted"
  BY <1>1, <1>2 DEF IInv, TypeOK
<1>4. domain' \in [Domains -> Importances \cup {"none"}] /\ job' \in JobRow
  BY <1>1 DEF IInv, TypeOK, JobRow
<1>5. u \in Actors /\ "done" \notin Importing
  BY DEF Actors, Importing
<1> QED
  BY <1>1, <1>3, <1>4, <1>5, PlacesApart, SharedElsewhere

LEMMA BeginDiscoverStep ==
    ASSUME IInv,
           NEW u \in Users,
           BeginDiscover(u)
    PROVE  IInv'
<1>1. /\ Goto(u, "idle", "discover")
      /\ UNCHANGED <<library, reviewed, job, local, history>>
  BY DEF BeginDiscover, Begin
<1>2. u \in Actors /\ "discover" \notin Importing /\ job' \in JobRow
  BY <1>1 DEF Actors, Importing, IInv, TypeOK, JobRow
<1> QED
  BY <1>1, <1>2, PlacesApart, JobElsewhere

LEMMA NothingToDiscoverStep ==
    ASSUME IInv,
           NEW a \in Actors,
           NothingToDiscover(a)
    PROVE  IInv'
<1>1. /\ Goto(a, "discover", AfterRefusal(a))
      /\ UNCHANGED <<library, reviewed, job, local, history>>
  BY DEF NothingToDiscover
<1>2. AfterRefusal(a) \notin Importing /\ job' \in JobRow
  BY <1>1, Ends DEF Importing, IInv, TypeOK, JobRow
<1>3. AfterRefusal(a) \in Places /\ Apart(AfterRefusal(a)) /\ Apart("discover")
  BY Ends, PlacesApart
<1> QED
  BY <1>1, <1>2, <1>3, JobElsewhere

-----------------------------------------------------------------------------
(* Build jobs.                                                             *)

LEMMA CreateBuildJobStep ==
    ASSUME IInv,
           NEW r \in Runs,
           CreateBuildJob(r)
    PROVE  IInv'
<1>1. /\ Goto(r, "idle", "queued") /\ job' = [job EXCEPT !.status = "pending"]
      /\ UNCHANGED <<library, reviewed, local, history>>
  BY DEF CreateBuildJob, Begin
<1>2. r \in Actors /\ "queued" \notin Importing /\ job' \in JobRow
  BY <1>1, JobWithStatus DEF Actors, Importing, IInv
<1> QED
  BY <1>1, <1>2, PlacesApart, JobElsewhere

LEMMA RetryReadStep ==
    ASSUME IInv,
           NEW r \in Runs,
           RetryRead(r)
    PROVE  IInv'
<1>1. /\ Goto(r, "idle", "retry") /\ job' = job
      /\ UNCHANGED <<library, reviewed, local, history>>
  BY DEF RetryRead, Begin
<1>2. r \in Actors /\ "retry" \notin Importing /\ job' \in JobRow
  BY <1>1 DEF Actors, Importing, IInv, TypeOK, JobRow
<1> QED
  BY <1>1, <1>2, PlacesApart, JobElsewhere

LEMMA RetryWriteStep ==
    ASSUME IInv,
           NEW r \in Runs,
           RetryWrite(r)
    PROVE  IInv'
<1>1. /\ Goto(r, "retry", "queued") /\ job' = [job EXCEPT !.status = "pending"]
      /\ UNCHANGED <<library, reviewed, local, history>>
  BY DEF RetryWrite
<1>2. r \in Actors /\ "queued" \notin Importing /\ job' \in JobRow
  BY <1>1, JobWithStatus DEF Actors, Importing, IInv
<1> QED
  BY <1>1, <1>2, PlacesApart, JobElsewhere

LEMMA ReadFileFailsStep ==
    ASSUME IInv,
           NEW r \in Runs,
           ReadFileFails(r)
    PROVE  IInv'
<1>1. /\ Goto(r, "read", "done") /\ job' = [job EXCEPT !.status = "failed"]
      /\ UNCHANGED <<library, reviewed, local, history>>
  BY DEF ReadFileFails
<1>2. r \in Actors /\ "done" \notin Importing /\ job' \in JobRow
  BY <1>1, JobWithStatus DEF Actors, Importing, IInv, Settled
<1> QED
  BY <1>1, <1>2, PlacesApart, JobElsewhere

LEMMA FinishStep ==
    ASSUME IInv,
           NEW r \in Runs,
           Finish(r)
    PROVE  IInv'
<1>1. /\ Goto(r, "finish", "done") /\ job' = [job EXCEPT !.status = "completed"]
      /\ UNCHANGED <<library, reviewed, local, history>>
  BY DEF Finish
<1>2. r \in Actors /\ "done" \notin Importing /\ job' \in JobRow
  BY <1>1, JobWithStatus DEF Actors, Importing, IInv, Settled
<1> QED
  BY <1>1, <1>2, PlacesApart, JobElsewhere

LEMMA UpdateProgressStep ==
    ASSUME IInv,
           NEW r \in Runs,
           UpdateProgress(r)
    PROVE  IInv'
<1>1. /\ Goto(r, "progress", "reload")
      /\ job' = [job EXCEPT !.processed = local[r].chunk + 1,
                            !.imported = local[r].base + local[r].made]
      /\ UNCHANGED <<library, reviewed, local, history>>
  BY DEF UpdateProgress
<1>2. r \in Actors /\ "reload" \notin Importing
  BY DEF Actors, Importing
<1>3. local[r].chunk \in Nat /\ local[r].base \in Nat /\ local[r].made \in Nat
  BY <1>2 DEF IInv, TypeOK, Local
<1>4. job' \in JobRow
  <2> DEFINE n == local[r].chunk + 1
             x == local[r].base + local[r].made
  <2>1. n \in Nat /\ x \in Nat /\ job' = [job EXCEPT !.processed = n, !.imported = x]
    BY <1>1, <1>3
  <2>2. job \in JobRow
    BY DEF IInv, TypeOK, JobRow
  <2> HIDE DEF n, x
  <2> QED
    BY <2>1, <2>2 DEF JobRow
<1> QED
  BY <1>1, <1>2, <1>4, PlacesApart, JobElsewhere

LEMMA StartRunStep ==
    ASSUME IInv,
           NEW r \in Runs,
           StartRun(r)
    PROVE  IInv'
<1> DEFINE own == local[r]
           i == job.processed
           x == job.imported
           u == [own EXCEPT !.chunk = i, !.base = x]
<1>1. /\ Goto(r, "queued", "read") /\ TypeOK /\ r \in Actors
      /\ job' = [job EXCEPT !.status = "running"]
      /\ UNCHANGED <<library, reviewed, created, disputed, mingled, crashes>>
  BY DEF StartRun, IInv, Actors
<1>2. own \in Local /\ i \in Nat /\ x \in Nat
  BY <1>1 DEF TypeOK
<1>3. local' = [local EXCEPT ![r] = u]
  BY DEF StartRun
<1> HIDE DEF own, i, x
<1>4. u \in Local /\ u.bulk = own.bulk
  <2>1. u = [own EXCEPT !.chunk = i, !.base = x]
    OBVIOUS
  <2> HIDE DEF u
  <2> QED
    BY ONLY <1>2, <2>1, SetStarted
<1> HIDE DEF u
<1>5. /\ local' \in [Actors -> Local] /\ local'[r] = u
      /\ \A c \in Actors : c # r => local'[c] = local[c]
  BY <1>1, <1>3, <1>4, Assigns
<1>6. /\ pc' \in [Actors -> Places] /\ pc[r] = "queued" /\ pc'[r] = "read"
      /\ \A c \in Actors : c # r => pc'[c] = pc[c]
  BY <1>1, PlacesApart, Moves DEF Places
<1>7. job' \in JobRow
  BY <1>1, JobWithStatus
<1>8. crowded' \in BOOLEAN
  BY DEF StartRun
<1>9. TypeOK'
  BY <1>1, <1>5, <1>6, <1>7, <1>8 DEF TypeOK, JobRow, Places, library, reviewed
<1>10. Others(r)
  BY <1>5, <1>6 DEF Others
<1> QED
  BY <1>1, <1>4, <1>5, <1>6, <1>9, <1>10, PlacesApart, ElsewhereStep
     DEF own, Importing, library

\* The rows of a chunk, if there is one of that index.
ChunkTodo(i) == IF i < NumChunks THEN ChunkRows(i) ELSE << >>

LEMMA ChunkTodoTyped ==
    ASSUME TrustAssumption, TypeOK,
           NEW i \in Nat
    PROVE  /\ ChunkTodo(i) \in Seq(Row)
           /\ ChunkPc(i) \in {"look", "finish"}
           /\ ChunkPc(i) = "look" => ChunkTodo(i) # << >>
<1>1. CASE i < NumChunks
  BY <1>1, ChunkHasRows DEF ChunkTodo, ChunkPc
<1>2. CASE ~ (i < NumChunks)
  <2>1. << >> \in Seq(Row)
    BY EmptySeq
  <2> QED
    BY <1>2, <2>1 DEF ChunkTodo, ChunkPc
<1> QED
  BY <1>1, <1>2

LEMMA ReadFileStep ==
    ASSUME TrustAssumption, IInv,
           NEW r \in Runs,
           ReadFile(r)
    PROVE  IInv'
<1> DEFINE own == local[r]
           i == local[r].chunk
           t == ChunkTodo(i)
           u == [own EXCEPT !.chunk = i, !.made = 0, !.todo = t]
<1>1. /\ Goto(r, "read", ChunkPc(i)) /\ TypeOK /\ r \in Actors
      /\ UNCHANGED <<library, reviewed, job, history>>
  BY DEF ReadFile, IInv, Actors
<1>2. own \in Local /\ i \in Nat
  BY <1>1 DEF TypeOK, Local
<1>3. t \in Seq(Row) /\ ChunkPc(i) \in {"look", "finish"} /\ (ChunkPc(i) = "look" => t # << >>)
  BY <1>1, <1>2, ChunkTodoTyped
<1>4. local' = [local EXCEPT ![r] = u]
  BY DEF ReadFile, Chunk, ChunkTodo
<1> HIDE DEF own, i, t
<1>5. u \in Local /\ u.bulk = own.bulk /\ u.todo = t
  <2>1. u = [own EXCEPT !.chunk = i, !.made = 0, !.todo = t]
    OBVIOUS
  <2>2. t \in Seq(Row)
    BY <1>3
  <2> HIDE DEF u
  <2> QED
    BY ONLY <1>2, <2>1, <2>2 DEF Local
<1> HIDE DEF u
<1>6. ChunkPc(i) \in Places /\ Apart(ChunkPc(i)) /\ Apart("read")
  BY <1>3, PlacesApart
<1>7. ChunkPc(i) \in Importing => u.todo # << >>
  BY <1>3, <1>5 DEF Importing
<1>8. u.bulk = local[r].bulk
  BY <1>5 DEF own
<1> QED
  BY <1>1, <1>4, <1>5, <1>6, <1>7, <1>8, LocalElsewhere

LEMMA ReloadStep ==
    ASSUME TrustAssumption, IInv,
           NEW r \in Runs,
           Reload(r)
    PROVE  IInv'
<1> DEFINE own == local[r]
           i == local[r].chunk + 1
           t == ChunkTodo(i)
           x == job.imported
           u == [own EXCEPT !.chunk = i, !.made = 0, !.todo = t, !.base = x]
<1>1. /\ Goto(r, "reload", ChunkPc(i)) /\ TypeOK /\ r \in Actors
      /\ UNCHANGED <<library, reviewed, job, history>>
  BY DEF Reload, IInv, Actors
<1>2. own \in Local /\ i \in Nat /\ x \in Nat
  BY <1>1 DEF TypeOK, Local
<1>3. t \in Seq(Row) /\ ChunkPc(i) \in {"look", "finish"} /\ (ChunkPc(i) = "look" => t # << >>)
  BY <1>1, <1>2, ChunkTodoTyped
<1>4. local' = [local EXCEPT ![r] = u]
  BY <1>1 DEF Reload, Chunk, ChunkTodo, TypeOK
<1> HIDE DEF own, i, t, x
<1>5. u \in Local /\ u.bulk = own.bulk /\ u.todo = t
  <2>1. u = [own EXCEPT !.chunk = i, !.made = 0, !.todo = t, !.base = x]
    OBVIOUS
  <2>2. t \in Seq(Row)
    BY <1>3
  <2> HIDE DEF u
  <2> QED
    BY ONLY <1>2, <2>1, <2>2 DEF Local
<1> HIDE DEF u
<1>6. ChunkPc(i) \in Places /\ Apart(ChunkPc(i)) /\ Apart("reload")
  BY <1>3, PlacesApart
<1>7. ChunkPc(i) \in Importing => u.todo # << >>
  BY <1>3, <1>5 DEF Importing
<1>8. u.bulk = local[r].bulk
  BY <1>5 DEF own
<1> QED
  BY <1>1, <1>4, <1>5, <1>6, <1>7, <1>8, LocalElsewhere

-----------------------------------------------------------------------------
(* The status of a batch and the records it is derived from.               *)

Verdicts == {"draft"} \cup Decided

LEMMA StatusOfDraft ==
    /\ StatusOf({}) = "draft"
    /\ \A n : "draft" \in n => StatusOf(n) = "draft"
  BY DEF StatusOf

LEMMA StatusOfVerdicts ==
    ASSUME NEW n \in SUBSET Verdicts
    PROVE  /\ StatusOf(n) \in Verdicts
           /\ StatusOf(n) \in Decided => n # {} /\ "draft" \notin n
<1>1. CASE n = {} \/ "draft" \in n
  BY <1>1, StatusOfDraft DEF Verdicts, Decided
<1>2. CASE "draft" \notin n /\ "approved" \in n
  BY <1>2 DEF StatusOf, Verdicts, Decided
<1>3. CASE n # {} /\ "draft" \notin n /\ "approved" \notin n
  <2>1. n = {"rejected"}
    BY <1>3 DEF Verdicts, Decided
  <2> QED
    BY <1>3, <2>1 DEF StatusOf, Verdicts, Decided
<1> QED
  BY <1>1, <1>2, <1>3

LEMMA FoundVerdicts ==
    ASSUME TypeOK,
           NEW b \in Batches
    PROVE  Found(b) \subseteq Verdicts
<1>1. \A h \in Hosts : record[b][h] \in {"none"} \cup Verdicts
  BY DEF TypeOK, Verdicts
<1> QED
  BY <1>1 DEF Found

-----------------------------------------------------------------------------
(* Discovery.                                                              *)

LEMMA Frame ==
    ASSUME TypeOK,
           NEW a \in Actors,
           NEW from, NEW to \in Places,
           NEW u \in Local,
           Goto(a, from, to),
           local' = [local EXCEPT ![a] = u]
    PROVE  /\ pc' \in [Actors -> Places] /\ local' \in [Actors -> Local]
           /\ pc[a] = from /\ pc'[a] = to /\ local'[a] = u
           /\ Others(a)
<1>1. /\ pc' \in [Actors -> Places]
      /\ pc[a] = from /\ pc'[a] = to
      /\ \A c \in Actors : c # a => pc'[c] = pc[c]
  BY Moves DEF Places
<1>2. /\ local' \in [Actors -> Local] /\ local'[a] = u
      /\ \A c \in Actors : c # a => local'[c] = local[c]
  BY Assigns
<1> QED
  BY <1>1, <1>2 DEF Others

LEMMA StartDiscoveryStep ==
    ASSUME TrustAssumption, IInv,
           NEW a \in Actors,
           StartDiscovery(a)
    PROVE  IInv'
<1>1. PICK b \in Batches :
         /\ status[b] = "none" /\ Goto(a, "discover", "resolve")
         /\ status' = [status EXCEPT ![b] = "draft"]
         /\ local' = [local EXCEPT ![a].batch = b, ![a].queue = Present,
                                   ![a].seen = {}, ![a].rows = {}]
         /\ UNCHANGED <<library, baseline, record, job, history>>
  BY DEF StartDiscovery
<1> DEFINE own == local[a]
           q == Present
           u == [own EXCEPT !.batch = b, !.queue = q, !.seen = {}, !.rows = {}]
<1>2. TypeOK /\ own \in Local /\ b \in Batches \cup {0} /\ q \in SUBSET Hosts
  BY DEF IInv, TypeOK, Present
<1>3. local' = [local EXCEPT ![a] = u]
  BY <1>1
<1> HIDE DEF own, q
<1>4. u \in Local /\ u.batch = b /\ u.bulk = own.bulk
  <2>1. u = [own EXCEPT !.batch = b, !.queue = q, !.seen = {}, !.rows = {}]
    OBVIOUS
  <2> HIDE DEF u
  <2> QED
    BY ONLY <1>2, <2>1 DEF Local
<1> HIDE DEF u
<1>5. "resolve" \in Places /\ "resolve" \in Storing /\ "resolve" \notin Reviewing
  BY DEF Places, Active, Building, Discovering, Storing, Reviewing, Approving
<1>6. /\ pc' \in [Actors -> Places] /\ local' \in [Actors -> Local]
      /\ pc[a] = "discover" /\ pc'[a] = "resolve" /\ local'[a] = u
      /\ Others(a)
  BY <1>1, <1>2, <1>3, <1>4, <1>5, Frame
<1>7. \A c \in Batches : Found(c)' = Found(c) /\ status'[c] = IF c = b THEN "draft" ELSE status[c]
  BY <1>1, <1>2 DEF Found, TypeOK
<1>8. TypeOK'
  <2>1. status' \in [Batches -> {"none", "draft"} \cup Decided]
    BY <1>1, <1>2 DEF TypeOK
  <2> QED
    BY <1>1, <1>2, <1>6, <2>1 DEF TypeOK, Places, library, history
<1>9. ActorInv'
  <2>1. ~ own.bulk => a \in Users
    BY DEF IInv, ActorInv, ActorOK, own
  <2>2. ActorOK(a)'
    BY <1>4, <1>5, <1>6, <2>1 DEF ActorOK, Importing, Reviewing
  <2> QED
    BY <1>6, <2>2, ActorKept DEF IInv
<1>10. \A c \in Actors : pc[c] \in Storing \cup Reviewing =>
          c # a /\ local[c].batch \in Batches \ {b} /\ pc'[c] = pc[c] /\ local'[c] = local[c]
  <2>1. "discover" \notin Storing \cup Reviewing
    BY DEF Storing, Reviewing, Approving
  <2> QED
    BY <1>1, <1>6, <2>1 DEF IInv, BatchInv, ActorInv, ActorOK, Others
<1>11. \A c \in Actors : pc'[c] \in Storing \cup Reviewing =>
          \/ c = a /\ local'[c].batch = b
          \/ pc[c] \in Storing \cup Reviewing
  BY <1>4, <1>6 DEF Others
<1>12. BatchInv'
  <2>1. \A c, d \in Actors : pc'[c] \in Storing /\ pc'[d] \in Storing
                                /\ local'[c].batch = local'[d].batch => c = d
    BY <1>10, <1>11, <1>5 DEF IInv, BatchInv
  <2>2. \A c \in Actors : pc'[c] \in Storing => Found(local[c].batch)' = {}
    <3>1. \A c \in Actors : pc[c] \in Storing => Found(local[c].batch) = {}
      BY DEF IInv, BatchInv
    <3>2. Found(b) = {}
      BY <1>1 DEF IInv, BatchInv
    <3>3. \A c \in Actors : pc'[c] \in Storing =>
             \/ local'[c].batch = b
             \/ pc[c] \in Storing /\ local'[c] = local[c] /\ local[c].batch \in Batches
      BY <1>10, <1>11
    <3>4. \A c \in Actors : Found(local[c].batch)' = Found(local'[c].batch)
      BY <1>1 DEF Found
    <3> QED
      BY <3>1, <3>2, <3>3, <3>4
  <2>3. \A c \in Actors : pc'[c] \in Storing \cup Reviewing => status'[local'[c].batch] # "none"
    BY <1>7, <1>10, <1>11 DEF IInv, BatchInv
  <2>4. \A c \in Batches :
          /\ status'[c] = "none" => Found(c)' = {}
          /\ status'[c] \in Decided => Found(c)' # {} /\ "draft" \notin Found(c)'
    <3>1. "draft" \notin Decided /\ "draft" # "none"
      BY DEF Decided
    <3> QED
      BY <1>7, <3>1 DEF IInv, BatchInv
  <2>5. \A c \in Actors : pc'[c] = "write" /\ StatusOf(local'[c].counted) \in Decided =>
          Found(local[c].batch)' # {} /\ "draft" \notin Found(local[c].batch)'
    <3>1. "write" \in Reviewing /\ "write" # "resolve"
      BY DEF Reviewing
    <3>2. \A c \in Actors : pc'[c] = "write" => pc[c] = "write" /\ local'[c] = local[c]
      BY <1>6, <3>1 DEF Others
    <3>3. \A c \in Actors : Found(local[c].batch)' = Found(local'[c].batch)
      BY <1>1 DEF Found
    <3>4. \A c \in Actors : pc[c] = "write" /\ StatusOf(local[c].counted) \in Decided =>
             Found(local[c].batch) # {} /\ "draft" \notin Found(local[c].batch)
      BY DEF IInv, BatchInv
    <3> QED
      BY <3>2, <3>3, <3>4
  <2>6. \A c \in Actors : pc'[c] \in Approving => Found(local[c].batch)' # {}
    <3>1. "resolve" \notin Approving
      BY DEF Approving
    <3>2. \A c \in Actors : pc'[c] \in Approving => pc[c] \in Approving /\ local'[c] = local[c]
      BY <1>6, <3>1 DEF Others
    <3>3. \A c \in Actors : Found(local[c].batch)' = Found(local'[c].batch)
      BY <1>1 DEF Found
    <3>4. \A c \in Actors : pc[c] \in Approving => Found(local[c].batch) # {}
      BY DEF IInv, BatchInv
    <3> QED
      BY <3>2, <3>3, <3>4
  <2> QED
    BY <2>1, <2>2, <2>3, <2>4, <2>5, <2>6 DEF BatchInv
<1>13. AgreeInv'
  <2>1. \A c \in Actors : \A d : InReview(c, d)' <=> InReview(c, d)
    BY <1>5, <1>6, <1>10, <1>11 DEF InReview, Others
  <2>2. \A c \in Actors : \A d : Pending(c, d) => Pending(c, d)'
    BY <1>10 DEF Pending, Reviewing
  <2>3. \A c \in Actors : pc[c] \in Reviewing => pc'[c] = pc[c] /\ local'[c] = local[c]
    BY <1>10
  <2>4. \A c \in Actors : pc'[c] = "write" => pc[c] = "write" /\ local'[c] = local[c]
    BY <1>6 DEF Others
  <2>5. mingled' = mingled
    BY <1>1 DEF history
  <2> SUFFICES ASSUME NEW d \in Batches \ mingled
               PROVE  /\ \A c, e \in Actors :
                            InReview(c, d)' /\ InReview(e, d)' /\ pc'[c] # "targets"
                               /\ pc'[e] # "targets" => c = e
                      /\ status'[d] = "none" \/ Agrees(d)' \/ \E c \in Actors : Pending(c, d)'
                      /\ \A c \in Actors : pc'[c] = "write" /\ local'[c].batch = d =>
                            StatusOf(local'[c].counted) = StatusOf(Found(d)')
    BY <2>5 DEF AgreeInv
  <2>6. \A c, e \in Actors : InReview(c, d)' /\ InReview(e, d)' /\ pc'[c] # "targets"
                                /\ pc'[e] # "targets" => c = e
    <3>1. \A c, e \in Actors : InReview(c, d) /\ InReview(e, d) /\ pc[c] # "targets"
                                  /\ pc[e] # "targets" => c = e
      BY DEF IInv, AgreeInv
    <3>2. \A c \in Actors : InReview(c, d)' => InReview(c, d) /\ pc'[c] = pc[c]
      BY <2>1, <2>3 DEF InReview
    <3> QED
      BY <3>1, <3>2
  <2>7. status'[d] = "none" \/ Agrees(d)' \/ \E c \in Actors : Pending(c, d)'
    <3>1. CASE d = b
      <4>1. Found(b) = {} /\ Found(b)' = {} /\ status'[b] = "draft"
        BY <1>1, <1>7 DEF IInv, BatchInv
      <4> QED
        BY <3>1, <4>1, StatusOfDraft DEF Agrees
    <3>2. CASE d # b
      <4>1. Agrees(d) => Agrees(d)'
        BY <1>7, <3>2 DEF Agrees
      <4> QED
        BY <1>7, <2>2, <3>2, <4>1 DEF IInv, AgreeInv
    <3> QED
      BY <3>1, <3>2
  <2>8. \A c \in Actors : pc'[c] = "write" /\ local'[c].batch = d =>
           StatusOf(local'[c].counted) = StatusOf(Found(d)')
    BY <1>7, <2>4 DEF IInv, AgreeInv
  <2> QED
    BY <2>6, <2>7, <2>8
<1>14. BaselineInv'
  <2>1. "discover" \notin Approving /\ "resolve" \notin Approving
    BY DEF Approving
  <2> QED
    BY <1>1, <1>6, <2>1, BaselineKept DEF IInv, library, history
<1> QED
  BY <1>8, <1>9, <1>12, <1>13, <1>14 DEF IInv

LEMMA ResolveHostStep ==
    ASSUME TrustAssumption, IInv,
           NEW a \in Actors, NEW h \in Hosts,
           ResolveHost(a, h)
    PROVE  IInv'
<1> DEFINE named(answers) == IF answers THEN NsOf[h] ELSE {}
           new(answers) == {n \in named(answers) : host[n] = "none"}
           again(answers) == {n \in named(answers) : host[n] = "draft" /\ n \in nsNote}
           own == local[a]
           s == own.seen \cup {h}
           left(answers) == (own.queue \cup new(answers) \cup again(answers)) \ s
           found(answers) == IF answers THEN own.rows \cup {h} ELSE own.rows
           u(answers) == [own EXCEPT !.queue = left(answers), !.seen = s, !.rows = found(answers)]
<1>1. PICK answers \in BOOLEAN :
         /\ Goto(a, "resolve", IF left(answers) = {} THEN "store" ELSE "resolve")
         /\ host' = [n \in Hosts |-> IF n \in new(answers) THEN "draft" ELSE host[n]]
         /\ nsNote' = nsNote \cup new(answers)
         /\ local' = [local EXCEPT ![a] = u(answers)]
         /\ UNCHANGED <<domain, reviewed, job, history>>
  <2>1. PICK answers \in BOOLEAN :
           /\ Goto(a, "resolve", IF left(answers) = {} THEN "store" ELSE "resolve")
           /\ host' = [n \in Hosts |-> IF n \in new(answers) THEN "draft" ELSE host[n]]
           /\ nsNote' = nsNote \cup new(answers)
           /\ local' = [local EXCEPT ![a].queue = left(answers), ![a].seen = s,
                                     ![a].rows = IF answers THEN @ \cup {h} ELSE @]
           /\ UNCHANGED <<domain, reviewed, job, history>>
    BY Zenon DEF ResolveHost
  <2>2. [local EXCEPT ![a].queue = left(answers), ![a].seen = s,
                      ![a].rows = IF answers THEN @ \cup {h} ELSE @] =
        [local EXCEPT ![a] = u(answers)]
    OBVIOUS
  <2> QED
    BY <2>1, <2>2, Zenon
<1>2. TypeOK /\ own \in Local
  BY DEF IInv, TypeOK
<1>3. own.queue \subseteq Hosts /\ own.seen \subseteq Hosts /\ own.rows \subseteq Hosts
  BY <1>2 DEF Local
<1>4. new(answers) \subseteq Hosts /\ again(answers) \subseteq Hosts
  BY DEF TrustAssumption
<1> DEFINE q == left(answers)
           w == found(answers)
           n == new(answers)
           v == u(answers)
<1>5. q \in SUBSET Hosts /\ s \in SUBSET Hosts /\ w \in SUBSET Hosts
  BY <1>3, <1>4
<1>6. v = [own EXCEPT !.queue = q, !.seen = s, !.rows = w]
  OBVIOUS
<1> DEFINE to == IF q = {} THEN "store" ELSE "resolve"
<1>7. /\ Goto(a, "resolve", to) /\ to \in {"store", "resolve"}
      /\ host' = [m \in Hosts |-> IF m \in n THEN "draft" ELSE host[m]]
      /\ \A m \in n : host[m] = "none"
      /\ nsNote' = nsNote \cup n /\ n \subseteq Hosts
      /\ local' = [local EXCEPT ![a] = v]
      /\ UNCHANGED <<domain, reviewed, job, history>>
  BY <1>1, <1>4
<1> HIDE DEF named, new, again, own, s, left, found, u, q, w, n, v, to
<1>8. v \in Local /\ v.batch = own.batch /\ v.bulk = own.bulk
  BY ONLY <1>2, <1>5, <1>6 DEF Local
<1>9. to \in Storing /\ to \in Places /\ to \notin Reviewing /\ to \notin Importing
      /\ "resolve" \in Storing /\ "resolve" \notin Reviewing
  BY <1>7 DEF Storing, Places, Active, Building, Discovering, Reviewing, Approving, Importing
<1>10. /\ pc' \in [Actors -> Places] /\ local' \in [Actors -> Local]
       /\ pc[a] = "resolve" /\ pc'[a] = to /\ local'[a] = v
       /\ Others(a)
  BY <1>2, <1>7, <1>8, <1>9, Frame
<1>11. /\ host' \in [Hosts -> {"none", "draft", "trusted"}]
       /\ \A m \in Hosts : host[m] = "trusted" => host'[m] = "trusted"
  BY <1>2, <1>7 DEF TypeOK
<1>12. TypeOK'
  BY <1>2, <1>7, <1>10, <1>11 DEF TypeOK, Places, reviewed, history
<1>13. ActorInv'
  <2>1. ActorOK(a)
    BY DEF IInv, ActorInv
  <2>2. ActorOK(a)'
    BY <1>8, <1>9, <1>10, <2>1 DEF ActorOK, own, Reviewing, Approving
  <2> QED
    BY <1>10, <2>2, ActorKept DEF IInv
<1>14. BatchInv'
  BY <1>7, <1>8, <1>9, <1>10, BatchKept DEF IInv, reviewed, own, Reviewing
<1>15. AgreeInv'
  <2>1. \A b : ~ InReview(a, b)' /\ ~ Pending(a, b) /\ pc'[a] # "write"
    BY <1>9, <1>10 DEF InReview, Pending, Reviewing, Approving
  <2> QED
    BY <1>7, <1>10, <2>1, AgreeKept DEF IInv, reviewed, history
<1>16. BaselineInv'
  BY <1>7, <1>9, <1>10, <1>11, BaselineKept DEF IInv, reviewed, history, Reviewing
<1> QED
  BY <1>12, <1>13, <1>14, <1>15, <1>16 DEF IInv

LEMMA StoreCandidatesStep ==
    ASSUME IInv,
           NEW a \in Actors,
           StoreCandidates(a)
    PROVE  IInv'
<1> DEFINE own == local[a]
           u == [own EXCEPT !.seen = {}, !.rows = {}]
           to == IF a \in Users THEN "done" ELSE "targets"
           found == [h \in Hosts |-> IF h \in own.rows THEN "draft" ELSE "none"]
<1>1. /\ Goto(a, "store", to) /\ TypeOK /\ own \in Local
      /\ record' = [record EXCEPT ![own.batch] = found]
      /\ local' = [local EXCEPT ![a] = u]
      /\ UNCHANGED <<library, baseline, status, job, history>>
  BY DEF StoreCandidates, IInv, TypeOK
<1>2. pc[a] = "store"
  BY <1>1 DEF Goto
<1>3. "store" \in Storing /\ "store" \notin Reviewing
  BY DEF Storing, Reviewing, Approving
<1>4. PICK b \in Batches :
         own.batch = b /\ Found(b) = {} /\ status[b] \notin {"none"} \cup Decided
  BY <1>2, <1>3 DEF IInv, ActorInv, ActorOK, BatchInv
<1>5. \A h \in Hosts : found[h] \in {"none", "draft"}
  OBVIOUS
<1>6. found \in [Hosts -> {"none", "draft"} \cup Decided]
  OBVIOUS
<1>7. u = [own EXCEPT !.seen = {}, !.rows = {}]
  OBVIOUS
<1> HIDE DEF own, u, found
<1>8. u \in Local /\ u.batch = own.batch /\ u.bulk = own.bulk
  BY ONLY <1>1, <1>7 DEF Local
<1>9. to \in Places /\ to \in {"done", "targets"} /\ (to = "targets" => a \notin Users)
  BY DEF Places, Active, Building, Reviewing
<1> HIDE DEF to
<1>10. /\ pc' \in [Actors -> Places] /\ local' \in [Actors -> Local]
       /\ pc'[a] = to /\ local'[a] = u /\ Others(a)
  BY <1>1, <1>8, <1>9, Frame
<1>11. record' \in [Batches -> [Hosts -> {"none", "draft"} \cup Decided]]
  BY <1>1, <1>6 DEF TypeOK
<1>12. TypeOK'
  BY <1>1, <1>10, <1>11 DEF TypeOK, Places, library, history
<1>13. /\ Found(b)' \subseteq {"draft"}
       /\ \A c \in Batches : c # b => record'[c] = record[c] /\ Found(c)' = Found(c)
  <2>1. record'[b] = found /\ \A c \in Batches : c # b => record'[c] = record[c]
    BY <1>1, <1>4 DEF TypeOK
  <2>2. Found(b)' = {found[h] : h \in Hosts} \ {"none"}
    BY <2>1 DEF Found
  <2> QED
    BY <1>5, <2>1, <2>2 DEF Found
<1>14. StatusOf(Found(b)') = "draft" /\ status[b] = "draft"
  <2>1. Found(b)' = {} \/ "draft" \in Found(b)'
    BY <1>13
  <2> QED
    BY <1>1, <1>4, <2>1, StatusOfDraft DEF TypeOK
<1>15. ActorInv'
  <2>1. ActorOK(a)
    BY DEF IInv, ActorInv
  <2>2. to \notin Importing \cup Approving \cup {"review"}
    BY <1>9 DEF Importing, Approving
  <2>3. ActorOK(a)'
    BY <1>4, <1>8, <1>9, <1>10, <2>1, <2>2 DEF ActorOK, own, Approving
  <2> QED
    BY <1>10, <2>3, ActorKept DEF IInv
<1>16. \A c \in Actors : pc'[c] \in Storing =>
          c # a /\ pc[c] \in Storing /\ local'[c] = local[c] /\ local[c].batch \in Batches \ {b}
  <2>1. \A c \in Actors : pc'[c] \in Storing => c # a /\ pc[c] \in Storing /\ local'[c] = local[c]
    BY <1>9, <1>10 DEF Others, Storing
  <2>2. \A c \in Actors : c # a /\ pc[c] \in Storing => local[c].batch \in Batches \ {b}
    BY <1>2, <1>3, <1>4 DEF IInv, BatchInv, ActorInv, ActorOK, own
  <2> QED
    BY <2>1, <2>2
<1>17. \A c \in Actors : pc'[c] \in Reviewing =>
          \/ c = a /\ local'[c].batch = b /\ pc'[c] = "targets"
          \/ pc[c] = pc'[c] /\ local'[c] = local[c]
  BY <1>4, <1>8, <1>9, <1>10 DEF Others, Reviewing, Approving
<1>18. \A c \in Actors : pc'[c] = "write" => pc[c] = "write" /\ local'[c] = local[c]
  BY <1>9, <1>10 DEF Others
<1>19. BatchInv'
  <2>1. \A c, d \in Actors : pc'[c] \in Storing /\ pc'[d] \in Storing
                                /\ local'[c].batch = local'[d].batch => c = d
    BY <1>16 DEF IInv, BatchInv
  <2>2. \A c \in Actors : pc'[c] \in Storing => Found(local[c].batch)' = {}
    <3> SUFFICES ASSUME NEW c \in Actors, pc'[c] \in Storing
                 PROVE  Found(local[c].batch)' = {}
      OBVIOUS
    <3>1. PICK d \in Batches : d = local[c].batch /\ d = local'[c].batch /\ d # b
      BY <1>16
    <3>2. Found(d) = {}
      BY <1>16, <3>1 DEF IInv, BatchInv
    <3>3. Found(local[c].batch)' = Found(d)'
      BY <3>1 DEF Found
    <3> QED
      BY <1>13, <3>1, <3>2, <3>3
  <2>3. \A c \in Actors : pc'[c] \in Storing \cup Reviewing => status[local'[c].batch] # "none"
    BY <1>4, <1>16, <1>17 DEF IInv, BatchInv
  <2>4. \A d \in Batches :
          /\ status[d] = "none" => Found(d)' = {}
          /\ status[d] \in Decided => Found(d)' # {} /\ "draft" \notin Found(d)'
    BY <1>4, <1>13 DEF IInv, BatchInv
  <2>5. \A c \in Actors : pc'[c] = "write" /\ StatusOf(local'[c].counted) \in Decided =>
          Found(local[c].batch)' # {} /\ "draft" \notin Found(local[c].batch)'
    <3> SUFFICES ASSUME NEW c \in Actors, pc'[c] = "write",
                        StatusOf(local'[c].counted) \in Decided
                 PROVE  Found(local[c].batch)' # {} /\ "draft" \notin Found(local[c].batch)'
      OBVIOUS
    <3>1. pc[c] = "write" /\ local'[c] = local[c]
      BY <1>18
    <3>2. PICK d \in Batches : d = local[c].batch
      BY <3>1 DEF IInv, ActorInv, ActorOK, Reviewing
    <3>3. Found(d) # {} /\ "draft" \notin Found(d)
      BY <3>1, <3>2 DEF IInv, BatchInv
    <3>4. Found(local[c].batch)' = Found(d)'
      BY <3>1, <3>2 DEF Found
    <3> QED
      BY <1>4, <1>13, <3>3, <3>4
  <2>6. \A c \in Actors : pc'[c] \in Approving => Found(local[c].batch)' # {}
    <3> SUFFICES ASSUME NEW c \in Actors, pc'[c] \in Approving
                 PROVE  Found(local[c].batch)' # {}
      OBVIOUS
    <3>1. pc[c] = pc'[c] /\ local'[c] = local[c] /\ pc[c] \in Reviewing
      BY <1>17 DEF Reviewing, Approving
    <3>2. PICK d \in Batches : d = local[c].batch
      BY <3>1 DEF IInv, ActorInv, ActorOK
    <3>3. Found(d) # {}
      BY <3>1, <3>2 DEF IInv, BatchInv
    <3>4. Found(local[c].batch)' = Found(d)'
      BY <3>1, <3>2 DEF Found
    <3> QED
      BY <1>4, <1>13, <3>3, <3>4
  <2>7. UNCHANGED status
    BY <1>1
  <2> QED
    BY <2>1, <2>2, <2>3, <2>4, <2>5, <2>6, <2>7 DEF BatchInv
<1>20. AgreeInv'
  <2>1. mingled' = mingled /\ status' = status
    BY <1>1 DEF history
  <2> SUFFICES ASSUME NEW d \in Batches \ mingled
               PROVE  /\ \A c, e \in Actors :
                            InReview(c, d)' /\ InReview(e, d)' /\ pc'[c] # "targets"
                               /\ pc'[e] # "targets" => c = e
                      /\ status[d] = "none" \/ Agrees(d)' \/ \E c \in Actors : Pending(c, d)'
                      /\ \A c \in Actors : pc'[c] = "write" /\ local'[c].batch = d =>
                            StatusOf(local'[c].counted) = StatusOf(Found(d)')
    BY <2>1 DEF AgreeInv
  <2>2. \A c, e \in Actors : InReview(c, d)' /\ InReview(e, d)' /\ pc'[c] # "targets"
                                /\ pc'[e] # "targets" => c = e
    <3>1. \A c \in Actors : InReview(c, d)' /\ pc'[c] # "targets" =>
             InReview(c, d) /\ pc[c] # "targets"
      BY <1>17 DEF InReview
    <3>2. \A c, e \in Actors : InReview(c, d) /\ InReview(e, d) /\ pc[c] # "targets"
                                  /\ pc[e] # "targets" => c = e
      BY DEF IInv, AgreeInv
    <3> QED
      BY <3>1, <3>2
  <2>3. status[d] = "none" \/ Agrees(d)' \/ \E c \in Actors : Pending(c, d)'
    <3>1. CASE d = b
      BY <1>14, <2>1, <3>1 DEF Agrees
    <3>2. CASE d # b
      <4>1. \A c \in Actors : Pending(c, d) => Pending(c, d)'
        BY <1>2, <1>3, <1>10 DEF Pending, Others, Approving
      <4>2. Agrees(d) => Agrees(d)'
        BY <1>13, <2>1, <3>2 DEF Agrees
      <4> QED
        BY <4>1, <4>2 DEF IInv, AgreeInv
    <3> QED
      BY <3>1, <3>2
  <2>4. \A c \in Actors : pc'[c] = "write" /\ local'[c].batch = d =>
           StatusOf(local'[c].counted) = StatusOf(Found(d)')
    <3>1. \A c \in Actors : pc'[c] = "write" /\ local'[c].batch = d =>
             StatusOf(local'[c].counted) = StatusOf(Found(d))
      BY <1>18 DEF IInv, AgreeInv
    <3>2. StatusOf(Found(d)') = StatusOf(Found(d))
      BY <1>4, <1>13, <1>14, StatusOfDraft
    <3> QED
      BY <3>1, <3>2
  <2> QED
    BY <2>2, <2>3, <2>4
<1>21. BaselineInv'
  <2>1. \A h \in Hosts : record[b][h] = "none"
    BY <1>4 DEF Found
  <2>2. \A c \in Batches, h \in Hosts : record'[c][h] = "approved" <=> record[c][h] = "approved"
    <3>1. \A h \in Hosts : record'[b][h] \in {"none", "draft"}
      BY <1>1, <1>4, <1>5 DEF TypeOK
    <3> QED
      BY <1>13, <2>1, <3>1
  <2>3. baseline' = baseline /\ host' = host /\ disputed' = disputed
    BY <1>1 DEF library, history
  <2>4. \A h \in Hosts : AtRest(h) => AtRest(h)'
    BY <2>2, <2>3 DEF AtRest
  <2>5. \A c \in Actors, h \in Hosts : Approves(c, h)' <=> Approves(c, h)
    BY <1>2, <1>9, <1>10 DEF Approves, Others, Approving
  <2>6. \A c \in Actors, h \in Hosts : Approves(c, h) =>
           pc'[c] = pc[c] /\ local'[c] = local[c] /\ local[c].batch \in Batches
    BY <1>2, <1>10 DEF Approves, Others, Approving, IInv, ActorInv, ActorOK, Reviewing
  <2>7. \A c \in Actors, h \in Hosts \ disputed : Approves(c, h) =>
           record'[local[c].batch][h] = "draft"
    <3>1. \A c \in Actors, h \in Hosts \ disputed : Approves(c, h) =>
             record[local[c].batch][h] = "draft"
      BY DEF IInv, BaselineInv, ApprovalOK
    <3> QED
      BY <1>13, <2>1, <2>6, <3>1
  <2> QED
    BY <2>3, <2>4, <2>5, <2>6, <2>7 DEF IInv, BaselineInv, ApprovalOK
<1> QED
  BY <1>12, <1>15, <1>19, <1>20, <1>21 DEF IInv

-----------------------------------------------------------------------------
(* Reviews: the steps that only read.                                      *)

LEMMA Mingling ==
    ASSUME TypeOK,
           NEW a \in Actors, NEW b \in Batches
    PROVE  /\ Mingles(a, b) \subseteq Batches /\ mingled \subseteq Mingles(a, b)
           /\ b \notin Mingles(a, b) => \A c \in Actors \ {a} : ~ InReview(c, b)
  BY DEF TypeOK, Mingles

\* Steps of reviews that only change where the actor is, what it knows, and
\* which batches are known to be under two reviews.
LEMMA ReadingStep ==
    ASSUME IInv,
           NEW a \in Actors,
           NEW from, NEW to \in Places,
           NEW u \in Local,
           Goto(a, from, to),
           local' = [local EXCEPT ![a] = u],
           from \notin Approving, to \notin Storing \cup Approving \cup Importing,
           mingled' \subseteq Batches, mingled \subseteq mingled',
           UNCHANGED <<library, reviewed, job, created, disputed, crowded, crashes>>,
           to \in Reviewing => u.batch \in Batches /\ status[u.batch] # "none",
           ~ u.bulk => a \in Users /\ to # "targets",
           ~ u.bulk /\ to = "review" => \E h \in Hosts : u.queue = {h},
           to = "write" => u.counted = Found(u.batch),
           \A b \in Batches \ mingled' :
              /\ to \in Reviewing \ {"targets"} /\ u.batch = b =>
                    \/ InReview(a, b) /\ pc[a] # "targets"
                    \/ \A c \in Actors \ {a} : ~ InReview(c, b)
              /\ Pending(a, b) => Pending(a, b)'
    PROVE  IInv'
<1>1. /\ pc' \in [Actors -> Places] /\ local' \in [Actors -> Local]
      /\ pc[a] = from /\ pc'[a] = to /\ local'[a] = u /\ Others(a)
  BY Frame DEF IInv
<1>2. TypeOK'
  BY <1>1 DEF IInv, TypeOK, Places, library, reviewed
<1>3. ActorInv'
  <2>1. {"delete", "rebuild", "trust"} \subseteq Approving
    BY DEF Approving
  <2>2. ActorOK(a)'
    BY <1>1, <2>1 DEF ActorOK
  <2> QED
    BY <1>1, <2>2, ActorKept DEF IInv
<1>4. "write" \in Reviewing
  BY DEF Reviewing
<1>5. BatchInv'
  <2>1. to = "write" /\ StatusOf(u.counted) \in Decided =>
           Found(u.batch) # {} /\ "draft" \notin Found(u.batch)
    <3> SUFFICES ASSUME to = "write", StatusOf(u.counted) \in Decided
                 PROVE  Found(u.batch) # {} /\ "draft" \notin Found(u.batch)
      OBVIOUS
    <3>1. u.counted = Found(u.batch) /\ u.batch \in Batches
      BY <1>4
    <3>2. Found(u.batch) \in SUBSET Verdicts
      BY <3>1, FoundVerdicts DEF IInv
    <3> QED
      BY <3>1, <3>2, StatusOfVerdicts
  <2> QED
    BY <1>1, <2>1, BatchKept DEF IInv, reviewed
<1>6. AgreeInv'
  <2>1. \A b \in Batches \ mingled' :
           /\ InReview(a, b)' /\ pc'[a] # "targets" =>
                 \/ InReview(a, b) /\ pc[a] # "targets"
                 \/ \A c \in Actors \ {a} : ~ InReview(c, b)
           /\ Pending(a, b) => Pending(a, b)'
           /\ pc'[a] = "write" /\ local'[a].batch = b =>
                 StatusOf(local'[a].counted) = StatusOf(Found(b))
    BY <1>1 DEF InReview
  <2>2. UNCHANGED <<status, record>>
    BY DEF reviewed
  <2> QED
    BY <1>1, <2>1, <2>2, AgreeKept DEF IInv
<1>7. BaselineInv'
  BY <1>1, BaselineKept DEF IInv, library, reviewed
<1> QED
  BY <1>2, <1>3, <1>5, <1>6, <1>7 DEF IInv

LEMMA BeginReviewStep ==
    ASSUME IInv,
           NEW u \in Users, NEW b \in Batches, NEW h \in Hosts \cup {NoHost},
           BeginReview(u, b, h)
    PROVE  IInv'
<1> DEFINE own == local[u]
           q == IF h = NoHost THEN {} ELSE {h}
           k == (h = NoHost)
           to == IF h = NoHost THEN "targets" ELSE "review"
<1>1. PICK v \in BOOLEAN :
         local' = [local EXCEPT ![u].batch = b, ![u].approve = v, ![u].bulk = k, ![u].queue = q]
  BY DEF BeginReview
<1> DEFINE r == [own EXCEPT !.batch = b, !.approve = v, !.bulk = k, !.queue = q]
<1>2. /\ Goto(u, "idle", to) /\ pc[u] = "idle" /\ u \in Actors
      /\ mingled' = Mingles(u, b) /\ status[b] # "none"
      /\ UNCHANGED <<library, reviewed, job, created, disputed, crowded, crashes>>
  BY DEF BeginReview, Begin, Goto, Actors
<1>3. TypeOK /\ own \in Local /\ b \in Batches \cup {0} /\ q \in SUBSET Hosts /\ k \in BOOLEAN
  BY <1>2 DEF IInv, TypeOK
<1>4. local' = [local EXCEPT ![u] = r]
  BY <1>1
<1>5. r = [own EXCEPT !.batch = b, !.approve = v, !.bulk = k, !.queue = q]
  OBVIOUS
<1>6. ~ k => \E g \in Hosts : q = {g}
  OBVIOUS
<1> HIDE DEF own, q, k, r
<1>7. r \in Local /\ r.batch = b /\ r.bulk = k /\ r.queue = q
  BY ONLY <1>3, <1>5, v \in BOOLEAN DEF Local
<1>8. /\ to \in Places /\ to # "write"
      /\ to \notin Storing \cup Approving \cup Importing /\ "idle" \notin Approving
  BY DEF Places, Active, Building, Reviewing, Storing, Approving, Importing
<1> HIDE DEF to
<1>9. /\ mingled' \subseteq Batches /\ mingled \subseteq mingled'
      /\ b \notin mingled' => \A c \in Actors \ {u} : ~ InReview(c, b)
  BY <1>2, <1>3, Mingling
<1>10. \A d : ~ Pending(u, d)
  BY <1>2 DEF Pending, Approving
<1>11. /\ to \in Reviewing => r.batch \in Batches /\ status[r.batch] # "none"
       /\ ~ r.bulk => u \in Users /\ to # "targets"
       /\ ~ r.bulk /\ to = "review" => \E g \in Hosts : r.queue = {g}
       /\ to = "write" => r.counted = Found(r.batch)
  BY <1>2, <1>6, <1>7, <1>8 DEF k, to
<1>12. \A d \in Batches \ mingled' :
          /\ to \in Reviewing \ {"targets"} /\ r.batch = d =>
                \/ InReview(u, d) /\ pc[u] # "targets"
                \/ \A c \in Actors \ {u} : ~ InReview(c, d)
          /\ Pending(u, d) => Pending(u, d)'
  BY <1>7, <1>9, <1>10
<1> QED
  BY <1>2, <1>4, <1>7, <1>8, <1>9, <1>11, <1>12, ReadingStep

LEMMA SelectTargetsStep ==
    ASSUME IInv,
           NEW a \in Actors,
           SelectTargets(a)
    PROVE  IInv'
<1> DEFINE own == local[a]
           q == DraftsOf(local[a].batch)
           u == [own EXCEPT !.queue = q]
<1>1. /\ Goto(a, "targets", "review") /\ pc[a] = "targets"
      /\ local' = [local EXCEPT ![a].queue = q]
      /\ mingled' = Mingles(a, own.batch)
      /\ UNCHANGED <<library, reviewed, job, created, disputed, crowded, crashes>>
  BY DEF SelectTargets, Goto
<1>2. TypeOK /\ own \in Local /\ q \in SUBSET Hosts
  BY DEF IInv, TypeOK, DraftsOf
<1>3. local' = [local EXCEPT ![a] = u]
  BY <1>1
<1>4. own.batch \in Batches /\ status[own.batch] # "none"
  BY <1>1 DEF IInv, ActorInv, ActorOK, BatchInv, Reviewing
<1>5. u = [own EXCEPT !.queue = q]
  OBVIOUS
<1>6. own.bulk
  BY <1>1 DEF IInv, ActorInv, ActorOK
<1> HIDE DEF own, q, u
<1>7. u \in Local /\ u.batch = own.batch /\ u.bulk = own.bulk /\ u.queue = q
  BY ONLY <1>2, <1>5 DEF Local
<1>8. /\ mingled' \subseteq Batches /\ mingled \subseteq mingled'
      /\ own.batch \notin mingled' => \A c \in Actors \ {a} : ~ InReview(c, own.batch)
  BY <1>1, <1>2, <1>4, Mingling
<1>9. \A d : ~ Pending(a, d)
  BY <1>1 DEF Pending, Approving
<1>10. /\ "review" \in Places /\ "review" \notin Storing \cup Approving \cup Importing
       /\ "targets" \notin Approving
  BY DEF Places, Active, Building, Reviewing, Storing, Approving, Importing
<1>11. \A d \in Batches \ mingled' :
          /\ u.batch = d => \A c \in Actors \ {a} : ~ InReview(c, d)
          /\ Pending(a, d) => Pending(a, d)'
  BY <1>7, <1>8, <1>9
<1>12. /\ "review" # "write" /\ "review" # "targets"
       /\ u.batch \in Batches /\ status[u.batch] # "none" /\ u.bulk
  BY <1>4, <1>6, <1>7
<1> QED
  BY <1>1, <1>3, <1>7, <1>8, <1>10, <1>11, <1>12, ReadingStep

LEMMA NoTargetsStep ==
    ASSUME IInv,
           NEW a \in Actors,
           NoTargets(a)
    PROVE  IInv'
<1>1. /\ Goto(a, "targets", AfterRefusal(a)) /\ pc[a] = "targets" /\ TypeOK
      /\ UNCHANGED <<library, reviewed, job, local, history>>
  BY DEF NoTargets, Goto, IInv
<1>2. local[a] \in Local /\ local' = [local EXCEPT ![a] = local[a]] /\ local[a].bulk
  BY <1>1 DEF IInv, TypeOK, ActorInv, ActorOK
<1>3. AfterRefusal(a) \in {"done", "progress"} /\ AfterRefusal(a) \in Places
  BY Ends, PlacesApart
<1>4. /\ AfterRefusal(a) \notin Storing \cup Approving \cup Importing \cup Reviewing
      /\ "targets" \notin Approving
  BY <1>3 DEF Storing, Approving, Importing, Reviewing
<1>5. \A d : ~ Pending(a, d)
  BY <1>1 DEF Pending, Approving
<1>6. mingled' \subseteq Batches /\ mingled \subseteq mingled'
  BY <1>1 DEF TypeOK, history
<1>7. "write" \in Reviewing /\ "targets" \in Reviewing /\ "review" \in Reviewing
  BY DEF Reviewing
<1>8. UNCHANGED <<created, disputed, crowded, crashes>>
  BY <1>1 DEF history
<1> QED
  BY <1>1, <1>2, <1>3, <1>4, <1>5, <1>6, <1>7, <1>8, ReadingStep

LEMMA NoRecordsStep ==
    ASSUME IInv,
           NEW a \in Actors, NEW h \in Hosts,
           NoRecords(a, h)
    PROVE  IInv'
<1> DEFINE own == local[a]
           q == own.queue \ {h}
           u == [own EXCEPT !.queue = q]
           to == CASE own.queue # {h} -> "review"
                   [] own.queue = {h} /\ own.bulk -> "refresh"
                   [] OTHER -> "done"
<1>1. /\ Goto(a, "review", to) /\ pc[a] = "review" /\ h \in own.queue /\ TypeOK
      /\ local' = [local EXCEPT ![a].queue = @ \ {h}]
      /\ UNCHANGED <<library, reviewed, job, history>>
  BY DEF NoRecords, Goto, IsNext, IInv
<1>2. own \in Local
  BY <1>1 DEF TypeOK
<1>3. local' = [local EXCEPT ![a] = u] /\ u = [own EXCEPT !.queue = q] /\ q \in SUBSET Hosts
  BY <1>1, <1>2 DEF Local
<1>4. /\ own.batch \in Batches /\ status[own.batch] # "none"
      /\ ~ own.bulk => own.queue = {h} /\ a \in Users
  BY <1>1 DEF IInv, ActorInv, ActorOK, BatchInv, Reviewing
<1>5. to \in {"review", "refresh", "done"} /\ (to = "done" => ~ own.bulk)
      /\ (to = "review" => own.bulk)
  BY <1>4
<1> HIDE DEF own, q, u, to
<1>6. u \in Local /\ u.batch = own.batch /\ u.bulk = own.bulk /\ u.queue = q
  BY ONLY <1>2, <1>3 DEF Local
<1>7. to \in Places /\ to \notin Storing \cup Approving \cup Importing
      /\ "review" \notin Approving /\ to # "write" /\ to # "targets"
  BY <1>5 DEF Places, Active, Building, Reviewing, Storing, Approving, Importing
<1>8. /\ pc'[a] = to /\ local'[a] = u
  BY <1>1, <1>2, <1>3, <1>6, <1>7, Frame
<1>9. \A d : Pending(a, d) => Pending(a, d)'
  BY <1>1, <1>5, <1>6, <1>8 DEF Pending, own, Approving
<1>10. \A d : u.batch = d => InReview(a, d)
  BY <1>1, <1>6 DEF InReview, own, Reviewing
<1>11. mingled' \subseteq Batches /\ mingled \subseteq mingled'
       /\ UNCHANGED <<created, disputed, crowded, crashes>>
  BY <1>1 DEF TypeOK, history
<1>12. /\ ~ u.bulk => a \in Users /\ to # "targets"
       /\ ~ u.bulk /\ to = "review" => \E g \in Hosts : u.queue = {g}
  BY <1>4, <1>5, <1>6, <1>7
<1> QED
  BY <1>1, <1>3, <1>4, <1>6, <1>7, <1>9, <1>10, <1>11, <1>12, ReadingStep

LEMMA CountRecordsStep ==
    ASSUME IInv,
           NEW a \in Actors,
           CountRecords(a)
    PROVE  IInv'
<1> DEFINE own == local[a]
           n == Found(local[a].batch)
           u == [own EXCEPT !.counted = n]
<1>1. /\ Goto(a, "refresh", "write") /\ pc[a] = "refresh" /\ TypeOK
      /\ local' = [local EXCEPT ![a] = u]
      /\ UNCHANGED <<library, reviewed, job, history>>
  BY DEF CountRecords, Goto, IInv, Found
<1>2. own \in Local /\ u = [own EXCEPT !.counted = n]
  BY <1>1 DEF TypeOK
<1>3. /\ own.batch \in Batches /\ status[own.batch] # "none"
      /\ ~ own.bulk => a \in Users
  BY <1>1 DEF IInv, ActorInv, ActorOK, BatchInv, Reviewing
<1>4. n \in SUBSET (Decided \cup {"draft"})
  BY <1>1, <1>3, FoundVerdicts DEF Verdicts
<1>5. n = Found(own.batch)
  OBVIOUS
<1> HIDE DEF own, n, u
<1>6. u \in Local /\ u.batch = own.batch /\ u.bulk = own.bulk /\ u.counted = n
  BY ONLY <1>2, <1>4 DEF Local
<1>7. "write" \in Places /\ "write" \notin Storing \cup Approving \cup Importing
      /\ "refresh" \notin Approving
  BY DEF Places, Active, Building, Reviewing, Storing, Approving, Importing
<1>8. /\ pc'[a] = "write" /\ local'[a] = u
  BY <1>1, <1>6, <1>7, Frame
<1>9. \A d : Pending(a, d) => Pending(a, d)'
  BY <1>6, <1>8 DEF Pending, own
<1>10. \A d : u.batch = d => InReview(a, d)
  BY <1>1, <1>6 DEF InReview, own, Reviewing
<1>11. mingled' \subseteq Batches /\ mingled \subseteq mingled'
       /\ UNCHANGED <<created, disputed, crowded, crashes>>
  BY <1>1 DEF TypeOK, history
<1>12. u.counted = Found(u.batch) /\ (~ u.bulk => a \in Users)
  BY <1>3, <1>5, <1>6
<1> QED
  BY <1>1, <1>3, <1>6, <1>7, <1>9, <1>10, <1>11, <1>12, ReadingStep

-----------------------------------------------------------------------------
(* Reviews: the approval of a host.                                        *)

\* Steps of the review of a host that do not touch the batches.
LEMMA HostBatches ==
    ASSUME IInv,
           NEW a \in Actors,
           Others(a),
           UNCHANGED <<status, record, mingled>>,
           local'[a].batch = local[a].batch,
           local'[a].bulk = local[a].bulk,
           pc[a] \in {"review"} \cup Approving,
           pc'[a] \in {"review", "refresh", "done"} \cup Approving,
           pc'[a] = "done" => ~ local[a].bulk,
           pc[a] = "review" /\ pc'[a] \in Approving => Found(local[a].batch) # {}
    PROVE  BatchInv' /\ AgreeInv'
<1>1. pc'[a] \notin Storing /\ pc'[a] # "write" /\ pc[a] \in Reviewing /\ pc[a] # "targets"
  BY DEF Storing, Approving, Reviewing
<1>2. /\ status[local[a].batch] # "none"
      /\ pc[a] \in Approving => Found(local[a].batch) # {}
  BY <1>1 DEF IInv, BatchInv
<1>3. BatchInv'
  BY <1>1, <1>2, BatchKept DEF IInv
<1>4. \A b : /\ InReview(a, b)' => InReview(a, b)
             /\ Pending(a, b) => Pending(a, b)'
  <2>1. \A b : InReview(a, b)' => InReview(a, b)
    BY <1>1 DEF InReview
  <2>2. \A b : Pending(a, b) => local[a].bulk /\ local'[a].batch = b
    BY DEF Pending, Approving
  <2>3. local[a].bulk => local'[a].bulk /\ pc'[a] \in {"review", "refresh"} \cup Approving
    OBVIOUS
  <2> QED
    BY <2>1, <2>2, <2>3 DEF Pending
<1>5. AgreeInv'
  BY <1>1, <1>4, AgreeKept DEF IInv
<1> QED
  BY <1>3, <1>5

\* Steps of an approval do not concern other hosts.
LEMMA ApprovalStep ==
    ASSUME IInv,
           NEW a \in Actors, NEW h \in Hosts,
           Others(a), Approves(a, h),
           \A g \in Hosts : g # h =>
              /\ baseline'[g] = baseline[g] /\ host'[g] = host[g]
              /\ \A b \in Batches : record'[b][g] = record[b][g],
           disputed' = disputed,
           pc'[a] \in Approving => local'[a].at = h,
           h \notin disputed /\ pc'[a] \in Approving => ApprovalOK(a, h)',
           h \notin disputed /\ pc'[a] \notin Approving => AtRest(h)'
    PROVE  BaselineInv'
<1>1. \A g \in Hosts : g # h => (AtRest(g) <=> AtRest(g)')
  BY DEF AtRest
<1>2. \A c \in Actors, g \in Hosts : g # h => (Approves(c, g)' <=> Approves(c, g)) 
  BY DEF Approves, Others
<1>3. \A c \in Actors : c # a => (Approves(c, h)' <=> Approves(c, h))
  BY DEF Approves, Others
<1>4. Approves(a, h)' <=> pc'[a] \in Approving
  BY DEF Approves
<1>5. \A c \in Actors, g \in Hosts : g # h /\ Approves(c, g) /\ ApprovalOK(c, g) => ApprovalOK(c, g)'
  <2> SUFFICES ASSUME NEW c \in Actors, NEW g \in Hosts,
                      g # h, Approves(c, g), ApprovalOK(c, g)
               PROVE  ApprovalOK(c, g)'
    OBVIOUS
  <2>1. c # a
    BY DEF Approves
  <2>2. pc'[c] = pc[c] /\ local'[c] = local[c] /\ local[c].batch \in Batches
    BY <2>1 DEF Others, Approves, IInv, ActorInv, ActorOK, Reviewing
  <2> QED
    BY <1>1, <2>2 DEF ApprovalOK
<1> SUFFICES ASSUME NEW g \in Hosts \ disputed
             PROVE  /\ \A c, d \in Actors : Approves(c, g)' /\ Approves(d, g)' => c = d
                    /\ (\A c \in Actors : ~ Approves(c, g)') => AtRest(g)'
                    /\ \A c \in Actors : Approves(c, g)' => ApprovalOK(c, g)'
  BY DEF BaselineInv
<1>6. /\ \A c, d \in Actors : Approves(c, g) /\ Approves(d, g) => c = d
      /\ (\A c \in Actors : ~ Approves(c, g)) => AtRest(g)
      /\ \A c \in Actors : Approves(c, g) => ApprovalOK(c, g)
  BY DEF IInv, BaselineInv
<1>7. CASE g # h
  BY <1>1, <1>2, <1>5, <1>6, <1>7
<1>8. CASE g = h
  BY <1>3, <1>4, <1>6, <1>8
<1> QED
  BY <1>7, <1>8

LEMMA Onwards ==
    ASSUME NEW a \in Actors, NEW failed \in BOOLEAN
    PROVE  /\ Onward(a, failed) \in {"review", "refresh", "done"}
           /\ Onward(a, failed) \in Places
           /\ Onward(a, failed) = "review" => local[a].queue # {}
           /\ Onward(a, failed) = "done" => failed /\ ~ local[a].bulk
  BY DEF Onward, Places, Active, Building, Reviewing

\* The host and the batch that an actor is at work on.
LEMMA AtWork ==
    ASSUME IInv,
           NEW a \in Actors,
           pc[a] \in Approving
    PROVE  /\ TypeOK
           /\ local[a].at \in Hosts /\ local[a].batch \in Batches
           /\ local[a] \in Local
           /\ Approves(a, local[a].at)
           /\ local[a].at \notin disputed => ApprovalOK(a, local[a].at)
<1>1. TypeOK /\ local[a] \in Local
  BY DEF IInv, TypeOK
<1>2. local[a].at \in Hosts /\ local[a].batch \in Batches
  BY DEF IInv, ActorInv, ActorOK, Reviewing
<1>3. Approves(a, local[a].at)
  BY DEF Approves
<1> QED
  BY <1>1, <1>2, <1>3 DEF IInv, BaselineInv

LEMMA LoadRecordsStep ==
    ASSUME IInv,
           NEW a \in Actors, NEW h \in Hosts,
           LoadRecords(a, h)
    PROVE  IInv'
<1> DEFINE own == local[a]
           q == own.queue \ {h}
           u == [own EXCEPT !.at = h, !.queue = q]
           to == IF own.approve THEN "delete" ELSE "mark"
<1>1. /\ Goto(a, "review", to) /\ pc[a] = "review" /\ h \in own.queue /\ TypeOK
      /\ record[own.batch][h] = "draft"
      /\ local' = [local EXCEPT ![a].at = h, ![a].queue = @ \ {h}]
      /\ disputed' = Disputes(a, h)
      /\ UNCHANGED <<library, reviewed, job, created, mingled, crowded, crashes>>
  BY DEF LoadRecords, Goto, IsNext, IInv, DraftsOf
<1>2. own \in Local /\ h \in Hosts \cup {NoHost}
  BY <1>1 DEF TypeOK
<1>3. local' = [local EXCEPT ![a] = u] /\ u = [own EXCEPT !.at = h, !.queue = q]
      /\ q \in SUBSET Hosts
  BY <1>1, <1>2 DEF Local
<1>4. /\ own.batch \in Batches
      /\ ~ own.bulk => a \in Users
      /\ ~ own.bulk => q = {}
  <2>1. ActorOK(a)
    BY DEF IInv, ActorInv
  <2> QED
    BY <1>1, <2>1 DEF ActorOK, Reviewing
<1>5. to \in {"delete", "mark"} /\ (to = "delete" => own.approve) /\ (to = "mark" => ~ own.approve)
  OBVIOUS
<1> HIDE DEF own, q, u, to
<1>6. /\ u \in Local /\ u.batch = own.batch /\ u.bulk = own.bulk /\ u.queue = q /\ u.at = h
      /\ u.approve = own.approve
  BY ONLY <1>2, <1>3 DEF Local
<1>7. to \in Approving /\ to \in Places /\ to \notin Importing /\ to \notin Storing
  BY <1>5 DEF Places, Active, Building, Reviewing, Storing, Approving, Importing
<1>8. /\ pc' \in [Actors -> Places] /\ local' \in [Actors -> Local]
      /\ pc'[a] = to /\ local'[a] = u /\ Others(a)
  <2>1. local' = [local EXCEPT ![a] = u] /\ u \in Local
    BY <1>3, <1>6
  <2> QED
    BY <1>1, <1>7, <2>1, Frame
<1>9. disputed' \subseteq Hosts /\ disputed \subseteq disputed'
      /\ (h \notin disputed' => \A c \in Actors \ {a} : ~ Approves(c, h))
  BY <1>1 DEF Disputes, TypeOK, Approves
<1>10. TypeOK'
  BY <1>1, <1>8, <1>9 DEF TypeOK, Places, library, reviewed
<1>11. ActorInv'
  <2>1. ActorOK(a)'
    BY <1>4, <1>5, <1>6, <1>7, <1>8 DEF ActorOK
  <2> QED
    BY <1>8, <2>1, ActorKept DEF IInv
<1>12. BatchInv' /\ AgreeInv'
  <2>1. local'[a].batch = local[a].batch /\ local'[a].bulk = local[a].bulk
    BY <1>6, <1>8 DEF own
  <2>2. /\ pc[a] \in {"review"} \cup Approving /\ pc'[a] # "done"
        /\ pc'[a] \in {"review", "refresh", "done"} \cup Approving
    BY <1>1, <1>5, <1>7, <1>8
  <2>3. UNCHANGED <<status, record, mingled>>
    BY <1>1 DEF reviewed
  <2>4. Found(local[a].batch) # {}
    BY <1>1 DEF Found, own
  <2> QED
    BY <1>8, <2>1, <2>2, <2>3, <2>4, HostBatches
<1>13. BaselineInv'
  <2>1. \A g \in Hosts : AtRest(g)' <=> AtRest(g)
    BY <1>1 DEF AtRest, library, reviewed
  <2>2. \A c \in Actors, g \in Hosts : c # a => (Approves(c, g)' <=> Approves(c, g))
    BY <1>8 DEF Approves, Others
  <2>3. \A g \in Hosts : Approves(a, g)' <=> g = h
    BY <1>6, <1>7, <1>8 DEF Approves
  <2>4. \A g : ~ Approves(a, g)
    BY <1>1 DEF Approves, Approving
  <2>5. \A c \in Actors, g \in Hosts : Approves(c, g) /\ ApprovalOK(c, g) => ApprovalOK(c, g)'
    <3> SUFFICES ASSUME NEW c \in Actors, NEW g \in Hosts, Approves(c, g), ApprovalOK(c, g)
                 PROVE  ApprovalOK(c, g)'
      OBVIOUS
    <3>1. pc'[c] = pc[c] /\ local'[c] = local[c]
      BY <1>8, <2>4 DEF Others
    <3> QED
      BY <1>1, <2>1, <3>1 DEF ApprovalOK, library, reviewed
  <2> SUFFICES ASSUME NEW g \in Hosts \ disputed'
               PROVE  /\ \A c, d \in Actors : Approves(c, g)' /\ Approves(d, g)' => c = d
                      /\ (\A c \in Actors : ~ Approves(c, g)') => AtRest(g)'
                      /\ \A c \in Actors : Approves(c, g)' => ApprovalOK(c, g)'
    BY DEF BaselineInv
  <2>6. /\ \A c, d \in Actors : Approves(c, g) /\ Approves(d, g) => c = d
        /\ (\A c \in Actors : ~ Approves(c, g)) => AtRest(g)
        /\ \A c \in Actors : Approves(c, g) => ApprovalOK(c, g)
    BY <1>9 DEF IInv, BaselineInv
  <2>7. CASE g # h
    BY <2>1, <2>2, <2>3, <2>4, <2>5, <2>6, <2>7
  <2>8. CASE g = h
    <3>1. \A c \in Actors : ~ Approves(c, h)
      BY <1>9, <2>4, <2>8
    <3>2. AtRest(h)'
      BY <2>1, <2>6, <2>8, <3>1
    <3>3. record'[local'[a].batch][h] = "draft"
      BY <1>1, <1>6, <1>8 DEF reviewed
    <3>4. ApprovalOK(a, h)'
      BY <1>5, <1>6, <1>8, <3>2, <3>3 DEF ApprovalOK
    <3> QED
      BY <2>2, <2>3, <2>8, <3>1, <3>4
  <2> QED
    BY <2>7, <2>8
<1> QED
  BY <1>10, <1>11, <1>12, <1>13 DEF IInv

\* The steps that write the baseline or the host, and leave the rest alone.
LEMMA WritingStep ==
    ASSUME IInv,
           NEW a \in Actors, NEW h \in Hosts,
           h = local[a].at,
           NEW from \in {"delete", "rebuild", "trust"},
           NEW to \in {"rebuild", "trust", "mark", "review", "refresh", "done"},
           Goto(a, from, to),
           to = "review" => local[a].queue # {},
           to = "done" => ~ local[a].bulk,
           UNCHANGED <<domain, nsNote, status, record, job, local, history>>,
           baseline' \in [Hosts -> SUBSET Batches],
           host' \in [Hosts -> {"none", "draft", "trusted"}],
           \A g \in Hosts : g # h => baseline'[g] = baseline[g] /\ host'[g] = host[g],
           h \notin disputed => to \in Approving /\ ApprovalOK(a, h)'
    PROVE  IInv'
<1>1. TypeOK /\ from \in Approving /\ to \in Places /\ to \notin Storing \cup Importing \cup {"delete"}
  BY DEF IInv, Approving, Places, Active, Building, Reviewing, Importing, Storing
<1>2. /\ pc' \in [Actors -> Places]
      /\ pc[a] = from /\ pc'[a] = to
      /\ \A c \in Actors : c # a => pc'[c] = pc[c]
  BY <1>1, Moves DEF Places
<1>3. Others(a)
  BY <1>2 DEF Others
<1>4. TypeOK'
  BY <1>1, <1>2 DEF TypeOK, Places, history
<1>5. ActorInv'
  <2>1. ActorOK(a)
    BY DEF IInv, ActorInv
  <2>2. ActorOK(a)'
    BY <1>1, <1>2, <2>1 DEF ActorOK, Reviewing, Approving
  <2> QED
    BY <1>3, <2>2, ActorKept DEF IInv
<1>6. BatchInv' /\ AgreeInv'
  BY <1>1, <1>2, <1>3, HostBatches DEF history, Approving
<1>7. Approves(a, h)
  BY <1>1, <1>2 DEF Approves
<1>8. BaselineInv'
  BY <1>2, <1>3, <1>7, ApprovalStep DEF history
<1> QED
  BY <1>4, <1>5, <1>6, <1>8 DEF IInv

LEMMA DeleteBaselineStep ==
    ASSUME IInv,
           NEW a \in Actors,
           DeleteBaseline(a)
    PROVE  IInv'
<1>1. /\ Goto(a, "delete", "rebuild") /\ pc[a] = "delete"
      /\ baseline' = [baseline EXCEPT ![local[a].at] = {}]
      /\ UNCHANGED <<library, status, record, job, local, history>>
  BY DEF DeleteBaseline, Goto
<1>2. "delete" \in Approving /\ "rebuild" \in Approving
  BY DEF Approving
<1>3. PICK h \in Hosts : h = local[a].at
  BY <1>1, <1>2, AtWork
<1>4. TypeOK /\ (h \notin disputed => ApprovalOK(a, h))
  BY <1>1, <1>2, <1>3, AtWork
<1>5. pc'[a] = "rebuild"
  BY <1>1, <1>4 DEF Goto, TypeOK
<1>6. /\ baseline' \in [Hosts -> SUBSET Batches]
      /\ host' \in [Hosts -> {"none", "draft", "trusted"}]
      /\ \A g \in Hosts : g # h => baseline'[g] = baseline[g] /\ host'[g] = host[g]
      /\ baseline'[h] = {}
  BY <1>1, <1>3, <1>4 DEF TypeOK, library
<1>7. h \notin disputed => ApprovalOK(a, h)'
  BY <1>1, <1>4, <1>5, <1>6 DEF ApprovalOK
<1> QED
  BY <1>1, <1>2, <1>3, <1>6, <1>7, WritingStep DEF library

LEMMA InsertBaselineStep ==
    ASSUME IInv,
           NEW a \in Actors,
           InsertBaseline(a)
    PROVE  IInv'
<1>1. /\ Goto(a, "rebuild", "trust") /\ pc[a] = "rebuild"
      /\ baseline' = [baseline EXCEPT ![local[a].at] = @ \cup {local[a].batch}]
      /\ UNCHANGED <<library, status, record, job, local, history>>
  BY DEF InsertBaseline, Goto
<1>2. "rebuild" \in Approving /\ "trust" \in Approving
  BY DEF Approving
<1>3. PICK h \in Hosts : h = local[a].at
  BY <1>1, <1>2, AtWork
<1>4. TypeOK /\ local[a].batch \in Batches /\ (h \notin disputed => ApprovalOK(a, h))
  BY <1>1, <1>2, <1>3, AtWork
<1>5. pc'[a] = "trust"
  BY <1>1, <1>4 DEF Goto, TypeOK
<1>6. /\ baseline' \in [Hosts -> SUBSET Batches]
      /\ host' \in [Hosts -> {"none", "draft", "trusted"}]
      /\ \A g \in Hosts : g # h => baseline'[g] = baseline[g] /\ host'[g] = host[g]
      /\ baseline'[h] = baseline[h] \cup {local[a].batch}
  BY <1>1, <1>3, <1>4 DEF TypeOK, library
<1>7. h \notin disputed => ApprovalOK(a, h)'
  BY <1>1, <1>4, <1>5, <1>6 DEF ApprovalOK
<1> QED
  BY <1>1, <1>2, <1>3, <1>6, <1>7, WritingStep DEF library

LEMMA RefuseBaselineStep ==
    ASSUME IInv,
           NEW a \in Actors,
           RefuseBaseline(a)
    PROVE  IInv'
<1>1. /\ Goto(a, "rebuild", Onward(a, TRUE)) /\ pc[a] = "rebuild"
      /\ baseline[local[a].at] # {}
      /\ UNCHANGED <<library, reviewed, job, local, history>>
  BY DEF RefuseBaseline, Goto
<1>2. "rebuild" \in Approving
  BY DEF Approving
<1>3. PICK h \in Hosts : h = local[a].at
  BY <1>1, <1>2, AtWork
<1>4. TypeOK /\ (h \notin disputed => ApprovalOK(a, h))
  BY <1>1, <1>2, <1>3, AtWork
<1>5. h \in disputed
  BY <1>1, <1>3, <1>4 DEF ApprovalOK
<1>6. /\ Onward(a, TRUE) \in {"review", "refresh", "done"}
      /\ Onward(a, TRUE) = "review" => local[a].queue # {}
      /\ Onward(a, TRUE) = "done" => ~ local[a].bulk
  BY Onwards
<1>7. /\ baseline' \in [Hosts -> SUBSET Batches]
      /\ host' \in [Hosts -> {"none", "draft", "trusted"}]
      /\ UNCHANGED <<domain, nsNote, host, baseline, status, record>>
  BY <1>1, <1>4 DEF TypeOK, library, reviewed
<1> QED
  BY <1>1, <1>3, <1>5, <1>6, <1>7, WritingStep

LEMMA TrustHostStep ==
    ASSUME IInv,
           NEW a \in Actors,
           TrustHost(a)
    PROVE  IInv'
<1>1. /\ Goto(a, "trust", "mark") /\ pc[a] = "trust"
      /\ host' = [host EXCEPT ![local[a].at] = "trusted"]
      /\ UNCHANGED <<domain, nsNote, reviewed, job, local, history>>
  BY DEF TrustHost, Goto
<1>2. "trust" \in Approving /\ "mark" \in Approving
  BY DEF Approving
<1>3. PICK h \in Hosts : h = local[a].at
  BY <1>1, <1>2, AtWork
<1>4. TypeOK /\ (h \notin disputed => ApprovalOK(a, h)) /\ local[a].approve
  BY <1>1, <1>2, <1>3, AtWork DEF IInv, ActorInv, ActorOK
<1>5. pc'[a] = "mark"
  BY <1>1, <1>4 DEF Goto, TypeOK
<1>6. /\ baseline' \in [Hosts -> SUBSET Batches]
      /\ host' \in [Hosts -> {"none", "draft", "trusted"}]
      /\ \A g \in Hosts : g # h => baseline'[g] = baseline[g] /\ host'[g] = host[g]
      /\ host'[h] = "trusted" /\ UNCHANGED <<baseline, status, record>>
  BY <1>1, <1>3, <1>4 DEF TypeOK, reviewed
<1>7. h \notin disputed => ApprovalOK(a, h)'
  BY <1>1, <1>4, <1>5, <1>6 DEF ApprovalOK
<1> QED
  BY <1>1, <1>2, <1>3, <1>6, <1>7, WritingStep

LEMMA MarkRecordsStep ==
    ASSUME IInv,
           NEW a \in Actors,
           MarkRecords(a)
    PROVE  IInv'
<1> DEFINE own == local[a]
           u == [own EXCEPT !.at = NoHost]
           to == Onward(a, FALSE)
           verdict == IF own.approve THEN "approved" ELSE "rejected"
<1>1. /\ Goto(a, "mark", to) /\ pc[a] = "mark"
      /\ record' = [record EXCEPT ![own.batch][own.at] = verdict]
      /\ local' = [local EXCEPT ![a] = u]
      /\ UNCHANGED <<library, baseline, status, job, history>>
  BY DEF MarkRecords, Goto
<1>2. "mark" \in Approving /\ "mark" \in Reviewing /\ "mark" \notin Storing
  BY DEF Approving, Reviewing, Storing
<1>3. PICK b \in Batches, h \in Hosts :
         own.batch = b /\ own.at = h /\ (h \notin disputed => ApprovalOK(a, h))
  BY <1>1, <1>2, AtWork
<1>4. TypeOK /\ own \in Local /\ Approves(a, h) /\ u = [own EXCEPT !.at = NoHost]
  BY <1>1, <1>2, <1>3, AtWork
<1>5. /\ to \in {"review", "refresh"} /\ to \in Places
      /\ to = "review" => own.bulk
  BY <1>1, <1>2, Onwards DEF IInv, ActorInv, ActorOK
<1>6. verdict \in Decided /\ (verdict = "approved" <=> own.approve)
  BY DEF Decided
<1> HIDE DEF own, u, to, verdict
<1>7. u \in Local /\ u.batch = own.batch /\ u.bulk = own.bulk /\ u.at = NoHost
  BY ONLY <1>4 DEF Local, Hosts
<1>8. /\ pc' \in [Actors -> Places] /\ local' \in [Actors -> Local]
      /\ pc'[a] = to /\ local'[a] = u /\ Others(a)
  BY <1>1, <1>4, <1>5, <1>7, Frame
<1>9. to \notin Approving \cup Storing \cup Importing /\ to \in Reviewing /\ to # "write"
  BY <1>5 DEF Approving, Storing, Importing, Reviewing
<1>10. /\ record' \in [Batches -> [Hosts -> {"none", "draft"} \cup Decided]]
       /\ \A c \in Batches : c # b => record'[c] = record[c]
       /\ \A g \in Hosts : record'[b][g] = IF g = h THEN verdict ELSE record[b][g]
  <2>1. \A c \in Batches : record[c] \in [Hosts -> {"none", "draft"} \cup Decided]
    BY <1>4 DEF TypeOK
  <2>2. record' = [record EXCEPT ![b] = [record[b] EXCEPT ![h] = verdict]]
    BY <1>1, <1>3
  <2>3. [record[b] EXCEPT ![h] = verdict] \in [Hosts -> {"none", "draft"} \cup Decided]
    BY <1>6, <2>1
  <2> QED
    BY <1>4, <2>1, <2>2, <2>3 DEF TypeOK
<1>11. TypeOK'
  BY <1>1, <1>4, <1>8, <1>10 DEF TypeOK, Places, library, history
<1>12. ActorInv'
  <2>1. ActorOK(a)
    BY DEF IInv, ActorInv
  <2>2. (~ own.bulk => a \in Users /\ to # "review") /\ to # "targets"
    BY <1>5, <2>1 DEF ActorOK, own
  <2>3. ActorOK(a)'
    BY <1>3, <1>7, <1>8, <1>9, <2>2 DEF ActorOK, Approving
  <2> QED
    BY <1>8, <2>3, ActorKept DEF IInv
<1>13. /\ \A c \in Batches : c # b => Found(c)' = Found(c)
       /\ verdict \in Found(b)' /\ Found(b)' \subseteq Found(b) \cup {verdict}
  <2>1. verdict # "none" /\ verdict # "draft"
    BY <1>6 DEF Decided
  <2> QED
    BY <1>10, <2>1 DEF Found
<1>14. Found(b) # {} /\ status[b] # "none" /\ "draft" \notin {verdict}
  BY <1>1, <1>2, <1>3, <1>6 DEF IInv, BatchInv, own, Decided
<1>15. \A c \in Actors : /\ local'[c].batch = local[c].batch
                         /\ pc'[c] \in Reviewing <=> pc[c] \in Reviewing
                         /\ pc'[c] = "targets" <=> pc[c] = "targets"
                         /\ pc'[c] \in Storing => pc[c] \in Storing
                         /\ pc'[c] \in Approving => pc[c] \in Approving
                         /\ pc'[c] = "write" => pc[c] = "write"
                         /\ local'[c].counted = local[c].counted
  <2>1. u.counted = own.counted
    BY <1>4 DEF Local
  <2>2. to # "targets" /\ "mark" # "targets"
    BY <1>5
  <2> QED
    BY <1>1, <1>2, <1>7, <1>8, <1>9, <2>1, <2>2 DEF Others, own
<1>16. BatchInv'
  <2>1. \A c, d \in Actors : pc'[c] \in Storing /\ pc'[d] \in Storing
                                /\ local'[c].batch = local'[d].batch => c = d
    BY <1>15 DEF IInv, BatchInv
  <2>2. \A c \in Actors : pc'[c] \in Storing => Found(local[c].batch)' = {}
    <3> SUFFICES ASSUME NEW c \in Actors, pc'[c] \in Storing
                 PROVE  Found(local[c].batch)' = {}
      OBVIOUS
    <3>1. PICK d \in Batches : d = local[c].batch /\ d = local'[c].batch
      BY <1>15 DEF IInv, ActorInv, ActorOK
    <3>2. Found(d) = {}
      BY <1>15, <3>1 DEF IInv, BatchInv
    <3>3. Found(local[c].batch)' = Found(d)'
      BY <3>1 DEF Found
    <3> QED
      BY <1>13, <1>14, <3>2, <3>3
  <2>3. \A c \in Actors : pc'[c] \in Storing \cup Reviewing => status[local'[c].batch] # "none"
    BY <1>15 DEF IInv, BatchInv
  <2>4. \A d \in Batches :
          /\ status[d] = "none" => Found(d)' = {}
          /\ status[d] \in Decided => Found(d)' # {} /\ "draft" \notin Found(d)'
    BY <1>13, <1>14 DEF IInv, BatchInv
  <2>5. \A c \in Actors : pc'[c] = "write" /\ StatusOf(local'[c].counted) \in Decided =>
          Found(local[c].batch)' # {} /\ "draft" \notin Found(local[c].batch)'
    <3> SUFFICES ASSUME NEW c \in Actors, pc'[c] = "write",
                        StatusOf(local'[c].counted) \in Decided
                 PROVE  Found(local[c].batch)' # {} /\ "draft" \notin Found(local[c].batch)'
      OBVIOUS
    <3>1. pc[c] = "write" /\ StatusOf(local[c].counted) \in Decided
      BY <1>15
    <3>2. PICK d \in Batches : d = local[c].batch /\ d = local'[c].batch
      BY <1>15, <3>1 DEF IInv, ActorInv, ActorOK, Reviewing
    <3>3. Found(d) # {} /\ "draft" \notin Found(d)
      BY <3>1, <3>2 DEF IInv, BatchInv
    <3>4. Found(local[c].batch)' = Found(d)'
      BY <3>2 DEF Found
    <3> QED
      BY <1>13, <1>14, <3>3, <3>4
  <2>6. \A c \in Actors : pc'[c] \in Approving => Found(local[c].batch)' # {}
    <3> SUFFICES ASSUME NEW c \in Actors, pc'[c] \in Approving
                 PROVE  Found(local[c].batch)' # {}
      OBVIOUS
    <3>1. pc[c] \in Approving /\ pc[c] \in Reviewing
      BY <1>15 DEF Reviewing
    <3>2. PICK d \in Batches : d = local[c].batch /\ d = local'[c].batch
      BY <1>15, <3>1 DEF IInv, ActorInv, ActorOK
    <3>3. Found(d) # {}
      BY <3>1, <3>2 DEF IInv, BatchInv
    <3>4. Found(local[c].batch)' = Found(d)'
      BY <3>2 DEF Found
    <3> QED
      BY <1>13, <3>3, <3>4
  <2>7. UNCHANGED status
    BY <1>1
  <2> QED
    BY <2>1, <2>2, <2>3, <2>4, <2>5, <2>6, <2>7 DEF BatchInv
<1>17. AgreeInv'
  <2>1. mingled' = mingled /\ status' = status
    BY <1>1 DEF history
  <2>2. \A c \in Actors : \A d : InReview(c, d)' <=> InReview(c, d)
    BY <1>15 DEF InReview
  <2>3. Pending(a, b)'
    BY <1>3, <1>5, <1>7, <1>8 DEF Pending
  <2>4. \A c \in Actors, d \in Batches : d # b /\ Pending(c, d) => Pending(c, d)'
    BY <1>3, <1>8 DEF Pending, Others, own
  <2>5. InReview(a, b) /\ pc[a] # "targets"
    BY <1>1, <1>2, <1>3 DEF InReview, own
  <2> SUFFICES ASSUME NEW d \in Batches \ mingled
               PROVE  /\ \A c, e \in Actors :
                            InReview(c, d)' /\ InReview(e, d)' /\ pc'[c] # "targets"
                               /\ pc'[e] # "targets" => c = e
                      /\ status[d] = "none" \/ Agrees(d)' \/ \E c \in Actors : Pending(c, d)'
                      /\ \A c \in Actors : pc'[c] = "write" /\ local'[c].batch = d =>
                            StatusOf(local'[c].counted) = StatusOf(Found(d)')
    BY <2>1 DEF AgreeInv
  <2>6. /\ \A c, e \in Actors : InReview(c, d) /\ InReview(e, d) /\ pc[c] # "targets"
                                   /\ pc[e] # "targets" => c = e
        /\ status[d] = "none" \/ Agrees(d) \/ \E c \in Actors : Pending(c, d)
        /\ \A c \in Actors : pc[c] = "write" /\ local[c].batch = d =>
              StatusOf(local[c].counted) = StatusOf(Found(d))
    BY DEF IInv, AgreeInv
  <2>7. \A c, e \in Actors : InReview(c, d)' /\ InReview(e, d)' /\ pc'[c] # "targets"
                                /\ pc'[e] # "targets" => c = e
    BY <1>15, <2>2, <2>6
  <2>8. status[d] = "none" \/ Agrees(d)' \/ \E c \in Actors : Pending(c, d)'
    <3>1. CASE d = b
      BY <2>3, <3>1
    <3>2. CASE d # b
      <4>1. Agrees(d) => Agrees(d)'
        BY <1>13, <2>1, <3>2 DEF Agrees
      <4> QED
        BY <2>4, <2>6, <3>2, <4>1
    <3> QED
      BY <3>1, <3>2
  <2>9. \A c \in Actors : pc'[c] = "write" /\ local'[c].batch = d =>
           StatusOf(local'[c].counted) = StatusOf(Found(d)')
    <3> SUFFICES ASSUME NEW c \in Actors, pc'[c] = "write", local'[c].batch = d
                 PROVE  StatusOf(local'[c].counted) = StatusOf(Found(d)')
      OBVIOUS
    <3>1. pc[c] = "write" /\ local[c].batch = d /\ InReview(c, d)
      BY <1>15 DEF InReview, Reviewing
    <3>2. d # b
      BY <1>1, <2>5, <2>6, <3>1
    <3> QED
      BY <1>13, <1>15, <2>6, <3>1, <3>2
  <2> QED
    BY <2>7, <2>8, <2>9
<1>18. BaselineInv'
  <2>1. baseline' = baseline /\ host' = host /\ disputed' = disputed
    BY <1>1 DEF library, history
  <2>2. ASSUME h \notin disputed
        PROVE  AtRest(h)'
    <3>1. ApprovalOK(a, h)
      BY <1>3, <2>2
    <3>2. record[b][h] = "draft"
      BY <1>3, <3>1 DEF ApprovalOK, own
    <3>3. \A c \in Batches : record'[c][h] = IF c = b THEN verdict ELSE record[c][h]
      BY <1>10
    <3>4. CASE own.approve
      <4>1. baseline[h] = {b} /\ host[h] = "trusted"
        BY <1>1, <1>3, <3>1, <3>4 DEF ApprovalOK, own
      <4>2. verdict = "approved"
        BY <1>6, <3>4
      <4> QED
        BY <2>1, <3>3, <4>1, <4>2 DEF AtRest
    <3>5. CASE ~ own.approve
      <4>1. AtRest(h)
        BY <1>1, <3>1, <3>5 DEF ApprovalOK, own
      <4>2. verdict # "approved"
        BY <1>6, <3>5
      <4> QED
        BY <2>1, <3>2, <3>3, <4>1, <4>2 DEF AtRest
    <3> QED
      BY <3>4, <3>5
  <2>3. \A g \in Hosts : g # h =>
           /\ baseline'[g] = baseline[g] /\ host'[g] = host[g]
           /\ \A c \in Batches : record'[c][g] = record[c][g]
    BY <1>10, <2>1
  <2> QED
    BY <1>4, <1>8, <1>9, <2>1, <2>2, <2>3, ApprovalStep
<1> QED
  BY <1>11, <1>12, <1>16, <1>17, <1>18 DEF IInv

LEMMA WriteStatusStep ==
    ASSUME IInv,
           NEW a \in Actors,
           WriteStatus(a)
    PROVE  IInv'
<1> DEFINE own == local[a]
           u == [own EXCEPT !.batch = 0, !.counted = {}]
           to == AfterRefusal(a)
           verdict == StatusOf(own.counted)
<1>1. /\ Goto(a, "write", to) /\ pc[a] = "write" /\ TypeOK
      /\ status' = [status EXCEPT ![own.batch] = verdict]
      /\ local' = [local EXCEPT ![a] = u]
      /\ UNCHANGED <<library, baseline, record, job, history>>
  BY DEF WriteStatus, Goto, IInv
<1>2. PICK b \in Batches : own.batch = b
  BY <1>1 DEF IInv, ActorInv, ActorOK, Reviewing
<1>3. own \in Local /\ own.counted \in SUBSET Verdicts /\ u = [own EXCEPT !.batch = 0, !.counted = {}]
  BY <1>1 DEF TypeOK, Local, Verdicts
<1>4. to \in {"done", "progress"} /\ to \in Places
  BY Ends, PlacesApart
<1>5. /\ verdict \in Verdicts
      /\ verdict \in Decided => Found(b) # {} /\ "draft" \notin Found(b)
  BY <1>1, <1>2, <1>3, StatusOfVerdicts DEF IInv, BatchInv
<1>6. own.bulk \/ a \in Users
  BY DEF IInv, ActorInv, ActorOK
<1> HIDE DEF own, u, to, verdict
<1>7. u \in Local /\ u.batch = 0 /\ u.bulk = own.bulk
  BY ONLY <1>3 DEF Local
<1>8. /\ pc' \in [Actors -> Places] /\ local' \in [Actors -> Local]
      /\ pc'[a] = to /\ local'[a] = u /\ Others(a)
  BY <1>1, <1>4, <1>7, Frame
<1>9. to \notin Reviewing \cup Approving \cup Storing \cup Importing \cup {"write"}
      /\ "write" \notin Approving \cup Storing /\ "write" \in Reviewing
  BY <1>4 DEF Approving, Storing, Importing, Reviewing
<1>10. /\ status' \in [Batches -> {"none", "draft"} \cup Decided]
       /\ \A c \in Batches : status'[c] = IF c = b THEN verdict ELSE status[c]
       /\ verdict # "none"
  <2>1. "none" \notin Verdicts
    BY DEF Verdicts, Decided
  <2> QED
    BY <1>1, <1>2, <1>5, <2>1 DEF TypeOK, Verdicts
<1>11. TypeOK'
  BY <1>1, <1>8, <1>10 DEF TypeOK, Places, library, history
<1>12. ActorInv'
  <2>1. to \notin {"delete", "rebuild", "trust", "review", "targets"}
    BY <1>4
  <2>2. ActorOK(a)'
    BY <1>6, <1>7, <1>8, <1>9, <2>1 DEF ActorOK
  <2> QED
    BY <1>8, <2>2, ActorKept DEF IInv
<1>13. \A c : Found(c)' = Found(c)
  BY <1>1 DEF Found
<1>14. \A c \in Actors : pc'[c] \in Reviewing \cup Storing =>
          c # a /\ pc'[c] = pc[c] /\ local'[c] = local[c] /\ local[c].batch \in Batches
  <2>1. \A c \in Actors : pc[c] \in Reviewing \cup Storing => local[c].batch \in Batches
    BY DEF IInv, ActorInv, ActorOK
  <2> QED
    BY <1>8, <1>9, <2>1 DEF Others
<1>15. BatchInv'
  <2>1. \A c, d \in Actors : pc'[c] \in Storing /\ pc'[d] \in Storing
                                /\ local'[c].batch = local'[d].batch => c = d
    BY <1>14 DEF IInv, BatchInv
  <2>2. \A c \in Actors : pc'[c] \in Storing => Found(local'[c].batch) = {}
    BY <1>14 DEF IInv, BatchInv
  <2>3. \A c \in Actors : pc'[c] \in Storing \cup Reviewing => status'[local'[c].batch] # "none"
    BY <1>10, <1>14 DEF IInv, BatchInv
  <2>4. \A d \in Batches :
          /\ status'[d] = "none" => Found(d) = {}
          /\ status'[d] \in Decided => Found(d) # {} /\ "draft" \notin Found(d)
    BY <1>5, <1>10 DEF IInv, BatchInv
  <2>5. \A c \in Actors : pc'[c] = "write" /\ StatusOf(local'[c].counted) \in Decided =>
          Found(local'[c].batch) # {} /\ "draft" \notin Found(local'[c].batch)
    BY <1>9, <1>14 DEF IInv, BatchInv
  <2>6. \A c \in Actors : pc'[c] \in Approving => Found(local'[c].batch) # {}
    BY <1>14 DEF IInv, BatchInv, Reviewing
  <2> QED
    BY <1>13, <2>1, <2>2, <2>3, <2>4, <2>5, <2>6 DEF BatchInv
<1>16. AgreeInv'
  <2>1. mingled' = mingled
    BY <1>1 DEF history
  <2>2. \A c \in Actors : \A d : InReview(c, d)' => InReview(c, d) /\ pc'[c] = pc[c]
    BY <1>14 DEF InReview
  <2>3. \A c \in Actors, d \in Batches : d # b /\ Pending(c, d) => Pending(c, d)'
    BY <1>2, <1>8 DEF Pending, Others, own
  <2> SUFFICES ASSUME NEW d \in Batches \ mingled
               PROVE  /\ \A c, e \in Actors :
                            InReview(c, d)' /\ InReview(e, d)' /\ pc'[c] # "targets"
                               /\ pc'[e] # "targets" => c = e
                      /\ status'[d] = "none" \/ Agrees(d)' \/ \E c \in Actors : Pending(c, d)'
                      /\ \A c \in Actors : pc'[c] = "write" /\ local'[c].batch = d =>
                            StatusOf(local'[c].counted) = StatusOf(Found(d))
    BY <1>13, <2>1 DEF AgreeInv
  <2>4. /\ \A c, e \in Actors : InReview(c, d) /\ InReview(e, d) /\ pc[c] # "targets"
                                   /\ pc[e] # "targets" => c = e
        /\ status[d] = "none" \/ Agrees(d) \/ \E c \in Actors : Pending(c, d)
        /\ \A c \in Actors : pc[c] = "write" /\ local[c].batch = d =>
              StatusOf(local[c].counted) = StatusOf(Found(d))
    BY DEF IInv, AgreeInv
  <2>5. \A c, e \in Actors : InReview(c, d)' /\ InReview(e, d)' /\ pc'[c] # "targets"
                                /\ pc'[e] # "targets" => c = e
    BY <2>2, <2>4
  <2>6. status'[d] = "none" \/ Agrees(d)' \/ \E c \in Actors : Pending(c, d)'
    <3>1. CASE d = b
      <4>1. verdict = StatusOf(Found(b))
        BY <1>1, <1>2, <2>4, <3>1 DEF own, verdict
      <4> QED
        BY <1>10, <1>13, <3>1, <4>1 DEF Agrees
    <3>2. CASE d # b
      <4>1. Agrees(d) => Agrees(d)'
        BY <1>10, <1>13, <3>2 DEF Agrees
      <4> QED
        BY <1>10, <2>3, <2>4, <3>2, <4>1
    <3> QED
      BY <3>1, <3>2
  <2>7. \A c \in Actors : pc'[c] = "write" /\ local'[c].batch = d =>
           StatusOf(local'[c].counted) = StatusOf(Found(d))
    BY <1>9, <1>14, <2>4
  <2> QED
    BY <2>5, <2>6, <2>7
<1>17. BaselineInv'
  BY <1>1, <1>8, <1>9, BaselineKept DEF IInv, library, history
<1> QED
  BY <1>11, <1>12, <1>15, <1>16, <1>17 DEF IInv

-----------------------------------------------------------------------------
(* A crash, and the invariant.                                             *)

LEMMA FreshTyped == Fresh \in Local /\ Fresh.bulk
<1>1. << >> \in Seq(Row)
  BY EmptySeq
<1> QED
  BY <1>1 DEF Fresh, Local

LEMMA CrashStep ==
    ASSUME TrustAssumption, IInv, Crash
    PROVE  IInv'
<1>1. TypeOK
  BY DEF IInv
<1>2. /\ Reviewing \cup Storing \cup Importing \subseteq Active
      /\ Approving \subseteq Reviewing
      /\ "dead" \notin Active
      /\ {"delete", "rebuild", "trust"} \subseteq Approving
      /\ {"write", "review", "targets"} \subseteq Reviewing
      /\ Places = {"idle", "done", "dead"} \cup Active
  BY DEF Places, Active, Building, Discovering, Importing, Reviewing, Approving, Storing
<1>3. \A a \in Actors : /\ pc'[a] \in Places /\ pc'[a] \notin Active
                        /\ local'[a] \in Local
                        /\ local'[a].bulk = local[a].bulk \/ local'[a].bulk
  BY <1>1, <1>2, FreshTyped DEF Crash, TypeOK
<1>4. pc' \in [Actors -> Places] /\ local' \in [Actors -> Local]
  <2>1. pc' = [a \in Actors |-> IF pc[a] \in Active THEN "dead" ELSE pc[a]]
    BY DEF Crash
  <2>2. local' = [a \in Actors |-> IF pc[a] \in Active THEN Fresh ELSE local[a]]
    BY DEF Crash
  <2>3. \A a \in Actors : (IF pc[a] \in Active THEN "dead" ELSE pc[a]) \in Places
    BY <1>1, <1>2 DEF TypeOK
  <2>4. \A a \in Actors : (IF pc[a] \in Active THEN Fresh ELSE local[a]) \in Local
    BY <1>1, FreshTyped DEF TypeOK
  <2> QED
    BY <2>1, <2>2, <2>3, <2>4
<1>5. UNCHANGED <<library, reviewed, job, created, crowded>>
  BY DEF Crash
<1>6. disputed \subseteq disputed' /\ disputed' \subseteq Hosts
  BY <1>1, AtWork DEF Crash, TypeOK
<1>7. mingled \subseteq mingled' /\ mingled' \subseteq Batches
  <2>1. \A a \in Actors : pc[a] \in Reviewing => local[a].batch \in Batches
    BY DEF IInv, ActorInv, ActorOK
  <2> QED
    BY <1>1, <2>1 DEF Crash, TypeOK
<1>8. crashes' \in 0..MaxCrashes
  BY <1>1 DEF Crash, TypeOK, TrustAssumption
<1>9. TypeOK'
  BY <1>1, <1>2, <1>4, <1>5, <1>6, <1>7, <1>8 DEF TypeOK, library, reviewed
<1>10. ActorInv'
  <2>1. \A a \in Actors : ~ local'[a].bulk => a \in Users
    BY <1>3 DEF IInv, ActorInv, ActorOK
  <2>2. \A a \in Actors : pc'[a] \notin Importing \cup Storing \cup Reviewing \cup Approving
                            \cup {"review", "targets", "delete", "rebuild", "trust"}
    BY <1>2, <1>3
  <2> QED
    BY <2>1, <2>2 DEF ActorInv, ActorOK
<1>11. \A b : Found(b)' = Found(b) /\ Agrees(b)' = Agrees(b)
  BY <1>5 DEF Found, Agrees, reviewed
<1>12. BatchInv'
  <2>1. \A a \in Actors : pc'[a] \notin Storing \cup Reviewing \cup Approving \cup {"write"}
    BY <1>2, <1>3
  <2>2. status' = status
    BY <1>5 DEF reviewed
  <2> QED
    BY <1>11, <2>1, <2>2 DEF IInv, BatchInv
<1>13. AgreeInv'
  <2>1. \A a \in Actors : \A b : ~ InReview(a, b)' /\ pc'[a] # "write"
    BY <1>2, <1>3 DEF InReview
  <2>2. \A a \in Actors, b \in Batches \ mingled' : ~ InReview(a, b)
    BY DEF Crash, InReview
  <2>3. \A a \in Actors : \A b : Pending(a, b) => InReview(a, b)
    BY DEF Pending, InReview, Reviewing
  <2>4. status' = status
    BY <1>5 DEF reviewed
  <2>5. \A b \in Batches \ mingled' : status'[b] = "none" \/ Agrees(b)'
    BY <1>7, <1>11, <2>2, <2>3, <2>4 DEF IInv, AgreeInv
  <2> QED
    BY <2>1, <2>5 DEF AgreeInv
<1>14. BaselineInv'
  <2>1. \A a \in Actors : \A h : ~ Approves(a, h)'
    BY <1>2, <1>3 DEF Approves
  <2>2. \A a \in Actors, h \in Hosts \ disputed' : ~ Approves(a, h)
    BY DEF Crash, Approves
  <2>3. \A h : AtRest(h)' <=> AtRest(h)
    BY <1>5 DEF AtRest, library, reviewed
  <2>4. \A h \in Hosts \ disputed' : AtRest(h)
    BY <1>6, <2>2 DEF IInv, BaselineInv
  <2> QED
    BY <2>1, <2>3, <2>4 DEF BaselineInv
<1> QED
  BY <1>9, <1>10, <1>12, <1>13, <1>14 DEF IInv

LEMMA InitIInv ==
    ASSUME TrustAssumption, Init
    PROVE  IInv
<1>1. \A a \in Actors : pc[a] = "idle" /\ local[a] = Fresh
  BY DEF Init
<1>2. \A a \in Actors : pc[a] \notin Importing \cup Storing \cup Reviewing \cup Approving
                          \cup {"review", "targets", "delete", "rebuild", "trust", "write"}
  BY <1>1 DEF Importing, Storing, Reviewing, Approving
<1>3. \A b \in Batches : Found(b) = {} /\ status[b] = "none"
  BY DEF Init, Found
<1>4. TypeOK
  <2>1. /\ domain \in [Domains -> Importances \cup {"none"}]
        /\ host \in [Hosts -> {"none", "draft", "trusted"}]
        /\ nsNote \subseteq Hosts
        /\ baseline \in [Hosts -> SUBSET Batches]
    BY DEF Init, TrustAssumption
  <2>2. /\ status \in [Batches -> {"none", "draft"} \cup Decided]
        /\ record \in [Batches -> [Hosts -> {"none", "draft"} \cup Decided]]
    BY DEF Init
  <2>3. job \in [status : {"none", "pending", "running"} \cup Settled,
                 processed : Nat, imported : Nat, input : Input]
    BY DEF Init, TrustAssumption
  <2>4. /\ pc \in [Actors -> {"idle", "done", "dead"} \cup Active]
        /\ local \in [Actors -> Local]
    BY FreshTyped DEF Init
  <2>5. /\ created \subseteq Hosts /\ disputed \subseteq Hosts /\ mingled \subseteq Batches
        /\ crowded \in BOOLEAN /\ crashes \in 0..MaxCrashes
    <3>1. crowded = FALSE /\ crashes = 0
      BY DEF Init
    <3>2. crowded \in BOOLEAN
      BY <3>1
    <3>3. crashes \in 0..MaxCrashes
      BY <3>1 DEF TrustAssumption
    <3>4. created \subseteq Hosts /\ disputed \subseteq Hosts /\ mingled \subseteq Batches
      BY DEF Init
    <3> QED
      BY <3>2, <3>3, <3>4
  <2> QED
    BY <2>1, <2>2, <2>3, <2>4, <2>5 DEF TypeOK
<1>5. ActorInv
  BY <1>1, <1>2, FreshTyped DEF ActorInv, ActorOK
<1>6. BatchInv
  BY <1>2, <1>3 DEF BatchInv, Decided
<1>7. AgreeInv
  BY <1>2, <1>3 DEF AgreeInv, InReview
<1>8. BaselineInv
  <2>1. \A a \in Actors : \A h : ~ Approves(a, h)
    BY <1>2 DEF Approves
  <2>2. \A h \in Hosts : AtRest(h)
    BY DEF Init, AtRest
  <2> QED
    BY <2>1, <2>2 DEF BaselineInv
<1> QED
  BY <1>4, <1>5, <1>6, <1>7, <1>8 DEF IInv

LEMMA StutterStep ==
    ASSUME IInv, UNCHANGED vars
    PROVE  IInv'
<1> USE DEF vars, library, reviewed, history
<1>1. TypeOK' /\ ActorInv'
  BY DEF IInv, TypeOK, ActorInv, ActorOK
<1>2. BatchInv'
  <2>1. \A b : Found(b)' = Found(b)
    BY DEF Found
  <2>2. \A a : Found(local[a].batch)' = Found(local[a].batch)
    BY DEF Found
  <2> QED
    BY <2>1, <2>2 DEF IInv, BatchInv
<1>3. AgreeInv'
  BY DEF IInv, AgreeInv, InReview, Pending, Agrees, Found
<1>4. BaselineInv'
  BY DEF IInv, BaselineInv, Approves, ApprovalOK, AtRest
<1> QED
  BY <1>1, <1>2, <1>3, <1>4 DEF IInv

LEMMA NextIInv ==
    ASSUME TrustAssumption, IInv, [Next]_vars
    PROVE  IInv'
<1>1. CASE \E u \in Users : Request(u)
  <2>1. PICK u \in Users : Request(u)
    BY <1>1
  <2> QED
    BY <2>1, BeginImportStep, BeginDiscoverStep, CreateTrustHostStep, CreateTrustDomainStep,
       BeginReviewStep DEF Request
<1>2. CASE \E r \in Runs : CreateBuildJob(r) \/ RetryRead(r) \/ Build(r)
  <2>1. PICK r \in Runs : CreateBuildJob(r) \/ RetryRead(r) \/ Build(r)
    BY <1>2
  <2> QED
    BY <2>1, CreateBuildJobStep, RetryReadStep, RetryWriteStep, StartRunStep, ReadFileStep,
       ReadFileFailsStep, UpdateProgressStep, ReloadStep, FinishStep DEF Build
<1>3. CASE \E a \in Actors : Proceed(a)
  <2>1. PICK a \in Actors : Import(a) \/ Discover(a) \/ Review(a)
    BY <1>3 DEF Proceed
  <2>2. CASE Import(a)
    BY <2>2, LookRowStep, InsertRowStep, RefuseRowStep DEF Import
  <2>3. CASE Discover(a)
    BY <2>3, StartDiscoveryStep, NothingToDiscoverStep, StoreCandidatesStep, ResolveHostStep
       DEF Discover
  <2>4. CASE Review(a)
    BY <2>4, SelectTargetsStep, NoTargetsStep, LoadRecordsStep, NoRecordsStep,
       DeleteBaselineStep, InsertBaselineStep, RefuseBaselineStep, TrustHostStep,
       MarkRecordsStep, CountRecordsStep, WriteStatusStep DEF Review
  <2> QED
    BY <2>1, <2>2, <2>3, <2>4
<1>4. CASE Crash
  BY <1>4, CrashStep
<1>5. CASE UNCHANGED vars
  BY <1>5, StutterStep
<1> QED
  BY <1>1, <1>2, <1>3, <1>4, <1>5 DEF Next

LEMMA Invariance == Spec => []IInv
<1>1. Init => IInv
  BY InitIInv, TrustAssumption
<1>2. IInv /\ [Next]_vars => IInv'
  BY NextIInv, TrustAssumption
<1> QED
  BY <1>1, <1>2, PTL DEF Spec

LEMMA InvariantAgrees ==
    ASSUME IInv
    PROVE  BatchesAgree
<1>1. DecidedHasNoDraft
  <2>1. \A b \in Batches : status[b] \in Decided => "draft" \notin Found(b)
    BY DEF IInv, BatchInv
  <2> QED
    BY <2>1 DEF DecidedHasNoDraft, DraftsOf, Found
<1>2. BatchStatusAgrees
  <2>1. \A b \in Batches \ mingled :
           status[b] = "none" \/ Agrees(b) \/ \E a \in Actors : Pending(a, b)
    BY DEF IInv, AgreeInv
  <2>2. \A a \in Actors : \A b : Pending(a, b) => InReview(a, b)
    BY DEF Pending, InReview, Reviewing
  <2> QED
    BY <2>1, <2>2 DEF BatchStatusAgrees, Agrees, Found
<1> QED
  BY <1>1, <1>2 DEF BatchesAgree, IInv

LEMMA InvariantIsReviewed ==
    ASSUME IInv
    PROVE  BaselineIsReviewed
<1>1. \A h \in Hosts : Undisturbed(h) => AtRest(h)
  BY DEF IInv, BaselineInv, Undisturbed, Approves
<1>2. \A h \in Hosts : AtRest(h) => Cardinality(baseline[h]) <= 1
  <2> SUFFICES ASSUME NEW h \in Hosts, AtRest(h)
               PROVE  Cardinality(baseline[h]) <= 1
    OBVIOUS
  <2>1. CASE baseline[h] = {}
    BY <2>1, FS_EmptySet
  <2>2. CASE \E b \in Batches : baseline[h] = {b}
    BY <2>2, FS_Singleton
  <2> QED
    BY <2>1, <2>2 DEF AtRest
<1>3. BaselineIsApproved
  BY <1>1, <1>2 DEF BaselineIsApproved, AtRest
<1>4. ApprovedHasBaseline
  BY <1>1 DEF ApprovedHasBaseline, AtRest
<1> QED
  BY <1>3, <1>4 DEF BaselineIsReviewed

\* A batch that reads as decided has no record left to review, and its status
\* is that of its records unless reviews of it overlapped or were cut short,
\* for every library and any number of users and runs (trust.go 701-711,
\* 751-787, 824).
THEOREM BatchesAlwaysAgree == Spec => []BatchesAgree
  BY Invariance, InvariantAgrees, PTL

\* The baseline of a host is exactly what was approved for it, unless two
\* approvals of the host overlapped or one was cut short (trust.go 683-709).
THEOREM BaselinesAreReviewed == Spec => []BaselineIsReviewed
  BY Invariance, InvariantIsReviewed, PTL

-----------------------------------------------------------------------------
(* Build jobs.                                                             *)

\* Where a run is at work on a chunk.
Midway == Importing \cup Discovering \cup Reviewing \cup {"progress"}

\* What a run has in its local variables, and what the row of the job says of
\* it as long as no two runs have been at work together.
RunAt(r) ==
    /\ local[r].base + local[r].made =< Cardinality(created)
    /\ pc[r] \in {"idle", "retry", "queued", "read"} => local[r].made = 0
    /\ local[r].chunk =< NumChunks
    /\ pc[r] \in Midway \cup {"reload"} => local[r].chunk < NumChunks
    /\ pc[r] = "finish" => local[r].chunk = NumChunks
    /\ ~ crowded /\ pc[r] \in Building \ {"reload"} => job.processed = local[r].chunk
    /\ ~ crowded /\ pc[r] = "reload" => job.processed = local[r].chunk + 1

\* Run r is the only one that has begun.
Alone(r) == pc[r] # "idle" /\ \A q \in Runs \ {r} : pc[q] = "idle"

AloneAt(r) ==
    Alone(r) =>
        /\ pc[r] # "retry"
        /\ pc[r] \in {"queued", "read", "reload", "finish"} => job.imported = Cardinality(created)
        /\ pc[r] = "read" => local[r].base = job.imported
        /\ pc[r] \in Midway => local[r].base + local[r].made = Cardinality(created)
        /\ job.status = "completed" => pc[r] = "done" /\ job.imported = Cardinality(created)

Begun == {r \in Runs : pc[r] # "idle"}

JobAt ==
    /\ created \subseteq Present
    /\ job.imported =< Cardinality(created) /\ job.processed =< NumChunks
    /\ job.status = "none" <=> \A r \in Runs : pc[r] = "idle"
    /\ job.status = "none" => created = {} /\ job.imported = 0
    /\ IsFiniteSet(Begun)
    /\ ~ crowded => \A q, r \in Runs : pc[q] \in Building /\ pc[r] \in Building => q = r
    /\ ~ crowded /\ job.status = "completed" =>
          job.processed = NumChunks /\ \A r \in Runs : pc[r] \notin Building

BuildInv == JobAt /\ \A r \in Runs : RunAt(r) /\ AloneAt(r)

-----------------------------------------------------------------------------
(* Counting chunks, hosts and runs.                                        *)

LEMMA QuotientNat ==
    ASSUME NEW n \in Nat, NEW c \in Nat \ {0}
    PROVE  (n + c - 1) \div c \in Nat
BY SMTT(30)

LEMMA NumChunksNat ==
    ASSUME TypeOK
    PROVE  NumChunks \in Nat
<1>1. job.input.lines \in Seq(Domains) /\ ChunkSize \in Nat \ {0}
  BY TrustAssumption DEF TypeOK, Input
<1>2. Len(job.input.lines) \in Nat
  BY <1>1
<1> QED
  BY <1>1, <1>2, QuotientNat DEF NumChunks

LEMMA CountCreated ==
    ASSUME NEW S \in SUBSET Hosts
    PROVE  IsFiniteSet(S) /\ Cardinality(S) \in Nat
<1>1. IsFiniteSet(Hosts)
  BY TrustAssumption, FS_Interval DEF Hosts
<1> QED
  BY <1>1, FS_Subset, FS_CardinalityType

LEMMA PlacesOfRuns ==
    /\ Midway \subseteq Building /\ Building = Midway \cup {"read", "reload", "finish"}
    /\ {"idle", "retry", "queued", "read", "reload", "finish", "done", "dead"} \cap Midway = {}
    /\ {"idle", "retry", "queued", "done", "dead"} \cap Building = {}
    /\ {"progress", "look"} \subseteq Midway
    /\ Active = Building \cup {"retry", "queued"}
BY DEF Midway, Building, Importing, Discovering, Reviewing, Approving, Active

\* The numbers a run and the job keep.
LEMMA Numbers ==
    ASSUME TypeOK
    PROVE  /\ \A r \in Runs : /\ local[r].base \in Nat /\ local[r].made \in Nat
                              /\ local[r].chunk \in Nat
           /\ job.imported \in Nat /\ job.processed \in Nat
           /\ Cardinality(created) \in Nat
           /\ NumChunks \in Nat
BY NumChunksNat, CountCreated DEF TypeOK, Local, Actors

-----------------------------------------------------------------------------
(* Frames.                                                                 *)

\* A step of a user leaves the job and its runs alone.
LEMMA UserStep ==
    ASSUME BuildInv, NEW u \in Users, Others(u),
           UNCHANGED <<job, created, crowded>>, Present \subseteq Present'
    PROVE  BuildInv'
<1>1. \A r \in Runs : r \in Actors /\ r # u
  BY TrustAssumption DEF Actors
<1>2. \A r \in Runs : pc'[r] = pc[r] /\ local'[r] = local[r]
  BY <1>1 DEF Others
<1>3. NumChunks' = NumChunks
  BY DEF NumChunks
<1>4. Begun' = Begun
  BY <1>2 DEF Begun
<1>5. JobAt'
  <2>1. JobAt
    BY DEF BuildInv
  <2> QED
    BY <2>1, <1>2, <1>3, <1>4 DEF JobAt
<1>6. ASSUME NEW r \in Runs
      PROVE  RunAt(r)' /\ AloneAt(r)'
  <2>1. RunAt(r) /\ AloneAt(r)
    BY DEF BuildInv
  <2>2. RunAt(r)'
    BY <2>1, <1>2, <1>3 DEF RunAt
  <2>3. AloneAt(r)'
    BY <2>1, <1>2 DEF AloneAt, Alone
  <2> QED
    BY <2>2, <2>3
<1> QED
  BY <1>5, <1>6 DEF BuildInv

\* A step of run a: what it has to keep for itself keeps the others in order.
LEMMA RunStep ==
    ASSUME TypeOK, TypeOK', BuildInv, NEW a \in Runs, Others(a), pc'[a] # "idle",
           created \subseteq created', created' \subseteq Present',
           job'.input = job.input, job'.status # "none",
           crowded => crowded',
           job'.imported =< Cardinality(created'), job'.processed =< NumChunks,
           job'.processed # job.processed => pc[a] \in Building,
           pc'[a] \in Building =>
              \/ pc[a] \in Building \/ crowded'
              \/ \A q \in Runs \ {a} : pc[q] \notin Building,
           ~ crowded' /\ job'.status = "completed" =>
              /\ pc'[a] \notin Building /\ job'.processed = job.processed
              /\ job.status = "completed" \/ pc[a] = "finish",
           RunAt(a)', AloneAt(a)'
    PROVE  BuildInv'
<1>1. \A r \in Runs \ {a} : pc'[r] = pc[r] /\ local'[r] = local[r]
  BY DEF Others, Actors
<1>2. NumChunks' = NumChunks
  BY DEF NumChunks
<1>3. Cardinality(created) =< Cardinality(created')
  <2>1. IsFiniteSet(created')
    BY CountCreated DEF TypeOK
  <2> QED
    BY <2>1, FS_Subset
<1>4. /\ Cardinality(created) \in Nat /\ Cardinality(created') \in Nat
      /\ \A r \in Runs : local[r].base \in Nat /\ local[r].made \in Nat
  BY Numbers, CountCreated DEF TypeOK
<1>5. JobAt /\ \A r \in Runs : RunAt(r)
  BY DEF BuildInv
<1>6. ~ crowded => \A q, r \in Runs : pc[q] \in Building /\ pc[r] \in Building => q = r
  BY <1>5 DEF JobAt
<1>7. ASSUME NEW r \in Runs \ {a}
      PROVE  RunAt(r)'
  <2>1. RunAt(r)
    BY <1>5
  <2>2. pc'[r] = pc[r] /\ local'[r] = local[r]
    BY <1>1
  <2>3. ~ crowded' /\ pc[r] \in Building => ~ crowded /\ job'.processed = job.processed
    BY <1>6
  <2>4. local[r].base + local[r].made =< Cardinality(created')
    BY <2>1, <1>3, <1>4 DEF RunAt
  <2>5. "reload" \in Building
    BY DEF Building
  <2> QED
    BY <2>1, <2>2, <2>3, <2>4, <2>5, <1>2 DEF RunAt
<1>8. ASSUME NEW r \in Runs \ {a}
      PROVE  AloneAt(r)'
  BY DEF AloneAt, Alone
<1>9. JobAt'
  <2>1. job'.status = "none" <=> \A r \in Runs : pc'[r] = "idle"
    OBVIOUS
  <2>2. IsFiniteSet(Begun')
    <3>1. IsFiniteSet(Begun)
      BY <1>5 DEF JobAt
    <3>2. IsFiniteSet(Begun \cup {a})
      BY <3>1, FS_AddElement
    <3>3. Begun' \subseteq Begun \cup {a}
      BY <1>1 DEF Begun
    <3> QED
      BY <3>2, <3>3, FS_Subset
  <2>3. ~ crowded' => \A q, r \in Runs : pc'[q] \in Building /\ pc'[r] \in Building => q = r
    BY <1>1, <1>6
  <2>4. ~ crowded' /\ job'.status = "completed" =>
           job'.processed = NumChunks /\ \A r \in Runs : pc'[r] \notin Building
    <3> SUFFICES ASSUME ~ crowded', job'.status = "completed"
                 PROVE  job'.processed = NumChunks /\ \A r \in Runs : pc'[r] \notin Building
      OBVIOUS
    <3>1. ~ crowded /\ pc'[a] \notin Building /\ job'.processed = job.processed
      OBVIOUS
    <3>2. CASE job.status = "completed"
      BY <1>1, <1>5, <3>1, <3>2 DEF JobAt
    <3>3. CASE pc[a] = "finish"
      <4>1. local[a].chunk = NumChunks /\ job.processed = local[a].chunk
        BY <1>5, <3>1, <3>3 DEF RunAt, Building
      <4>2. pc[a] \in Building
        BY <3>3 DEF Building
      <4> QED
        BY <1>1, <1>6, <3>1, <4>1, <4>2
    <3> QED
      BY <3>2, <3>3
  <2> QED
    BY <2>1, <2>2, <2>3, <2>4, <1>2 DEF JobAt
<1> QED
  BY <1>7, <1>8, <1>9 DEF BuildInv

-----------------------------------------------------------------------------
(* Imports, discoveries and reviews, by users and by runs.                 *)

\* The local variables that build jobs count with.
SameCounters(a) ==
    /\ local'[a].base = local[a].base /\ local'[a].made = local[a].made
    /\ local'[a].chunk = local[a].chunk

LEMMA CountersKept ==
    ASSUME TypeOK, NEW a \in Actors, NEW u \in Local,
           local' = [local EXCEPT ![a] = u],
           u.base = local[a].base, u.made = local[a].made, u.chunk = local[a].chunk
    PROVE  SameCounters(a) /\ \A c \in Actors : c # a => local'[c] = local[c]
BY DEF TypeOK, SameCounters

LEMMA PresentGrows ==
    ASSUME TypeOK, \A h \in Hosts : host[h] # "none" => host'[h] # "none"
    PROVE  Present \subseteq Present'
BY DEF Present

\* A step within an operation that begins and ends in a chunk.
Within(a) ==
    /\ Others(a)
    /\ pc[a] \in Midway /\ pc'[a] \in Midway \cup {"done"}
    /\ SameCounters(a)
    /\ UNCHANGED <<created, crowded>>
    /\ Present \subseteq Present'

LEMMA LookWithin ==
    ASSUME IInv, NEW a \in Actors, LookRow(a)
    PROVE  Within(a) /\ job' = job
<1>1. TypeOK /\ local[a] \in Local
  BY DEF IInv, TypeOK
<1>2. pc[a] = "look" /\ pc'[a] \in {"insert", RestPc(a)}
  BY <1>1 DEF LookRow, Goto, TypeOK
<1>3. pc[a] \in Midway /\ pc'[a] \in Midway \cup {"done"}
  BY <1>2, Ends DEF Midway, Importing, Discovering
<1>4. \A c \in Actors : c # a => pc'[c] = pc[c] /\ local'[c] = local[c]
  BY <1>1 DEF LookRow, Goto, TypeOK
<1>5. SameCounters(a)
  BY <1>1 DEF LookRow, TypeOK, Local, SameCounters
<1>6. UNCHANGED <<host, created, crowded, job>>
  BY DEF LookRow, library, history
<1> QED
  BY <1>3, <1>4, <1>5, <1>6 DEF Within, Others, Present

LEMMA RefuseWithin ==
    ASSUME IInv, NEW a \in Actors, RefuseRow(a)
    PROVE  Within(a) /\ pc'[a] = "done"
<1>1. TypeOK
  BY DEF IInv
<1>2. pc[a] = "insert" /\ pc'[a] = "done" /\ local' = local
  BY <1>1 DEF RefuseRow, Goto, TypeOK
<1>3. \A c \in Actors : c # a => pc'[c] = pc[c]
  BY <1>1 DEF RefuseRow, Goto, TypeOK
<1>4. UNCHANGED <<host, created, crowded>>
  BY DEF RefuseRow, library, history
<1> QED
  BY <1>2, <1>3, <1>4 DEF Within, Others, Present, SameCounters, Midway, Importing

LEMMA DiscoverWithin ==
    ASSUME IInv, NEW a \in Actors, Discover(a)
    PROVE  Within(a) /\ job' = job
<1>1. TypeOK /\ local[a] \in Local
  BY DEF IInv, TypeOK
<1>2. /\ pc[a] \in Discovering
      /\ pc'[a] \in {"resolve", "store", "done", "targets", AfterRefusal(a)}
      /\ \A c \in Actors : c # a => pc'[c] = pc[c]
  BY <1>1 DEF Discover, StartDiscovery, NothingToDiscover, StoreCandidates, ResolveHost, Goto,
     TypeOK, Discovering
<1>3. pc[a] \in Midway /\ pc'[a] \in Midway \cup {"done"}
  BY <1>2, Ends DEF Midway, Discovering, Reviewing
<1>4. /\ \A c \in Actors : c # a => local'[c] = local[c]
      /\ SameCounters(a)
  <2>1. CASE StartDiscovery(a)
    BY <1>1, <2>1 DEF StartDiscovery, TypeOK, Local, SameCounters
  <2>2. CASE NothingToDiscover(a)
    BY <2>2 DEF NothingToDiscover, SameCounters
  <2>3. CASE StoreCandidates(a)
    BY <1>1, <2>3 DEF StoreCandidates, TypeOK, Local, SameCounters
  <2>4. ASSUME NEW h \in Hosts, ResolveHost(a, h)
        PROVE  /\ \A c \in Actors : c # a => local'[c] = local[c]
               /\ SameCounters(a)
    <3>1. \E rest, done, rows :
             local' = [local EXCEPT ![a].queue = rest, ![a].seen = done, ![a].rows = rows]
      <4>1. PICK answers \in BOOLEAN :
               LET named == IF answers THEN NsOf[h] ELSE {}
                   new == {n \in named : host[n] = "none"}
                   again == {n \in named : host[n] = "draft" /\ n \in nsNote}
                   done == local[a].seen \cup {h}
                   rest == (local[a].queue \cup new \cup again) \ done
               IN  local' = [local EXCEPT ![a].queue = rest, ![a].seen = done,
                                          ![a].rows = IF answers THEN @ \cup {h} ELSE @]
        BY <2>4 DEF ResolveHost
      <4>2. CASE answers
        BY <4>1, <4>2, Zenon
      <4>3. CASE ~ answers
        BY <4>1, <4>3, Zenon
      <4> QED
        BY <4>2, <4>3
    <3> QED
      BY <1>1, <3>1 DEF TypeOK, Local, SameCounters
  <2> QED
    BY <2>1, <2>2, <2>3, <2>4 DEF Discover
<1>5. /\ UNCHANGED <<job, created, crowded>>
      /\ \A h \in Hosts : host[h] # "none" => host'[h] # "none"
  BY DEF Discover, StartDiscovery, NothingToDiscover, StoreCandidates, ResolveHost, library,
     history
<1> QED
  BY <1>1, <1>2, <1>3, <1>4, <1>5, PresentGrows DEF Within, Others

LEMMA ReviewWithin ==
    ASSUME IInv, NEW a \in Actors, Review(a)
    PROVE  Within(a) /\ job' = job
<1>1. TypeOK /\ local[a] \in Local
  BY DEF IInv, TypeOK
<1>2. \A failed \in BOOLEAN : Onward(a, failed) \in {"review", "done", "refresh"}
  BY DEF Onward
<1>3. /\ pc[a] \in Reviewing
      /\ pc'[a] \in Reviewing \cup {"done", AfterRefusal(a)}
      /\ \A c \in Actors : c # a => pc'[c] = pc[c]
  <2>1. CASE SelectTargets(a) \/ NoTargets(a) \/ CountRecords(a) \/ WriteStatus(a)
    BY <1>1, <2>1 DEF SelectTargets, NoTargets, CountRecords, WriteStatus, Goto, TypeOK,
       Reviewing, Approving
  <2>2. CASE DeleteBaseline(a) \/ InsertBaseline(a) \/ TrustHost(a)
    BY <1>1, <2>2 DEF DeleteBaseline, InsertBaseline, TrustHost, Goto, TypeOK, Reviewing, Approving
  <2>3. CASE RefuseBaseline(a) \/ MarkRecords(a)
    BY <1>1, <1>2, <2>3 DEF RefuseBaseline, MarkRecords, Goto, TypeOK, Reviewing, Approving
  <2>4. ASSUME NEW h \in Hosts, LoadRecords(a, h) \/ NoRecords(a, h)
        PROVE  /\ pc[a] \in Reviewing
               /\ pc'[a] \in Reviewing \cup {"done", AfterRefusal(a)}
               /\ \A c \in Actors : c # a => pc'[c] = pc[c]
    BY <1>1, <2>4 DEF LoadRecords, NoRecords, Goto, TypeOK, Reviewing, Approving
  <2> QED
    BY <2>1, <2>2, <2>3, <2>4 DEF Review
<1>4. pc[a] \in Midway /\ pc'[a] \in Midway \cup {"done"}
  BY <1>3, Ends DEF Midway
<1>5. /\ \A c \in Actors : c # a => local'[c] = local[c]
      /\ SameCounters(a)
  <2>1. CASE local' = local
    BY <2>1 DEF SameCounters
  <2>2. CASE SelectTargets(a) \/ MarkRecords(a) \/ CountRecords(a) \/ WriteStatus(a)
    <3>1. CASE SelectTargets(a)
      BY <1>1, <3>1 DEF SelectTargets, TypeOK, Local, SameCounters
    <3>2. CASE MarkRecords(a)
      BY <1>1, <3>2 DEF MarkRecords, TypeOK, Local, SameCounters
    <3>3. CASE CountRecords(a)
      BY <1>1, <3>3 DEF CountRecords, TypeOK, Local, SameCounters
    <3>4. CASE WriteStatus(a)
      BY <1>1, <3>4 DEF WriteStatus, TypeOK, Local, SameCounters
    <3> QED
      BY <2>2, <3>1, <3>2, <3>3, <3>4
  <2>3. ASSUME NEW h \in Hosts, LoadRecords(a, h) \/ NoRecords(a, h)
        PROVE  /\ \A c \in Actors : c # a => local'[c] = local[c]
               /\ SameCounters(a)
    BY <1>1, <2>3 DEF LoadRecords, NoRecords, TypeOK, Local, SameCounters
  <2> QED
    BY <2>1, <2>2, <2>3 DEF Review, NoTargets, DeleteBaseline, InsertBaseline, RefuseBaseline,
       TrustHost
<1>6. /\ UNCHANGED <<job, created, crowded>>
      /\ \A h \in Hosts : host[h] # "none" => host'[h] # "none"
  BY <1>1 DEF Review, SelectTargets, NoTargets, LoadRecords, NoRecords, DeleteBaseline,
     InsertBaseline, RefuseBaseline, TrustHost, MarkRecords, CountRecords, WriteStatus, TypeOK,
     library, history
<1> QED
  BY <1>1, <1>3, <1>4, <1>5, <1>6, PresentGrows DEF Within, Others

\* What a step within a chunk, by a user or a run, leaves of the job.
LEMMA WithinStep ==
    ASSUME IInv, IInv', BuildInv, NEW a \in Actors, Within(a),
           \/ job' = job
           \/ a \in Runs /\ job' = [job EXCEPT !.status = "failed"] /\ pc'[a] = "done"
    PROVE  BuildInv'
<1>1. TypeOK /\ TypeOK'
  BY DEF IInv
<1>2. CASE a \in Users
  BY <1>2, TrustAssumption, UserStep DEF Within
<1>3. CASE a \in Runs
  <2>1. RunAt(a) /\ AloneAt(a) /\ JobAt
    BY <1>3 DEF BuildInv
  <2>2. /\ Others(a) /\ pc[a] \in Midway /\ pc'[a] \in Midway \cup {"done"}
        /\ SameCounters(a) /\ UNCHANGED <<created, crowded>>
        /\ Present \subseteq Present'
    BY DEF Within
  <2>3. /\ job'.input = job.input /\ job'.processed = job.processed
        /\ job'.imported = job.imported
        /\ \/ job'.status = job.status
           \/ job'.status = "failed" /\ pc'[a] = "done"
    <3>1. CASE job' = job
      BY <3>1
    <3>2. CASE job' = [job EXCEPT !.status = "failed"] /\ pc'[a] = "done"
      BY <1>1, <3>2 DEF TypeOK
    <3> QED
      BY <3>1, <3>2
  <2>4. pc'[a] # "idle" /\ pc[a] \in Building /\ pc[a] # "idle"
    BY <2>2, PlacesOfRuns
  <2>5. job.status # "none" /\ job'.status # "none"
    BY <1>3, <2>1, <2>3, <2>4 DEF JobAt
  <2>6. created' \subseteq Present'
    BY <2>1, <2>2 DEF JobAt
  <2>7. NumChunks' = NumChunks
    BY <2>3 DEF NumChunks
  <2>8. RunAt(a)'
    BY <2>1, <2>2, <2>3, <2>7, PlacesOfRuns DEF RunAt, SameCounters
  <2>9. AloneAt(a)'
    <3>1. Alone(a)' => Alone(a)
      BY <2>2, <2>4 DEF Alone, Others, Actors
    <3>2. Alone(a) => job.status # "completed" /\ local[a].base + local[a].made = Cardinality(created)
      BY <2>1, <2>2, PlacesOfRuns DEF AloneAt
    <3>3. pc'[a] \in Midway \/ pc'[a] = "done"
      BY <2>2
    <3> QED
      BY <2>2, <2>3, <3>1, <3>2, <3>3, PlacesOfRuns DEF AloneAt, SameCounters
  <2>10. ~ crowded' => job'.status # "completed"
    BY <1>3, <2>1, <2>2, <2>3, <2>4 DEF JobAt
  <2> QED
    BY <1>1, <1>3, <2>1, <2>2, <2>3, <2>4, <2>5, <2>6, <2>8, <2>9, <2>10, RunStep DEF JobAt
<1> QED
  BY <1>2, <1>3 DEF Actors

LEMMA InsertRowBuilds ==
    ASSUME IInv, IInv', BuildInv, NEW a \in Actors, InsertRow(a)
    PROVE  BuildInv'
<1>1. TypeOK /\ TypeOK' /\ local[a] \in Local
  BY DEF IInv, TypeOK
<1> DEFINE row == Head(local[a].todo)
<1>2. pc[a] = "insert" /\ pc'[a] = RestPc(a) /\ \A c \in Actors : c # a => pc'[c] = pc[c]
  BY <1>1 DEF InsertRow, Goto, TypeOK
<1>3. row \in Row
  BY <1>2, RowAtHand DEF Importing
<1>4. /\ \A c \in Actors : c # a => local'[c] = local[c]
      /\ local'[a].base = local[a].base /\ local'[a].chunk = local[a].chunk
      /\ local'[a].made = IF row.host # NoHost THEN local[a].made + 1 ELSE local[a].made
  BY <1>1 DEF InsertRow, TypeOK, Local
<1>5. /\ UNCHANGED <<job, crowded>>
      /\ created' = IF row.host # NoHost /\ a \in Runs THEN created \cup {row.host} ELSE created
      /\ Absent(row)
      /\ host' = IF row.host # NoHost THEN [host EXCEPT ![row.host] = "draft"] ELSE host
  BY DEF InsertRow
<1> HIDE DEF row
<1>6. Others(a)
  BY <1>2, <1>4 DEF Others
<1>7. \A h \in Hosts : host[h] # "none" => host'[h] # "none"
  BY <1>1, <1>5 DEF TypeOK
<1>8. Present \subseteq Present'
  BY <1>1, <1>7, PresentGrows
<1>9. pc[a] \in Midway /\ pc'[a] \in Midway \cup {"done"}
  BY <1>2, Ends DEF Midway, Importing, Discovering
<1>10. CASE a \in Users \/ row.host = NoHost
  <2>1. created' = created
    BY <1>5, <1>10, TrustAssumption
  <2>2. CASE a \in Users
    BY <1>5, <1>6, <1>8, <2>1, <2>2, UserStep
  <2>3. CASE row.host = NoHost
    <3>1. Within(a)
      BY <1>4, <1>5, <1>6, <1>8, <1>9, <2>1, <2>3 DEF Within, SameCounters
    <3> QED
      BY <1>5, <3>1, WithinStep
  <2> QED
    BY <1>10, <2>2, <2>3
<1>11. CASE a \in Runs /\ row.host # NoHost
  <2>1. RunAt(a) /\ AloneAt(a) /\ JobAt
    BY <1>11 DEF BuildInv
  <2>2. row.host \in Hosts
    BY <1>3, <1>11 DEF Row
  <2>3. row.host \notin created
    BY <1>5, <1>11, <2>1 DEF JobAt, Present, Absent
  <2>4. IsFiniteSet(created)
    BY <1>1, CountCreated DEF TypeOK
  <2>5. Cardinality(created') = Cardinality(created) + 1
    BY <1>5, <1>11, <2>3, <2>4, FS_AddElement
  <2>6. created \subseteq created' /\ created' \subseteq Present'
    <3>1. row.host \in Present'
      BY <1>1, <1>5, <1>11, <2>2 DEF Present, TypeOK
    <3> QED
      BY <1>5, <1>8, <1>11, <2>1, <3>1 DEF JobAt
  <2>7. /\ local[a].base \in Nat /\ local[a].made \in Nat /\ Cardinality(created) \in Nat
        /\ job.imported \in Nat
    BY <1>1, <1>11, Numbers
  <2>8. local'[a].made = local[a].made + 1
    BY <1>4, <1>11
  <2>9. pc[a] \in Building /\ pc[a] # "idle" /\ pc'[a] # "idle"
    BY <1>9, PlacesOfRuns
  <2>10. NumChunks' = NumChunks
    BY <1>5 DEF NumChunks
  <2>11. RunAt(a)'
    <3>1. local'[a].base + local'[a].made =< Cardinality(created')
      BY <1>4, <2>1, <2>5, <2>7, <2>8 DEF RunAt
    <3>2. pc'[a] \in Midway \/ pc'[a] = "done"
      BY <1>9
    <3> QED
      BY <1>4, <1>5, <1>9, <2>1, <2>10, <3>1, <3>2, PlacesOfRuns DEF RunAt
  <2>12. AloneAt(a)'
    <3>1. Alone(a)' => Alone(a)
      BY <1>6, <2>9 DEF Alone, Others, Actors
    <3>2. Alone(a) => job.status # "completed" /\ local[a].base + local[a].made = Cardinality(created)
      BY <1>9, <2>1, PlacesOfRuns DEF AloneAt
    <3>3. Alone(a) => local'[a].base + local'[a].made = Cardinality(created')
      BY <1>4, <2>5, <2>7, <2>8, <3>2
    <3>4. pc'[a] \in Midway \/ pc'[a] = "done"
      BY <1>9
    <3> QED
      BY <1>5, <3>1, <3>2, <3>3, <3>4, PlacesOfRuns DEF AloneAt
  <2>13. job.status # "none"
    BY <1>11, <2>1, <2>9 DEF JobAt
  <2>14. ~ crowded => job.status # "completed"
    BY <1>11, <2>1, <2>9 DEF JobAt
  <2>15. job.imported =< Cardinality(created')
    BY <2>1, <2>5, <2>7 DEF JobAt
  <2>16. job.processed =< NumChunks
    BY <2>1 DEF JobAt
  <2> QED
    BY <1>1, <1>5, <1>6, <1>11, <2>6, <2>9, <2>11, <2>12, <2>13, <2>14, <2>15, <2>16, RunStep
<1> QED
  BY <1>10, <1>11 DEF Actors

-----------------------------------------------------------------------------
(* The steps of a run outside its chunks.                                  *)

\* A step that only moves the run and sets the status of its job.
LEMMA StatusStep ==
    ASSUME IInv, IInv', BuildInv, NEW r \in Runs, NEW from, NEW to, NEW s,
           Goto(r, from, to), to \in Places,
           UNCHANGED <<library, local, history>>,
           job' = [job EXCEPT !.status = s],
           \/ from = "idle" /\ to = "queued" /\ job.status = "none" /\ s = "pending"
           \/ from = "idle" /\ to = "retry" /\ job.status # "none" /\ s = job.status
           \/ from = "retry" /\ to = "queued" /\ s = "pending"
           \/ from = "read" /\ to = "done" /\ s = "failed"
           \/ from = "finish" /\ to = "done" /\ s = "completed"
    PROVE  BuildInv'
<1>1. TypeOK /\ TypeOK' /\ r \in Actors
  BY DEF IInv, Actors
<1>2. pc[r] = from /\ pc'[r] = to /\ \A c \in Actors : c # r => pc'[c] = pc[c]
  BY <1>1 DEF Goto, TypeOK
<1>3. /\ UNCHANGED <<local, created, crowded>>
      /\ Present' = Present
  BY DEF library, history, Present
<1>4. Others(r)
  BY <1>2, <1>3 DEF Others
<1>5. /\ job'.input = job.input /\ job'.processed = job.processed
      /\ job'.imported = job.imported /\ job'.status = s
  BY <1>1 DEF TypeOK
<1>6. RunAt(r) /\ AloneAt(r) /\ JobAt
  BY DEF BuildInv
<1>7. NumChunks' = NumChunks
  BY <1>5 DEF NumChunks
<1>8. s # "none"
  OBVIOUS
<1>9. pc'[r] # "idle" /\ pc'[r] \notin Building
  BY <1>2, PlacesOfRuns
<1>10. RunAt(r)'
  <2>1. to \notin Midway \cup {"reload", "finish"}
    BY PlacesOfRuns
  <2>2. to \notin Building
    BY <1>2, <1>9
  <2>3. to \in {"idle", "retry", "queued", "read"} => from \in {"idle", "retry", "queued", "read"}
    OBVIOUS
  <2>4. "reload" \in Building
    BY DEF Building
  <2> QED
    BY <1>2, <1>3, <1>6, <1>7, <2>1, <2>2, <2>3, <2>4 DEF RunAt
<1>11. AloneAt(r)'
  <2>1. CASE from = "idle"
    <3>1. CASE job.status = "none"
      <4>1. created = {} /\ job.imported = 0 /\ to = "queued" /\ s = "pending"
        BY <1>6, <2>1, <3>1 DEF JobAt
      <4>2. Cardinality(created) = 0
        BY <4>1, FS_EmptySet
      <4> QED
        BY <1>2, <1>3, <1>5, <4>1, <4>2, PlacesOfRuns DEF AloneAt
    <3>2. CASE job.status # "none"
      <4>1. \E q \in Runs : pc[q] # "idle"
        BY <1>6, <3>2 DEF JobAt
      <4>2. \E q \in Runs \ {r} : pc'[q] # "idle"
        BY <1>2, <2>1, <4>1 DEF Actors
      <4> QED
        BY <4>2 DEF AloneAt, Alone
    <3> QED
      BY <3>1, <3>2
  <2>2. CASE from # "idle"
    <3>1. Alone(r)' => Alone(r)
      BY <1>2, <2>2 DEF Alone, Actors
    <3>2. CASE from = "retry"
      BY <1>2, <1>6, <3>1, <3>2 DEF AloneAt
    <3>3. CASE from = "read"
      BY <1>2, <1>5, <3>3, PlacesOfRuns DEF AloneAt
    <3>4. CASE from = "finish"
      BY <1>2, <1>3, <1>5, <1>6, <3>1, <3>4, PlacesOfRuns DEF AloneAt
    <3> QED
      BY <2>2, <3>2, <3>3, <3>4
  <2> QED
    BY <2>1, <2>2
<1>12. job'.status = "completed" => job.status = "completed" \/ pc[r] = "finish"
  BY <1>2, <1>5
<1>13. created' \subseteq Present' /\ job'.imported =< Cardinality(created')
       /\ job'.processed =< NumChunks
  BY <1>3, <1>5, <1>6 DEF JobAt
<1> QED
  BY <1>1, <1>3, <1>4, <1>5, <1>8, <1>9, <1>10, <1>11, <1>12, <1>13, RunStep

LEMMA SameStatus ==
    ASSUME TypeOK
    PROVE  job = [job EXCEPT !.status = job.status]
BY DEF TypeOK

LEMMA StatusSteps ==
    ASSUME IInv, IInv', BuildInv, NEW r \in Runs,
           CreateBuildJob(r) \/ RetryRead(r) \/ RetryWrite(r) \/ ReadFileFails(r) \/ Finish(r)
    PROVE  BuildInv'
<1>1. {"queued", "retry", "done"} \subseteq Places
  BY DEF Places, Active
<1>2. CASE CreateBuildJob(r)
  BY <1>1, <1>2, StatusStep DEF CreateBuildJob, Begin
<1>3. CASE RetryRead(r)
  <2>1. job' = [job EXCEPT !.status = job.status]
    BY <1>3, SameStatus DEF RetryRead, IInv
  <2>2. Goto(r, "idle", "retry") /\ job.status # "none" /\ UNCHANGED <<library, local, history>>
    BY <1>3 DEF RetryRead, Begin
  <2> QED
    BY <1>1, <2>1, <2>2, StatusStep
<1>4. CASE RetryWrite(r)
  BY <1>1, <1>4, StatusStep DEF RetryWrite
<1>5. CASE ReadFileFails(r)
  BY <1>1, <1>5, StatusStep DEF ReadFileFails
<1>6. CASE Finish(r)
  BY <1>1, <1>6, StatusStep DEF Finish
<1> QED
  BY <1>2, <1>3, <1>4, <1>5, <1>6

LEMMA StartRunBuilds ==
    ASSUME IInv, IInv', BuildInv, NEW r \in Runs, StartRun(r)
    PROVE  BuildInv'
<1>1. TypeOK /\ TypeOK' /\ r \in Actors /\ local[r] \in Local
  BY DEF IInv, Actors, TypeOK
<1>2. pc[r] = "queued" /\ pc'[r] = "read" /\ \A c \in Actors : c # r => pc'[c] = pc[c]
  BY <1>1 DEF StartRun, Goto, TypeOK
<1>3. /\ \A c \in Actors : c # r => local'[c] = local[c]
      /\ local'[r].chunk = job.processed /\ local'[r].base = job.imported
      /\ local'[r].made = local[r].made
  BY <1>1 DEF StartRun, TypeOK, Local
<1>4. /\ job'.input = job.input /\ job'.processed = job.processed
      /\ job'.imported = job.imported /\ job'.status = "running"
  BY <1>1 DEF StartRun, TypeOK
<1>5. created' = created /\ Present' = Present
  BY DEF StartRun, library, Present
<1>6. crowded' = (crowded \/ \E q \in Runs \ {r} : pc[q] \in Building)
  BY DEF StartRun
<1>7. Others(r)
  BY <1>2, <1>3 DEF Others
<1>8. RunAt(r) /\ AloneAt(r) /\ JobAt
  BY DEF BuildInv
<1>9. NumChunks' = NumChunks
  BY <1>4 DEF NumChunks
<1>10. /\ local[r].made = 0 /\ local'[r].made = 0
       /\ job.imported \in Nat
  BY <1>1, <1>2, <1>3, <1>8, Numbers DEF RunAt
<1>11. RunAt(r)'
  <2>1. local'[r].base + local'[r].made =< Cardinality(created')
    BY <1>3, <1>5, <1>8, <1>10 DEF JobAt
  <2>2. local'[r].chunk =< NumChunks
    BY <1>3, <1>8 DEF JobAt
  <2> QED
    BY <1>2, <1>3, <1>4, <1>9, <1>10, <2>1, <2>2, PlacesOfRuns DEF RunAt
<1>12. AloneAt(r)'
  <2>1. Alone(r)' => Alone(r)
    BY <1>2 DEF Alone, Actors
  <2>2. Alone(r) => job.imported = Cardinality(created)
    BY <1>2, <1>8 DEF AloneAt
  <2> QED
    BY <1>2, <1>3, <1>4, <1>5, <2>1, <2>2, PlacesOfRuns DEF AloneAt
<1>13. crowded => crowded'
  BY <1>6
<1>14. crowded' \/ \A q \in Runs \ {r} : pc[q] \notin Building
  BY <1>6
<1>15. created' \subseteq Present' /\ job'.imported =< Cardinality(created')
       /\ job'.processed =< NumChunks
  BY <1>4, <1>5, <1>8 DEF JobAt
<1> QED
  BY <1>1, <1>2, <1>4, <1>5, <1>7, <1>11, <1>12, <1>13, <1>14, <1>15, RunStep

\* A run goes to the chunk with index i, or has none left.
LEMMA NextChunk ==
    ASSUME IInv, IInv', BuildInv, NEW r \in Runs, NEW i \in Nat,
           \/ pc[r] = "read" /\ i = local[r].chunk /\ local'[r].base = local[r].base
           \/ pc[r] = "reload" /\ i = local[r].chunk + 1 /\ local'[r].base = job.imported,
           Goto(r, pc[r], ChunkPc(i)), Others(r),
           local'[r].chunk = i, local'[r].made = 0,
           UNCHANGED <<library, job, history>>
    PROVE  BuildInv'
<1>1. TypeOK /\ TypeOK' /\ r \in Actors
  BY DEF IInv, Actors
<1>2. pc'[r] = ChunkPc(i)
  BY <1>1 DEF Goto, TypeOK
<1>3. RunAt(r) /\ AloneAt(r) /\ JobAt
  BY DEF BuildInv
<1>4. UNCHANGED <<created, crowded, job>> /\ Present' = Present /\ NumChunks' = NumChunks
  BY DEF library, history, Present, NumChunks
<1>5. /\ local[r].base \in Nat /\ local[r].made \in Nat /\ local[r].chunk \in Nat
      /\ job.imported \in Nat /\ Cardinality(created) \in Nat /\ NumChunks \in Nat
  BY <1>1, Numbers
<1>6. i =< NumChunks
  BY <1>3, <1>5 DEF RunAt
<1>7. \/ pc'[r] = "look" /\ i < NumChunks
      \/ pc'[r] = "finish" /\ i = NumChunks
  BY <1>2, <1>5, <1>6 DEF ChunkPc
<1>8. pc[r] \in Building /\ pc[r] # "idle" /\ pc'[r] # "idle"
  BY <1>7, PlacesOfRuns
<1>9. ~ crowded => job.processed = i
  BY <1>3, PlacesOfRuns DEF RunAt
<1>10. local'[r].base =< Cardinality(created)
  <2>1. CASE pc[r] = "read"
    BY <1>3, <1>5, <2>1 DEF RunAt
  <2>2. CASE pc[r] = "reload"
    BY <1>3, <2>2 DEF JobAt
  <2> QED
    BY <2>1, <2>2
<1>11. local'[r].base \in Nat
  BY <1>5
<1>12. RunAt(r)'
  <2>1. local'[r].base + local'[r].made =< Cardinality(created)
    BY <1>5, <1>10, <1>11
  <2>2. pc'[r] \in Building \ {"reload"}
    BY <1>7, PlacesOfRuns
  <2> QED
    BY <1>4, <1>6, <1>7, <1>9, <2>1, <2>2, PlacesOfRuns DEF RunAt
<1>13. AloneAt(r)'
  <2>1. Alone(r)' => Alone(r)
    BY <1>8 DEF Alone, Others, Actors
  <2>2. Alone(r) => /\ job.imported = Cardinality(created) /\ local'[r].base = job.imported
                    /\ job.status # "completed"
    BY <1>3 DEF AloneAt
  <2>3. Alone(r) => local'[r].base + local'[r].made = Cardinality(created)
    BY <1>5, <2>2
  <2> QED
    BY <1>4, <1>7, <2>1, <2>2, <2>3, PlacesOfRuns DEF AloneAt
<1>14. job.status # "none" /\ (~ crowded => job.status # "completed")
  BY <1>3, <1>8 DEF JobAt
<1>15. created' \subseteq Present' /\ job.imported =< Cardinality(created)
       /\ job.processed =< NumChunks
  BY <1>3, <1>4 DEF JobAt
<1> QED
  BY <1>1, <1>4, <1>8, <1>12, <1>13, <1>14, <1>15, RunStep

LEMMA ChunkSteps ==
    ASSUME IInv, IInv', BuildInv, NEW r \in Runs, ReadFile(r) \/ Reload(r)
    PROVE  BuildInv'
<1>1. TypeOK /\ r \in Actors /\ local[r] \in Local
  BY DEF IInv, Actors, TypeOK
<1>2. local[r].chunk \in Nat /\ local[r].chunk + 1 \in Nat
  BY <1>1 DEF Local
<1>3. \A c \in Actors : c # r => pc'[c] = pc[c] /\ local'[c] = local[c]
  BY <1>1 DEF ReadFile, Reload, Goto, Chunk, TypeOK
<1>4. UNCHANGED <<library, job, history>>
  BY DEF ReadFile, Reload
<1>5. CASE ReadFile(r)
  <2>1. pc[r] = "read" /\ Goto(r, pc[r], ChunkPc(local[r].chunk))
    BY <1>5 DEF ReadFile, Goto
  <2>2. /\ local'[r].chunk = local[r].chunk /\ local'[r].made = 0
        /\ local'[r].base = local[r].base
    BY <1>1, <1>5 DEF ReadFile, Chunk, TypeOK, Local
  <2> QED
    BY <1>2, <1>3, <1>4, <2>1, <2>2, NextChunk DEF Others
<1>6. CASE Reload(r)
  <2>1. pc[r] = "reload" /\ Goto(r, pc[r], ChunkPc(local[r].chunk + 1))
    BY <1>6 DEF Reload, Goto
  <2>2. /\ local'[r].chunk = local[r].chunk + 1 /\ local'[r].made = 0
        /\ local'[r].base = job.imported
    BY <1>1, <1>6 DEF Reload, Chunk, TypeOK, Local
  <2> QED
    BY <1>2, <1>3, <1>4, <2>1, <2>2, NextChunk DEF Others
<1> QED
  BY <1>5, <1>6

LEMMA ProgressStep ==
    ASSUME IInv, IInv', BuildInv, NEW r \in Runs, UpdateProgress(r)
    PROVE  BuildInv'
<1>1. TypeOK /\ TypeOK' /\ r \in Actors
  BY DEF IInv, Actors
<1>2. pc[r] = "progress" /\ pc'[r] = "reload" /\ \A c \in Actors : c # r => pc'[c] = pc[c]
  BY <1>1 DEF UpdateProgress, Goto, TypeOK
<1>3. /\ UNCHANGED <<local, created, crowded>>
      /\ Present' = Present
  BY DEF UpdateProgress, library, history, Present
<1>4. /\ job'.processed = local[r].chunk + 1
      /\ job'.imported = local[r].base + local[r].made
      /\ job'.input = job.input /\ job'.status = job.status
  BY <1>1 DEF UpdateProgress, TypeOK
<1>5. Others(r)
  BY <1>2, <1>3 DEF Others
<1>6. RunAt(r) /\ AloneAt(r) /\ JobAt
  BY DEF BuildInv
<1>7. /\ local[r].base \in Nat /\ local[r].made \in Nat /\ local[r].chunk \in Nat
      /\ Cardinality(created) \in Nat /\ NumChunks \in Nat
  BY <1>1, Numbers
<1>8. NumChunks' = NumChunks
  BY <1>4 DEF NumChunks
<1>9. pc[r] \in Building /\ pc[r] \in Midway /\ pc[r] # "idle"
  BY <1>2, PlacesOfRuns
<1>10. local[r].chunk < NumChunks
  BY <1>6, <1>9 DEF RunAt
<1>11. RunAt(r)'
  BY <1>2, <1>3, <1>4, <1>6, <1>8, <1>10, PlacesOfRuns DEF RunAt
<1>12. AloneAt(r)'
  <2>1. Alone(r)' => Alone(r)
    BY <1>2 DEF Alone, Actors
  <2>2. Alone(r) => /\ local[r].base + local[r].made = Cardinality(created)
                    /\ job.status # "completed"
    BY <1>2, <1>6, <1>9 DEF AloneAt
  <2> QED
    BY <1>2, <1>3, <1>4, <2>1, <2>2, PlacesOfRuns DEF AloneAt
<1>13. job.status # "none" /\ (~ crowded => job.status # "completed")
  BY <1>6, <1>9 DEF JobAt
<1>14. /\ created' \subseteq Present' /\ job'.imported =< Cardinality(created')
       /\ job'.processed =< NumChunks
  BY <1>3, <1>4, <1>6, <1>7, <1>10 DEF JobAt, RunAt
<1> QED
  BY <1>1, <1>2, <1>3, <1>4, <1>5, <1>9, <1>11, <1>12, <1>13, <1>14, RunStep

-----------------------------------------------------------------------------
(* Crashes, requests, and every step.                                      *)

LEMMA CrashBuilds ==
    ASSUME IInv, IInv', BuildInv, Crash
    PROVE  BuildInv'
<1>1. TypeOK
  BY DEF IInv
<1>2. \A r \in Runs : r \in Actors
  BY DEF Actors
<1>3. /\ \A r \in Runs : pc'[r] = IF pc[r] \in Active THEN "dead" ELSE pc[r]
      /\ \A r \in Runs : local'[r] = IF pc[r] \in Active THEN Fresh ELSE local[r]
      /\ UNCHANGED <<job, created, crowded>>
  BY <1>2 DEF Crash
<1>4. Present' = Present /\ NumChunks' = NumChunks
  BY <1>3 DEF Crash, library, Present, NumChunks
<1>5. \A r \in Runs : pc'[r] \in {"idle", "done", "dead"}
  BY <1>1, <1>2, <1>3 DEF TypeOK
<1>6. \A r \in Runs : /\ pc'[r] = "idle" => pc[r] = "idle"
                      /\ pc[r] = "idle" => pc'[r] = "idle"
                      /\ pc[r] = "done" => pc'[r] = "done"
  <2>1. "idle" \notin Active /\ "done" \notin Active
    BY PlacesOfRuns
  <2> QED
    BY <1>3, <2>1
<1>7. JobAt'
  <2>1. JobAt
    BY DEF BuildInv
  <2>2. Begun' = Begun
    BY <1>6 DEF Begun
  <2>3. \A r \in Runs : pc'[r] \notin Building
    BY <1>5, PlacesOfRuns
  <2> QED
    BY <1>3, <1>4, <1>6, <2>1, <2>2, <2>3 DEF JobAt
<1>8. ASSUME NEW r \in Runs
      PROVE  RunAt(r)' /\ AloneAt(r)'
  <2>1. RunAt(r) /\ AloneAt(r)
    BY DEF BuildInv
  <2>2. Cardinality(created) \in Nat /\ NumChunks \in Nat
    BY <1>1, Numbers
  <2>3. /\ local'[r].base + local'[r].made =< Cardinality(created)
        /\ local'[r].chunk =< NumChunks
        /\ pc'[r] = "idle" => local'[r].made = 0
    <3>1. CASE pc[r] \in Active
      BY <1>3, <2>2, <3>1 DEF Fresh
    <3>2. CASE pc[r] \notin Active
      BY <1>3, <2>1, <3>2 DEF RunAt
    <3> QED
      BY <3>1, <3>2
  <2>4. pc'[r] \notin Building /\ pc'[r] \notin Midway \cup {"reload", "finish"}
    BY <1>5, PlacesOfRuns
  <2>5. RunAt(r)'
    BY <1>3, <1>4, <1>5, <2>3, <2>4 DEF RunAt
  <2>6. Alone(r)' => Alone(r)
    BY <1>6 DEF Alone
  <2>7. AloneAt(r)'
    BY <1>3, <1>5, <1>6, <2>1, <2>4, <2>6 DEF AloneAt
  <2> QED
    BY <2>5, <2>7
<1> QED
  BY <1>7, <1>8 DEF BuildInv

LEMMA RequestBuilds ==
    ASSUME IInv, BuildInv, NEW u \in Users, Request(u)
    PROVE  BuildInv'
<1>1. TypeOK /\ u \in Actors
  BY DEF IInv, Actors
<1>2. /\ \A c \in Actors : c # u => pc'[c] = pc[c]
      /\ UNCHANGED <<job, created, crowded>>
  BY <1>1 DEF Request, BeginImport, BeginDiscover, CreateTrustHost, CreateTrustDomain,
     BeginReview, Begin, Goto, TypeOK, history
<1>3. \A c \in Actors : c # u => local'[c] = local[c]
  BY <1>1 DEF Request, BeginImport, BeginDiscover, CreateTrustHost, CreateTrustDomain,
     BeginReview, TypeOK
<1>4. \A h \in Hosts : host[h] # "none" => host'[h] # "none"
  <2>1. CASE \E h \in Hosts : CreateTrustHost(u, h)
    BY <1>1, <2>1 DEF CreateTrustHost, TypeOK
  <2>2. CASE ~ \E h \in Hosts : CreateTrustHost(u, h)
    <3>1. host' = host
      BY <2>2 DEF Request, BeginImport, BeginDiscover, CreateTrustDomain, BeginReview, library
    <3> QED
      BY <3>1
  <2> QED
    BY <2>1, <2>2
<1> QED
  BY <1>1, <1>2, <1>3, <1>4, PresentGrows, UserStep DEF Others

LEMMA NextBuilds ==
    ASSUME IInv, IInv', BuildInv, [Next]_vars
    PROVE  BuildInv'
<1>1. CASE \E u \in Users : Request(u)
  BY <1>1, RequestBuilds
<1>2. CASE \E r \in Runs : CreateBuildJob(r) \/ RetryRead(r) \/ Build(r)
  <2>1. PICK r \in Runs : CreateBuildJob(r) \/ RetryRead(r) \/ Build(r)
    BY <1>2
  <2> QED
    BY <2>1, StatusSteps, StartRunBuilds, ChunkSteps, ProgressStep DEF Build
<1>3. CASE \E a \in Actors : Proceed(a)
  <2>1. PICK a \in Actors : Import(a) \/ Discover(a) \/ Review(a)
    BY <1>3 DEF Proceed
  <2>2. CASE LookRow(a) \/ Discover(a) \/ Review(a)
    BY <2>2, LookWithin, DiscoverWithin, ReviewWithin, WithinStep
  <2>3. CASE InsertRow(a)
    BY <2>3, InsertRowBuilds
  <2>4. CASE RefuseRow(a)
    <3>1. job' = IF a \in Runs THEN [job EXCEPT !.status = "failed"] ELSE job
      BY <2>4 DEF RefuseRow
    <3>2. Within(a) /\ pc'[a] = "done"
      BY <2>4, RefuseWithin
    <3> QED
      BY <3>1, <3>2, WithinStep
  <2> QED
    BY <2>1, <2>2, <2>3, <2>4 DEF Import
<1>4. CASE Crash
  BY <1>4, CrashBuilds
<1>5. CASE UNCHANGED vars
  <2>1. /\ UNCHANGED <<job, pc, local, created, crowded>> /\ Present' = Present
        /\ NumChunks' = NumChunks /\ Begun' = Begun
    BY <1>5 DEF vars, library, history, Present, NumChunks, Begun
  <2>2. JobAt'
    BY <2>1 DEF BuildInv, JobAt
  <2>3. \A r \in Runs : RunAt(r)' /\ AloneAt(r)'
    BY <2>1 DEF BuildInv, RunAt, AloneAt, Alone
  <2> QED
    BY <2>2, <2>3 DEF BuildInv
<1> QED
  BY <1>1, <1>2, <1>3, <1>4, <1>5 DEF Next

LEMMA InitBuilds ==
    ASSUME IInv, Init
    PROVE  BuildInv
<1>1. TypeOK
  BY DEF IInv
<1>2. /\ \A r \in Runs : pc[r] = "idle" /\ local[r] = Fresh
      /\ job.status = "none" /\ job.processed = 0 /\ job.imported = 0
      /\ created = {} /\ crowded = FALSE
  BY DEF Init, Actors
<1>3. Cardinality(created) = 0 /\ NumChunks \in Nat
  BY <1>1, <1>2, FS_EmptySet, NumChunksNat
<1>4. JobAt
  <2>1. Begun = {} /\ IsFiniteSet(Begun)
    BY <1>2, FS_EmptySet DEF Begun
  <2>2. "idle" \notin Building
    BY PlacesOfRuns
  <2> QED
    BY <1>2, <1>3, <2>1, <2>2 DEF JobAt
<1>5. \A r \in Runs : RunAt(r) /\ AloneAt(r)
  BY <1>2, <1>3, PlacesOfRuns DEF RunAt, AloneAt, Alone, Fresh
<1> QED
  BY <1>4, <1>5 DEF BuildInv

LEMMA BuildAccounted ==
    ASSUME BuildInv
    PROVE  BuildAccounts
<1>1. JobAt
  BY DEF BuildInv
<1>2. ASSUME job.status = "completed", Cardinality({r \in Runs : pc[r] # "idle"}) = 1
      PROVE  job.imported = Cardinality(created)
  <2>1. IsFiniteSet(Begun) /\ Cardinality(Begun) = 1
    BY <1>1, <1>2 DEF JobAt, Begun
  <2>2. PICK r : Begun = {r}
    BY <2>1, FS_Singleton
  <2>3. r \in Runs /\ Alone(r)
    BY <2>2 DEF Begun, Alone
  <2>4. AloneAt(r)
    BY <2>3 DEF BuildInv
  <2> QED
    BY <1>2, <2>3, <2>4 DEF AloneAt
<1> QED
  BY <1>1, <1>2 DEF JobAt, BuildAccounts

LEMMA KeepsProgress ==
    ASSUME IInv, BuildInv, [Next]_vars
    PROVE  ~ crowded => job'.processed >= job.processed
<1>1. TypeOK /\ job.processed \in Nat
  BY DEF IInv, TypeOK
<1>2. CASE \E r \in Runs : UpdateProgress(r)
  <2>1. PICK r \in Runs : UpdateProgress(r)
    BY <1>2
  <2>2. pc[r] = "progress" /\ job'.processed = local[r].chunk + 1
    BY <1>1, <2>1 DEF UpdateProgress, Goto, TypeOK
  <2>3. ~ crowded => job.processed = local[r].chunk
    BY <2>2, PlacesOfRuns DEF BuildInv, RunAt
  <2> QED
    BY <1>1, <2>2, <2>3
<1>3. CASE ~ \E r \in Runs : UpdateProgress(r)
  <2>1. job'.processed = job.processed
    <3>1. CASE \E r \in Runs : CreateBuildJob(r) \/ RetryRead(r) \/ Build(r)
      BY <1>1, <1>3, <3>1 DEF Build, CreateBuildJob, RetryRead, RetryWrite, StartRun, ReadFile,
         ReadFileFails, Reload, Finish, TypeOK
    <3>2. CASE \E a \in Actors : Import(a)
      BY <1>1, <3>2 DEF Import, LookRow, InsertRow, RefuseRow, TypeOK
    <3>3. CASE \E a \in Actors : Discover(a) \/ Review(a)
      BY <3>3, DiscoverWithin, ReviewWithin
    <3>4. CASE \E u \in Users : Request(u)
      BY <3>4 DEF Request, BeginImport, BeginDiscover, CreateTrustHost, CreateTrustDomain,
         BeginReview
    <3>5. CASE Crash \/ UNCHANGED vars
      BY <3>5 DEF Crash, vars
    <3> QED
      BY <3>1, <3>2, <3>3, <3>4, <3>5 DEF Next, Proceed
  <2> QED
    BY <1>1, <2>1
<1> QED
  BY <1>2, <1>3

\* What the row of a build job says is what its runs have done: a completed
\* job has gone through all chunks and a lone run claims all hosts it inserted,
\* and retries and crashes never set it back unless two runs overlap, for every
\* file and any number of runs and of requests beside them (trust.go 893-969,
\* 1009-1030).
THEOREM BuildProgresses == Spec => BuildProgress
<1>1. Init => IInv /\ BuildInv
  BY InitIInv, InitBuilds, TrustAssumption
<1>2. IInv /\ BuildInv /\ [Next]_vars => IInv' /\ BuildInv'
  BY NextIInv, NextBuilds, TrustAssumption
<1>3. BuildInv => BuildAccounts
  BY BuildAccounted
<1>4. IInv /\ BuildInv /\ [Next]_vars => [~ crowded => job'.processed >= job.processed]_vars
  BY KeepsProgress
<1> QED
  BY <1>1, <1>2, <1>3, <1>4, PTL DEF Spec, BuildProgress, ProgressKept

=============================================================================
