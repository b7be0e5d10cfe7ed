--------------------------- MODULE ProbeJobProofs ---------------------------
(***************************************************************************)
(* Proofs about ProbeJob for every set of jobs, every finite set of        *)
(* bridges, every retry limit and every number of restarts and crashes.    *)
(*                                                                         *)
(* The inductive invariant is TypeOK /\ RequeueInv /\ GivesUpLast /\       *)
(* UnavailableInv /\ ResultInv, the last two for jobs that were never      *)
(* published and for completed ones.  The part of RequeueInv that carries  *)
(* the bound counts, besides the requeues already recorded in retry_count, *)
(* the bridges that have decided on one and not yet recorded it: a bridge  *)
(* can join them only while retry_count is below the limit, and leaves     *)
(* them when it adds its own increment.                                    *)
(***************************************************************************)
EXTENDS ProbeJob, FiniteSetTheorems, TLAPS

-----------------------------------------------------------------------------
(* Counting bridges.                                                       *)

LEMMA BridgeSets ==
    ASSUME NEW S \in SUBSET Bridges
    PROVE  /\ IsFiniteSet(S)
           /\ Cardinality(S) \in Nat
           /\ Cardinality(S) =< Cardinality(Bridges)
<1>1. IsFiniteSet(Bridges)
  BY ProbeAssumption
<1>2. QED
  BY <1>1, FS_Subset, FS_CardinalityType

LEMMA FewerBridges ==
    ASSUME NEW T \in SUBSET Bridges, NEW S \in SUBSET T
    PROVE  Cardinality(S) =< Cardinality(T)
<1>1. IsFiniteSet(T)
  BY BridgeSets
<1>2. QED
  BY <1>1, FS_Subset

LEMMA OneBridgeLess ==
    ASSUME NEW T \in SUBSET Bridges, NEW b \in T, NEW S \in SUBSET (T \ {b})
    PROVE  Cardinality(S) =< Cardinality(T) - 1
<1>1. IsFiniteSet(T)
  BY BridgeSets
<1>2. Cardinality(T \ {b}) = Cardinality(T) - 1
  BY <1>1, FS_RemoveElement
<1>3. T \ {b} \in SUBSET Bridges
  OBVIOUS
<1>4. Cardinality(S) =< Cardinality(T \ {b})
  BY <1>3, FewerBridges
<1>5. QED
  BY <1>2, <1>4

-----------------------------------------------------------------------------
(* Types.                                                                  *)

LEMMA TypeInit == Init => TypeOK
BY ProbeAssumption DEF Init, TypeOK, Ended

LEMMA TypeDispatch ==
    ASSUME TypeOK, NEW j \in Jobs, Dispatch(j) \/ DispatcherCrash(j) \/ LeaseExpires(j)
    PROVE  TypeOK'
<1>1. CASE CreateJob(j)
  BY <1>1 DEF TypeOK, CreateJob, bridgeVars
<1>2. CASE PublishOk(j)
  BY <1>2 DEF TypeOK, PublishOk, Published, dbVars, bridgeVars
<1>3. CASE PublishError(j)
  BY <1>3 DEF TypeOK, PublishError, dbVars, bridgeVars
<1>4. CASE MarkPublished(j)
  BY <1>4 DEF TypeOK, MarkPublished, bridgeVars
<1>5. CASE RecordUnavailable(j)
  BY <1>5 DEF TypeOK, RecordUnavailable, bridgeVars
<1>6. CASE DispatcherCrash(j)
  BY <1>6, ProbeAssumption DEF TypeOK, DispatcherCrash, dbVars, bridgeVars
<1>7. CASE LeaseExpires(j)
  BY <1>7 DEF TypeOK, LeaseExpires, bridgeVars
<1>8. QED
  BY <1>1, <1>2, <1>3, <1>4, <1>5, <1>6, <1>7 DEF Dispatch

LEMMA TypeAgent == ASSUME TypeOK, Agent PROVE TypeOK'
<1>1. CASE AgentRestart
  BY <1>1, ProbeAssumption DEF TypeOK, AgentRestart, dbVars, bridgeVars
<1>2. ASSUME NEW j \in Jobs, AgentRuns(j)
      PROVE  TypeOK'
  <2>1. PICK v \in Ended, reached \in SUBSET Bridges :
           resultMsgs' = [b \in Bridges |->
              IF b \in reached THEN resultMsgs[b] \cup {<<j, v>>} ELSE resultMsgs[b]]
    BY <1>2 DEF AgentRuns
  <2>2. resultMsgs' \in [Bridges -> SUBSET (Jobs \X Ended)]
    BY <2>1 DEF TypeOK
  <2>3. seen' \subseteq Jobs /\ jobMsgs' \subseteq Jobs
    BY <1>2 DEF TypeOK, AgentRuns, Consumed
  <2>4. QED
    BY <1>2, <2>2, <2>3 DEF TypeOK, AgentRuns, dbVars, bridgeVars
<1>3. ASSUME NEW j \in Jobs, AgentIgnores(j)
      PROVE  TypeOK'
  BY <1>3 DEF TypeOK, AgentIgnores, Consumed, dbVars, bridgeVars
<1>4. QED
  BY <1>1, <1>2, <1>3 DEF Agent

LEMMA TypeApply ==
    ASSUME TypeOK, NEW b \in Bridges, NEW j \in Jobs,
           ReceiveResult(b, j) \/ Apply(b, j) \/ ApplierCrash(b, j)
    PROVE  TypeOK'
<1>1. CASE ReceiveResult(b, j)
  <2>1. PICK v \in Ended :
          /\ \/ resultMsgs' = resultMsgs
             \/ resultMsgs' = [resultMsgs EXCEPT ![b] = resultMsgs[b] \ {<<j, v>>}]
          /\ \/ applying' = applying /\ answer' = answer
             \/ /\ applying' = [applying EXCEPT ![b][j] = "complete"]
                /\ answer' = [answer EXCEPT ![b][j] = v]
    BY <1>1 DEF ReceiveResult
  <2>2. resultMsgs' \in [Bridges -> SUBSET (Jobs \X Ended)]
    <3>1. resultMsgs \in [Bridges -> SUBSET (Jobs \X Ended)]
      BY DEF TypeOK
    <3>2. resultMsgs[b] \ {<<j, v>>} \in SUBSET (Jobs \X Ended)
      BY <3>1
    <3>3. QED
      BY <2>1, <3>1, <3>2
  <2>3. applying' \in [Bridges -> [Jobs -> {"idle", "complete", "persist"}]]
    <3>1. [applying[b] EXCEPT ![j] = "complete"] \in [Jobs -> {"idle", "complete", "persist"}]
      BY DEF TypeOK
    <3>2. applying' = applying
             \/ applying' = [applying EXCEPT ![b] = [applying[b] EXCEPT ![j] = "complete"]]
      BY <2>1
    <3>3. applying \in [Bridges -> [Jobs -> {"idle", "complete", "persist"}]]
      BY DEF TypeOK
    <3>4. QED
      BY <3>1, <3>2, <3>3
  <2>4. answer' \in [Bridges -> [Jobs -> Ended]]
    <3>1. [answer[b] EXCEPT ![j] = v] \in [Jobs -> Ended]
      BY DEF TypeOK
    <3>2. answer' = answer \/ answer' = [answer EXCEPT ![b] = [answer[b] EXCEPT ![j] = v]]
      BY <2>1
    <3>3. answer \in [Bridges -> [Jobs -> Ended]]
      BY DEF TypeOK
    <3>4. QED
      BY <3>1, <3>2, <3>3
  <2>5. UNCHANGED <<status, retryCount, leased, row, dispatcher, stale, requeued, seen,
                    jobMsgs, restarts, crashes>>
    BY <1>1 DEF ReceiveResult, dbVars
  <2>6. QED
    BY <2>2, <2>3, <2>4, <2>5 DEF TypeOK
<1>2. CASE CompleteJob(b, j)
  BY <1>2 DEF TypeOK, CompleteJob
<1>3. CASE PersistRow(b, j)
  BY <1>3 DEF TypeOK, PersistRow, Ended
<1>4. CASE ApplierCrash(b, j)
  BY <1>4, ProbeAssumption DEF TypeOK, ApplierCrash, dbVars
<1>5. QED
  BY <1>1, <1>2, <1>3, <1>4 DEF Apply

LEMMA TypeRequeue ==
    ASSUME TypeOK, NEW b \in Bridges,
           \/ RequeueScan(b)
           \/ \E s \in stale[b] : RequeueStep(b, s)
           \/ \E j \in Jobs : MarkRequeued(b, j)
    PROVE  TypeOK'
<1>1. CASE RequeueScan(b)
  <2>1. {<<j, retryCount[j]>> : j \in StaleJobs} \in SUBSET (Jobs \X Nat)
    BY DEF TypeOK, StaleJobs
  <2>2. stale' \in [Bridges -> SUBSET (Jobs \X Nat)]
    BY <1>1, <2>1 DEF TypeOK, RequeueScan
  <2>3. QED
    BY <1>1, <2>2 DEF TypeOK, RequeueScan, dbVars
<1>2. ASSUME NEW s \in stale[b], RequeueStep(b, s)
      PROVE  TypeOK'
  <2>1. s[1] \in Jobs
    BY DEF TypeOK
  <2>2. Take(b, s)
    BY <1>2 DEF RequeueStep, GiveUp, Republish, RepublishError
  <2>3. stale' \in [Bridges -> SUBSET (Jobs \X Nat)]
    BY <2>2 DEF Take, TypeOK
  <2>4. CASE GiveUp(b, s)
    BY <2>1, <2>3, <2>4 DEF TypeOK, GiveUp
  <2>5. CASE Republish(b, s)
    BY <2>1, <2>3, <2>5 DEF TypeOK, Republish, Published, dbVars
  <2>6. CASE RepublishError(b, s)
    BY <2>3, <2>6 DEF TypeOK, RepublishError, dbVars
  <2>7. QED
    BY <1>2, <2>4, <2>5, <2>6 DEF RequeueStep
<1>3. ASSUME NEW j \in Jobs, MarkRequeued(b, j)
      PROVE  TypeOK'
  BY <1>3 DEF TypeOK, MarkRequeued
<1>4. QED
  BY <1>1, <1>2, <1>3

LEMMA TypeStep == TypeOK /\ [Next]_vars => TypeOK'
<1>1. ASSUME TypeOK, UNCHANGED vars
      PROVE  TypeOK'
  BY <1>1 DEF TypeOK, vars, dbVars, bridgeVars
<1>2. QED
  BY <1>1, TypeDispatch, TypeAgent, TypeApply, TypeRequeue DEF Next

-----------------------------------------------------------------------------
(* The requeue loop.                                                       *)

\* Steps that touch neither a scan nor a count.
LEMMA RequeueFrame ==
    ASSUME RequeueInv, UNCHANGED <<retryCount, stale, requeued>>
    PROVE  RequeueInv'
<1>1. \A j \in Jobs : AboutToRequeue(j)' = AboutToRequeue(j)
  BY DEF AboutToRequeue
<1>2. QED
  BY <1>1 DEF RequeueInv

\* The part of RequeueInv about a single bridge's scan.
ScanOK(b) ==
    /\ \A s \in stale[b] : s[2] =< retryCount[s[1]] /\ s[1] \notin requeued[b]
    /\ \A s, t \in stale[b] : s[1] = t[1] => s = t
    /\ \A i, j \in requeued[b] : i = j

CountOK(j) ==
    \/ retryCount[j] < RetryLimit
    \/ retryCount[j] + Cardinality(AboutToRequeue(j)) =< RetryLimit - 1 + Cardinality(Bridges)

LEMMA RequeueInvParts ==
    RequeueInv <=> (\A b \in Bridges : ScanOK(b)) /\ (\A j \in Jobs : CountOK(j))
BY DEF RequeueInv, ScanOK, CountOK

\* If no bridge joins, and no requeue is counted, the bound is kept.
LEMMA NobodyJoins ==
    ASSUME TypeOK, NEW j \in Jobs, CountOK(j), retryCount'[j] = retryCount[j],
           AboutToRequeue(j)' \subseteq AboutToRequeue(j)
    PROVE  CountOK(j)'
<1>1. AboutToRequeue(j) \in SUBSET Bridges
  BY DEF AboutToRequeue
<1>2. AboutToRequeue(j)' \in SUBSET Bridges
  BY <1>1
<1>3. /\ Cardinality(AboutToRequeue(j)) \in Nat
      /\ Cardinality(AboutToRequeue(j)') \in Nat
      /\ Cardinality(Bridges) \in Nat
  BY <1>1, <1>2, BridgeSets
<1>4. Cardinality(AboutToRequeue(j)') =< Cardinality(AboutToRequeue(j))
  BY <1>1, FewerBridges
<1>5. retryCount[j] \in Nat /\ RetryLimit \in Nat
  BY ProbeAssumption DEF TypeOK
<1>6. QED
  BY <1>3, <1>4, <1>5 DEF CountOK

LEMMA ScanStep ==
    ASSUME TypeOK, RequeueInv, NEW b \in Bridges, RequeueScan(b)
    PROVE  RequeueInv'
<1> DEFINE scan == {<<j, retryCount[j]>> : j \in StaleJobs}
<1>1. /\ stale' = [stale EXCEPT ![b] = scan]
      /\ stale[b] = {} /\ requeued[b] = {}
      /\ UNCHANGED <<retryCount, requeued>>
  BY DEF RequeueScan, dbVars
<1>2. ASSUME NEW c \in Bridges
      PROVE  ScanOK(c)'
  <2>1. CASE c = b
    <3>1. stale'[b] = scan /\ requeued'[b] = {}
      BY <1>1 DEF TypeOK
    <3>2. \A s \in scan : s[2] = retryCount[s[1]] /\ s[1] \in Jobs /\ s = <<s[1], s[2]>>
      BY DEF StaleJobs
    <3>3. \A s \in scan : retryCount[s[1]] \in Nat
      BY <3>2 DEF TypeOK
    <3>4. QED
      BY <1>1, <2>1, <3>1, <3>2, <3>3 DEF ScanOK
  <2>2. CASE c # b
    <3>1. stale'[c] = stale[c]
      BY <1>1, <2>2 DEF TypeOK
    <3>2. QED
      BY <1>1, <3>1, RequeueInvParts DEF ScanOK
  <2>3. QED
    BY <2>1, <2>2
<1>3. ASSUME NEW j \in Jobs
      PROVE  CountOK(j)'
  <2>1. CASE retryCount[j] < RetryLimit
    BY <1>1, <2>1 DEF CountOK
  <2>2. CASE ~ (retryCount[j] < RetryLimit)
    <3>1. \A s \in scan : s[1] = j => ~ (s[2] < RetryLimit)
      BY <2>2 DEF StaleJobs
    <3>2. b \notin AboutToRequeue(j)'
      BY <1>1, <3>1 DEF AboutToRequeue, TypeOK
    <3>3. \A c \in Bridges \ {b} : stale'[c] = stale[c]
      BY <1>1 DEF TypeOK
    <3>4. AboutToRequeue(j)' \subseteq AboutToRequeue(j)
      BY <1>1, <3>2, <3>3 DEF AboutToRequeue
    <3>5. QED
      BY <1>1, <3>4, NobodyJoins, RequeueInvParts
  <2>3. QED
    BY <2>1, <2>2
<1>4. QED
  BY <1>2, <1>3, RequeueInvParts DEF ScanOK, CountOK, AboutToRequeue, RequeueInv

\* Handling a scanned job, whatever comes of it, recruits no bridge.
LEMMA HandleStep ==
    ASSUME TypeOK, RequeueInv, NEW b \in Bridges, NEW s \in stale[b], RequeueStep(b, s)
    PROVE  RequeueInv'
<1>1. /\ Take(b, s)
      /\ retryCount' = retryCount
      /\ \/ requeued' = requeued
         \/ requeued' = [requeued EXCEPT ![b] = {s[1]}] /\ s[2] < RetryLimit
  BY DEF RequeueStep, GiveUp, Republish, RepublishError, dbVars
<1>2. /\ requeued[b] = {}
      /\ stale' = [stale EXCEPT ![b] = stale[b] \ {s}]
  BY <1>1 DEF Take
<1>3. /\ stale'[b] = stale[b] \ {s}
      /\ \A c \in Bridges \ {b} : stale'[c] = stale[c] /\ requeued'[c] = requeued[c]
  BY <1>1, <1>2 DEF TypeOK
<1>4. requeued'[b] = {} \/ (requeued'[b] = {s[1]} /\ s[2] < RetryLimit)
  BY <1>1, <1>2 DEF TypeOK
<1>5. ASSUME NEW c \in Bridges
      PROVE  ScanOK(c)'
  <2>1. ScanOK(c)
    BY RequeueInvParts
  <2>2. CASE c = b
    BY <1>1, <1>3, <1>4, <2>1, <2>2 DEF ScanOK
  <2>3. CASE c # b
    BY <1>1, <1>3, <2>1, <2>3 DEF ScanOK
  <2>4. QED
    BY <2>2, <2>3
<1>6. ASSUME NEW j \in Jobs
      PROVE  CountOK(j)'
  <2>1. b \in AboutToRequeue(j)' => b \in AboutToRequeue(j)
    BY <1>3, <1>4 DEF AboutToRequeue
  <2>2. AboutToRequeue(j)' \subseteq AboutToRequeue(j)
    BY <1>3, <2>1 DEF AboutToRequeue
  <2>3. QED
    BY <1>1, <2>2, NobodyJoins, RequeueInvParts
<1>7. QED
  BY <1>5, <1>6, RequeueInvParts DEF ScanOK, CountOK, AboutToRequeue, RequeueInv

\* The bridge that counts its requeue leaves the set: what it adds to
\* retry_count it takes from the bridges still to come.
LEMMA MarkStep ==
    ASSUME TypeOK, RequeueInv, NEW b \in Bridges, NEW j \in Jobs, MarkRequeued(b, j)
    PROVE  RequeueInv'
<1>1. /\ j \in requeued[b]
      /\ requeued' = [requeued EXCEPT ![b] = {}]
      /\ retryCount' = [retryCount EXCEPT ![j] = retryCount[j] + 1]
      /\ stale' = stale
  BY DEF MarkRequeued
<1>2. \A i \in Jobs : retryCount[i] \in Nat
  BY DEF TypeOK
<1>3. /\ retryCount'[j] = retryCount[j] + 1
      /\ \A i \in Jobs \ {j} : retryCount'[i] = retryCount[i]
      /\ requeued'[b] = {}
      /\ \A c \in Bridges \ {b} : requeued'[c] = requeued[c]
  BY <1>1 DEF TypeOK
<1>4. ASSUME NEW c \in Bridges
      PROVE  ScanOK(c)'
  <2>1. \A s \in stale[c] : s[1] \in Jobs /\ s[2] \in Nat
    BY DEF TypeOK
  <2>2. \A s \in stale[c] : retryCount[s[1]] =< retryCount'[s[1]]
    BY <1>2, <1>3, <2>1
  <2>3. ScanOK(c)
    BY RequeueInvParts
  <2>4. \A s \in stale[c] : s[2] =< retryCount'[s[1]]
    <3>1. SUFFICES ASSUME NEW s \in stale[c]
                   PROVE  s[2] =< retryCount'[s[1]]
      OBVIOUS
    <3>2. s[2] =< retryCount[s[1]]
      BY <2>3 DEF ScanOK
    <3>3. retryCount[s[1]] \in Nat /\ retryCount'[s[1]] \in Nat
      BY <1>2, <1>3, <2>1
    <3>4. QED
      BY <2>1, <2>2, <3>2, <3>3
  <2>5. QED
    BY <1>1, <1>3, <2>3, <2>4 DEF ScanOK
<1>5. ASSUME NEW i \in Jobs
      PROVE  CountOK(i)'
  <2>1. AboutToRequeue(i)' \subseteq AboutToRequeue(i)
    BY <1>1, <1>3 DEF AboutToRequeue
  <2>2. CASE i # j
    BY <1>3, <2>1, <2>2, NobodyJoins, RequeueInvParts
  <2>3. CASE i = j
    <3>1. b \in AboutToRequeue(j)
      BY <1>1 DEF AboutToRequeue
    <3>2. b \notin AboutToRequeue(j)'
      <4>1. \A s \in stale[b] : s[1] # j
        BY <1>1, RequeueInvParts DEF ScanOK
      <4>2. QED
        BY <1>1, <1>3, <4>1 DEF AboutToRequeue
    <3>3. AboutToRequeue(j) \in SUBSET Bridges
      BY DEF AboutToRequeue
    <3>4. AboutToRequeue(j)' \in SUBSET (AboutToRequeue(j) \ {b})
      BY <2>1, <2>3, <3>2
    <3>5. Cardinality(AboutToRequeue(j)') =< Cardinality(AboutToRequeue(j)) - 1
      BY <3>1, <3>3, <3>4, OneBridgeLess
    <3>6. Cardinality(AboutToRequeue(j)) =< Cardinality(Bridges)
      BY <3>3, BridgeSets
    <3>7. /\ Cardinality(AboutToRequeue(j)) \in Nat
          /\ Cardinality(AboutToRequeue(j)') \in Nat
          /\ Cardinality(Bridges) \in Nat
      BY <3>3, <3>4, BridgeSets
    <3>8. CountOK(j) /\ RetryLimit \in Nat /\ retryCount[j] \in Nat
      BY <1>2, RequeueInvParts, ProbeAssumption
    <3>9. QED
      BY <1>3, <2>3, <3>5, <3>6, <3>7, <3>8 DEF CountOK
  <2>4. QED
    BY <2>2, <2>3
<1>6. QED
  BY <1>4, <1>5, RequeueInvParts DEF ScanOK, CountOK, AboutToRequeue, RequeueInv

LEMMA RequeueInvStep == TypeOK /\ RequeueInv /\ [Next]_vars => RequeueInv'
<1> SUFFICES ASSUME TypeOK, RequeueInv, [Next]_vars
             PROVE  RequeueInv'
  OBVIOUS
<1>1. ASSUME NEW j \in Jobs, Dispatch(j) \/ DispatcherCrash(j) \/ LeaseExpires(j)
      PROVE  UNCHANGED <<retryCount, stale, requeued>>
  BY <1>1 DEF Dispatch, DispatcherCrash, LeaseExpires, CreateJob, PublishOk, PublishError,
              MarkPublished, RecordUnavailable, dbVars, bridgeVars
<1>2. CASE Agent
  BY <1>2, RequeueFrame DEF Agent, AgentRestart, AgentRuns, AgentIgnores, dbVars, bridgeVars
<1>3. ASSUME NEW b \in Bridges, NEW j \in Jobs,
             ReceiveResult(b, j) \/ Apply(b, j) \/ ApplierCrash(b, j)
      PROVE  UNCHANGED <<retryCount, stale, requeued>>
  BY <1>3 DEF ReceiveResult, Apply, CompleteJob, PersistRow, ApplierCrash, dbVars
<1>4. CASE UNCHANGED vars
  BY <1>4, RequeueFrame DEF vars, dbVars, bridgeVars
<1>5. QED
  BY <1>1, <1>2, <1>3, <1>4, RequeueFrame, ScanStep, HandleStep, MarkStep DEF Next

-----------------------------------------------------------------------------
(* Giving up.                                                              *)

LEMMA GivesUpStep == TypeOK /\ RequeueInv /\ GivesUpLast /\ [Next]_vars => GivesUpLast'
<1> SUFFICES ASSUME TypeOK, RequeueInv, GivesUpLast, [Next]_vars, NEW j \in Jobs, status'[j] = "failed"
             PROVE  retryCount'[j] >= RetryLimit
  BY DEF GivesUpLast
<1>1. TypeOK /\ RequeueInv /\ GivesUpLast
  OBVIOUS
<1>2. retryCount[j] \in Nat /\ RetryLimit \in Nat
  BY <1>1, ProbeAssumption DEF TypeOK
<1>3. CASE status'[j] = status[j] /\ retryCount'[j] >= retryCount[j] /\ retryCount'[j] \in Nat
  BY <1>1, <1>2, <1>3 DEF GivesUpLast
<1>4. ASSUME NEW b \in Bridges, NEW s \in stale[b], GiveUp(b, s), s[1] = j
      PROVE  retryCount'[j] >= RetryLimit
  <2>1. s[2] >= RetryLimit /\ retryCount' = retryCount
    BY <1>4 DEF GiveUp
  <2>2. s[2] =< retryCount[j] /\ s[2] \in Nat
    BY <1>1, <1>4 DEF RequeueInv, TypeOK
  <2>3. QED
    BY <1>2, <2>1, <2>2
<1>5. ASSUME NEW i \in Jobs, Dispatch(i) \/ DispatcherCrash(i) \/ LeaseExpires(i)
      PROVE  status'[j] = status[j] /\ retryCount' = retryCount
  BY <1>1, <1>5 DEF TypeOK, Dispatch, DispatcherCrash, LeaseExpires, CreateJob, PublishOk,
                    PublishError, MarkPublished, RecordUnavailable, dbVars
<1>6. ASSUME Agent
      PROVE  status'[j] = status[j] /\ retryCount' = retryCount
  BY <1>6 DEF Agent, AgentRestart, AgentRuns, AgentIgnores, dbVars
<1>7. ASSUME NEW b \in Bridges, NEW i \in Jobs,
             ReceiveResult(b, i) \/ Apply(b, i) \/ ApplierCrash(b, i)
      PROVE  status'[j] = status[j] /\ retryCount' = retryCount
  BY <1>1, <1>7 DEF TypeOK, ReceiveResult, Apply, CompleteJob, PersistRow, ApplierCrash, dbVars
<1>8. ASSUME NEW b \in Bridges, RequeueScan(b)
      PROVE  status' = status /\ retryCount' = retryCount
  BY <1>8 DEF RequeueScan, dbVars
<1>9. ASSUME NEW b \in Bridges, NEW s \in stale[b], RequeueStep(b, s), ~ (GiveUp(b, s) /\ s[1] = j)
      PROVE  status'[j] = status[j] /\ retryCount' = retryCount
  BY <1>1, <1>9 DEF TypeOK, RequeueStep, GiveUp, Republish, RepublishError, dbVars
<1>10. ASSUME NEW b \in Bridges, NEW i \in Jobs, MarkRequeued(b, i)
       PROVE  status'[j] = status[j] /\ retryCount'[j] = retryCount[j]
  BY <1>1, <1>10 DEF TypeOK, MarkRequeued
<1>11. CASE UNCHANGED vars
  BY <1>2, <1>3, <1>11 DEF vars, dbVars
<1>12. CASE Next
  <2>1. \/ status'[j] = status[j] /\ retryCount'[j] = retryCount[j]
        \/ \E b \in Bridges : \E s \in stale[b] : GiveUp(b, s) /\ s[1] = j
    BY <1>5, <1>6, <1>7, <1>8, <1>9, <1>10, <1>12 DEF Next
  <2>2. QED
    BY <1>2, <1>3, <1>4, <2>1
<1>13. QED
  BY <1>11, <1>12

-----------------------------------------------------------------------------
(* Jobs that were never published.                                         *)

\* Nothing of the protocol after the publication has begun for j.
NotPublished(j) ==
    /\ status[j] \in {"none", "queued"}
    /\ j \notin jobMsgs
    /\ \A b \in Bridges :
          /\ \A m \in resultMsgs[b] : m[1] # j
          /\ applying[b][j] = "idle"
          /\ \A s \in stale[b] : s[1] # j
          /\ j \notin requeued[b]

UnavailableInv ==
    \A j \in Jobs :
        /\ dispatcher[j] \in {"create", "publish", "refused", "unavailable"} => NotPublished(j)
        /\ dispatcher[j] = "unavailable" => row[j] = "failed"

\* A job stays unpublished unless its own dispatcher publishes it.
LEMMA StaysUnpublished ==
    ASSUME TypeOK, [Next]_vars, NEW j \in Jobs, NotPublished(j),
           dispatcher'[j] \in {"create", "publish", "refused", "unavailable"}
    PROVE  NotPublished(j)'
<1>1. ASSUME NEW i \in Jobs, Dispatch(i)
      PROVE  NotPublished(j)'
  <2>1. CASE CreateJob(i)
    BY <2>1 DEF CreateJob, NotPublished, TypeOK, bridgeVars
  <2>2. CASE PublishOk(i)
    <3>1. i # j
      BY <2>2 DEF PublishOk, TypeOK
    <3>2. QED
      BY <2>2, <3>1 DEF PublishOk, Published, NotPublished, dbVars, bridgeVars
  <2>3. CASE PublishError(i)
    BY <2>3 DEF PublishError, NotPublished, dbVars, bridgeVars
  <2>4. CASE MarkPublished(i)
    <3>1. i # j
      BY <2>4 DEF MarkPublished, TypeOK
    <3>2. QED
      BY <2>4, <3>1 DEF MarkPublished, NotPublished, TypeOK, bridgeVars
  <2>5. CASE RecordUnavailable(i)
    BY <2>5 DEF RecordUnavailable, NotPublished, bridgeVars
  <2>6. QED
    BY <1>1, <2>1, <2>2, <2>3, <2>4, <2>5 DEF Dispatch
<1>2. ASSUME NEW i \in Jobs, DispatcherCrash(i) \/ LeaseExpires(i)
      PROVE  NotPublished(j)'
  BY <1>2 DEF DispatcherCrash, LeaseExpires, NotPublished, dbVars, bridgeVars
<1>3. CASE Agent
  <2>1. CASE AgentRestart
    BY <2>1 DEF AgentRestart, NotPublished, dbVars, bridgeVars
  <2>2. ASSUME NEW i \in Jobs, AgentRuns(i)
        PROVE  NotPublished(j)'
    <3>1. i # j /\ j \notin jobMsgs'
      BY <2>2 DEF AgentRuns, Consumed, NotPublished
    <3>2. ASSUME NEW b \in Bridges
          PROVE  \A m \in resultMsgs'[b] : m[1] # j
      <4>1. \A m \in resultMsgs[b] : m[1] # j
        BY DEF NotPublished
      <4>2. PICK v \in Ended : resultMsgs'[b] \in {resultMsgs[b], resultMsgs[b] \cup {<<i, v>>}}
        BY <2>2 DEF AgentRuns
      <4>3. QED
        BY <3>1, <4>1, <4>2
    <3>3. QED
      BY <2>2, <3>1, <3>2 DEF AgentRuns, NotPublished, dbVars, bridgeVars
  <2>3. ASSUME NEW i \in Jobs, AgentIgnores(i)
        PROVE  NotPublished(j)'
    BY <2>3 DEF AgentIgnores, Consumed, NotPublished, dbVars, bridgeVars
  <2>4. QED
    BY <1>3, <2>1, <2>2, <2>3 DEF Agent
<1>4. ASSUME NEW b \in Bridges, NEW i \in Jobs, ReceiveResult(b, i)
      PROVE  NotPublished(j)'
  <2>1. PICK v \in Ended :
          /\ <<i, v>> \in resultMsgs[b]
          /\ \/ resultMsgs' = resultMsgs
             \/ resultMsgs' = [resultMsgs EXCEPT ![b] = resultMsgs[b] \ {<<i, v>>}]
          /\ \/ applying' = applying
             \/ applying' = [applying EXCEPT ![b][i] = "complete"]
    BY <1>4 DEF ReceiveResult
  <2>2. i # j
    BY <2>1 DEF NotPublished
  <2>3. \A c \in Bridges : resultMsgs'[c] \subseteq resultMsgs[c]
    BY <2>1 DEF TypeOK
  <2>4. \A c \in Bridges : applying'[c][j] = applying[c][j]
    <3>1. \/ applying' = applying
          \/ applying' = [applying EXCEPT ![b] = [applying[b] EXCEPT ![i] = "complete"]]
      BY <2>1
    <3>2. applying \in [Bridges -> [Jobs -> {"idle", "complete", "persist"}]]
      BY DEF TypeOK
    <3>3. [applying[b] EXCEPT ![i] = "complete"][j] = applying[b][j]
      BY <2>2, <3>2
    <3>4. QED
      BY <3>1, <3>2, <3>3
  <2>5. UNCHANGED <<status, jobMsgs, stale, requeued>>
    BY <1>4 DEF ReceiveResult, dbVars
  <2>6. QED
    BY <2>3, <2>4, <2>5 DEF NotPublished
<1>5. ASSUME NEW b \in Bridges, NEW i \in Jobs, Apply(b, i) \/ ApplierCrash(b, i)
      PROVE  NotPublished(j)'
  <2>1. i # j
    BY <1>5 DEF Apply, CompleteJob, PersistRow, ApplierCrash, NotPublished
  <2>2. \A c \in Bridges : applying'[c][j] = applying[c][j]
    BY <1>5, <2>1 DEF Apply, CompleteJob, PersistRow, ApplierCrash, TypeOK
  <2>3. status'[j] = status[j] /\ UNCHANGED <<jobMsgs, resultMsgs, stale, requeued>>
    BY <1>5, <2>1 DEF Apply, CompleteJob, PersistRow, ApplierCrash, TypeOK, dbVars
  <2>4. QED
    BY <2>2, <2>3 DEF NotPublished
<1>6. ASSUME NEW b \in Bridges, RequeueScan(b)
      PROVE  NotPublished(j)'
  <2>1. j \notin StaleJobs
    BY DEF NotPublished, StaleJobs
  <2>2. \A c \in Bridges : \A s \in stale'[c] : s[1] # j
    BY <1>6, <2>1 DEF RequeueScan, NotPublished, TypeOK
  <2>3. QED
    BY <1>6, <2>2 DEF RequeueScan, NotPublished, dbVars
<1>7. ASSUME NEW b \in Bridges, NEW s \in stale[b], RequeueStep(b, s)
      PROVE  NotPublished(j)'
  <2>1. s[1] # j
    BY DEF NotPublished
  <2>2. stale' = [stale EXCEPT ![b] = stale[b] \ {s}]
    BY <1>7 DEF RequeueStep, GiveUp, Republish, RepublishError, Take
  <2>3. \A c \in Bridges : stale'[c] \subseteq stale[c]
    BY <2>2 DEF TypeOK
  <2>4. /\ status'[j] = status[j]
        /\ j \in jobMsgs' => j \in jobMsgs
        /\ UNCHANGED <<resultMsgs, applying>>
    BY <1>7, <2>1 DEF RequeueStep, GiveUp, Republish, RepublishError, Published, TypeOK, dbVars
  <2>5. \A c \in Bridges : requeued'[c] \subseteq requeued[c] \cup {s[1]}
    BY <1>7 DEF RequeueStep, GiveUp, Republish, RepublishError, TypeOK
  <2>6. QED
    BY <2>1, <2>3, <2>4, <2>5 DEF NotPublished
<1>8. ASSUME NEW b \in Bridges, NEW i \in Jobs, MarkRequeued(b, i)
      PROVE  NotPublished(j)'
  <2>1. i # j
    BY <1>8 DEF MarkRequeued, NotPublished
  <2>2. status'[j] = status[j] /\ \A c \in Bridges : requeued'[c] \subseteq requeued[c]
    BY <1>8, <2>1 DEF MarkRequeued, TypeOK
  <2>3. QED
    BY <1>8, <2>2 DEF MarkRequeued, NotPublished
<1>9. CASE UNCHANGED vars
  BY <1>9 DEF vars, dbVars, bridgeVars, NotPublished
<1>10. QED
  BY <1>1, <1>2, <1>3, <1>4, <1>5, <1>6, <1>7, <1>8, <1>9 DEF Next

LEMMA UnavailableStep == TypeOK /\ UnavailableInv /\ [Next]_vars => UnavailableInv'
<1> SUFFICES ASSUME TypeOK, UnavailableInv, [Next]_vars, NEW j \in Jobs
             PROVE  /\ dispatcher'[j] \in {"create", "publish", "refused", "unavailable"}
                          => NotPublished(j)'
                    /\ dispatcher'[j] = "unavailable" => row'[j] = "failed"
  BY DEF UnavailableInv
<1> DEFINE early == {"create", "publish", "refused", "unavailable"}
<1>1. \/ dispatcher'[j] = dispatcher[j]
      \/ Dispatch(j)
      \/ dispatcher'[j] = "done"
  <2>1. ASSUME NEW i \in Jobs, i # j, Dispatch(i) \/ DispatcherCrash(i)
        PROVE  dispatcher'[j] = dispatcher[j]
    BY <2>1 DEF Dispatch, CreateJob, PublishOk, PublishError, MarkPublished, RecordUnavailable,
                DispatcherCrash, TypeOK
  <2>2. ASSUME DispatcherCrash(j)
        PROVE  dispatcher'[j] = "done"
    BY <2>2 DEF DispatcherCrash, TypeOK
  <2>3. ASSUME NEW i \in Jobs, LeaseExpires(i)
        PROVE  dispatcher' = dispatcher
    BY <2>3 DEF LeaseExpires
  <2>4. Agent => dispatcher' = dispatcher
    BY DEF Agent, AgentRestart, AgentRuns, AgentIgnores
  <2>5. ASSUME NEW b \in Bridges, NEW i \in Jobs,
               ReceiveResult(b, i) \/ Apply(b, i) \/ ApplierCrash(b, i) \/ MarkRequeued(b, i)
        PROVE  dispatcher' = dispatcher
    BY <2>5 DEF ReceiveResult, Apply, CompleteJob, PersistRow, ApplierCrash, MarkRequeued
  <2>6. ASSUME NEW b \in Bridges, RequeueScan(b) \/ \E s \in stale[b] : RequeueStep(b, s)
        PROVE  dispatcher' = dispatcher
    BY <2>6 DEF RequeueScan, RequeueStep, GiveUp, Republish, RepublishError
  <2>7. UNCHANGED vars => dispatcher' = dispatcher
    BY DEF vars
  <2>8. QED
    BY <2>1, <2>2, <2>3, <2>4, <2>5, <2>6, <2>7 DEF Next
<1>2. dispatcher'[j] \in early => dispatcher[j] \in early
  BY <1>1 DEF Dispatch, CreateJob, PublishOk, PublishError, MarkPublished, RecordUnavailable, TypeOK
<1>3. dispatcher'[j] \in early => NotPublished(j)'
  BY <1>2, StaysUnpublished DEF UnavailableInv
<1>4. ASSUME dispatcher'[j] = "unavailable"
      PROVE  row'[j] = "failed"
  <2>1. CASE Dispatch(j)
    BY <1>4, <2>1 DEF Dispatch, CreateJob, PublishOk, PublishError, MarkPublished,
                      RecordUnavailable, TypeOK, UnavailableInv
  <2>2. CASE dispatcher[j] = "unavailable"
    <3>1. row[j] = "failed" /\ NotPublished(j)
      BY <2>2 DEF UnavailableInv
    <3>2. ASSUME NEW b \in Bridges, NEW i \in Jobs, PersistRow(b, i)
          PROVE  row'[j] = row[j]
      BY <3>1, <3>2 DEF PersistRow, NotPublished, TypeOK
    <3>3. ASSUME NEW i \in Jobs, RecordUnavailable(i)
          PROVE  row'[j] = "failed"
      BY <3>1, <3>3 DEF RecordUnavailable, TypeOK
    <3>4. \/ row' = row
          \/ \E b \in Bridges, i \in Jobs : PersistRow(b, i)
          \/ \E i \in Jobs : RecordUnavailable(i)
      <4>1. ASSUME NEW i \in Jobs, Dispatch(i) \/ DispatcherCrash(i) \/ LeaseExpires(i)
            PROVE  row' = row \/ RecordUnavailable(i)
        BY <4>1 DEF Dispatch, CreateJob, PublishOk, PublishError, MarkPublished, DispatcherCrash,
                    LeaseExpires, dbVars
      <4>2. Agent => row' = row
        BY DEF Agent, AgentRestart, AgentRuns, AgentIgnores, dbVars
      <4>3. ASSUME NEW b \in Bridges, NEW i \in Jobs,
                   ReceiveResult(b, i) \/ Apply(b, i) \/ ApplierCrash(b, i) \/ MarkRequeued(b, i)
            PROVE  row' = row \/ PersistRow(b, i)
        BY <4>3 DEF ReceiveResult, Apply, CompleteJob, ApplierCrash, MarkRequeued, dbVars
      <4>4. ASSUME NEW b \in Bridges, RequeueScan(b) \/ \E s \in stale[b] : RequeueStep(b, s)
            PROVE  row' = row
        BY <4>4 DEF RequeueScan, RequeueStep, GiveUp, Republish, RepublishError, dbVars
      <4>5. UNCHANGED vars => row' = row
        BY DEF vars, dbVars
      <4>6. QED
        BY <4>1, <4>2, <4>3, <4>4, <4>5 DEF Next
    <3>5. QED
      BY <3>1, <3>2, <3>3, <3>4
  <2>3. QED
    BY <1>1, <1>4, <2>1, <2>2
<1>5. QED
  BY <1>3, <1>4

-----------------------------------------------------------------------------
(* Results of completed jobs.                                              *)

\* As long as no process has died, a completed job whose row has no result
\* yet is in the hands of a bridge about to write it.
HasResult(j) ==
    status[j] = "completed" => row[j] \in Ended \/ \E b \in Bridges : applying[b][j] = "persist"

ResultInv == crashes = 0 => \A j \in Jobs : HasResult(j)

\* Steps that complete nothing, undo no result and end no handler.
LEMMA ResultKept ==
    ASSUME NEW j \in Jobs, HasResult(j),
           status'[j] = "completed" => status[j] = "completed",
           row'[j] = row[j] \/ row'[j] \in Ended,
           \A b \in Bridges : applying[b][j] = "persist" => applying'[b][j] = "persist"
    PROVE  HasResult(j)'
BY DEF HasResult

LEMMA ResultStep == TypeOK /\ ResultInv /\ [Next]_vars => ResultInv'
<1> SUFFICES ASSUME TypeOK, ResultInv, [Next]_vars, crashes' = 0, NEW j \in Jobs
             PROVE  HasResult(j)'
  BY DEF ResultInv
<1>1. ASSUME NEW i \in Jobs, DispatcherCrash(i)
      PROVE  crashes' # 0
  BY <1>1 DEF DispatcherCrash, TypeOK
<1>2. ASSUME NEW b \in Bridges, NEW i \in Jobs, ApplierCrash(b, i)
      PROVE  crashes' # 0
  BY <1>2 DEF ApplierCrash, TypeOK
<1>3. ASSUME NEW i \in Jobs, Dispatch(i) \/ LeaseExpires(i)
      PROVE  HasResult(j)'
  <2>1. HasResult(j)
    BY <1>3 DEF Dispatch, CreateJob, PublishOk, PublishError, MarkPublished, RecordUnavailable,
                LeaseExpires, ResultInv
  <2>2. applying' = applying
    BY <1>3 DEF Dispatch, CreateJob, PublishOk, PublishError, MarkPublished, RecordUnavailable,
                LeaseExpires, bridgeVars
  <2>3. status'[j] = "completed" => status[j] = "completed"
    BY <1>3 DEF Dispatch, CreateJob, PublishOk, PublishError, MarkPublished, RecordUnavailable,
                LeaseExpires, dbVars, TypeOK
  <2>4. row'[j] = row[j] \/ row'[j] \in Ended
    BY <1>3 DEF Dispatch, CreateJob, PublishOk, PublishError, MarkPublished, RecordUnavailable,
                LeaseExpires, dbVars, TypeOK, Ended
  <2>5. QED
    BY <2>1, <2>2, <2>3, <2>4, ResultKept
<1>4. CASE Agent
  <2>1. UNCHANGED <<dbVars, applying, crashes>>
    BY <1>4 DEF Agent, AgentRestart, AgentRuns, AgentIgnores, bridgeVars
  <2>2. QED
    BY <2>1 DEF ResultInv, HasResult, dbVars
<1>5. ASSUME NEW b \in Bridges, NEW i \in Jobs, ReceiveResult(b, i)
      PROVE  HasResult(j)'
  <2>1. /\ applying[b][i] = "idle"
        /\ \/ applying' = applying
           \/ applying' = [applying EXCEPT ![b][i] = "complete"]
        /\ UNCHANGED <<dbVars, crashes>>
    BY <1>5 DEF ReceiveResult
  <2>2. \A c \in Bridges : applying[c][j] = "persist" => applying'[c][j] = "persist"
    BY <2>1 DEF TypeOK
  <2>3. QED
    BY <2>1, <2>2, ResultKept DEF ResultInv, dbVars
<1>6. ASSUME NEW b \in Bridges, NEW i \in Jobs, CompleteJob(b, i)
      PROVE  HasResult(j)'
  <2>1. HasResult(j)
    BY <1>6 DEF CompleteJob, ResultInv
  <2>2. CASE i = j
    <3>1. applying'[b][j] = "persist"
      BY <1>6, <2>2 DEF CompleteJob, TypeOK
    <3>2. QED
      BY <3>1 DEF HasResult
  <2>3. CASE i # j
    <3>1. status'[j] = status[j] /\ row' = row
      BY <1>6, <2>3 DEF CompleteJob, TypeOK
    <3>2. \A c \in Bridges : applying'[c][j] = applying[c][j]
      BY <1>6, <2>3 DEF CompleteJob, TypeOK
    <3>3. QED
      BY <2>1, <3>1, <3>2, ResultKept
  <2>4. QED
    BY <2>2, <2>3
<1>7. ASSUME NEW b \in Bridges, NEW i \in Jobs, PersistRow(b, i)
      PROVE  HasResult(j)'
  <2>1. HasResult(j)
    BY <1>7 DEF PersistRow, ResultInv
  <2>2. CASE i = j
    <3>1. row'[j] = answer[b][j]
      BY <1>7, <2>2 DEF PersistRow, TypeOK
    <3>2. answer[b][j] \in Ended
      BY DEF TypeOK
    <3>3. QED
      BY <3>1, <3>2 DEF HasResult
  <2>3. CASE i # j
    <3>1. row'[j] = row[j] /\ status' = status
      BY <1>7, <2>3 DEF PersistRow, TypeOK
    <3>2. \A c \in Bridges : applying'[c][j] = applying[c][j]
      BY <1>7, <2>3 DEF PersistRow, TypeOK
    <3>3. QED
      BY <2>1, <3>1, <3>2, ResultKept
  <2>4. QED
    BY <2>2, <2>3
<1>8. ASSUME NEW b \in Bridges, RequeueScan(b)
      PROVE  HasResult(j)'
  BY <1>8 DEF RequeueScan, ResultInv, HasResult, dbVars
<1>9. ASSUME NEW b \in Bridges, NEW s \in stale[b], RequeueStep(b, s)
      PROVE  HasResult(j)'
  <2>1. UNCHANGED <<row, applying, crashes>>
    BY <1>9 DEF RequeueStep, GiveUp, Republish, RepublishError, dbVars
  <2>2. status'[j] = "completed" => status[j] = "completed"
    BY <1>9 DEF RequeueStep, GiveUp, Republish, RepublishError, dbVars, TypeOK
  <2>3. QED
    BY <2>1, <2>2, ResultKept DEF ResultInv
<1>10. ASSUME NEW b \in Bridges, NEW i \in Jobs, MarkRequeued(b, i)
       PROVE  HasResult(j)'
  <2>1. UNCHANGED <<row, applying, crashes>>
    BY <1>10 DEF MarkRequeued
  <2>2. status'[j] = "completed" => status[j] = "completed"
    BY <1>10 DEF MarkRequeued, TypeOK
  <2>3. QED
    BY <2>1, <2>2, ResultKept DEF ResultInv
<1>11. CASE UNCHANGED vars
  BY <1>11 DEF vars, dbVars, bridgeVars, ResultInv, HasResult
<1>12. QED
  BY <1>1, <1>2, <1>3, <1>4, <1>5, <1>6, <1>7, <1>8, <1>9, <1>10, <1>11 DEF Next, Apply

-----------------------------------------------------------------------------
(* Theorems.                                                               *)

IInv == TypeOK /\ RequeueInv /\ GivesUpLast /\ UnavailableInv /\ ResultInv

LEMMA IInvInit == Init => IInv
<1> SUFFICES ASSUME Init
             PROVE  IInv
  OBVIOUS
<1>1. TypeOK
  BY TypeInit
<1>2. RequeueInv
  BY ProbeAssumption DEF Init, RequeueInv
<1>3. GivesUpLast
  BY DEF Init, GivesUpLast
<1>4. UnavailableInv
  BY DEF Init, UnavailableInv, NotPublished
<1>5. ResultInv
  BY DEF Init, ResultInv, HasResult
<1>6. QED
  BY <1>1, <1>2, <1>3, <1>4, <1>5 DEF IInv

LEMMA IInvStep == IInv /\ [Next]_vars => IInv'
BY TypeStep, RequeueInvStep, GivesUpStep, UnavailableStep, ResultStep DEF IInv

\* The strengthening the theorems below rest on.
THEOREM InductiveInvariant == Spec => []IInv
BY IInvInit, IInvStep, PTL DEF Spec

\* Every variable keeps its type, and what each bridge is about to requeue is
\* accounted for (probe.go, bridge.go 166-216).
THEOREM RequeuesCounted == Spec => []JobInv
<1>1. IInv => JobInv
  BY DEF IInv, JobInv
<1>2. QED
  BY <1>1, InductiveInvariant, PTL

\* Bridges that share no lock requeue a job at most RetryLimit - 1 times plus
\* once each (bridge.go 188-213).
THEOREM RequeuesBounded == Spec => []RetryBounded
<1>1. IInv => RetryBounded
  <2> SUFFICES ASSUME IInv, NEW j \in Jobs
               PROVE  retryCount[j] =< RetryLimit - 1 + Cardinality(Bridges)
    BY DEF RetryBounded
  <2>1. AboutToRequeue(j) \in SUBSET Bridges
    BY DEF AboutToRequeue
  <2>2. Cardinality(AboutToRequeue(j)) \in Nat /\ Cardinality(Bridges) \in Nat
    BY <2>1, BridgeSets
  <2>3. retryCount[j] \in Nat /\ RetryLimit \in Nat
    BY ProbeAssumption DEF IInv, TypeOK
  <2>4. CountOK(j)
    BY RequeueInvParts DEF IInv
  <2>5. QED
    BY <2>2, <2>3, <2>4 DEF CountOK
<1>2. QED
  BY <1>1, InductiveInvariant, PTL

\* No job is given up on before RetryLimit requeues, on however old a scan the
\* bridge decides (bridge.go 200-203).
THEOREM GivesUpOnlyAtLimit == Spec => []GivesUpLast
<1>1. IInv => GivesUpLast
  BY DEF IInv
<1>2. QED
  BY <1>1, InductiveInvariant, PTL

\* A region recorded as agent_unavailable keeps that result: its job was never
\* published, so no requeue and no result concerns it (probe.go 273-276).
THEOREM UnavailableStays == Spec => []UnavailableIsFinal
<1>1. IInv => UnavailableIsFinal
  BY DEF IInv, UnavailableInv, UnavailableIsFinal
<1>2. QED
  BY <1>1, InductiveInvariant, PTL

\* A completed job has its result in its region row once no handler is at
\* work, whatever else the bridges and dispatchers do, unless one of them died
\* (probe.go 301-340).
THEOREM CompletedJobsAnswered == Spec => []CompletedHasResult
<1>1. IInv => CompletedHasResult
  BY DEF IInv, ResultInv, HasResult, CompletedHasResult
<1>2. QED
  BY <1>1, InductiveInvariant, PTL
=============================================================================
