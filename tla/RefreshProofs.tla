--------------------------- MODULE RefreshProofs ---------------------------
(***************************************************************************)
(* Proofs about the realtime refresh for every number of jobs and          *)
(* processes, every retention and every length of the run: types, the      *)
(* active generation, what readers of the store see (complete generations  *)
(* with their aggregates, that only newer ones replace) and, for a         *)
(* deployment of one process, that they see the aggregates of the          *)
(* generation they see and that the store implements Publication.          *)
(***************************************************************************)
EXTENDS Refresh, TLAPS, FiniteSetTheorems, WellFoundedInduction

\* The initial state is typed.
LEMMA InitTypeOK == Init => TypeOK
<1> USE RefreshAssumption
<1>1. DateOf[0] \in Dates /\ 0 \in Times
  BY DEF Times
<1>2. NoGen \in Generation
  BY <1>1 DEF NoGen, Generation
<1>3. NoWork \in Work
  BY <1>1 DEF NoWork, Work
<1> QED
  BY <1>1, <1>2, <1>3 DEF Init, TypeOK, Steps

\* Every step keeps the types.
LEMMA StepTypeOK == TypeOK /\ [Next]_vars => TypeOK'
<1> SUFFICES ASSUME TypeOK, [Next]_vars PROVE TypeOK'
  OBVIOUS
<1> USE RefreshAssumption DEF TypeOK
<1>1. DateOf[0] \in Dates /\ 0 \in Times
  BY DEF Times
<1>2. NoGen \in Generation
  BY <1>1 DEF NoGen, Generation
<1>3. NoWork \in Work
  BY <1>1 DEF NoWork, Work
<1>4. CASE UNCHANGED vars
  BY <1>4 DEF vars, dbVars
<1>5. CASE Tick
  BY <1>5 DEF Tick, dbVars, Times
<1>6. ASSUME NEW j \in Jobs, CommitWrites(j)
      PROVE  /\ gens' \in [Ids -> Generation]
             /\ agg' \in [Dates -> {0} \cup Ids]
             /\ nextId' \in 1..(MaxId + 1)
  <2>1. work[j] \in Work /\ work[j].data \in Reports \cup {"none"}
    BY DEF Work
  <2>2. ASSUME gens[work[j].id] \in Generation
        PROVE  [gens[work[j].id] EXCEPT !.status = "published",
                                        !.rows = work[j].data] \in Generation
    BY <2>1, <2>2 DEF Generation
  <2>3. gens' \in [Ids -> Generation]
    BY <1>6, <2>2 DEF CommitWrites, MaterializeRealtime
  <2>4. agg' \in [Dates -> {0} \cup Ids]
    BY <1>6 DEF CommitWrites, MaterializeRealtime, Work
  <2> QED
    BY <1>6, <2>3, <2>4 DEF CommitWrites, MaterializeRealtime
<1>7. ASSUME NEW h \in Hosts, Crash(h) PROVE TypeOK'
  <2>1. UNCHANGED clock /\ running' \in [Hosts -> BOOLEAN]
    BY <1>7 DEF Crash
  <2>2. pc' \in [Jobs -> Steps] /\ work' \in [Jobs -> Work]
    BY <1>3, <1>7 DEF Crash, Steps
  <2>3. /\ gens' \in [Ids -> Generation]
        /\ agg' \in [Dates -> {0} \cup Ids]
        /\ nextId' \in 1..(MaxId + 1)
    BY <1>6, <1>7 DEF Crash, dbVars
  <2> QED
    BY <2>1, <2>2, <2>3
<1>8. ASSUME NEW j \in Jobs, Trigger(j) PROVE TypeOK'
  <2>1. [NoWork EXCEPT !.date = DateOf[clock], !.begun = clock] \in Work
    BY <1>3 DEF Work, Times
  <2> QED
    BY <1>8, <2>1 DEF Trigger, Goto, Steps, dbVars
<1>9. ASSUME NEW j \in Jobs, InsertRun(j)
      PROVE  gens' \in [Ids -> Generation] /\ nextId' \in 1..(MaxId + 1)
                                           /\ nextId \in Ids
  <2>1. nextId \in Ids
    BY <1>9 DEF InsertRun, Ids
  <2>2. [status |-> "loading", date |-> work[j].date, started |-> clock,
         rows |-> "none"] \in Generation
    BY DEF Generation, Work
  <2> QED
    BY <1>9, <2>1, <2>2 DEF InsertRun
<1>10. ASSUME NEW j \in Jobs, Return(j)
       PROVE  /\ pc' \in [Jobs -> Steps]
              /\ running' \in [Hosts -> BOOLEAN]
              /\ work' \in [Jobs -> Work]
  BY <1>3, <1>10 DEF Return, Steps
<1>11. ASSUME NEW j \in Jobs, JobStep(j) PROVE TypeOK'
  <2>1. CASE Start(j)
    <3>1. [work[j] EXCEPT !.id = nextId] \in Work
      BY <1>9, <2>1 DEF Start, Work
    <3>2. work' \in [Jobs -> Work]
      BY <2>1, <3>1 DEF Start
    <3> QED
      BY <1>9, <2>1, <3>2 DEF Start, Goto, Steps
  <2>2. CASE StartError(j)
    BY <1>9, <1>10, <2>2 DEF StartError
  <2>3. CASE Fetch(j)
    <3>1. \A r \in Reports : [work[j] EXCEPT !.data = r] \in Work
      BY DEF Work
    <3>2. work' \in [Jobs -> Work]
      BY <2>3, <3>1 DEF Fetch
    <3>3. pc' \in [Jobs -> Steps]
      BY <2>3 DEF Fetch, Goto, Steps
    <3> QED
      BY <2>3, <3>2, <3>3 DEF Fetch, dbVars
  <2>4. CASE RefreshError(j)
    BY <2>4 DEF RefreshError, Goto, Steps, dbVars
  <2>5. CASE BeginPublish(j)
    BY <2>5 DEF BeginPublish, Goto, Steps, dbVars
  <2>6. CASE WriteRows(j)
    BY <2>6 DEF WriteRows, Goto, Steps, dbVars
  <2>7. CASE Commit(j)
    BY <1>6, <2>7 DEF Commit, Goto, Steps
  <2>8. CASE CommitAnswerLost(j)
    BY <1>6, <2>8 DEF CommitAnswerLost, Goto, Steps
  <2>9. CASE Fail(j)
    <3>1. gens[work[j].id] \in Generation =>
            [gens[work[j].id] EXCEPT !.status = "failed"] \in Generation
      BY DEF Generation
    <3>2. gens' \in [Ids -> Generation]
      BY <2>9, <3>1 DEF Fail
    <3> QED
      BY <2>9, <3>2 DEF Fail, Goto, Steps
  <2>10. CASE RetainSelect(j)
    <3>1. Surplus(work[j].sweep) \in SUBSET Ids
      BY DEF Surplus, WithStatus
    <3>2. [work[j] EXCEPT !.old = Surplus(work[j].sweep)] \in Work
      BY <3>1 DEF Work
    <3>3. work' \in [Jobs -> Work]
      BY <2>10, <3>2 DEF RetainSelect
    <3> QED
      BY <2>10, <3>3 DEF RetainSelect, Goto, Steps, dbVars
  <2>11. CASE RetainDelete(j)
    <3>1. \A i \in Ids : [work[j] EXCEPT !.old = work[j].old \ {i}] \in Work
      BY DEF Work
    <3>2. work[j].old \subseteq Ids
      BY DEF Work
    <3>3. work' \in [Jobs -> Work]
      BY <2>11, <3>1, <3>2 DEF RetainDelete
    <3>4. gens' \in [Ids -> Generation]
      BY <1>2, <2>11 DEF RetainDelete
    <3> QED
      BY <2>11, <3>3, <3>4 DEF RetainDelete
  <2>12. CASE RetainNext(j)
    <3>1. [work[j] EXCEPT !.sweep = "failed"] \in Work
      BY DEF Work
    <3>2. work' \in [Jobs -> Work]
      BY <2>12, <3>1 DEF RetainNext
    <3>3. pc' \in [Jobs -> Steps]
      BY <2>12 DEF RetainNext, Goto, Steps
    <3> QED
      BY <2>12, <3>2, <3>3 DEF RetainNext, dbVars
  <2>13. CASE RetainReap(j)
    BY <1>2, <1>10, <2>13 DEF RetainReap
  <2>14. CASE RetainError(j)
    BY <1>10, <2>14 DEF RetainError, dbVars
  <2> QED
    BY <1>11, <2>1, <2>2, <2>3, <2>4, <2>5, <2>6, <2>7, <2>8, <2>9, <2>10,
       <2>11, <2>12, <2>13, <2>14 DEF JobStep, Proceed
<1> QED
  BY <1>4, <1>5, <1>7, <1>8, <1>11 DEF Next

\* Every variable keeps its type: in particular no generation is ever seen in
\* the transaction's own 'validating' status (store.go:184,223).
THEOREM TypeCorrect == Spec => []TypeOK
BY InitTypeOK, StepTypeOK, PTL DEF Spec

-----------------------------------------------------------------------------
(* Who owns which generation, and for how long. *)

\* A step keeps Ownership when it hands out no id, gives no job a generation
\* and leaves the generations of the jobs that have yet to publish alone.
LEMMA KeepsOwnership ==
  ASSUME TypeOK, TypeOK', Ownership,
         UNCHANGED <<clock, nextId>>,
         \A d \in Dates : agg'[d] < nextId,
         \A i \in Ids : i >= nextId => gens'[i].status = "absent",
         \A k \in Jobs : pc'[k] # "idle" =>
           pc[k] # "idle" /\ work'[k].begun = work[k].begun,
         \A k \in Jobs : pc'[k] \in Owning =>
           pc[k] \in Owning /\ work'[k].id = work[k].id,
         \A k \in Jobs : pc'[k] \in Owning \ {"failing"} =>
           /\ pc[k] \in Owning \ {"failing"}
           /\ work'[k].date = work[k].date
           /\ gens'[work[k].id] = gens[work[k].id],
         Validated'
  PROVE  Ownership'
<1>1. IdsIssued'
  BY DEF Ownership, IdsIssued
<1>2. Deadlines'
  BY DEF Ownership, Deadlines, Owning
<1>3. ActiveSurvives'
  BY DEF Ownership, ActiveSurvives, Owning
<1> QED
  BY <1>1, <1>2, <1>3 DEF Ownership

\* Every step keeps the ownership of generations.
LEMMA StepOwnership ==
  TypeOK /\ TypeOK' /\ Ownership /\ [Next]_vars => Ownership'
<1> SUFFICES ASSUME TypeOK, TypeOK', Ownership, [Next]_vars
             PROVE  Ownership'
  OBVIOUS
<1> USE RefreshAssumption
<1>f. /\ \A d \in Dates : agg[d] < nextId
      /\ \A i \in Ids : i >= nextId => gens[i].status = "absent"
      /\ \A k \in Jobs : pc[k] \in Owning =>
           work[k].id \in Ids /\ work[k].id < nextId
  BY DEF Ownership, IdsIssued
<1>v. \A k \in Jobs : pc[k] \in {"publishing", "writing", "committing"} =>
        work[k].data = "complete"
  BY DEF Ownership, Validated
<1>n. /\ nextId \in Nat
      /\ \A i \in Ids : i \in Nat
      /\ \A d \in Dates : agg[d] \in Nat
  BY DEF TypeOK, Ids
<1>1. CASE UNCHANGED vars
  BY <1>1, <1>f, <1>v, KeepsOwnership DEF vars, dbVars, Validated
<1>2. CASE Tick
  <2>1. IdsIssued' /\ ActiveSurvives' /\ Validated'
    BY <1>2 DEF Tick, dbVars, Ownership, IdsIssued, ActiveSurvives, Validated
  <2>2. Deadlines'
    BY <1>2 DEF Tick, dbVars, Ownership, Deadlines, TypeOK, Work, Times
  <2> QED
    BY <2>1, <2>2 DEF Ownership
<1>3. ASSUME NEW h \in Hosts, Crash(h) PROVE Ownership'
  <2>1. \A k \in Jobs : pc'[k] # "idle" =>
          pc'[k] = pc[k] /\ work'[k] = work[k] /\ Host[k] # h
    BY <1>3 DEF Crash, TypeOK
  <2>2. UNCHANGED <<clock, nextId>>
    BY <1>3 DEF Crash, CommitWrites, MaterializeRealtime, dbVars
  <2>3. Validated'
    BY <2>1, <1>v DEF Validated
  <2>4. CASE UNCHANGED dbVars
    BY <2>1, <2>2, <2>3, <2>4, <1>f, KeepsOwnership DEF dbVars, Owning
  <2>5. ASSUME NEW j \in Jobs, Host[j] = h, pc[j] = "committing",
               CommitWrites(j)
        PROVE  Ownership'
    <3>1. /\ work[j].id \in Ids /\ work[j].id < nextId
          /\ \A i \in Ids \ {work[j].id} : gens'[i] = gens[i]
          /\ \A d \in Dates : agg'[d] = agg[d] \/ agg'[d] = work[j].id
      BY <2>5, <1>f DEF CommitWrites, MaterializeRealtime, TypeOK, Work, Owning
    <3>2. \A k \in Jobs : pc'[k] \in Owning =>
            work[k].id \in Ids /\ work[k].id # work[j].id
      BY <2>1, <2>5, <1>f DEF Ownership, IdsIssued, Owning
    <3>3. \A d \in Dates : agg'[d] < nextId
      BY <3>1, <1>f
    <3>4. \A i \in Ids : i >= nextId => gens'[i].status = "absent"
      BY <3>1, <1>f, <1>n
    <3> QED
      BY <2>1, <2>2, <2>3, <3>1, <3>2, <3>3, <3>4, KeepsOwnership DEF Owning
  <2> QED
    BY <1>3, <2>4, <2>5 DEF Crash
<1>4. ASSUME NEW j \in Jobs, Trigger(j) PROVE Ownership'
  <2>1. /\ UNCHANGED <<clock, dbVars>> /\ pc'[j] = "starting"
        /\ work'[j].begun = clock
        /\ \A k \in Jobs \ {j} : work'[k] = work[k] /\ pc'[k] = pc[k]
    BY <1>4 DEF Trigger, Goto, TypeOK, NoWork
  <2>2. IdsIssued' /\ ActiveSurvives' /\ Validated'
    BY <2>1 DEF dbVars, Ownership, IdsIssued, ActiveSurvives, Validated, Owning
  <2>3. Deadlines'
    BY <2>1 DEF dbVars, Ownership, Deadlines, Owning, TypeOK, Times
  <2> QED
    BY <2>2, <2>3 DEF Ownership
<1>5. ASSUME NEW j \in Jobs, JobStep(j) PROVE Ownership'
  <2>1. CASE Start(j)
    <3>1. /\ pc[j] = "starting" /\ pc'[j] = "fetching"
          /\ UNCHANGED <<clock, agg>>
          /\ nextId \in Ids /\ nextId' = nextId + 1
          /\ \A i \in Ids \ {nextId} : gens'[i] = gens[i]
          /\ gens'[nextId].status = "loading"
          /\ gens'[nextId].date = work[j].date
          /\ gens'[nextId].started = clock
      BY <2>1 DEF Start, InsertRun, Goto, TypeOK, Ids
    <3>2. /\ work'[j].id = nextId /\ work'[j].date = work[j].date
          /\ work'[j].begun = work[j].begun
          /\ \A k \in Jobs \ {j} : work'[k] = work[k] /\ pc'[k] = pc[k]
      BY <2>1 DEF Start, Goto, TypeOK, Work
    <3>3. \A k \in Jobs : pc[k] \in Owning => work[k].id # nextId
      BY <1>f, <3>1 DEF Ids
    <3>4. IdsIssued'
      <4>1. /\ \A i \in Ids : i >= nextId' => gens'[i].status = "absent"
            /\ \A d \in Dates : agg'[d] < nextId'
        BY <1>f, <1>n, <3>1
      <4>2. \A k \in Jobs : pc'[k] \in Owning =>
              work'[k].id \in Ids /\ work'[k].id < nextId'
        <5>1. nextId < nextId'
          BY <1>n, <3>1
        <5>2. ASSUME NEW k \in Jobs \ {j}, pc'[k] \in Owning
              PROVE  work'[k].id \in Ids /\ work'[k].id < nextId'
          <6>1. pc[k] \in Owning /\ work'[k] = work[k]
            BY <3>2, <5>2
          <6>2. work[k].id \in Ids /\ work[k].id < nextId
            BY <6>1, <1>f
          <6>3. nextId' = nextId + 1
            BY <3>1
          <6> QED
            BY <6>1, <6>2, <6>3, <1>n
        <5> QED
          BY <3>1, <3>2, <5>1, <5>2
      <4>3. \A k, l \in Jobs :
              k # l /\ pc'[k] \in Owning /\ pc'[l] \in Owning =>
                work'[k].id # work'[l].id
        BY <3>1, <3>2, <3>3 DEF Ownership, IdsIssued
      <4> QED
        BY <4>1, <4>2, <4>3 DEF IdsIssued
    <3>5. Deadlines'
      <4>1. work[j].begun <= clock /\ clock <= work[j].begun + Timeout
        BY <3>1 DEF Ownership, Deadlines
      <4>2. clock \in Int /\ work[j].begun \in Int
        BY DEF TypeOK, Times, Work
      <4>3. \A k \in Jobs \ {j} : pc[k] \in Owning =>
              gens'[work[k].id] = gens[work[k].id]
        BY <1>f, <3>1, <3>3
      <4> QED
        BY <3>1, <3>2, <4>1, <4>2, <4>3 DEF Ownership, Deadlines, Owning
    <3>6. ActiveSurvives' /\ Validated'
      BY <1>f, <3>1, <3>2, <3>3
         DEF Ownership, ActiveSurvives, Validated, Owning
    <3> QED
      BY <3>4, <3>5, <3>6 DEF Ownership
  <2>2. CASE StartError(j)
    <3>1. /\ \A k \in Jobs \ {j} : work'[k] = work[k] /\ pc'[k] = pc[k]
          /\ pc'[j] = "idle"
          /\ UNCHANGED <<clock, agg>>
      BY <2>2 DEF StartError, Return, TypeOK
    <3>2. CASE UNCHANGED <<gens, nextId>>
      BY <3>1, <3>2, <1>f, <1>v, KeepsOwnership DEF Validated, Owning
    <3>3. CASE InsertRun(j)
      <4>1. /\ nextId \in Ids /\ nextId' = nextId + 1
            /\ \A i \in Ids \ {nextId} : gens'[i] = gens[i]
        BY <3>3 DEF InsertRun, TypeOK, Ids
      <4>2. \A k \in Jobs : pc[k] \in Owning => work[k].id # nextId
        BY <1>f, <4>1 DEF Ids
      <4>3. IdsIssued'
        <5>1. /\ \A i \in Ids : i >= nextId' => gens'[i].status = "absent"
              /\ \A d \in Dates : agg'[d] < nextId'
          BY <1>f, <1>n, <3>1, <4>1
        <5>2. \A k \in Jobs : pc'[k] \in Owning =>
                work'[k].id \in Ids /\ work'[k].id < nextId'
          <6>1. nextId < nextId'
            BY <1>n, <4>1
          <6>2. ASSUME NEW k \in Jobs \ {j}, pc'[k] \in Owning
                PROVE  work'[k].id \in Ids /\ work'[k].id < nextId'
            <7>1. pc[k] \in Owning /\ work'[k] = work[k]
              BY <3>1, <6>2
            <7>2. work[k].id \in Ids /\ work[k].id < nextId
              BY <7>1, <1>f
            <7>3. nextId' = nextId + 1
              BY <4>1
            <7> QED
              BY <7>1, <7>2, <7>3, <1>n
          <6> QED
            BY <3>1, <6>2 DEF Owning
        <5>3. \A k, l \in Jobs :
                k # l /\ pc'[k] \in Owning /\ pc'[l] \in Owning =>
                  work'[k].id # work'[l].id
          BY <3>1 DEF Ownership, IdsIssued, Owning
        <5> QED
          BY <5>1, <5>2, <5>3 DEF IdsIssued
      <4>4. Deadlines'
        BY <1>f, <3>1, <4>1, <4>2 DEF Ownership, Deadlines, Owning
      <4>5. ActiveSurvives' /\ Validated'
        BY <1>f, <3>1, <4>1, <4>2
           DEF Ownership, ActiveSurvives, Validated, Owning
      <4> QED
        BY <4>3, <4>4, <4>5 DEF Ownership
    <3> QED
      BY <2>2, <3>2, <3>3 DEF StartError
  <2>3. CASE Fetch(j)
    <3>1. /\ \A k \in Jobs \ {j} : work'[k] = work[k] /\ pc'[k] = pc[k]
          /\ UNCHANGED <<clock, dbVars>>
          /\ pc[j] = "fetching"
          /\ \/ pc'[j] = "publishing" /\ work'[j].data = "complete"
             \/ pc'[j] = "failing"
      BY <2>3 DEF Fetch, Valid, Goto, TypeOK, Work
    <3>2. /\ work'[j].id = work[j].id
          /\ work'[j].date = work[j].date
          /\ work'[j].begun = work[j].begun
      BY <2>3 DEF Fetch, TypeOK, Work
    <3>3. Validated'
      BY <1>v, <3>1 DEF Validated
    <3> QED
      BY <3>1, <3>2, <3>3, <1>f, KeepsOwnership DEF dbVars, Owning
  <2>4. CASE RefreshError(j)
    <3>1. /\ \A k \in Jobs \ {j} : pc'[k] = pc[k]
          /\ UNCHANGED <<clock, dbVars, work>>
          /\ pc[j] \in Owning \ {"failing"} /\ pc'[j] = "failing"
      BY <2>4 DEF RefreshError, InTransaction, Goto, TypeOK, Owning
    <3>2. Validated'
      BY <1>v, <3>1 DEF Validated
    <3> QED
      BY <3>1, <3>2, <1>f, KeepsOwnership DEF dbVars, Owning
  <2>5. CASE BeginPublish(j)
    <3>1. /\ \A k \in Jobs \ {j} : pc'[k] = pc[k]
          /\ pc[j] = "publishing" /\ pc'[j] \in {"writing", "failing"}
          /\ UNCHANGED <<clock, dbVars, work>>
      BY <2>5 DEF BeginPublish, Goto, TypeOK
    <3>2. Validated'
      BY <1>v, <3>1 DEF Validated
    <3> QED
      BY <3>1, <3>2, <1>f, KeepsOwnership DEF dbVars, Owning
  <2>6. CASE WriteRows(j)
    <3>1. /\ \A k \in Jobs \ {j} : pc'[k] = pc[k]
          /\ pc[j] = "writing" /\ pc'[j] = "committing"
          /\ UNCHANGED <<clock, dbVars, work>>
      BY <2>6 DEF WriteRows, Goto, TypeOK
    <3>2. Validated'
      BY <1>v, <3>1 DEF Validated
    <3> QED
      BY <3>1, <3>2, <1>f, KeepsOwnership DEF dbVars, Owning
  <2>7. ASSUME pc[j] = "committing", CommitWrites(j),
               UNCHANGED <<clock, running, work>>,
               Goto(j, "selecting") \/ Goto(j, "failing")
        PROVE  Ownership'
    <3>1. /\ work[j].id \in Ids /\ work[j].id < nextId
          /\ \A i \in Ids \ {work[j].id} : gens'[i] = gens[i]
          /\ \A d \in Dates : agg'[d] = agg[d] \/ agg'[d] = work[j].id
          /\ UNCHANGED <<clock, nextId, work>>
      BY <2>7, <1>f DEF CommitWrites, MaterializeRealtime, TypeOK, Work, Owning
    <3>2. /\ \A k \in Jobs \ {j} : pc'[k] = pc[k]
          /\ pc'[j] \in {"selecting", "failing"}
      BY <2>7 DEF Goto, TypeOK
    <3>3. \A k \in Jobs \ {j} : pc'[k] \in Owning =>
            work[k].id \in Ids /\ work[k].id # work[j].id
      BY <3>2, <2>7, <1>f DEF Ownership, IdsIssued, Owning
    <3>4. \A d \in Dates : agg'[d] < nextId
      BY <3>1, <1>f
    <3>5. \A i \in Ids : i >= nextId => gens'[i].status = "absent"
      BY <3>1, <1>f, <1>n
    <3>6. Validated'
      BY <1>v, <2>7, <3>2 DEF Validated
    <3> QED
      BY <2>7, <3>1, <3>2, <3>3, <3>4, <3>5, <3>6, KeepsOwnership DEF Owning
  <2>8. CASE Fail(j)
    <3>1. /\ \A k \in Jobs \ {j} : pc'[k] = pc[k]
          /\ pc[j] = "failing" /\ pc'[j] = "selecting"
          /\ UNCHANGED <<clock, nextId, agg, work>>
      BY <2>8 DEF Fail, Goto, TypeOK
    <3>2. \A i \in Ids : i # work[j].id => gens'[i] = gens[i]
      BY <2>8 DEF Fail, TypeOK
    <3>3. \A k \in Jobs \ {j} : pc'[k] \in Owning =>
            work[k].id \in Ids /\ work[k].id # work[j].id
      BY <3>1, <1>f DEF Ownership, IdsIssued, Owning
    <3>4. \A i \in Ids : i >= nextId => gens'[i].status = "absent"
      BY <3>1, <3>2, <1>f, <1>n DEF Owning
    <3>5. Validated'
      BY <1>v, <3>1 DEF Validated
    <3> QED
      BY <3>1, <3>2, <3>3, <3>4, <3>5, <1>f, KeepsOwnership DEF Owning
  <2>9. CASE RetainSelect(j)
    <3>1. /\ \A k \in Jobs \ {j} : pc'[k] = pc[k] /\ work'[k] = work[k]
          /\ pc[j] = "selecting" /\ pc'[j] = "deleting"
          /\ work'[j].begun = work[j].begun
          /\ UNCHANGED <<clock, dbVars>>
      BY <2>9 DEF RetainSelect, Goto, TypeOK, Work
    <3>2. Validated'
      BY <1>v, <3>1 DEF Validated
    <3> QED
      BY <3>1, <3>2, <1>f, KeepsOwnership DEF dbVars, Owning
  <2>10. CASE RetainDelete(j)
    <3>1. /\ UNCHANGED <<clock, nextId, agg, pc>>
          /\ pc[j] = "deleting"
          /\ \A k \in Jobs \ {j} : work'[k] = work[k]
          /\ work'[j].begun = work[j].begun
      BY <2>10 DEF RetainDelete, TypeOK, Work
    <3>2. \A i \in Ids : \/ gens'[i] = gens[i]
                         \/ gens[i].status # "loading" /\ gens'[i] = NoGen
      BY <2>10 DEF RetainDelete, TypeOK, Work
    <3>3. \A k \in Jobs : pc[k] \in Owning \ {"failing"} =>
            gens'[work[k].id] = gens[work[k].id]
      BY <3>2, <1>f DEF Ownership, ActiveSurvives, Owning
    <3>4. \A i \in Ids : i >= nextId => gens'[i].status = "absent"
      BY <3>2, <1>f DEF NoGen
    <3>5. Validated'
      BY <1>v, <3>1 DEF Validated
    <3> QED
      BY <3>1, <3>3, <3>4, <3>5, <1>f, KeepsOwnership DEF Owning
  <2>11. CASE RetainNext(j)
    <3>1. /\ \A k \in Jobs \ {j} : work'[k] = work[k] /\ pc'[k] = pc[k]
          /\ pc[j] = "deleting" /\ pc'[j] \in {"selecting", "reaping"}
          /\ UNCHANGED <<clock, dbVars>>
      BY <2>11 DEF RetainNext, Goto, TypeOK
    <3>2. work'[j].begun = work[j].begun
      BY <2>11 DEF RetainNext, TypeOK, Work
    <3>3. Validated'
      BY <1>v, <3>1 DEF Validated
    <3> QED
      BY <3>1, <3>2, <3>3, <1>f, KeepsOwnership DEF dbVars, Owning
  <2>12. CASE RetainReap(j)
    <3>1. /\ \A k \in Jobs \ {j} : work'[k] = work[k] /\ pc'[k] = pc[k]
          /\ pc'[j] = "idle"
          /\ UNCHANGED <<clock, nextId, agg>>
          /\ \A i \in Ids : gens'[i] = IF i \in Abandoned THEN NoGen ELSE gens[i]
      BY <2>12 DEF RetainReap, Return, TypeOK
    <3>2. ASSUME NEW k \in Jobs, pc[k] \in Owning \ {"failing"}
          PROVE  work[k].id \notin Abandoned
      <4>1. /\ work[k].begun <= gens[work[k].id].started
            /\ clock <= work[k].begun + Timeout
            /\ work[k].id \in Ids
        BY <3>2, <1>f DEF Ownership, Deadlines, Owning
      <4>2. /\ work[k].begun \in Int /\ clock \in Int
            /\ gens[work[k].id].started \in Int
        BY <4>1 DEF TypeOK, Work, Generation, Times
      <4> QED
        BY <4>1, <4>2 DEF Abandoned
    <3>3. \A k \in Jobs : pc[k] \in Owning \ {"failing"} =>
            gens'[work[k].id] = gens[work[k].id]
      BY <3>1, <3>2, <1>f DEF Owning
    <3>4. \A i \in Ids : i >= nextId => gens'[i].status = "absent"
      BY <3>1, <1>f DEF NoGen
    <3>5. Validated'
      BY <1>v, <3>1 DEF Validated
    <3> QED
      BY <3>1, <3>3, <3>4, <3>5, <1>f, KeepsOwnership DEF Owning
  <2>13. CASE RetainError(j)
    <3>1. /\ \A k \in Jobs \ {j} : work'[k] = work[k] /\ pc'[k] = pc[k]
          /\ pc'[j] = "idle"
          /\ UNCHANGED <<clock, dbVars>>
      BY <2>13 DEF RetainError, Return, TypeOK
    <3>2. Validated'
      BY <1>v, <3>1 DEF Validated
    <3> QED
      BY <3>1, <3>2, <1>f, KeepsOwnership DEF dbVars, Owning
  <2> QED
    BY <1>5, <2>1, <2>2, <2>3, <2>4, <2>5, <2>6, <2>7, <2>8, <2>9, <2>10,
       <2>11, <2>12, <2>13 DEF JobStep, Proceed, Commit, CommitAnswerLost
<1> QED
  BY <1>1, <1>2, <1>3, <1>4, <1>5 DEF Next

\* At first no job has a generation.
LEMMA InitOwnership == Init => Ownership
BY RefreshAssumption
   DEF Init, Ownership, IdsIssued, Deadlines, ActiveSurvives, Validated,
       Owning, NoGen, Ids

\* Type correctness and Ownership together are inductive.
LEMMA OwnershipInvariant == Spec => [](TypeOK /\ Ownership)
<1>1. Init => TypeOK /\ Ownership
  BY InitTypeOK, InitOwnership
<1>2. TypeOK /\ Ownership /\ [Next]_vars => TypeOK' /\ Ownership'
  BY StepTypeOK, StepOwnership
<1> QED
  BY <1>1, <1>2, PTL DEF Spec

\* The generation of a refresh under way stays loading and of its date until
\* the refresh publishes or fails: no Retain, of any process, reaps it, because
\* a refresh times out before its row is a day old (store.go:326-327).
THEOREM ActiveGenerationSurvives == Spec => []ActiveSurvives
BY OwnershipInvariant, PTL DEF Ownership

-----------------------------------------------------------------------------
(* The steps that change the store. *)

Inserts == \E j \in Jobs : InsertRun(j) /\ UNCHANGED agg

Commits == \E j \in Jobs : pc[j] = "committing" /\ CommitWrites(j)

Fails ==
  \E j \in Jobs :
    /\ pc[j] = "failing"
    /\ gens[work[j].id].status = "loading"
    /\ gens' = [gens EXCEPT ![work[j].id].status = "failed"]
    /\ UNCHANGED agg

Deletes ==
  \E j \in Jobs : \E i \in work[j].old :
    /\ gens[i].status = work[j].sweep
    /\ gens' = [gens EXCEPT ![i] = NoGen]
    /\ UNCHANGED agg

Reaps ==
  /\ gens' = [i \in Ids |-> IF i \in Abandoned THEN NoGen ELSE gens[i]]
  /\ UNCHANGED agg

\* Only an INSERT, a COMMIT, a Fail and the two DELETEs of Retain change it.
LEMMA StoreStep ==
  [Next]_vars =>
    UNCHANGED <<gens, agg>> \/ Inserts \/ Commits \/ Fails \/ Deletes \/ Reaps
<1> SUFFICES ASSUME [Next]_vars
             PROVE  \/ UNCHANGED <<gens, agg>> \/ Inserts \/ Commits
                    \/ Fails \/ Deletes \/ Reaps
  OBVIOUS
<1>1. CASE UNCHANGED vars
  BY <1>1 DEF vars, dbVars
<1>2. CASE Tick
  BY <1>2 DEF Tick, dbVars
<1>3. ASSUME NEW h \in Hosts, Crash(h)
      PROVE  UNCHANGED <<gens, agg>> \/ Commits
  BY <1>3 DEF Crash, dbVars, Commits
<1>4. ASSUME NEW j \in Jobs, Trigger(j) PROVE UNCHANGED <<gens, agg>>
  BY <1>4 DEF Trigger, dbVars
<1>5. ASSUME NEW j \in Jobs, JobStep(j)
      PROVE  \/ UNCHANGED <<gens, agg>> \/ Inserts \/ Commits
             \/ Fails \/ Deletes \/ Reaps
  <2>1. CASE Start(j) \/ StartError(j)
    BY <2>1 DEF Start, StartError, Inserts
  <2>2. CASE Fetch(j) \/ RefreshError(j) \/ BeginPublish(j) \/ WriteRows(j)
    BY <2>2 DEF Fetch, RefreshError, BeginPublish, WriteRows, dbVars
  <2>3. CASE Commit(j) \/ CommitAnswerLost(j)
    BY <2>3 DEF Commit, CommitAnswerLost, Commits
  <2>4. CASE Fail(j)
    BY <2>4 DEF Fail, Fails
  <2>5. CASE RetainSelect(j) \/ RetainNext(j) \/ RetainError(j)
    BY <2>5 DEF RetainSelect, RetainNext, RetainError, dbVars
  <2>6. CASE RetainDelete(j)
    BY <2>6 DEF RetainDelete, Deletes
  <2>7. CASE RetainReap(j)
    BY <2>7 DEF RetainReap, Reaps
  <2> QED
    BY <1>5, <2>1, <2>2, <2>3, <2>4, <2>5, <2>6, <2>7 DEF JobStep, Proceed
<1> QED
  BY <1>1, <1>2, <1>3, <1>4, <1>5 DEF Next

-----------------------------------------------------------------------------
(* Visible generations are complete and own their aggregates. *)

Visibility == PublishedComplete /\ AggregatesPublished

\* At first nothing is published.
LEMMA InitVisibility == Init => Visibility
BY DEF Init, Visibility, PublishedComplete, AggregatesPublished, NoGen

\* Every step keeps published generations complete, and aggregates of published ones.
LEMMA StepVisibility ==
  TypeOK /\ Ownership /\ Visibility /\ [Next]_vars => Visibility'
<1> SUFFICES ASSUME TypeOK, Ownership, Visibility, [Next]_vars
             PROVE  Visibility'
  OBVIOUS
<1> USE DEF Visibility, PublishedComplete, AggregatesPublished
<1>t. /\ gens \in [Ids -> Generation]
      /\ agg \in [Dates -> {0} \cup Ids]
      /\ nextId \in Nat
      /\ \A d \in Dates : agg[d] \in Nat /\ agg[d] < nextId
      /\ \A i \in Ids : i \in Nat
      /\ \A d \in Dates : agg[d] # 0 => agg[d] \in Ids
  BY DEF TypeOK, Ownership, IdsIssued, Ids
<1>w. \A j \in Jobs : work[j] \in Work
  BY DEF TypeOK
<1>1. CASE UNCHANGED <<gens, agg>>
  BY <1>1
<1>2. CASE Inserts
  <2>1. PICK j \in Jobs : InsertRun(j) /\ UNCHANGED agg
    BY <1>2 DEF Inserts
  <2>2. nextId \in Ids /\ gens' = [gens EXCEPT ![nextId] =
          [status |-> "loading", date |-> work[j].date, started |-> clock,
           rows |-> "none"]]
    BY <2>1 DEF InsertRun, TypeOK, Ids
  <2>3. \A d \in Dates : agg[d] # nextId
    BY <1>t
  <2> QED
    BY <1>t, <2>1, <2>2, <2>3
<1>3. CASE Commits
  <2>1. PICK j \in Jobs : pc[j] = "committing" /\ CommitWrites(j)
    BY <1>3 DEF Commits
  <2> DEFINE own == work[j].id
  <2>2. own \in Ids /\ gens[own].date = work[j].date /\ work[j].data = "complete"
    BY <2>1 DEF Ownership, IdsIssued, ActiveSurvives, Validated, Owning
  <2>3. /\ gens'[own].status = "published"
        /\ gens'[own].rows = "complete"
        /\ gens'[own].date = work[j].date
        /\ \A i \in Ids \ {own} : gens'[i] = gens[i]
    BY <1>t, <2>1, <2>2 DEF CommitWrites, MaterializeRealtime, Generation
  <2>4. \A d \in Dates : \/ agg'[d] = agg[d]
                         \/ d = work[j].date /\ agg'[d] = own
    BY <1>t, <2>1 DEF CommitWrites, MaterializeRealtime
  <2>5. PublishedComplete'
    BY <2>3
  <2>6. ASSUME NEW d \in Dates, agg'[d] # 0
        PROVE  \/ gens'[agg'[d]].status = "absent"
               \/ gens'[agg'[d]].status = "published" /\ gens'[agg'[d]].date = d
    <3>1. CASE agg'[d] = own /\ d = work[j].date
      BY <2>3, <3>1
    <3>2. CASE agg'[d] = agg[d]
      <4>1. agg[d] \in Ids
        BY <1>t, <2>6, <3>2
      <4>2. agg[d] # own
        BY <2>1, <2>6, <3>2 DEF Ownership, ActiveSurvives, Owning
      <4> QED
        BY <2>3, <2>6, <3>2, <4>1, <4>2
    <3> QED
      BY <2>4, <3>1, <3>2
  <2> QED
    BY <2>5, <2>6
<1>4. CASE Fails
  <2>1. PICK j \in Jobs :
          /\ pc[j] = "failing"
          /\ gens[work[j].id].status = "loading"
          /\ gens' = [gens EXCEPT ![work[j].id].status = "failed"]
          /\ UNCHANGED agg
    BY <1>4 DEF Fails
  <2>2. work[j].id \in Ids
    BY <2>1 DEF Ownership, IdsIssued, Owning
  <2>3. /\ gens'[work[j].id].status = "failed"
        /\ gens'[work[j].id].rows = gens[work[j].id].rows
        /\ \A i \in Ids \ {work[j].id} : gens'[i] = gens[i]
    BY <1>t, <2>1, <2>2 DEF Generation
  <2> QED
    BY <1>t, <2>1, <2>2, <2>3
<1>5. CASE Deletes
  BY <1>5, <1>t DEF Deletes, NoGen
<1>6. CASE Reaps
  BY <1>6, <1>t DEF Reaps, Abandoned, WithStatus, NoGen
<1> QED
  BY <1>1, <1>2, <1>3, <1>4, <1>5, <1>6, StoreStep

\* Published generations are complete in every state.
LEMMA VisibilityInvariant == Spec => []Visibility
<1>1. Init => TypeOK /\ Ownership /\ Visibility
  BY InitTypeOK, InitOwnership, InitVisibility
<1>2. TypeOK /\ Ownership /\ Visibility /\ [Next]_vars =>
        TypeOK' /\ Ownership' /\ Visibility'
  BY StepTypeOK, StepOwnership, StepVisibility
<1> QED
  BY <1>1, <1>2, PTL DEF Spec

\* A generation has rows exactly when it is published, and then all of them: a
\* refresh that fails, crashes or loses an answer shows nothing (store.go:175-227).
THEOREM PublishedIsComplete == Spec => []PublishedComplete
BY VisibilityInvariant, PTL DEF Visibility

\* The aggregates of a date are those of a generation published for that date,
\* in every interleaving of any number of processes (store.go:217-226,
\* cache.go:610-673).
THEOREM AggregatesArePublished == Spec => []AggregatesPublished
BY VisibilityInvariant, PTL DEF Visibility

-----------------------------------------------------------------------------
(* Retain takes away only generations that Keep newer ones supersede. *)

Prune == TypeOK /\ Ownership /\ Visibility /\ OldSuperseded

\* A step that leaves the published generations above i alone, or only adds to
\* them, leaves i superseded.
LEMMA SupersededStays ==
  ASSUME NEW i \in Ids, Superseded(i),
         \A k \in Ids : gens[k].status = "published" =>
           gens'[k].status = "published"
  PROVE  Superseded(i)'
BY DEF Superseded, WithStatus

\* What a DELETE of Retain may do to the published generations: the one it
\* removes was superseded, so the others that were stay so.
LEMMA DeleteSupersedes ==
  ASSUME NEW i \in Ids, NEW k \in Ids, Superseded(i), Superseded(k),
         \A l \in Ids \ {k} : gens'[l] = gens[l]
  PROVE  Superseded(i)'
<1>n. \A l \in Ids : l \in Int
  BY DEF Ids
<1>1. PICK newer \in SUBSET WithStatus("published") :
        Cardinality(newer) = Keep /\ \A l \in newer : i < l
  BY DEF Superseded
<1>2. PICK above \in SUBSET WithStatus("published") :
        Cardinality(above) = Keep /\ \A l \in above : k < l
  BY DEF Superseded
<1>3. CASE k \in newer
  <2>1. above \in SUBSET WithStatus("published")' /\ \A l \in above : i < l
    BY <1>n, <1>1, <1>2, <1>3 DEF WithStatus
  <2> QED
    BY <1>2, <2>1 DEF Superseded
<1>4. CASE k \notin newer
  <2>1. newer \in SUBSET WithStatus("published")'
    BY <1>1, <1>4 DEF WithStatus
  <2> QED
    BY <1>1, <2>1 DEF Superseded
<1> QED
  BY <1>3, <1>4

\* Published generations change only when Retain deletes a superseded one.
LEMMA PublishedStep ==
  ASSUME Prune, [Next]_vars
  PROVE  \/ \A i \in Ids : gens[i].status = "published" => gens'[i] = gens[i]
         \/ \E k \in Ids : /\ gens[k].status = "published" /\ Superseded(k)
                           /\ gens' = [gens EXCEPT ![k] = NoGen]
<1>t. gens \in [Ids -> Generation] /\ \A j \in Jobs : work[j].old \subseteq Ids
  BY DEF Prune, TypeOK, Work
<1>1. CASE UNCHANGED <<gens, agg>>
  BY <1>1
<1>2. CASE Inserts
  BY <1>2, <1>t DEF Inserts, InsertRun, Prune, Ownership, IdsIssued, TypeOK, Ids
<1>3. CASE Commits
  BY <1>3, <1>t
     DEF Commits, CommitWrites, MaterializeRealtime, Prune, Ownership, ActiveSurvives, Owning
<1>4. CASE Fails
  BY <1>4, <1>t DEF Fails
<1>5. CASE Deletes
  BY <1>5, <1>t DEF Deletes, Prune, OldSuperseded
<1>6. CASE Reaps
  BY <1>6, <1>t DEF Reaps, Abandoned, WithStatus
<1> QED
  BY <1>1, <1>2, <1>3, <1>4, <1>5, <1>6, StoreStep

\* The list a Retain works from: the surplus it selected, or less.
LEMMA OldStep ==
  ASSUME TypeOK, [Next]_vars, NEW j \in Jobs, NEW i \in work'[j].old,
         work'[j].sweep = "published"
  PROVE  \/ i \in work[j].old /\ work[j].sweep = "published"
         \/ i \in Surplus("published") /\ UNCHANGED gens
<1>t. work \in [Jobs -> Work] /\ NoWork.old = {}
  BY DEF TypeOK, NoWork
<1>1. CASE UNCHANGED vars
  BY <1>1 DEF vars
<1>2. CASE Tick
  BY <1>2 DEF Tick
<1>3. ASSUME NEW h \in Hosts, Crash(h)
      PROVE  i \in work[j].old /\ work[j].sweep = "published"
  BY <1>t, <1>3 DEF Crash
<1>4. ASSUME NEW k \in Jobs, Trigger(k)
      PROVE  i \in work[j].old /\ work[j].sweep = "published"
  BY <1>t, <1>4 DEF Trigger, NoWork
<1>5. ASSUME NEW k \in Jobs, JobStep(k)
      PROVE  \/ i \in work[j].old /\ work[j].sweep = "published"
             \/ i \in Surplus("published") /\ UNCHANGED gens
  <2>1. CASE Start(k)
    BY <1>t, <2>1 DEF Start, Work
  <2>2. CASE StartError(k) \/ RetainReap(k) \/ RetainError(k)
    BY <1>t, <2>2 DEF StartError, RetainReap, RetainError, Return
  <2>3. CASE Fetch(k)
    BY <1>t, <2>3 DEF Fetch, Work
  <2>4. CASE \/ RefreshError(k) \/ BeginPublish(k) \/ WriteRows(k) \/ Commit(k)
             \/ CommitAnswerLost(k) \/ Fail(k)
    BY <2>4 DEF RefreshError, BeginPublish, WriteRows, Commit,
       CommitAnswerLost, Fail
  <2>5. CASE RetainSelect(k)
    BY <1>t, <2>5 DEF RetainSelect, Work, dbVars
  <2>6. CASE RetainDelete(k)
    BY <1>t, <2>6 DEF RetainDelete, Work
  <2>7. CASE RetainNext(k)
    BY <1>t, <2>7 DEF RetainNext, Work
  <2> QED
    BY <1>5, <2>1, <2>2, <2>3, <2>4, <2>5, <2>6, <2>7 DEF JobStep, Proceed
<1> QED
  BY <1>1, <1>2, <1>3, <1>4, <1>5 DEF Next

\* Ids only grow, and an id that was handed out and is gone stays gone.
LEMMA NextIdStep ==
  [Next]_vars => nextId' = nextId \/ nextId' = nextId + 1
BY DEF Next, vars, dbVars, Tick, Crash, CommitWrites, MaterializeRealtime, Trigger, JobStep, Proceed, Start,
   StartError, InsertRun, Fetch, RefreshError, BeginPublish, WriteRows, Commit,
   CommitAnswerLost, Fail, RetainSelect, RetainDelete, RetainNext, RetainReap,
   RetainError

\* An id that was handed out and is gone stays gone.
LEMMA AbsentStep ==
  ASSUME TypeOK, Ownership, [Next]_vars,
         NEW i \in Ids, i < nextId, gens[i].status = "absent"
  PROVE  gens'[i].status = "absent"
<1>t. gens \in [Ids -> Generation] /\ i \in Int /\ nextId \in Int
  BY DEF TypeOK, Ids
<1>1. CASE UNCHANGED <<gens, agg>>
  BY <1>1
<1>2. CASE Inserts
  BY <1>2, <1>t DEF Inserts, InsertRun
<1>3. CASE Commits
  BY <1>3, <1>t
     DEF Commits, CommitWrites, MaterializeRealtime, Ownership, ActiveSurvives, Owning
<1>4. CASE Fails
  BY <1>4, <1>t DEF Fails
<1>5. CASE Deletes
  BY <1>5, <1>t DEF Deletes, NoGen
<1>6. CASE Reaps
  BY <1>6, <1>t DEF Reaps, NoGen
<1> QED
  BY <1>1, <1>2, <1>3, <1>4, <1>5, <1>6, StoreStep

\* Every step keeps what is on a Retain's list superseded.
LEMMA StepOldSuperseded ==
  ASSUME Prune, TypeOK', [Next]_vars
  PROVE  OldSuperseded'
<1> SUFFICES ASSUME NEW j \in Jobs, work'[j].sweep = "published",
                    NEW i \in work'[j].old
             PROVE  /\ i < nextId'
                    /\ \/ gens'[i].status = "absent"
                       \/ gens'[i].status = "published" /\ Superseded(i)'
  BY DEF OldSuperseded
<1>t. /\ i \in Ids /\ i \in Int /\ gens \in [Ids -> Generation]
      /\ nextId \in Int
  BY DEF Prune, TypeOK, Work, Ids
<1>n. nextId' = nextId \/ nextId' = nextId + 1
  BY NextIdStep
<1>1. i < nextId /\ \/ gens[i].status = "absent"
                    \/ gens[i].status = "published" /\ Superseded(i)
  <2>1. CASE i \in Surplus("published") /\ UNCHANGED gens
    <3>1. gens[i].status = "published" /\ Superseded(i)
      BY <2>1 DEF Surplus, Superseded, WithStatus
    <3>2. i < nextId
      BY <1>t, <3>1 DEF Prune, Ownership, IdsIssued
    <3> QED
      BY <3>1, <3>2
  <2>2. CASE i \in work[j].old /\ work[j].sweep = "published"
    BY <2>2 DEF Prune, OldSuperseded
  <2> QED
    BY <2>1, <2>2, OldStep DEF Prune
<1>2. CASE gens[i].status = "absent"
  <2>1. gens'[i].status = "absent"
    BY <1>1, <1>2, <1>t, AbsentStep DEF Prune
  <2> QED
    BY <1>1, <1>t, <1>n, <2>1
<1>3. CASE gens[i].status = "published" /\ Superseded(i)
  <2>1. CASE \A k \in Ids : gens[k].status = "published" => gens'[k] = gens[k]
    BY <1>1, <1>3, <1>t, <1>n, <2>1, SupersededStays
  <2>2. ASSUME NEW k \in Ids, gens[k].status = "published", Superseded(k),
               gens' = [gens EXCEPT ![k] = NoGen]
        PROVE  \/ gens'[i].status = "absent"
               \/ gens'[i].status = "published" /\ Superseded(i)'
    BY <1>3, <1>t, <2>2, DeleteSupersedes DEF NoGen
  <2> QED
    BY <1>1, <1>t, <1>n, <2>1, <2>2, PublishedStep
<1> QED
  BY <1>1, <1>2, <1>3

\* What Retain works from is superseded in every state.
LEMMA PruneInvariant == Spec => []Prune
<1>1. Init => Prune
  BY InitTypeOK, InitOwnership, InitVisibility
     DEF Prune, OldSuperseded, Init, NoWork
<1>2. Prune /\ [Next]_vars => Prune'
  BY StepTypeOK, StepOwnership, StepVisibility, StepOldSuperseded DEF Prune
<1> QED
  BY <1>1, <1>2, PTL DEF Spec

\* A published generation leaves only when Keep newer published ones are
\* there, however many Retains run at once on lists however old, and whatever
\* answers were lost (store.go:167-173, 295-329).
THEOREM PublishedGenerationsStay == Spec => PublishedStays
<1>1. ASSUME Prune, [Next]_vars
      PROVE  [\A i \in WithStatus("published") :
                \/ gens'[i].status = "published"
                \/ gens'[i].status = "absent" /\ Superseded(i)]_vars
  <2>1. gens \in [Ids -> Generation]
    BY <1>1 DEF Prune, TypeOK
  <2> QED
    BY <1>1, <2>1, PublishedStep DEF WithStatus, NoGen
<1> QED
  BY <1>1, PruneInvariant, PTL DEF Spec, PublishedStays

-----------------------------------------------------------------------------
(* One process. *)

OneProcess == \A j, k \in Jobs : Host[j] = Host[k]

-----------------------------------------------------------------------------
(* The newest of a set of ids. *)

\* A set of ids has a newest one.
LEMMA NewestExists ==
  ASSUME NEW S \in SUBSET Ids, S # {}
  PROVE  \E i \in S : \A k \in S : k <= i
<1> DEFINE T == {n \in Nat : MaxId - n \in S}
<1>n. MaxId \in Nat /\ \A k \in S : k \in 1..MaxId
  BY RefreshAssumption DEF Ids
<1>1. \A k \in S : MaxId - k \in Nat /\ MaxId - (MaxId - k) = k
  BY <1>n
<1>2. T \subseteq Nat /\ T # {}
  BY <1>1
<1>3. PICK m \in T : \A n \in T : ~(<<n, m>> \in OpToRel(<, Nat))
  BY <1>2, NatLessThanWellFounded, WFMin
<1>4. \A n \in T : ~(n < m)
  BY <1>3 DEF OpToRel
<1>5. ASSUME NEW k \in S PROVE k <= MaxId - m
  <2>1. MaxId - k \in T
    BY <1>1
  <2>2. ~(MaxId - k < m)
    BY <1>4, <2>1
  <2> QED
    BY <1>n, <2>2
<1> QED
  BY <1>5

\* Newest is the newest of a set.
LEMMA NewestIsNewest ==
  ASSUME NEW S \in SUBSET Ids, S # {}
  PROVE  Newest(S) \in S /\ \A k \in S : k <= Newest(S)
BY NewestExists DEF Newest

\* The newest of a set is its only one.
LEMMA NewestUnique ==
  ASSUME NEW S \in SUBSET Ids, NEW i \in S, \A k \in S : k <= i
  PROVE  Newest(S) = i
<1>1. Newest(S) \in S /\ i <= Newest(S)
  BY NewestIsNewest
<1>2. Newest(S) <= i
  BY <1>1
<1>3. \A k \in S : k \in Int
  BY DEF Ids
<1> QED
  BY <1>1, <1>2, <1>3

-----------------------------------------------------------------------------
(* One job at a time, with the newest id. *)

Exclusive == Alone /\ OwnsLast

\* At first no job is under way.
LEMMA InitExclusive == Init => Exclusive
BY DEF Init, Exclusive, Alone, OwnsLast, Owning

\* In one process every step leaves at most one job under way.
LEMMA StepExclusive ==
  ASSUME OneProcess, TypeOK, Ownership, Exclusive, [Next]_vars
  PROVE  Exclusive'
<1> USE RefreshAssumption
<1>t. /\ pc \in [Jobs -> Steps] /\ work \in [Jobs -> Work]
      /\ running \in [Hosts -> BOOLEAN] /\ nextId \in Int
      /\ \A j \in Jobs : Host[j] \in Hosts
  BY DEF TypeOK
<1>1. CASE UNCHANGED vars
  BY <1>1 DEF vars, Exclusive, Alone, OwnsLast
<1>2. CASE Tick
  BY <1>2 DEF Tick, dbVars, Exclusive, Alone, OwnsLast
<1>3. ASSUME NEW h \in Hosts, Crash(h) PROVE Exclusive'
  <2>1. \A k \in Jobs : pc'[k] # "idle" =>
          pc'[k] = pc[k] /\ work'[k] = work[k] /\ Host[k] # h
    BY <1>t, <1>3 DEF Crash
  <2>2. nextId' = nextId /\ running' = [running EXCEPT ![h] = FALSE]
    BY <1>3 DEF Crash, CommitWrites, MaterializeRealtime, dbVars
  <2> QED
    BY <1>t, <2>1, <2>2 DEF Exclusive, Alone, OwnsLast, Owning
<1>4. ASSUME NEW j \in Jobs, Trigger(j) PROVE Exclusive'
  <2>1. /\ ~running[Host[j]] /\ nextId' = nextId
        /\ running' = [running EXCEPT ![Host[j]] = TRUE]
        /\ pc' = [pc EXCEPT ![j] = "starting"]
        /\ \A k \in Jobs \ {j} : work'[k] = work[k]
    BY <1>t, <1>4 DEF Trigger, Goto, dbVars
  <2>2. \A k \in Jobs : pc[k] = "idle"
    BY <2>1 DEF OneProcess, Exclusive, Alone
  <2> QED
    BY <1>t, <2>1, <2>2 DEF Exclusive, Alone, OwnsLast, Owning
<1>5. ASSUME NEW j \in Jobs, JobStep(j) PROVE Exclusive'
  <2>1. pc[j] # "idle"
    BY <1>5 DEF JobStep, Proceed, Start, StartError, Fetch, RefreshError, InTransaction,
       BeginPublish, WriteRows, Commit, CommitAnswerLost, Fail, RetainSelect,
       RetainDelete, RetainNext, RetainReap, RetainError
  <2>2. \A k \in Jobs \ {j} : pc[k] = "idle"
    BY <2>1 DEF Exclusive, Alone
  <2>3. \A k \in Jobs \ {j} : pc'[k] = "idle"
    BY <1>t, <1>5, <2>2
       DEF JobStep, Proceed, Start, StartError, Return, Goto, Fetch, RefreshError,
           BeginPublish, WriteRows, Commit, CommitAnswerLost, Fail,
           RetainSelect, RetainDelete, RetainNext, RetainReap, RetainError
  <2>4. pc'[j] # "idle" => running' = running
    BY <1>t, <1>5
       DEF JobStep, Proceed, Start, StartError, Return, Goto, Fetch, RefreshError,
           BeginPublish, WriteRows, Commit, CommitAnswerLost, Fail,
           RetainSelect, RetainDelete, RetainNext, RetainReap, RetainError
  <2>5. Alone'
    BY <2>1, <2>2, <2>3, <2>4 DEF Exclusive, Alone
  <2>6. ASSUME pc'[j] \in Owning PROVE work'[j].id = nextId' - 1
    <3>1. CASE Start(j)
      BY <1>t, <3>1 DEF Start, InsertRun, Work
    <3>2. CASE StartError(j) \/ RetainReap(j) \/ RetainError(j)
      BY <1>t, <2>6, <3>2
         DEF StartError, RetainReap, RetainError, Return, Owning
    <3>3. CASE Fetch(j)
      <4>1. work'[j].id = work[j].id
        BY <1>t, <3>3 DEF Fetch, Work
      <4> QED
        BY <3>3, <4>1 DEF Fetch, dbVars, Exclusive, OwnsLast, Owning
    <3>4. CASE \/ RefreshError(j) \/ BeginPublish(j) \/ WriteRows(j)
               \/ Commit(j) \/ CommitAnswerLost(j) \/ Fail(j)
      <4>1. pc[j] \in Owning /\ work' = work /\ nextId' = nextId
        BY <3>4
           DEF RefreshError, InTransaction, BeginPublish, WriteRows, Commit,
               CommitAnswerLost, CommitWrites, MaterializeRealtime, Fail, dbVars, Owning
      <4> QED
        BY <4>1 DEF Exclusive, OwnsLast
    <3>5. CASE RetainSelect(j) \/ RetainDelete(j) \/ RetainNext(j)
      BY <1>t, <2>6, <3>5
         DEF RetainSelect, RetainDelete, RetainNext, Goto, Owning
    <3> QED
      BY <1>5, <3>1, <3>2, <3>3, <3>4, <3>5 DEF JobStep, Proceed
  <2>7. OwnsLast'
    BY <2>3, <2>6 DEF OwnsLast, Owning
  <2> QED
    BY <2>5, <2>7 DEF Exclusive
<1> QED
  BY <1>1, <1>2, <1>3, <1>4, <1>5 DEF Next

-----------------------------------------------------------------------------
(* Dates are published in order. *)

\* At first no date has aggregates.
LEMMA InitDatesInOrder == Init => DatesInOrder
BY DEF Init, DatesInOrder

\* In one process every step keeps dates in order.
LEMMA StepDatesInOrder ==
  ASSUME OneProcess, TypeOK, Exclusive, DatesInOrder, [Next]_vars
  PROVE  DatesInOrder'
<1>t. /\ pc \in [Jobs -> Steps] /\ work \in [Jobs -> Work]
      /\ agg \in [Dates -> {0} \cup Ids] /\ clock \in Times
      /\ DateOf[clock] \in Dates /\ \A d \in Dates : d \in Int
      /\ \A j \in Jobs : work[j].date \in Dates
  BY RefreshAssumption DEF TypeOK, Times, Work
<1>d. /\ \A d \in Dates : agg[d] # 0 => d <= DateOf[clock]
      /\ \A j \in Jobs : pc[j] # "idle" =>
           /\ work[j].date <= DateOf[clock]
           /\ \A d \in Dates : agg[d] # 0 => d <= work[j].date
  BY DEF DatesInOrder
<1>c. ASSUME NEW j \in Jobs, CommitWrites(j), NEW d \in Dates, agg'[d] # 0
      PROVE  agg[d] # 0 \/ d = work[j].date
  BY <1>t, <1>c DEF CommitWrites, MaterializeRealtime
<1>1. CASE UNCHANGED vars
  BY <1>1 DEF vars, DatesInOrder
<1>2. CASE Tick
  <2>1. /\ clock \in 0..MaxClock /\ clock' \in 0..MaxClock /\ clock <= clock'
        /\ pc' = pc /\ work' = work /\ agg' = agg
    BY <1>t, <1>2, RefreshAssumption DEF Tick, dbVars, Times
  <2>2. DateOf[clock] <= DateOf[clock'] /\ DateOf[clock'] \in Int
    BY <2>1, <1>t, RefreshAssumption
  <2>3. \A x \in Dates : x <= DateOf[clock] => x <= DateOf[clock']
    BY <1>t, <2>2
  <2> QED
    BY <1>t, <1>d, <2>1, <2>3 DEF DatesInOrder
<1>3. ASSUME NEW h \in Hosts, Crash(h) PROVE DatesInOrder'
  <2>1. /\ clock' = clock
        /\ \A k \in Jobs : pc'[k] # "idle" =>
             pc[k] # "idle" /\ work'[k] = work[k] /\ Host[k] # h
    BY <1>t, <1>3 DEF Crash
  <2>2. CASE UNCHANGED dbVars
    BY <1>d, <2>1, <2>2 DEF dbVars, DatesInOrder
  <2>3. ASSUME NEW j \in Jobs, Host[j] = h, pc[j] = "committing", CommitWrites(j)
        PROVE  DatesInOrder'
    <3>1. \A k \in Jobs : pc'[k] = "idle"
      BY <2>1, <2>3 DEF OneProcess
    <3>2. work[j].date <= DateOf[clock]
      BY <1>d, <2>3
    <3> QED
      BY <1>c, <1>d, <2>1, <2>3, <3>1, <3>2 DEF DatesInOrder
  <2> QED
    BY <1>3, <2>2, <2>3 DEF Crash
<1>4. ASSUME NEW j \in Jobs, Trigger(j) PROVE DatesInOrder'
  <2>1. /\ ~running[Host[j]] /\ clock' = clock /\ agg' = agg
        /\ pc' = [pc EXCEPT ![j] = "starting"]
        /\ work'[j].date = DateOf[clock]
    BY <1>t, <1>4 DEF Trigger, Goto, dbVars, NoWork
  <2>2. \A k \in Jobs : pc[k] = "idle"
    BY <2>1 DEF OneProcess, Exclusive, Alone
  <2>3. \A k \in Jobs : pc'[k] # "idle" => k = j
    BY <1>t, <2>1, <2>2
  <2>4. DateOf[clock] <= DateOf[clock]
    BY <1>t
  <2> QED
    BY <1>d, <2>1, <2>3, <2>4 DEF DatesInOrder
<1>5. ASSUME NEW j \in Jobs, JobStep(j) PROVE DatesInOrder'
  <2>1. pc[j] # "idle" /\ clock' = clock
    BY <1>5 DEF JobStep, Proceed, Start, StartError, Fetch, RefreshError, InTransaction,
       BeginPublish, WriteRows, Commit, CommitAnswerLost, Fail, RetainSelect,
       RetainDelete, RetainNext, RetainReap, RetainError
  <2>2. \A k \in Jobs : pc'[k] # "idle" => k = j
    <3>1. \A k \in Jobs \ {j} : pc[k] = "idle"
      BY <2>1 DEF Exclusive, Alone
    <3> QED
      BY <1>t, <1>5, <3>1
         DEF JobStep, Proceed, Start, StartError, Return, Goto, Fetch, RefreshError,
             BeginPublish, WriteRows, Commit, CommitAnswerLost, Fail,
             RetainSelect, RetainDelete, RetainNext, RetainReap, RetainError
  <2>3. pc'[j] # "idle" => work'[j].date = work[j].date
    <3>1. CASE Start(j) \/ Fetch(j) \/ RetainSelect(j) \/ RetainDelete(j) \/ RetainNext(j)
      BY <1>t, <3>1 DEF Start, Fetch, RetainSelect, RetainDelete, RetainNext, Work
    <3>2. CASE StartError(j) \/ RetainReap(j) \/ RetainError(j)
      BY <1>t, <3>2 DEF StartError, RetainReap, RetainError, Return
    <3>3. CASE \/ RefreshError(j) \/ BeginPublish(j) \/ WriteRows(j)
               \/ Commit(j) \/ CommitAnswerLost(j) \/ Fail(j)
      BY <3>3 DEF RefreshError, BeginPublish, WriteRows, Commit, CommitAnswerLost, Fail
    <3> QED
      BY <1>5, <3>1, <3>2, <3>3 DEF JobStep, Proceed
  <2>4. ASSUME NEW d \in Dates, agg'[d] # 0 PROVE agg[d] # 0 \/ d = work[j].date
    <3>1. CASE Commit(j) \/ CommitAnswerLost(j)
      BY <1>c, <2>4, <3>1 DEF Commit, CommitAnswerLost
    <3>2. CASE ~(Commit(j) \/ CommitAnswerLost(j))
      <4>1. agg' = agg
        BY <1>5, <3>2
           DEF JobStep, Proceed, dbVars, Start, StartError, Fetch, RefreshError,
               BeginPublish, WriteRows, Fail,
               RetainSelect, RetainDelete, RetainNext, RetainReap, RetainError
      <4> QED
        BY <2>4, <4>1
    <3> QED
      BY <3>1, <3>2
  <2>5. /\ work[j].date <= DateOf[clock] /\ work[j].date <= work[j].date
        /\ \A d \in Dates : agg[d] # 0 => d <= work[j].date /\ d <= DateOf[clock]
    BY <1>t, <1>d, <2>1
  <2> QED
    BY <2>1, <2>2, <2>3, <2>4, <2>5 DEF DatesInOrder
<1> QED
  BY <1>1, <1>2, <1>3, <1>4, <1>5 DEF Next

-----------------------------------------------------------------------------
(* What a step does to the published generations and their aggregates. *)

Visible == WithStatus("published")

SameView ==
  /\ Visible' = Visible
  /\ \A i \in Visible : gens'[i].date = gens[i].date
  /\ UNCHANGED agg

Pruned(k) ==
  /\ Visible' = Visible \ {k}
  /\ \A i \in Visible \ {k} : gens'[i].date = gens[i].date
  /\ UNCHANGED agg

\* Readers see no difference, a publication, or a superseded generation less.
LEMMA ViewStep ==
  ASSUME Prune, [Next]_vars
  PROVE  \/ SameView
         \/ Commits
         \/ \E k \in Visible : Superseded(k) /\ Pruned(k)
<1>t. /\ gens \in [Ids -> Generation]
      /\ \A j \in Jobs : work[j].old \subseteq Ids
      /\ \A i \in Ids : i >= nextId => gens[i].status = "absent"
  BY DEF Prune, TypeOK, Work, Ownership, IdsIssued
<1> USE DEF Visible, WithStatus
<1>1. CASE UNCHANGED <<gens, agg>>
  BY <1>1 DEF SameView
<1>2. CASE Inserts
  <2>1. PICK j \in Jobs : InsertRun(j) /\ UNCHANGED agg
    BY <1>2 DEF Inserts
  <2>2. nextId \in Ids /\ gens[nextId].status = "absent"
    BY <1>t, <2>1, RefreshAssumption DEF InsertRun, Prune, TypeOK, Ids
  <2>3. /\ \A i \in Ids \ {nextId} : gens'[i] = gens[i]
        /\ gens'[nextId].status = "loading"
    BY <1>t, <2>1, <2>2 DEF InsertRun
  <2> QED
    BY <2>1, <2>2, <2>3 DEF SameView
<1>3. CASE Fails
  <2>1. PICK j \in Jobs :
          /\ pc[j] = "failing"
          /\ gens[work[j].id].status = "loading"
          /\ gens' = [gens EXCEPT ![work[j].id].status = "failed"]
          /\ UNCHANGED agg
    BY <1>3 DEF Fails
  <2>2. /\ \A i \in Ids \ {work[j].id} : gens'[i] = gens[i]
        /\ work[j].id \in Ids => gens'[work[j].id].status = "failed"
    BY <1>t, <2>1 DEF Generation
  <2> QED
    BY <2>1, <2>2 DEF SameView
<1>4. CASE Deletes
  <2>1. PICK j \in Jobs, k \in Ids :
          /\ k \in work[j].old
          /\ gens[k].status = work[j].sweep
          /\ gens' = [gens EXCEPT ![k] = NoGen]
          /\ UNCHANGED agg
    BY <1>t, <1>4 DEF Deletes
  <2>2. /\ \A i \in Ids \ {k} : gens'[i] = gens[i]
        /\ gens'[k].status = "absent"
    BY <1>t, <2>1 DEF NoGen
  <2>3. CASE gens[k].status = "published"
    <3>1. Superseded(k)
      BY <2>1, <2>3 DEF Prune, OldSuperseded
    <3> QED
      BY <2>1, <2>2, <2>3, <3>1 DEF Pruned
  <2>4. CASE gens[k].status # "published"
    BY <2>1, <2>2, <2>4 DEF SameView
  <2> QED
    BY <2>3, <2>4
<1>5. CASE Reaps
  BY <1>5, <1>t DEF Reaps, Abandoned, NoGen, SameView
<1> QED
  BY <1>1, <1>2, <1>3, <1>4, <1>5, StoreStep

\* What is superseded is not the newest.
LEMMA NewerVisible ==
  ASSUME NEW k \in Ids, Superseded(k)
  PROVE  \E m \in Visible : k < m
<1>1. PICK newer \in SUBSET Visible :
        Cardinality(newer) = Keep /\ \A m \in newer : k < m
  BY DEF Superseded, Visible
<1>2. Keep # 0
  BY RefreshAssumption DEF Keep
<1>3. newer # {}
  BY <1>1, <1>2, FS_EmptySet
<1> QED
  BY <1>1, <1>3

\* A COMMIT publishes a generation that was loading, for its date.
LEMMA CommitView ==
  ASSUME Prune, NEW j \in Jobs, pc[j] = "committing", CommitWrites(j)
  PROVE  LET id == work[j].id IN
         /\ id \in Ids /\ Visible' = Visible \cup {id} /\ id \notin Visible
         /\ gens[id].status = "loading" /\ gens'[id].status = "published"
         /\ \A i \in Ids \ {id} : gens'[i] = gens[i]
         /\ gens'[id].date = work[j].date /\ work[j].date \in Dates
         /\ agg' = [agg EXCEPT ![work[j].date] = id]
         /\ nextId' = nextId
<1> DEFINE id == work[j].id
<1>t. gens \in [Ids -> Generation] /\ work[j] \in Work
  BY DEF Prune, TypeOK
<1>1. id \in Ids /\ gens[id].status = "loading" /\ gens[id].date = work[j].date
  BY DEF Prune, Ownership, IdsIssued, ActiveSurvives, Owning
<1>2. /\ \A i \in Ids \ {id} : gens'[i] = gens[i]
      /\ gens'[id].status = "published"
      /\ gens'[id].date = gens[id].date
      /\ agg' = [agg EXCEPT ![work[j].date] = id]
      /\ nextId' = nextId
  BY <1>t, <1>1 DEF CommitWrites, MaterializeRealtime, Generation
<1>3. Visible' = Visible \cup {id} /\ id \notin Visible
  BY <1>1, <1>2 DEF Visible, WithStatus
<1>4. work[j].date \in Dates
  BY <1>t DEF Work
<1> QED
  BY <1>1, <1>2, <1>3, <1>4

\* A COMMIT of the only job under way publishes the newest generation.
LEMMA CommitStep ==
  ASSUME Prune, Exclusive, NEW j \in Jobs, pc[j] = "committing",
         CommitWrites(j)
  PROVE  LET id == work[j].id IN
         /\ id \in Ids /\ Visible' = Visible \cup {id} /\ id \notin Visible
         /\ \A i \in Visible : i < id /\ gens'[i].date = gens[i].date
         /\ \A d \in Dates : agg[d] <= id
         /\ gens'[id].date = work[j].date /\ work[j].date \in Dates
         /\ agg' = [agg EXCEPT ![work[j].date] = id]
<1> DEFINE id == work[j].id
<1>t. /\ nextId \in Int
      /\ \A i \in Ids : i \in Int
      /\ \A d \in Dates : agg[d] \in Int
  BY DEF Prune, TypeOK, Ids
<1>1. /\ id \in Ids /\ Visible' = Visible \cup {id} /\ id \notin Visible
      /\ \A i \in Ids \ {id} : gens'[i] = gens[i]
      /\ gens'[id].date = work[j].date /\ work[j].date \in Dates
      /\ agg' = [agg EXCEPT ![work[j].date] = id]
  BY CommitView
<1>2. id = nextId - 1
  BY DEF Exclusive, OwnsLast, Owning
<1>3. ASSUME NEW i \in Visible PROVE i < id /\ gens'[i].date = gens[i].date
  <2>1. i \in Ids /\ i # id /\ i < nextId
    BY <1>1, <1>t DEF Visible, WithStatus, Prune, Ownership, IdsIssued
  <2> QED
    BY <1>1, <1>2, <1>t, <2>1
<1>4. ASSUME NEW d \in Dates PROVE agg[d] <= id
  <2>1. agg[d] < nextId
    BY DEF Prune, Ownership, IdsIssued
  <2> QED
    BY <1>2, <1>t, <2>1
<1> QED
  BY <1>1, <1>3, <1>4

\* The newest of the published generations, 0 when there is none.
LEMMA LatestIs ==
  /\ Visible = {} => Latest = 0
  /\ Visible # {} => Latest \in Visible /\ \A i \in Visible : i <= Latest
<1>1. Visible \in SUBSET Ids
  BY DEF Visible, WithStatus
<1> QED
  BY <1>1, NewestIsNewest DEF Latest, Newest, Visible

\* A COMMIT shows its generation unless a newer one is visible.
LEMMA LatestAfter ==
  ASSUME NEW id \in Ids, Visible' = Visible \cup {id}
  PROVE  Latest' = IF id > Latest THEN id ELSE Latest
<1>t. Visible \in SUBSET Ids /\ \A i \in Ids : i \in Int /\ i > 0
  BY DEF Visible, WithStatus, Ids
<1>1. Latest' = Newest(Visible \cup {id})
  BY DEF Latest, Visible
<1>2. CASE id > Latest
  <2>1. \A k \in Visible \cup {id} : k <= id
    BY <1>t, <1>2, LatestIs
  <2> QED
    BY <1>t, <1>1, <1>2, <2>1, NewestUnique
<1>3. CASE ~(id > Latest)
  <2>1. Visible # {} /\ Latest \in Visible /\ \A i \in Visible : i <= Latest
    BY <1>t, <1>3, LatestIs
  <2>2. \A k \in Visible \cup {id} : k <= Latest
    BY <1>t, <1>3, <2>1
  <2>3. Latest \in Visible \cup {id}
    BY <2>1
  <2>4. Newest(Visible \cup {id}) = Latest
    BY <1>t, <2>2, <2>3, NewestUnique
  <2> QED
    BY <1>1, <1>3, <2>4
<1> QED
  BY <1>2, <1>3

\* Retain never takes the visible generation away.
LEMMA LatestStays ==
  ASSUME NEW k \in Visible, Superseded(k), Pruned(k)
  PROVE  UNCHANGED <<Latest, agg>>
<1>t. Visible \in SUBSET Ids /\ \A i \in Ids : i \in Int
  BY DEF Visible, WithStatus, Ids
<1>1. PICK m \in Visible : k < m
  BY <1>t, NewerVisible
<1>2. Latest \in Visible /\ \A i \in Visible : i <= Latest
  BY LatestIs
<1>3. Latest # k
  BY <1>t, <1>1, <1>2
<1>4. Newest(Visible \ {k}) = Latest
  BY <1>t, <1>2, <1>3, NewestUnique
<1> QED
  BY <1>4 DEF Pruned, Latest, Visible

-----------------------------------------------------------------------------
(* What several processes promise. *)

\* A generation that cannot be published any more never can again.
LEMMA OpenStep ==
  ASSUME Prune, [Next]_vars
  PROVE  Open' \subseteq Open
<1> SUFFICES ASSUME NEW i \in Open' PROVE i \in Open
  OBVIOUS
<1>t. /\ gens \in [Ids -> Generation] /\ nextId \in Int
      /\ i \in Ids /\ i \in Int
      /\ gens'[i].status = "loading" \/ i >= nextId'
      /\ nextId' = nextId \/ nextId' = nextId + 1
  BY NextIdStep DEF Prune, TypeOK, Open, WithStatus, Ids
<1>n. CASE i >= nextId
  BY <1>n, <1>t DEF Open
<1>o. CASE ~(i >= nextId)
  <2>1. gens'[i].status = "loading"
    BY <1>t, <1>o
  <2>2. gens[i].status = "loading"
    <3>1. CASE UNCHANGED <<gens, agg>>
      BY <2>1, <3>1
    <3>2. CASE Inserts
      BY <1>t, <1>o, <2>1, <3>2 DEF Inserts, InsertRun
    <3>3. CASE Commits
      BY <1>t, <2>1, <3>3, CommitView DEF Commits
    <3>4. CASE Fails
      BY <1>t, <2>1, <3>4 DEF Fails
    <3>5. CASE Deletes
      BY <1>t, <2>1, <3>5 DEF Deletes, NoGen
    <3>6. CASE Reaps
      BY <1>t, <2>1, <3>6 DEF Reaps, NoGen
    <3> QED
      BY <3>1, <3>2, <3>3, <3>4, <3>5, <3>6, StoreStep
  <2> QED
    BY <1>t, <2>2 DEF Open, WithStatus
<1> QED
  BY <1>n, <1>o

\* However many processes refresh and prune the store, no generation is published
\* twice or without the aggregates of its date, and its readers never go back to an
\* older generation (store.go:146-227, 295-329; main.go:222).
THEOREM StoreImplementsSharedPublication == Spec => SharedSpec
<1>1. Init => Shared!Init
  <2> SUFFICES ASSUME Init PROVE Shared!Init
    OBVIOUS
  <2>1. Latest = 0 /\ WithStatus("loading") = {}
    BY DEF Init, Latest, Newest, WithStatus, NoGen
  <2>2. {i \in Ids : i >= nextId} = 1..MaxId
    BY RefreshAssumption DEF Init, Ids
  <2> QED
    BY <2>1, <2>2 DEF Init, Shared!Init, Open
<1>2. ASSUME Prune, [Next]_vars
      PROVE  [Shared!Next]_<<Latest, agg, Open>>
  <2>1. Open' \subseteq Open
    BY <1>2, OpenStep
  <2>2. ASSUME UNCHANGED <<Latest, agg>>
        PROVE  [Shared!Next]_<<Latest, agg, Open>>
    <3>1. Shared!GiveUp(Open \ Open')
      BY <2>1, <2>2 DEF Shared!GiveUp
    <3> QED
      BY <3>1 DEF Shared!Next
  <2>3. CASE SameView
    BY <2>2, <2>3 DEF SameView, Latest, Visible
  <2>4. CASE Commits
    <3>1. PICK j \in Jobs : pc[j] = "committing" /\ CommitWrites(j)
      BY <2>4 DEF Commits
    <3> DEFINE id == work[j].id
    <3>2. /\ id \in Ids /\ Visible' = Visible \cup {id}
          /\ gens[id].status = "loading" /\ gens'[id].status = "published"
          /\ \A i \in Ids \ {id} : gens'[i] = gens[i]
          /\ work[j].date \in Dates
          /\ agg' = [agg EXCEPT ![work[j].date] = id]
          /\ nextId' = nextId
      BY <1>2, <3>1, CommitView
    <3>3. id \in Open
      BY <3>2 DEF Open, WithStatus
    <3>4. ~(id >= nextId)
      BY <1>2, <3>2 DEF Prune, Ownership, IdsIssued
    <3>5. Open' = Open \ {id}
      BY <3>2, <3>4 DEF Open, WithStatus
    <3>6. Latest' = IF id > Latest THEN id ELSE Latest
      BY <3>2, LatestAfter
    <3>7. Shared!Publish(id, work[j].date)
      BY <3>2, <3>5, <3>6 DEF Shared!Publish
    <3> QED
      BY <3>2, <3>3, <3>7 DEF Shared!Next
  <2>5. ASSUME NEW k \in Visible, Superseded(k), Pruned(k)
        PROVE  UNCHANGED <<Latest, agg>>
    BY <2>5, LatestStays
  <2> QED
    BY <1>2, <2>2, <2>3, <2>4, <2>5, ViewStep
<1> QED
  BY <1>1, <1>2, PruneInvariant, PTL DEF Spec, SharedSpec, Shared!Spec

-----------------------------------------------------------------------------
(* The aggregates follow the visible generation. *)

ReaderInv == Prune /\ Exclusive /\ AggregatesBetween /\ DatesInOrder

\* In one process every step keeps aggregates between their generations.
LEMMA StepAggregatesBetween ==
  ASSUME ReaderInv, TypeOK', [Next]_vars
  PROVE  AggregatesBetween'
<1>t. /\ gens \in [Ids -> Generation] /\ agg \in [Dates -> {0} \cup Ids]
      /\ \A i \in Ids : i \in Int
      /\ \A d \in Dates : agg[d] \in Int /\ agg'[d] \in Int
      /\ Visible \subseteq Ids
  BY DEF ReaderInv, Prune, TypeOK, Visible, WithStatus, Ids
<1>b. /\ \A i \in Visible : i <= agg[gens[i].date]
      /\ \A d \in Dates : agg[d] # 0 => \E i \in Visible : agg[d] <= i
  BY DEF ReaderInv, AggregatesBetween, Visible
<1>1. CASE SameView
  BY <1>1, <1>b DEF SameView, Visible, AggregatesBetween
<1>2. CASE Commits
  <2>1. PICK j \in Jobs : pc[j] = "committing" /\ CommitWrites(j)
    BY <1>2 DEF Commits
  <2> DEFINE id == work[j].id
  <2>2. /\ id \in Ids /\ Visible' = Visible \cup {id}
        /\ \A i \in Visible : i < id /\ gens'[i].date = gens[i].date
        /\ \A d \in Dates : agg[d] <= id
        /\ gens'[id].date = work[j].date /\ work[j].date \in Dates
        /\ agg' = [agg EXCEPT ![work[j].date] = id]
    BY <2>1, CommitStep DEF ReaderInv
  <2>3. ASSUME NEW i \in Visible' PROVE i <= agg'[gens'[i].date]
    <3>1. CASE i = id
      BY <1>t, <2>2, <3>1
    <3>2. CASE i \in Visible
      <4>1. gens[i].date \in Dates
        BY <1>t, <3>2 DEF Generation
      <4> QED
        BY <1>t, <1>b, <2>2, <3>2, <4>1
    <3> QED
      BY <2>2, <3>1, <3>2
  <2>4. ASSUME NEW d \in Dates PROVE \E i \in Visible' : agg'[d] <= i
    BY <1>t, <2>2
  <2> QED
    BY <2>3, <2>4 DEF Visible, AggregatesBetween
<1>3. ASSUME NEW k \in Visible, Superseded(k), Pruned(k)
      PROVE  AggregatesBetween'
  <2>1. PICK m \in Visible : k < m
    BY <1>t, <1>3, NewerVisible
  <2>2. m \in Visible' /\ Visible' = Visible \ {k} /\ agg' = agg
    BY <1>t, <1>3, <2>1 DEF Pruned
  <2>3. \A i \in Visible' : i <= agg'[gens'[i].date]
    BY <1>3, <1>b DEF Pruned
  <2>4. ASSUME NEW d \in Dates, agg'[d] # 0
        PROVE  \E i \in Visible' : agg'[d] <= i
    <3>1. PICK i \in Visible : agg[d] <= i
      BY <1>b, <2>2, <2>4
    <3>2. CASE i = k
      BY <1>t, <2>1, <2>2, <3>1, <3>2
    <3>3. CASE i # k
      BY <2>2, <3>1, <3>3
    <3> QED
      BY <3>2, <3>3
  <2> QED
    BY <2>3, <2>4 DEF Visible, AggregatesBetween
<1> QED
  BY <1>1, <1>2, <1>3, ViewStep DEF ReaderInv

\* The invariant of one process holds at first.
LEMMA InitReaderInv == Init => ReaderInv
<1>1. Init => Prune
  BY InitTypeOK, InitOwnership, InitVisibility
     DEF Prune, OldSuperseded, Init, NoWork
<1> QED
  BY <1>1, InitExclusive, InitDatesInOrder
     DEF ReaderInv, AggregatesBetween, Init, NoGen, WithStatus

\* The invariant of one process is inductive.
LEMMA StepReaderInv ==
  ASSUME OneProcess, ReaderInv, [Next]_vars PROVE ReaderInv'
<1>1. TypeOK' /\ Ownership' /\ Visibility'
  BY StepTypeOK, StepOwnership, StepVisibility DEF ReaderInv, Prune
<1>2. OldSuperseded'
  BY <1>1, StepOldSuperseded DEF ReaderInv
<1>3. Exclusive'
  BY StepExclusive DEF ReaderInv, Prune
<1>4. AggregatesBetween'
  BY <1>1, StepAggregatesBetween
<1>5. DatesInOrder'
  BY StepDatesInOrder DEF ReaderInv, Prune
<1> QED
  BY <1>1, <1>2, <1>3, <1>4, <1>5 DEF ReaderInv, Prune

\* A reader of the visible generation that takes its aggregates gets that
\* generation's own, when one process refreshes (cache.go:610-673,
\* main.go:222).
THEOREM AggregatesAreCurrent ==
  ASSUME OneProcess PROVE Spec => []AggregatesCurrent
<1>1. ReaderInv => AggregatesCurrent
  <2> SUFFICES ASSUME ReaderInv, Latest # 0
               PROVE  agg[gens[Latest].date] = Latest
    BY DEF AggregatesCurrent
  <2>t. /\ gens \in [Ids -> Generation] /\ Visible \subseteq Ids
        /\ \A i \in Ids : i \in Int /\ i > 0
        /\ \A d \in Dates : agg[d] \in Int
    BY DEF ReaderInv, Prune, TypeOK, Visible, WithStatus, Ids
  <2>1. Latest \in Visible /\ \A k \in Visible : k <= Latest
    BY <2>t, NewestIsNewest DEF Latest, Newest, Visible
  <2>2. gens[Latest].date \in Dates
    BY <2>t, <2>1 DEF Generation
  <2>3. Latest <= agg[gens[Latest].date]
    BY <2>1 DEF ReaderInv, AggregatesBetween, Visible
  <2>4. PICK i \in Visible : agg[gens[Latest].date] <= i
    <3>1. agg[gens[Latest].date] # 0
      BY <2>t, <2>1, <2>2, <2>3
    <3> QED
      BY <2>2, <3>1 DEF ReaderInv, AggregatesBetween, Visible
  <2> QED
    BY <2>t, <2>1, <2>2, <2>3, <2>4
<1>2. Spec => []ReaderInv
  <2>1. ReaderInv /\ [Next]_vars => ReaderInv'
    BY StepReaderInv
  <2> QED
    BY InitReaderInv, <2>1, PTL DEF Spec
<1> QED
  BY <1>1, <1>2, PTL

\* One process's store implements Publication: its readers see newer
\* generations, each with its aggregates in one step, and never go back, in
\* generations or in dates.
THEOREM StoreImplementsPublication ==
  ASSUME OneProcess PROVE Spec => ReaderSpec
<1>1. Init => Reader!Init
  BY DEF Init, Reader!Init, Latest, Newest, WithStatus, NoGen
<1>2. ASSUME ReaderInv, [Next]_vars
      PROVE  [Reader!Next]_<<Latest, agg>>
  <2>t. Visible \subseteq Ids /\ \A i \in Ids : i \in Int /\ i > 0
    BY DEF Visible, WithStatus, Ids
  <2>1. CASE SameView
    BY <2>1 DEF SameView, Latest, Visible
  <2>2. CASE Commits
    <3>1. PICK j \in Jobs : pc[j] = "committing" /\ CommitWrites(j)
      BY <2>2 DEF Commits
    <3> DEFINE id == work[j].id
    <3>2. /\ id \in Ids /\ Visible' = Visible \cup {id}
          /\ \A i \in Visible : i < id
          /\ work[j].date \in Dates
          /\ agg' = [agg EXCEPT ![work[j].date] = id]
      BY <1>2, <3>1, CommitStep DEF ReaderInv
    <3>3. Latest < id
      BY <2>t, <3>2, LatestIs
    <3>4. Latest' = id
      BY <2>t, <3>2, <3>3, LatestAfter
    <3>5. \A x \in Dates : agg[x] # 0 => x <= work[j].date
      BY <1>2, <3>1 DEF ReaderInv, DatesInOrder
    <3>6. Reader!Publish(id, work[j].date)
      BY <3>2, <3>3, <3>4, <3>5 DEF Reader!Publish
    <3> QED
      BY <3>2, <3>6 DEF Reader!Next, Ids
  <2>3. ASSUME NEW k \in Visible, Superseded(k), Pruned(k)
        PROVE  UNCHANGED <<Latest, agg>>
    BY <2>3, LatestStays
  <2> QED
    BY <1>2, <2>1, <2>2, <2>3, ViewStep DEF ReaderInv
<1>3. Spec => []ReaderInv
  <2>1. ReaderInv /\ [Next]_vars => ReaderInv'
    BY StepReaderInv
  <2> QED
    BY InitReaderInv, <2>1, PTL DEF Spec
<1> QED
  BY <1>1, <1>2, <1>3, PTL DEF Spec, ReaderSpec, Reader!Spec
-----------------------------------------------------------------------------
(* A refresh has finitely many steps. *)

\* The stages a job still has before it, Retain counted for both statuses.
Stages(j) ==
  LET first == work[j].sweep = "published" IN
    CASE pc[j] = "starting"   -> 11
      [] pc[j] = "fetching"   -> 10
      [] pc[j] = "publishing" -> 9
      [] pc[j] = "writing"    -> 8
      [] pc[j] = "committing" -> 7
      [] pc[j] = "failing"    -> 6
      [] pc[j] = "selecting"  -> IF first THEN 5 ELSE 3
      [] pc[j] = "deleting"   -> IF first THEN 4 ELSE 2
      [] pc[j] = "reaping"    -> 1
      [] OTHER                -> 0

\* A later stage, or one DELETE less in the same stage.
Closer(j) ==
  \/ Stages(j)' < Stages(j)
  \/ /\ Stages(j)' = Stages(j)
     /\ IsFiniteSet(work[j].old)
     /\ Cardinality(work[j].old)' < Cardinality(work[j].old)

\* Whatever a job does brings it closer to its end.
LEMMA JobStepCloser ==
  ASSUME TypeOK, NEW j \in Jobs, JobStep(j)
  PROVE  Closer(j)
<1>t. /\ pc \in [Jobs -> Steps] /\ work \in [Jobs -> Work]
      /\ work[j].sweep \in {"published", "failed"} /\ work[j].old \subseteq Ids
  BY DEF TypeOK, Work
<1>1. CASE Start(j)
  BY <1>1, <1>t DEF Start, Goto, Closer, Stages
<1>2. CASE StartError(j)
  BY <1>2, <1>t DEF StartError, Return, Closer, Stages
<1>3. CASE Fetch(j)
  BY <1>3, <1>t DEF Fetch, Goto, Closer, Stages
<1>4. CASE RefreshError(j)
  BY <1>4, <1>t DEF RefreshError, InTransaction, Goto, Closer, Stages
<1>5. CASE BeginPublish(j) \/ WriteRows(j)
  BY <1>5, <1>t DEF BeginPublish, WriteRows, Goto, Closer, Stages
<1>6. CASE Commit(j) \/ CommitAnswerLost(j)
  BY <1>6, <1>t DEF Commit, CommitAnswerLost, Goto, Closer, Stages
<1>7. CASE Fail(j)
  BY <1>7, <1>t DEF Fail, Goto, Closer, Stages
<1>8. CASE RetainSelect(j)
  <2>1. pc'[j] = "deleting" /\ work'[j].sweep = work[j].sweep /\ pc[j] = "selecting"
    BY <1>8, <1>t DEF RetainSelect, Goto
  <2> QED
    BY <1>t, <2>1 DEF Closer, Stages
<1>9. CASE RetainDelete(j)
  <2>1. PICK i \in work[j].old :
          /\ pc[j] = "deleting" /\ pc' = pc
          /\ work' = [work EXCEPT ![j].old = work[j].old \ {i}]
    BY <1>9 DEF RetainDelete
  <2>2. work'[j].sweep = work[j].sweep /\ work'[j].old = work[j].old \ {i}
    BY <1>t, <2>1
  <2>3. IsFiniteSet(work[j].old)
    <3>1. IsFiniteSet(Ids)
      BY RefreshAssumption, FS_Interval DEF Ids
    <3> QED
      BY <1>t, <3>1, FS_Subset
  <2>4. /\ Cardinality(work[j].old) \in Nat
        /\ Cardinality(work[j].old \ {i}) = Cardinality(work[j].old) - 1
    BY <2>1, <2>3, FS_CardinalityType, FS_RemoveElement
  <2>5. Cardinality(work[j].old)' < Cardinality(work[j].old)
    BY <2>2, <2>4
  <2>6. Stages(j)' = Stages(j)
    BY <2>1, <2>2 DEF Stages
  <2> QED
    BY <2>3, <2>5, <2>6 DEF Closer
<1>10. CASE RetainNext(j)
  <2>1. CASE work[j].sweep = "published"
    <3>1. pc[j] = "deleting" /\ pc'[j] = "selecting" /\ work'[j].sweep = "failed"
      BY <1>10, <1>t, <2>1 DEF RetainNext, Goto, Work
    <3> QED
      BY <2>1, <3>1 DEF Closer, Stages
  <2>2. CASE work[j].sweep # "published"
    BY <1>10, <1>t, <2>2 DEF RetainNext, Goto, Closer, Stages
  <2> QED
    BY <2>1, <2>2
<1>11. CASE RetainReap(j) \/ RetainError(j)
  BY <1>11, <1>t DEF RetainReap, RetainError, Return, Closer, Stages
<1> QED
  BY <1>1, <1>2, <1>3, <1>4, <1>5, <1>6, <1>7, <1>8, <1>9, <1>10, <1>11 DEF JobStep, Proceed

\* A step of one job leaves the others where they are.
LEMMA OthersStay ==
  ASSUME TypeOK, NEW k \in Jobs, Trigger(k) \/ JobStep(k), NEW j \in Jobs \ {k}
  PROVE  pc'[j] = pc[j] /\ work'[j] = work[j]
<1>t. pc \in [Jobs -> Steps] /\ work \in [Jobs -> Work]
  BY DEF TypeOK
<1>1. CASE Trigger(k) \/ Start(k) \/ StartError(k)
  BY <1>1, <1>t DEF Trigger, Start, StartError, Goto, Return
<1>2. CASE Fetch(k) \/ RefreshError(k) \/ BeginPublish(k) \/ WriteRows(k)
  BY <1>2, <1>t DEF Fetch, RefreshError, BeginPublish, WriteRows, Goto
<1>3. CASE Commit(k) \/ CommitAnswerLost(k) \/ Fail(k)
  BY <1>3, <1>t DEF Commit, CommitAnswerLost, Fail, Goto
<1>4. CASE RetainSelect(k) \/ RetainDelete(k) \/ RetainNext(k)
  BY <1>4, <1>t DEF RetainSelect, RetainDelete, RetainNext, Goto
<1>5. CASE RetainReap(k) \/ RetainError(k)
  BY <1>5, <1>t DEF RetainReap, RetainError, Return
<1> QED
  BY <1>1, <1>2, <1>3, <1>4, <1>5 DEF JobStep, Proceed

\* A refresh that is under way is left alone or brought closer to its end by every
\* step of the system, for any retention and any number of generations: that none
\* runs for ever depends on the fairness of its steps alone (refresh.go:55-93,
\* store.go:295-329).
THEOREM RefreshGetsCloser ==
  Spec => [][\A j \in Jobs : pc[j] # "idle" =>
               Closer(j) \/ (pc'[j] = pc[j] /\ work'[j] = work[j])]_vars
<1>1. ASSUME TypeOK, [Next]_vars, NEW j \in Jobs, pc[j] # "idle"
      PROVE  Closer(j) \/ (pc'[j] = pc[j] /\ work'[j] = work[j])
  <2>1. CASE UNCHANGED vars
    BY <2>1 DEF vars
  <2>2. CASE Tick
    BY <2>2 DEF Tick
  <2>3. ASSUME NEW h \in Hosts, Crash(h)
        PROVE  Closer(j) \/ (pc'[j] = pc[j] /\ work'[j] = work[j])
    <3>1. CASE Host[j] = h
      <4>1. pc'[j] = "idle"
        BY <2>3, <3>1 DEF Crash
      <4>2. Stages(j)' = 0
        BY <4>1 DEF Stages
      <4>3. Stages(j) > 0
        BY <1>1 DEF TypeOK, Steps, Stages
      <4> QED
        BY <4>2, <4>3 DEF Closer
    <3>2. CASE Host[j] # h
      BY <2>3, <3>2 DEF Crash
    <3> QED
      BY <3>1, <3>2
  <2>4. ASSUME NEW k \in Jobs, Trigger(k) \/ JobStep(k)
        PROVE  Closer(j) \/ (pc'[j] = pc[j] /\ work'[j] = work[j])
    <3>1. CASE k = j
      BY <1>1, <2>4, <3>1, JobStepCloser DEF Trigger
    <3>2. CASE k # j
      BY <1>1, <2>4, <3>2, OthersStay
    <3> QED
      BY <3>1, <3>2
  <2> QED
    BY <1>1, <2>1, <2>2, <2>3, <2>4 DEF Next
<1>2. ASSUME TypeOK, [Next]_vars
      PROVE  [\A j \in Jobs : pc[j] # "idle" =>
                Closer(j) \/ (pc'[j] = pc[j] /\ work'[j] = work[j])]_vars
  BY <1>1, <1>2
<1> QED
  BY <1>2, TypeCorrect, PTL DEF Spec


=============================================================================
