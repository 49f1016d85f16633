----------------------------- MODULE StoreProofs -----------------------------
(***************************************************************************)
(* Theorems of Store.tla, for every set of markers, clusters, objectives,  *)
(* events and runs and every bound.  The proofs go by way of Operation: a  *)
(* step of the store leaves memory as it was, sets it back to the file, or *)
(* makes one operation on it; and it leaves the file as it was or writes   *)
(* the new memory to it.  So a predicate on states that the initial state  *)
(* satisfies and every operation preserves holds of memory and file always.*)
(***************************************************************************)
EXTENDS Store, FiniteSetTheorems, SequenceTheorems, TLAPS

Operation(st, new) ==
  \/ \E slo \in SLOs : new = UpdateSLO(st, slo)
  \/ \E run \in Runs : run.id \notin Markers /\ new = AddRun(st, run)
  \/ \E m \in Markers, cluster \in Clusters, slo \in SLOs :
       ~Exists(st, m) /\ new = CreateSession(st, m, cluster, slo)
  \/ \E e \in Truths :
       Exists(st, e.marker) /\ ~KnownTruth(st, e) /\ new = AddTruth(st, e)
  \/ \E e \in Observations :
       ~KnownObservation(st, e) /\ new = AddObservation(st, e)
  \/ \E m \in Markers, run \in Runs :
       run.id = m /\ Exists(st, m) /\ new = CompleteSession(st, m, run)

\* Every step of the store, with any outcome of its save, is of this form.
LEMMA StepForm ==
  ASSUME [StoreNext]_storeVars
  PROVE  /\ mem' = mem \/ mem' = disk \/ Operation(mem, mem')
         /\ disk' = disk \/ disk' = mem'
<1> USE DEF Save, Saved, SaveFails, DiesSaving
<1>1. CASE \E slo \in SLOs : DoUpdateSLO(slo)
  BY <1>1 DEF DoUpdateSLO, Operation
<1>2. CASE \E run \in DemoRuns : DoAddRun(run)
  BY <1>2 DEF DoAddRun, DemoRuns, Operation
<1>3. CASE \E m \in Markers, cluster \in Clusters, slo \in SLOs :
             DoCreateSession(m, cluster, slo)
  BY <1>3 DEF DoCreateSession, Operation
<1>4. CASE \E e \in Truths : DoAddTruth(e)
  BY <1>4 DEF DoAddTruth, Duplicate, Operation
<1>5. CASE \E e \in Observations : DoAddObservation(e)
  BY <1>5 DEF DoAddObservation, Duplicate, Operation
<1>6. CASE \E m \in Markers : \E run \in RunsOf(m) : DoCompleteSession(m, run)
  BY <1>6 DEF DoCompleteSession, RunsOf, Operation
<1>7. CASE Dies
  BY <1>7 DEF Dies
<1>8. CASE UNCHANGED storeVars
  BY <1>8 DEF storeVars
<1>9. QED
  BY <1>1, <1>2, <1>3, <1>4, <1>5, <1>6, <1>7, <1>8 DEF StoreNext

----------------------------------------------------------------------------
(* Types.                                                                  *)

LEMMA WithRunType ==
  ASSUME NEW runs \in Seq(Runs), NEW run \in Runs
  PROVE  WithRun(runs, run) \in Seq(Runs)
<1>1. CASE HasId(runs, run.id)
  <2> DEFINE k == CHOOSE i \in DOMAIN runs : runs[i].id = run.id
  <2>1. k \in 1..Len(runs)
    BY <1>1 DEF HasId
  <2>2. [runs EXCEPT ![k] = run] \in Seq(Runs)
    BY <2>1, ExceptSeq
  <2>3. QED
    BY <1>1, <2>2 DEF WithRun
<1>2. CASE ~HasId(runs, run.id)
  <2> DEFINE longer == <<run>> \o runs
  <2>1. longer \in Seq(Runs) /\ Len(longer) = Len(runs) + 1
    OBVIOUS
  <2>2. CASE Len(longer) > MaxRuns
    <3>1. MaxRuns \in Nat \ {0}
      BY StoreAssumption
    <3>2. SubSeq(longer, 1, MaxRuns) \in Seq(Runs)
      BY <2>1, <2>2, <3>1
    <3>3. QED
      BY <1>2, <2>2, <3>2 DEF WithRun
  <2>3. CASE ~(Len(longer) > MaxRuns)
    BY <1>2, <2>1, <2>3 DEF WithRun
  <2>4. QED
    BY <2>2, <2>3
<1>3. QED
  BY <1>1, <1>2

LEMMA NewestType ==
  ASSUME NEW S, NEW s \in Seq(S), NEW n \in Nat
  PROVE  Newest(s, n) \in Seq(S)
<1>1. CASE Len(s) > n
  <2>1. SubSeq(s, Len(s) - n + 1, Len(s)) \in Seq(S)
    BY <1>1
  <2>2. QED
    BY <1>1, <2>1 DEF Newest
<1>2. CASE ~(Len(s) > n)
  BY <1>2 DEF Newest
<1>3. QED
  BY <1>1, <1>2

LEMMA NamedType ==
  ASSUME NEW c \in Clusters
  PROVE  Named(c) \in Rows
BY DEF Rows

\* What Change leaves alone and what it sets.
LEMMA ChangeForm ==
  ASSUME NEW st \in State, NEW m \in Markers, NEW session \in Session,
         NEW cluster \in Clusters, NEW row \in Row
  PROVE  LET new == Change(st, m, session, cluster, row)
         IN  /\ new \in State
             /\ new.slo = st.slo /\ new.runs = st.runs /\ new.window = st.window
             /\ \A n \in Markers :
                  new.sessions[n] = IF n = m THEN session ELSE st.sessions[n]
             /\ \A r \in Rows :
                  new.clusters[r] = IF r = Named(cluster) THEN row ELSE st.clusters[r]
<1> DEFINE sessions == [st.sessions EXCEPT ![m] = session]
           clusters == [st.clusters EXCEPT ![Named(cluster)] = row]
<1>1. st.sessions \in [Markers -> Session] /\ st.clusters \in [Rows -> Row]
  BY DEF State
<1>2. Named(cluster) \in Rows
  BY NamedType
<1>3. sessions \in [Markers -> Session]
  BY <1>1
<1>4. clusters \in [Rows -> Row]
  BY <1>1, <1>2
<1>5. Change(st, m, session, cluster, row)
        = [st EXCEPT !.sessions = sessions, !.clusters = clusters]
  BY DEF Change
<1> HIDE DEF sessions, clusters
<1>6. LET new == [st EXCEPT !.sessions = sessions, !.clusters = clusters]
      IN  /\ new \in State
          /\ new.slo = st.slo /\ new.runs = st.runs /\ new.window = st.window
          /\ new.sessions = sessions /\ new.clusters = clusters
  BY <1>3, <1>4 DEF State
<1>7. \A n \in Markers : sessions[n] = IF n = m THEN session ELSE st.sessions[n]
  BY <1>1 DEF sessions
<1>8. \A r \in Rows :
        clusters[r] = IF r = Named(cluster) THEN row ELSE st.clusters[r]
  BY <1>1, <1>2 DEF clusters
<1>9. QED
  BY <1>5, <1>6, <1>7, <1>8

LEMMA RowsOfState ==
  ASSUME NEW st \in State, NEW c \in Clusters
  PROVE  /\ RowOf(st, c) \in Row
         /\ [RowOf(st, c) EXCEPT !.active = @ + 1] \in Row
         /\ [RowOf(st, c) EXCEPT !.truth = @ + 1] \in Row
         /\ [RowOf(st, c) EXCEPT !.observations = @ + 1] \in Row
<1>1. RowOf(st, c) \in Row
  BY NamedType DEF State, RowOf
<1>2. QED
  BY <1>1 DEF Row

LEMMA SessionsOfState ==
  ASSUME NEW st \in State, NEW m \in Markers
  PROVE  st.sessions[m] \in Session
BY DEF State

LEMMA WithoutActiveType ==
  ASSUME NEW session \in Session, NEW row \in Row
  PROVE  WithoutActive(session, row) \in Row
<1>1. CASE session.status # "completed" /\ row.active > 0
  <2>1. row.active \in Nat /\ row.active - 1 \in Nat
    BY <1>1 DEF Row
  <2>2. [row EXCEPT !.active = row.active - 1] \in Row
    BY <2>1 DEF Row
  <2>3. QED
    BY <1>1, <2>2 DEF WithoutActive
<1>2. CASE ~(session.status # "completed" /\ row.active > 0)
  BY <1>2 DEF WithoutActive
<1>3. QED
  BY <1>1, <1>2

\* The sessions that the operations store are sessions.
LEMMA NewSessionType ==
  ASSUME NEW cluster \in Clusters, NEW slo \in SLOs
  PROVE  [status |-> "collecting", cluster |-> cluster, slo |-> slo,
          truth |-> <<>>, observations |-> <<>>, runId |-> NoRun] \in Session
BY DEF Session

LEMMA TruthAppendedType ==
  ASSUME NEW session \in Session, NEW e \in Truths
  PROVE  [session EXCEPT !.truth = Append(@, e)] \in Session
<1>1. Append(session.truth, e) \in Seq(Truths)
  BY DEF Session
<1>2. QED
  BY <1>1 DEF Session

LEMMA AttachType ==
  ASSUME NEW session \in Session, NEW e \in Observations
  PROVE  Attach(session, e) \in Session
<1>1. Append(session.observations, e) \in Seq(Observations)
  BY DEF Session
<1>2. [session EXCEPT !.observations = Append(@, e)] \in Session
  BY <1>1 DEF Session
<1>3. QED
  BY <1>2 DEF Attach

LEMMA CompletedType ==
  ASSUME NEW session \in Session, NEW run \in Runs
  PROVE  [session EXCEPT !.status = "completed", !.runId = run.id] \in Session
<1>1. run.id \in RunIds
  BY DEF RunIds
<1>2. QED
  BY <1>1 DEF Session

LEMMA EventTypes ==
  /\ \A e \in Truths : e.marker \in Markers /\ e.cluster \in Clusters
  /\ \A e \in Observations : e.marker \in Markers /\ e.cluster \in Clusters
BY StoreAssumption

LEMMA InitStateType == InitState \in State
<1>1. (CHOOSE c \in Clusters : TRUE) \in Clusters
  BY StoreAssumption
<1>2. NoSession \in Session
  BY <1>1 DEF NoSession, Session
<1>3. InitSLO \in SLOs /\ SeedRuns \in Seq(DemoRuns)
  BY StoreAssumption
<1>4. SeedRuns \in Seq(Runs)
  <2>1. DemoRuns \subseteq Runs
    BY DEF DemoRuns
  <2>2. QED
    BY <1>3, <2>1
<1>5. [m \in Markers |-> NoSession] \in [Markers -> Session]
  BY <1>2
<1>6. [r \in Rows |-> [truth |-> 0, observations |-> 0, active |-> 0]] \in [Rows -> Row]
  BY DEF Row
<1>7. QED
  BY <1>3, <1>4, <1>5, <1>6 DEF InitState, State

----------------------------------------------------------------------------
(* What each operation makes of a state.                                   *)

LEMMA UpdateSLOForm ==
  ASSUME NEW st \in State, NEW slo \in SLOs
  PROVE  LET new == UpdateSLO(st, slo)
         IN  /\ new \in State /\ new.slo = slo
             /\ new.runs = st.runs /\ new.window = st.window
             /\ new.sessions = st.sessions /\ new.clusters = st.clusters
BY DEF UpdateSLO, State

LEMMA AddRunForm ==
  ASSUME NEW st \in State, NEW run \in Runs
  PROVE  LET new == AddRun(st, run)
         IN  /\ new \in State /\ new.slo = st.slo
             /\ new.runs = WithRun(st.runs, run) /\ new.window = st.window
             /\ new.sessions = st.sessions /\ new.clusters = st.clusters
<1>1. WithRun(st.runs, run) \in Seq(Runs)
  BY WithRunType DEF State
<1>2. QED
  BY <1>1 DEF AddRun, State

\* A changed row: the named counter has gone up by one.
LEMMA RowCounts ==
  ASSUME NEW row \in Row
  PROVE  /\ LET up == [row EXCEPT !.active = @ + 1]
            IN  up.active = row.active + 1 /\ up.truth = row.truth
                  /\ up.observations = row.observations
         /\ LET up == [row EXCEPT !.truth = @ + 1]
            IN  up.active = row.active /\ up.truth = row.truth + 1
                  /\ up.observations = row.observations
         /\ LET up == [row EXCEPT !.observations = @ + 1]
            IN  up.active = row.active /\ up.truth = row.truth
                  /\ up.observations = row.observations + 1
BY DEF Row

LEMMA CreateSessionForm ==
  ASSUME NEW st \in State, NEW m \in Markers, NEW cluster \in Clusters, NEW slo \in SLOs,
         NEW new, new = CreateSession(st, m, cluster, slo)
  PROVE  /\ new \in State /\ new.slo = st.slo
         /\ new.runs = st.runs /\ new.window = st.window
         /\ \A n \in Markers \ {m} : new.sessions[n] = st.sessions[n]
         /\ new.sessions[m].status = "collecting" /\ new.sessions[m].cluster = cluster
         /\ new.sessions[m].slo = slo
         /\ new.sessions[m].truth = <<>> /\ new.sessions[m].observations = <<>>
         /\ new.sessions[m].runId = NoRun
         /\ \A r \in Rows :
              /\ new.clusters[r].truth = st.clusters[r].truth
              /\ new.clusters[r].active
                   = IF r = Named(cluster) THEN st.clusters[r].active + 1
                                           ELSE st.clusters[r].active
<1> DEFINE session == [status |-> "collecting", cluster |-> cluster, slo |-> slo,
                       truth |-> <<>>, observations |-> <<>>, runId |-> NoRun]
           row == [RowOf(st, cluster) EXCEPT !.active = @ + 1]
<1>1. session \in Session
  BY NewSessionType
<1>2. row \in Row
  BY RowsOfState
<1>3. new = Change(st, m, session, cluster, row)
  BY DEF CreateSession
<1>4. /\ row.active = st.clusters[Named(cluster)].active + 1
      /\ row.truth = st.clusters[Named(cluster)].truth
  BY RowsOfState, RowCounts DEF RowOf
<1>5. /\ session.status = "collecting" /\ session.cluster = cluster
      /\ session.slo = slo
      /\ session.truth = <<>> /\ session.observations = <<>> /\ session.runId = NoRun
  OBVIOUS
<1> HIDE DEF session, row
<1>6. QED
  BY <1>1, <1>2, <1>3, <1>4, <1>5, ChangeForm

LEMMA AddTruthForm ==
  ASSUME NEW st \in State, NEW e \in Truths, NEW new, new = AddTruth(st, e)
  PROVE  /\ new \in State /\ new.slo = st.slo
         /\ new.runs = st.runs /\ new.window = st.window
         /\ \A n \in Markers :
              /\ new.sessions[n].status = st.sessions[n].status
              /\ new.sessions[n].cluster = st.sessions[n].cluster
              /\ new.sessions[n].slo = st.sessions[n].slo
              /\ new.sessions[n].observations = st.sessions[n].observations
              /\ new.sessions[n].runId = st.sessions[n].runId
              /\ new.sessions[n].truth
                   = IF n = e.marker THEN Append(st.sessions[n].truth, e)
                                     ELSE st.sessions[n].truth
         /\ \A r \in Rows :
              /\ new.clusters[r].active = st.clusters[r].active
              /\ new.clusters[r].truth
                   = IF r = Named(e.cluster) THEN st.clusters[r].truth + 1
                                             ELSE st.clusters[r].truth
<1> DEFINE old     == st.sessions[e.marker]
           session == [old EXCEPT !.truth = Append(@, e)]
           row     == [RowOf(st, e.cluster) EXCEPT !.truth = @ + 1]
<1>0. e.marker \in Markers /\ e.cluster \in Clusters
  BY EventTypes
<1>1. old \in Session /\ session \in Session
  BY <1>0, SessionsOfState, TruthAppendedType
<1>2. row \in Row
  BY <1>0, RowsOfState
<1>3. new = Change(st, e.marker, session, e.cluster, row)
  BY DEF AddTruth
<1>4. /\ row.active = st.clusters[Named(e.cluster)].active
      /\ row.truth = st.clusters[Named(e.cluster)].truth + 1
  BY <1>0, RowsOfState, RowCounts DEF RowOf
<1>5. /\ session.status = old.status /\ session.cluster = old.cluster
      /\ session.slo = old.slo
      /\ session.observations = old.observations /\ session.runId = old.runId
      /\ session.truth = Append(old.truth, e)
  BY <1>1 DEF Session
<1> HIDE DEF session, row
<1>6. /\ new \in State /\ new.slo = st.slo
      /\ new.runs = st.runs /\ new.window = st.window
      /\ \A n \in Markers :
           new.sessions[n] = IF n = e.marker THEN session ELSE st.sessions[n]
      /\ \A r \in Rows :
           new.clusters[r] = IF r = Named(e.cluster) THEN row ELSE st.clusters[r]
  BY <1>0, <1>1, <1>2, <1>3, ChangeForm
<1>7. QED
  BY <1>4, <1>5, <1>6

LEMMA AddObservationForm ==
  ASSUME NEW st \in State, NEW e \in Observations, NEW new, new = AddObservation(st, e)
  PROVE  /\ new \in State /\ new.slo = st.slo
         /\ new.runs = st.runs
         /\ new.window = Newest(Append(st.window, e), MaxWindow)
         /\ \A n \in Markers :
              /\ new.sessions[n].status = st.sessions[n].status
              /\ new.sessions[n].cluster = st.sessions[n].cluster
              /\ new.sessions[n].slo = st.sessions[n].slo
              /\ new.sessions[n].truth = st.sessions[n].truth
              /\ new.sessions[n].runId = st.sessions[n].runId
              /\ new.sessions[n].observations
                   = IF n = e.marker /\ Exists(st, n)
                     THEN Append(st.sessions[n].observations, e)
                     ELSE st.sessions[n].observations
         /\ \A r \in Rows : /\ new.clusters[r].active = st.clusters[r].active
                            /\ new.clusters[r].truth = st.clusters[r].truth
<1> DEFINE old == st.sessions[e.marker]
           session == Attach(old, e)
           row == [RowOf(st, e.cluster) EXCEPT !.observations = @ + 1]
           changed == Change(st, e.marker, session, e.cluster, row)
           window == Newest(Append(st.window, e), MaxWindow)
<1>0. e.marker \in Markers /\ e.cluster \in Clusters
  BY EventTypes
<1>1. old \in Session /\ session \in Session
  BY <1>0, SessionsOfState, AttachType
<1>2. row \in Row
  BY <1>0, RowsOfState
<1>3. window \in Seq(Observations)
  <2>1. Append(st.window, e) \in Seq(Observations)
    BY DEF State
  <2>2. MaxWindow \in Nat
    BY StoreAssumption
  <2>3. QED
    BY <2>1, <2>2, NewestType
<1>4. new = [changed EXCEPT !.window = Newest(Append(@, e), MaxWindow)]
  BY DEF AddObservation
<1>5. /\ row.active = st.clusters[Named(e.cluster)].active
      /\ row.truth = st.clusters[Named(e.cluster)].truth
  BY <1>0, RowsOfState, RowCounts DEF RowOf
<1>6. /\ session.status = old.status /\ session.cluster = old.cluster
      /\ session.slo = old.slo
      /\ session.truth = old.truth /\ session.runId = old.runId
      /\ session.observations = IF Exists(st, e.marker) THEN Append(old.observations, e)
                                ELSE old.observations
  BY <1>1 DEF Session, Attach, Exists
<1> HIDE DEF session, row, changed
<1>7. /\ changed \in State
      /\ changed.slo = st.slo /\ changed.runs = st.runs /\ changed.window = st.window
      /\ \A n \in Markers :
           changed.sessions[n] = IF n = e.marker THEN session ELSE st.sessions[n]
      /\ \A r \in Rows :
           changed.clusters[r] = IF r = Named(e.cluster) THEN row ELSE st.clusters[r]
  BY <1>0, <1>1, <1>2, ChangeForm DEF changed
<1>8. new = [changed EXCEPT !.window = window]
  BY <1>4, <1>7 DEF State
<1> HIDE DEF window
<1>9. /\ new \in State /\ new.slo = changed.slo
      /\ new.runs = changed.runs /\ new.window = window
      /\ new.sessions = changed.sessions /\ new.clusters = changed.clusters
  BY <1>3, <1>7, <1>8 DEF State
<1>10. QED
  BY <1>5, <1>6, <1>7, <1>9 DEF window

LEMMA CompleteSessionForm ==
  ASSUME NEW st \in State, NEW m \in Markers, NEW run \in Runs,
         NEW new, new = CompleteSession(st, m, run)
  PROVE  /\ new \in State /\ new.slo = st.slo
         /\ new.runs = WithRun(st.runs, run) /\ new.window = st.window
         /\ \A n \in Markers :
              /\ new.sessions[n].status
                   = IF n = m THEN "completed" ELSE st.sessions[n].status
              /\ new.sessions[n].cluster = st.sessions[n].cluster
              /\ new.sessions[n].slo = st.sessions[n].slo
              /\ new.sessions[n].truth = st.sessions[n].truth
              /\ new.sessions[n].observations = st.sessions[n].observations
              /\ new.sessions[n].runId = IF n = m THEN run.id ELSE st.sessions[n].runId
         /\ \A r \in Rows :
              new.clusters[r]
                = IF r = Named(st.sessions[m].cluster)
                  THEN WithoutActive(st.sessions[m], st.clusters[r]) ELSE st.clusters[r]
<1> DEFINE old == st.sessions[m]
           session == [old EXCEPT !.status = "completed", !.runId = run.id]
           row == WithoutActive(old, RowOf(st, old.cluster))
           changed == Change(st, m, session, old.cluster, row)
           runs == WithRun(st.runs, run)
<1>1. old \in Session /\ old.cluster \in Clusters
  BY SessionsOfState DEF Session
<1>2. session \in Session
  BY <1>1, CompletedType
<1>3. row \in Row
  BY <1>1, RowsOfState, WithoutActiveType
<1>4. runs \in Seq(Runs)
  BY WithRunType DEF State
<1>5. new = [changed EXCEPT !.runs = WithRun(@, run)]
  BY DEF CompleteSession
<1>6. row = WithoutActive(old, st.clusters[Named(old.cluster)])
  BY DEF RowOf
<1>7. /\ session.status = "completed" /\ session.cluster = old.cluster
      /\ session.slo = old.slo
      /\ session.truth = old.truth /\ session.observations = old.observations
      /\ session.runId = run.id
  BY <1>1 DEF Session
<1> HIDE DEF session, row, changed
<1>8. /\ changed \in State
      /\ changed.slo = st.slo /\ changed.runs = st.runs /\ changed.window = st.window
      /\ \A n \in Markers :
           changed.sessions[n] = IF n = m THEN session ELSE st.sessions[n]
      /\ \A r \in Rows :
           changed.clusters[r] = IF r = Named(old.cluster) THEN row ELSE st.clusters[r]
  BY <1>1, <1>2, <1>3, ChangeForm DEF changed
<1>9. new = [changed EXCEPT !.runs = runs]
  BY <1>5, <1>8 DEF State
<1> HIDE DEF runs
<1>10. /\ new \in State /\ new.slo = changed.slo
       /\ new.runs = runs /\ new.window = changed.window
       /\ new.sessions = changed.sessions /\ new.clusters = changed.clusters
  BY <1>4, <1>8, <1>9 DEF State
<1>11. QED
  BY <1>6, <1>7, <1>8, <1>10 DEF runs

LEMMA OperationType ==
  ASSUME NEW st \in State, NEW new, Operation(st, new)
  PROVE  new \in State
<1>1. CASE \E slo \in SLOs : new = UpdateSLO(st, slo)
  BY <1>1, UpdateSLOForm
<1>2. CASE \E run \in Runs : run.id \notin Markers /\ new = AddRun(st, run)
  BY <1>2, AddRunForm
<1>3. CASE \E m \in Markers, cluster \in Clusters, slo \in SLOs :
             ~Exists(st, m) /\ new = CreateSession(st, m, cluster, slo)
  <2>1. PICK m \in Markers, cluster \in Clusters, slo \in SLOs :
          new = CreateSession(st, m, cluster, slo)
    BY <1>3
  <2>2. QED
    BY <2>1, CreateSessionForm
<1>4. CASE \E e \in Truths :
             Exists(st, e.marker) /\ ~KnownTruth(st, e) /\ new = AddTruth(st, e)
  BY <1>4, AddTruthForm
<1>5. CASE \E e \in Observations :
             ~KnownObservation(st, e) /\ new = AddObservation(st, e)
  BY <1>5, AddObservationForm
<1>6. CASE \E m \in Markers, run \in Runs :
             run.id = m /\ Exists(st, m) /\ new = CompleteSession(st, m, run)
  <2>1. PICK m \in Markers, run \in Runs : new = CompleteSession(st, m, run)
    BY <1>6
  <2>2. QED
    BY <2>1, CompleteSessionForm
<1>7. QED
  BY <1>1, <1>2, <1>3, <1>4, <1>5, <1>6 DEF Operation

\* Memory and file are states of the store, always.
THEOREM StoreTypeCorrect == StoreSpec => []StoreTypeOK
<1>1. StoreInit => StoreTypeOK
  BY InitStateType DEF StoreInit, StoreTypeOK
<1>2. StoreTypeOK /\ [StoreNext]_storeVars => StoreTypeOK'
  BY StepForm, OperationType DEF StoreTypeOK
<1>3. QED
  BY <1>1, <1>2, PTL DEF StoreSpec

----------------------------------------------------------------------------
(* The gauge of active sessions.                                            *)

ActiveMatches(st) ==
  \A r \in Rows : st.clusters[r].active = Cardinality(Collecting(st, r))

LEMMA CollectingFinite ==
  ASSUME NEW st, NEW r
  PROVE  IsFiniteSet(Collecting(st, r))
<1>1. Collecting(st, r) \subseteq Markers /\ IsFiniteSet(Markers)
  BY StoreAssumption DEF Collecting
<1>2. QED
  BY <1>1, FS_Subset

\* An operation that leaves status and cluster of the sessions and the active
\* counts alone.
LEMMA ActiveUnchanged ==
  ASSUME NEW st, NEW new, ActiveMatches(st),
         \A n \in Markers : /\ new.sessions[n].status = st.sessions[n].status
                            /\ new.sessions[n].cluster = st.sessions[n].cluster,
         \A r \in Rows : new.clusters[r].active = st.clusters[r].active
  PROVE  ActiveMatches(new)
<1>1. \A r \in Rows : Collecting(new, r) = Collecting(st, r)
  BY DEF Collecting
<1>2. QED
  BY <1>1 DEF ActiveMatches

\* A session is created: its cluster has one more.
LEMMA ActiveCreated ==
  ASSUME NEW st \in State, ActiveMatches(st), NEW m \in Markers, NEW cluster \in Clusters,
         NEW slo \in SLOs, ~Exists(st, m),
         NEW new, new = CreateSession(st, m, cluster, slo)
  PROVE  ActiveMatches(new)
<1>1. /\ \A n \in Markers \ {m} : new.sessions[n] = st.sessions[n]
      /\ new.sessions[m].status = "collecting" /\ new.sessions[m].cluster = cluster
  BY CreateSessionForm
<1>2. \A r \in Rows :
        new.clusters[r].active
          = IF r = Named(cluster) THEN st.clusters[r].active + 1 ELSE st.clusters[r].active
  BY CreateSessionForm
<1>3. SUFFICES ASSUME NEW r \in Rows
               PROVE  new.clusters[r].active = Cardinality(Collecting(new, r))
  BY DEF ActiveMatches
<1>4. st.clusters[r].active = Cardinality(Collecting(st, r))
  BY DEF ActiveMatches
<1>5. m \notin Collecting(st, r)
  BY DEF Collecting, Exists
<1>6. CASE r = Named(cluster)
  <2>1. Collecting(new, r) = Collecting(st, r) \cup {m}
    BY <1>1, <1>6 DEF Collecting
  <2>2. Cardinality(Collecting(new, r)) = Cardinality(Collecting(st, r)) + 1
    BY <1>5, <2>1, CollectingFinite, FS_AddElement
  <2>3. new.clusters[r].active = st.clusters[r].active + 1
    BY <1>2, <1>6
  <2>4. QED
    BY <1>4, <2>2, <2>3
<1>7. CASE r # Named(cluster)
  <2>1. Collecting(new, r) = Collecting(st, r)
    BY <1>1, <1>5, <1>7 DEF Collecting
  <2>2. QED
    BY <1>2, <1>4, <1>7, <2>1
<1>8. QED
  BY <1>6, <1>7

\* A session is completed: its cluster has one fewer, if it was collecting.
LEMMA ActiveCompleted ==
  ASSUME NEW st \in State, ActiveMatches(st), NEW m \in Markers, NEW run \in Runs,
         Exists(st, m), NEW new, new = CompleteSession(st, m, run)
  PROVE  ActiveMatches(new)
<1> DEFINE session == st.sessions[m]
<1>1. session \in Session
  BY SessionsOfState
<1>2. \A n \in Markers :
        /\ new.sessions[n].status = IF n = m THEN "completed" ELSE st.sessions[n].status
        /\ new.sessions[n].cluster = st.sessions[n].cluster
  BY CompleteSessionForm
<1>3. \A r \in Rows :
        new.clusters[r] = IF r = Named(session.cluster)
                          THEN WithoutActive(session, st.clusters[r]) ELSE st.clusters[r]
  BY CompleteSessionForm
<1>4. SUFFICES ASSUME NEW r \in Rows
               PROVE  new.clusters[r].active = Cardinality(Collecting(new, r))
  BY DEF ActiveMatches
<1>5. st.clusters[r] \in Row /\ st.clusters[r].active = Cardinality(Collecting(st, r))
  BY DEF State, ActiveMatches
<1>6. CASE session.status = "collecting" /\ r = Named(session.cluster)
  <2>1. m \in Collecting(st, r)
    BY <1>6 DEF Collecting
  <2>2. Collecting(new, r) = Collecting(st, r) \ {m}
    BY <1>2 DEF Collecting
  <2>3. Cardinality(Collecting(new, r)) = Cardinality(Collecting(st, r)) - 1
    BY <2>1, <2>2, CollectingFinite, FS_RemoveElement
  <2>4. Cardinality(Collecting(st, r)) # 0
    BY <2>1, CollectingFinite, FS_EmptySet
  <2>5. st.clusters[r].active > 0 /\ st.clusters[r].active \in Nat
    BY <1>5, <2>4 DEF Row
  <2>6. new.clusters[r] = [st.clusters[r] EXCEPT !.active = @ - 1]
    BY <1>3, <1>6, <2>5 DEF WithoutActive
  <2>7. new.clusters[r].active = st.clusters[r].active - 1
    BY <1>5, <2>6 DEF Row
  <2>8. QED
    BY <1>5, <2>3, <2>7
<1>7. CASE session.status = "collecting" /\ r # Named(session.cluster)
  <2>1. Collecting(new, r) = Collecting(st, r)
    BY <1>2, <1>7 DEF Collecting
  <2>2. QED
    BY <1>3, <1>5, <1>7, <2>1
<1>8. CASE session.status # "collecting"
  <2>1. session.status = "completed"
    BY <1>1, <1>8 DEF Session, Exists
  <2>2. Collecting(new, r) = Collecting(st, r)
    BY <1>2, <1>8 DEF Collecting
  <2>3. new.clusters[r] = st.clusters[r]
    BY <1>3, <2>1 DEF WithoutActive
  <2>4. QED
    BY <1>5, <2>2, <2>3
<1>9. QED
  BY <1>6, <1>7, <1>8

LEMMA ActivePreserved ==
  ASSUME NEW st \in State, ActiveMatches(st), NEW new, Operation(st, new)
  PROVE  ActiveMatches(new)
<1>1. CASE \E slo \in SLOs : new = UpdateSLO(st, slo)
  BY <1>1, UpdateSLOForm, ActiveUnchanged
<1>2. CASE \E run \in Runs : run.id \notin Markers /\ new = AddRun(st, run)
  BY <1>2, AddRunForm, ActiveUnchanged
<1>3. CASE \E m \in Markers, cluster \in Clusters, slo \in SLOs :
             ~Exists(st, m) /\ new = CreateSession(st, m, cluster, slo)
  BY <1>3, ActiveCreated
<1>4. CASE \E e \in Truths :
             Exists(st, e.marker) /\ ~KnownTruth(st, e) /\ new = AddTruth(st, e)
  <2>1. PICK e \in Truths : new = AddTruth(st, e)
    BY <1>4
  <2>2. QED
    BY <2>1, AddTruthForm, ActiveUnchanged
<1>5. CASE \E e \in Observations :
             ~KnownObservation(st, e) /\ new = AddObservation(st, e)
  <2>1. PICK e \in Observations : new = AddObservation(st, e)
    BY <1>5
  <2>2. QED
    BY <2>1, AddObservationForm, ActiveUnchanged
<1>6. CASE \E m \in Markers, run \in Runs :
             run.id = m /\ Exists(st, m) /\ new = CompleteSession(st, m, run)
  BY <1>6, ActiveCompleted
<1>7. QED
  BY <1>1, <1>2, <1>3, <1>4, <1>5, <1>6 DEF Operation

LEMMA ActiveInitially == ActiveMatches(InitState)
<1>1. \A r \in Rows : Collecting(InitState, r) = {}
  BY DEF Collecting, InitState, NoSession
<1>2. \A r \in Rows : InitState.clusters[r].active = 0
  BY DEF InitState
<1>3. QED
  BY <1>1, <1>2, FS_EmptySet DEF ActiveMatches

\* The active-session gauge of every cluster, in memory and on disk, is the
\* number of its sessions still collecting, whatever calls come in whatever
\* order, fail to be saved or are cut short by a crash.  The invariant is
\* inductive as soon as memory and file are known to be states.
THEOREM ActiveSessionsAlwaysMatch == StoreSpec => []ActiveSessionsMatch
<1>1. StoreInit => ActiveSessionsMatch
  BY ActiveInitially DEF StoreInit, ActiveSessionsMatch, Both, ActiveMatches
<1>2. StoreTypeOK /\ ActiveSessionsMatch /\ [StoreNext]_storeVars => ActiveSessionsMatch'
  <2>1. SUFFICES ASSUME StoreTypeOK, ActiveSessionsMatch, [StoreNext]_storeVars
                 PROVE  ActiveSessionsMatch'
    OBVIOUS
  <2>2. ActiveMatches(mem) /\ ActiveMatches(disk)
    BY <2>1 DEF ActiveSessionsMatch, Both, ActiveMatches
  <2>3. ActiveMatches(mem') /\ ActiveMatches(disk')
    BY <2>1, <2>2, StepForm, ActivePreserved DEF StoreTypeOK
  <2>4. QED
    BY <2>3 DEF ActiveSessionsMatch, Both, ActiveMatches
<1>3. QED
  BY <1>1, <1>2, StoreTypeCorrect, PTL DEF StoreSpec

----------------------------------------------------------------------------
(* The history of runs.                                                     *)

\* addRunLocked keeps the ids distinct and the history short, holds the run it
\* was given, adds no other id, and drops one only when the history is full.
LEMMA WithRunHistory ==
  ASSUME NEW runs \in Seq(Runs), NEW run \in Runs,
         DistinctIds(runs), Len(runs) <= MaxRuns,
         NEW new, new = WithRun(runs, run)
  PROVE  /\ DistinctIds(new) /\ Len(runs) <= Len(new) /\ Len(new) <= MaxRuns
         /\ HasId(new, run.id)
         /\ \A id : id # run.id /\ HasId(new, id) => HasId(runs, id)
         /\ \A id : HasId(runs, id) => HasId(new, id) \/ Len(new) = MaxRuns
<1>0. MaxRuns \in Nat \ {0} /\ new \in Seq(Runs) /\ Len(runs) \in Nat
  BY StoreAssumption, WithRunType
<1>1. CASE HasId(runs, run.id)
  <2> DEFINE k == CHOOSE i \in DOMAIN runs : runs[i].id = run.id
  <2>1. k \in DOMAIN runs /\ runs[k].id = run.id
    BY <1>1 DEF HasId
  <2>2. new = [runs EXCEPT ![k] = run]
    BY <1>1 DEF WithRun
  <2> HIDE DEF k
  <2>3. DOMAIN new = DOMAIN runs /\ Len(new) = Len(runs)
    BY <2>1, <2>2
  <2>4. \A i \in DOMAIN runs : new[i].id = runs[i].id
    BY <2>1, <2>2
  <2>5. DistinctIds(new)
    BY <2>3, <2>4 DEF DistinctIds
  <2>6. \A id : HasId(new, id) <=> HasId(runs, id)
    BY <2>3, <2>4 DEF HasId
  <2>7. Len(runs) <= Len(new) /\ Len(new) <= MaxRuns
    BY <1>0, <2>3
  <2>8. HasId(new, run.id)
    BY <1>1, <2>6
  <2>9. QED
    BY <2>5, <2>6, <2>7, <2>8
<1>2. CASE ~HasId(runs, run.id)
  <2> DEFINE longer == <<run>> \o runs
  <2>1. /\ longer \in Seq(Runs) /\ Len(longer) = Len(runs) + 1
        /\ longer[1] = run /\ \A i \in 1..Len(runs) : longer[i + 1] = runs[i]
    OBVIOUS
  <2>2. new = IF Len(longer) > MaxRuns THEN SubSeq(longer, 1, MaxRuns) ELSE longer
    BY <1>2 DEF WithRun
  <2> HIDE DEF longer
  <2>3. /\ Len(new) = IF Len(longer) > MaxRuns THEN MaxRuns ELSE Len(longer)
        /\ \A i \in 1..Len(new) : new[i] = longer[i]
    BY <1>0, <2>1, <2>2
  <2>4. /\ Len(runs) <= Len(new) /\ Len(new) <= MaxRuns /\ 1 \in 1..Len(new)
        /\ Len(new) = Len(runs) + 1 \/ Len(new) = MaxRuns
    BY <1>0, <2>1, <2>3
  <2>5. /\ new[1] = run
        /\ \A i \in 1..Len(new) : i # 1 => i - 1 \in 1..Len(runs) /\ new[i] = runs[i - 1]
    <3>1. \A i \in 1..Len(new) : i # 1 => i - 1 \in 1..Len(runs)
      BY <1>0, <2>1, <2>3
    <3>2. QED
      BY <2>1, <2>3, <2>4, <3>1
  <2>6. DOMAIN new = 1..Len(new) /\ DOMAIN runs = 1..Len(runs)
    BY <1>0
  <2>7. \A i \in 1..Len(runs) : runs[i].id # run.id
    BY <1>2, <2>6 DEF HasId
  <2>8. DistinctIds(new)
    <3>1. SUFFICES ASSUME NEW i \in 1..Len(new), NEW j \in 1..Len(new),
                          new[i].id = new[j].id
                   PROVE  i = j
      BY <2>6 DEF DistinctIds
    <3>2. CASE i = 1 \/ j = 1
      BY <2>5, <2>7, <3>1, <3>2
    <3>3. CASE i # 1 /\ j # 1
      <4>1. /\ i - 1 \in DOMAIN runs /\ j - 1 \in DOMAIN runs
            /\ runs[i - 1].id = runs[j - 1].id
        BY <2>5, <2>6, <3>1, <3>3
      <4>2. i - 1 = j - 1
        BY <4>1 DEF DistinctIds
      <4>3. QED
        BY <4>2, <1>0
    <3>4. QED
      BY <3>2, <3>3
  <2>9. HasId(new, run.id)
    BY <2>4, <2>5, <2>6 DEF HasId
  <2>10. \A id : id # run.id /\ HasId(new, id) => HasId(runs, id)
    BY <2>5, <2>6 DEF HasId
  <2>11. ASSUME NEW id, HasId(runs, id), Len(new) # MaxRuns
         PROVE  HasId(new, id)
    <3>1. PICK i \in 1..Len(runs) : runs[i].id = id
      BY <2>6, <2>11 DEF HasId
    <3>2. i + 1 \in 1..Len(new) /\ new[i + 1] = runs[i]
      BY <1>0, <2>1, <2>3, <2>4, <2>11, <3>1
    <3>3. QED
      BY <2>6, <3>1, <3>2 DEF HasId
  <2>12. QED
    BY <2>4, <2>8, <2>9, <2>10, <2>11
<1>3. QED
  BY <1>1, <1>2

HistoryMatches(st) ==
  /\ DistinctIds(st.runs) /\ Len(st.runs) <= MaxRuns
  /\ \A m \in Markers :
       IF st.sessions[m].status = "completed"
       THEN st.sessions[m].runId = m /\ (HasId(st.runs, m) \/ Len(st.runs) = MaxRuns)
       ELSE st.sessions[m].runId = NoRun /\ ~HasId(st.runs, m)

\* An operation that leaves status and run of the sessions and the history alone.
LEMMA HistoryUnchanged ==
  ASSUME NEW st, NEW new, HistoryMatches(st), new.runs = st.runs,
         \A n \in Markers : /\ new.sessions[n].status = st.sessions[n].status
                            /\ new.sessions[n].runId = st.sessions[n].runId
  PROVE  HistoryMatches(new)
BY DEF HistoryMatches

LEMMA HistoryWithRun ==
  ASSUME NEW st \in State, HistoryMatches(st), NEW run \in Runs,
         NEW new \in State, new.runs = WithRun(st.runs, run),
         \A n \in Markers : new.sessions[n].runId = IF n = run.id THEN n
                                                    ELSE st.sessions[n].runId,
         \A n \in Markers : new.sessions[n].status = IF n = run.id THEN "completed"
                                                     ELSE st.sessions[n].status
  PROVE  HistoryMatches(new)
<1>1. /\ st.runs \in Seq(Runs) /\ DistinctIds(st.runs) /\ Len(st.runs) <= MaxRuns
      /\ Len(st.runs) \in Nat /\ Len(new.runs) \in Nat /\ MaxRuns \in Nat
  BY StoreAssumption DEF HistoryMatches, State
<1>2. /\ DistinctIds(new.runs) /\ Len(st.runs) <= Len(new.runs) /\ Len(new.runs) <= MaxRuns
      /\ HasId(new.runs, run.id)
      /\ \A id : id # run.id /\ HasId(new.runs, id) => HasId(st.runs, id)
      /\ \A id : HasId(st.runs, id) => HasId(new.runs, id) \/ Len(new.runs) = MaxRuns
  BY <1>1, WithRunHistory
<1>3. Len(st.runs) = MaxRuns => Len(new.runs) = MaxRuns
  BY <1>1, <1>2
<1>4. ASSUME NEW m \in Markers
      PROVE  IF new.sessions[m].status = "completed"
             THEN /\ new.sessions[m].runId = m
                  /\ HasId(new.runs, m) \/ Len(new.runs) = MaxRuns
             ELSE new.sessions[m].runId = NoRun /\ ~HasId(new.runs, m)
  <2>1. CASE m = run.id
    BY <1>2, <2>1
  <2>2. CASE m # run.id
    <3>1. /\ new.sessions[m].status = st.sessions[m].status
          /\ new.sessions[m].runId = st.sessions[m].runId
      BY <2>2
    <3>2. IF st.sessions[m].status = "completed"
          THEN /\ st.sessions[m].runId = m
               /\ HasId(st.runs, m) \/ Len(st.runs) = MaxRuns
          ELSE st.sessions[m].runId = NoRun /\ ~HasId(st.runs, m)
      BY DEF HistoryMatches
    <3>3. QED
      BY <1>2, <1>3, <2>2, <3>1, <3>2
  <2>3. QED
    BY <2>1, <2>2
<1>5. QED
  BY <1>2, <1>4 DEF HistoryMatches

LEMMA HistoryPreserved ==
  ASSUME NEW st \in State, HistoryMatches(st), NEW new, Operation(st, new)
  PROVE  HistoryMatches(new)
<1>1. CASE \E slo \in SLOs : new = UpdateSLO(st, slo)
  BY <1>1, UpdateSLOForm, HistoryUnchanged
<1>2. CASE \E run \in Runs : run.id \notin Markers /\ new = AddRun(st, run)
  <2>1. PICK run \in Runs : run.id \notin Markers /\ new = AddRun(st, run)
    BY <1>2
  <2>2. /\ new \in State /\ new.runs = WithRun(st.runs, run)
        /\ new.sessions = st.sessions
    BY <2>1, AddRunForm
  <2>3. QED
    BY <2>1, <2>2, HistoryWithRun
<1>3. CASE \E m \in Markers, cluster \in Clusters, slo \in SLOs :
             ~Exists(st, m) /\ new = CreateSession(st, m, cluster, slo)
  <2>1. PICK m \in Markers, cluster \in Clusters, slo \in SLOs :
          ~Exists(st, m) /\ new = CreateSession(st, m, cluster, slo)
    BY <1>3
  <2>2. /\ new.runs = st.runs
        /\ \A n \in Markers \ {m} : new.sessions[n] = st.sessions[n]
        /\ new.sessions[m].status = "collecting" /\ new.sessions[m].runId = NoRun
    BY <2>1, CreateSessionForm
  <2>3. ~HasId(st.runs, m)
    BY <2>1 DEF HistoryMatches, Exists
  <2>4. QED
    BY <2>2, <2>3 DEF HistoryMatches
<1>4. CASE \E e \in Truths :
             Exists(st, e.marker) /\ ~KnownTruth(st, e) /\ new = AddTruth(st, e)
  BY <1>4, AddTruthForm, HistoryUnchanged
<1>5. CASE \E e \in Observations :
             ~KnownObservation(st, e) /\ new = AddObservation(st, e)
  BY <1>5, AddObservationForm, HistoryUnchanged
<1>6. CASE \E m \in Markers, run \in Runs :
             run.id = m /\ Exists(st, m) /\ new = CompleteSession(st, m, run)
  <2>1. PICK m \in Markers, run \in Runs :
          run.id = m /\ new = CompleteSession(st, m, run)
    BY <1>6
  <2>2. /\ new \in State /\ new.runs = WithRun(st.runs, run)
        /\ \A n \in Markers :
             /\ new.sessions[n].status = IF n = m THEN "completed" ELSE st.sessions[n].status
             /\ new.sessions[n].runId = IF n = m THEN run.id ELSE st.sessions[n].runId
    BY <2>1, CompleteSessionForm
  <2>3. QED
    BY <2>1, <2>2, HistoryWithRun
<1>7. QED
  BY <1>1, <1>2, <1>3, <1>4, <1>5, <1>6 DEF Operation

LEMMA HistoryInitially == HistoryMatches(InitState)
<1>1. InitState.runs = SeedRuns /\ DistinctIds(SeedRuns) /\ Len(SeedRuns) <= MaxRuns
  BY StoreAssumption DEF InitState
<1>2. \A m \in Markers : ~HasId(SeedRuns, m)
  <2>1. \A i \in DOMAIN SeedRuns : SeedRuns[i] \in DemoRuns
    BY StoreAssumption
  <2>2. QED
    BY <2>1 DEF HasId, DemoRuns
<1>3. \A m \in Markers : /\ InitState.sessions[m].status = "absent"
                         /\ InitState.sessions[m].runId = NoRun
  BY DEF InitState, NoSession
<1>4. QED
  BY <1>1, <1>2, <1>3 DEF HistoryMatches

\* In memory and on disk alike, a completed session names its run and the
\* history holds it, unless the history is full and may have dropped it; a
\* session not completed has no run; run ids are distinct and never more than
\* MaxRuns.
THEOREM HistoryAlwaysMatches == StoreSpec => []HistoryMatchesSessions
<1>1. StoreInit => HistoryMatchesSessions
  BY HistoryInitially DEF StoreInit, HistoryMatchesSessions, Both, HistoryMatches
<1>2. StoreTypeOK /\ HistoryMatchesSessions /\ [StoreNext]_storeVars
        => HistoryMatchesSessions'
  <2>1. SUFFICES ASSUME StoreTypeOK, HistoryMatchesSessions, [StoreNext]_storeVars
                 PROVE  HistoryMatchesSessions'
    OBVIOUS
  <2>2. HistoryMatches(mem) /\ HistoryMatches(disk)
    BY <2>1 DEF HistoryMatchesSessions, Both, HistoryMatches
  <2>3. HistoryMatches(mem') /\ HistoryMatches(disk')
    BY <2>1, <2>2, StepForm, HistoryPreserved DEF StoreTypeOK
  <2>4. QED
    BY <2>3 DEF HistoryMatchesSessions, Both, HistoryMatches
<1>3. QED
  BY <1>1, <1>2, StoreTypeCorrect, PTL DEF StoreSpec

----------------------------------------------------------------------------
(* Evidence is held once.                                                   *)

\* An event with a new id can be appended, and the oldest events dropped.
LEMMA DistinctAppended ==
  ASSUME NEW S, NEW s \in Seq(S), NEW e \in S, DistinctIds(s), ~HasId(s, e.id)
  PROVE  DistinctIds(Append(s, e))
<1> DEFINE longer == Append(s, e)
<1>1. /\ DOMAIN s = 1..Len(s) /\ Len(s) \in Nat
      /\ DOMAIN longer = 1..(Len(s) + 1)
      /\ longer[Len(s) + 1] = e /\ \A i \in 1..Len(s) : longer[i] = s[i]
  OBVIOUS
<1>2. \A i \in 1..Len(s) : s[i].id # e.id
  BY <1>1 DEF HasId
<1> HIDE DEF longer
<1>3. SUFFICES ASSUME NEW i \in 1..(Len(s) + 1), NEW j \in 1..(Len(s) + 1),
                      longer[i].id = longer[j].id
               PROVE  i = j
  BY <1>1 DEF DistinctIds, longer
<1>4. CASE i \in 1..Len(s) /\ j \in 1..Len(s)
  BY <1>1, <1>3, <1>4 DEF DistinctIds
<1>5. CASE ~(i \in 1..Len(s) /\ j \in 1..Len(s))
  <2>1. i = Len(s) + 1 \/ j = Len(s) + 1
    BY <1>1, <1>5
  <2>2. QED
    BY <1>1, <1>2, <1>3, <2>1
<1>6. QED
  BY <1>4, <1>5

LEMMA DistinctNewest ==
  ASSUME NEW S, NEW s \in Seq(S), NEW n \in Nat \ {0}, DistinctIds(s)
  PROVE  /\ DistinctIds(Newest(s, n))
         /\ Len(Newest(s, n)) = IF Len(s) > n THEN n ELSE Len(s)
<1>1. CASE Len(s) > n
  <2> DEFINE k == Len(s) - n
             newest == SubSeq(s, k + 1, Len(s))
  <2>1. /\ k \in Nat /\ newest \in Seq(S) /\ Len(newest) = n
        /\ \A i \in 1..n : newest[i] = s[i + k] /\ i + k \in 1..Len(s)
    BY <1>1
  <2>2. Newest(s, n) = newest
    BY <1>1 DEF Newest
  <2> HIDE DEF k, newest
  <2>3. DOMAIN newest = 1..n /\ DOMAIN s = 1..Len(s)
    BY <2>1
  <2>4. ASSUME NEW i \in 1..n, NEW j \in 1..n, newest[i].id = newest[j].id
        PROVE  i = j
    <3>1. /\ i + k \in DOMAIN s /\ j + k \in DOMAIN s
          /\ s[i + k].id = s[j + k].id
      BY <2>1, <2>3, <2>4
    <3>2. i + k = j + k
      BY <3>1 DEF DistinctIds
    <3>3. QED
      BY <2>1, <3>2
  <2>5. DistinctIds(newest)
    BY <2>3, <2>4 DEF DistinctIds
  <2>6. QED
    BY <1>1, <2>1, <2>2, <2>5
<1>2. CASE ~(Len(s) > n)
  BY <1>2 DEF Newest
<1>3. QED
  BY <1>1, <1>2

HeldOnce(st) ==
  /\ DistinctIds(st.window) /\ Len(st.window) <= MaxWindow
  /\ \A m \in Markers :
       /\ DistinctIds(st.sessions[m].truth)
       /\ Len(st.window) < MaxWindow =>
            /\ DistinctIds(st.sessions[m].observations)
            /\ \A i \in DOMAIN st.sessions[m].observations :
                 HasId(st.window, st.sessions[m].observations[i].id)

LEMMA HeldUnchanged ==
  ASSUME NEW st, NEW new, HeldOnce(st), new.window = st.window,
         \A n \in Markers :
           /\ new.sessions[n].truth = st.sessions[n].truth
           /\ new.sessions[n].observations = st.sessions[n].observations
  PROVE  HeldOnce(new)
BY DEF HeldOnce

LEMMA HeldCreated ==
  ASSUME NEW st, NEW new, HeldOnce(st), new.window = st.window,
         NEW m \in Markers,
         \A n \in Markers \ {m} : new.sessions[n] = st.sessions[n],
         new.sessions[m].truth = <<>>, new.sessions[m].observations = <<>>
  PROVE  HeldOnce(new)
<1>1. DistinctIds(<<>>) /\ DOMAIN <<>> = {}
  BY DEF DistinctIds
<1>2. ASSUME NEW n \in Markers
      PROVE  /\ DistinctIds(new.sessions[n].truth)
             /\ Len(new.window) < MaxWindow =>
                  /\ DistinctIds(new.sessions[n].observations)
                  /\ \A i \in DOMAIN new.sessions[n].observations :
                       HasId(new.window, new.sessions[n].observations[i].id)
  <2>1. CASE n = m
    BY <1>1, <2>1
  <2>2. CASE n # m
    BY <2>2 DEF HeldOnce
  <2>3. QED
    BY <2>1, <2>2
<1>3. QED
  BY <1>2 DEF HeldOnce

LEMMA HeldTruth ==
  ASSUME NEW st \in State, HeldOnce(st), NEW e \in Truths, ~KnownTruth(st, e),
         NEW new, new = AddTruth(st, e)
  PROVE  HeldOnce(new)
<1>1. /\ new.window = st.window
      /\ \A n \in Markers :
           /\ new.sessions[n].observations = st.sessions[n].observations
           /\ new.sessions[n].truth
                = IF n = e.marker THEN Append(st.sessions[n].truth, e)
                                  ELSE st.sessions[n].truth
  BY AddTruthForm
<1>2. \A n \in Markers : st.sessions[n].truth \in Seq(Truths)
  BY SessionsOfState DEF Session
<1>3. ~HasId(st.sessions[e.marker].truth, e.id) /\ e.marker \in Markers
  BY EventTypes DEF KnownTruth
<1>4. DistinctIds(Append(st.sessions[e.marker].truth, e))
  BY <1>2, <1>3, DistinctAppended DEF HeldOnce
<1>5. \A n \in Markers : DistinctIds(new.sessions[n].truth)
  BY <1>1, <1>4 DEF HeldOnce
<1>6. QED
  BY <1>1, <1>5 DEF HeldOnce

LEMMA HeldObservation ==
  ASSUME NEW st \in State, HeldOnce(st), NEW e \in Observations,
         ~KnownObservation(st, e), NEW new, new = AddObservation(st, e)
  PROVE  HeldOnce(new)
<1> DEFINE longer == Append(st.window, e)
<1>1. /\ new.window = Newest(longer, MaxWindow)
      /\ \A n \in Markers :
           /\ new.sessions[n].truth = st.sessions[n].truth
           /\ new.sessions[n].observations
                = IF n = e.marker /\ Exists(st, n)
                  THEN Append(st.sessions[n].observations, e)
                  ELSE st.sessions[n].observations
  BY AddObservationForm
<1>2. /\ MaxWindow \in Nat \ {0}
      /\ st.window \in Seq(Observations) /\ longer \in Seq(Observations)
      /\ Len(longer) = Len(st.window) + 1
      /\ \A n \in Markers : st.sessions[n].observations \in Seq(Observations)
  BY StoreAssumption, SessionsOfState DEF State, Session
<1>3. ~HasId(st.window, e.id)
  BY DEF KnownObservation
<1>4. DistinctIds(longer)
  BY <1>2, <1>3, DistinctAppended DEF HeldOnce
<1>5. \A id : HasId(st.window, id) \/ id = e.id => HasId(longer, id)
  <2>1. /\ DOMAIN longer = 1..(Len(st.window) + 1) /\ DOMAIN st.window = 1..Len(st.window)
        /\ longer[Len(st.window) + 1] = e
        /\ \A i \in 1..Len(st.window) : longer[i] = st.window[i]
    BY <1>2
  <2>2. Len(st.window) \in Nat
    BY <1>2
  <2> HIDE DEF longer
  <2>3. QED
    BY <2>1, <2>2 DEF HasId
<1> HIDE DEF longer
<1>6. /\ DistinctIds(new.window) /\ Len(new.window) <= MaxWindow
      /\ Len(new.window) < MaxWindow => ~(Len(longer) > MaxWindow)
  <2>1. /\ DistinctIds(new.window)
        /\ Len(new.window) = IF Len(longer) > MaxWindow THEN MaxWindow ELSE Len(longer)
    BY <1>1, <1>2, <1>4, DistinctNewest
  <2>2. QED
    BY <1>2, <2>1
<1>7. ASSUME NEW n \in Markers, Len(new.window) < MaxWindow
      PROVE  /\ DistinctIds(new.sessions[n].observations)
             /\ \A i \in DOMAIN new.sessions[n].observations :
                  HasId(new.window, new.sessions[n].observations[i].id)
  <2>0. new.window = longer
    BY <1>1, <1>6, <1>7 DEF Newest
  <2>1. new.window = longer /\ Len(st.window) < MaxWindow
    <3>1. Len(st.window) \in Nat
      BY <1>2
    <3>2. QED
      BY <1>2, <1>7, <2>0, <3>1
  <2> DEFINE old == st.sessions[n].observations
  <2>2. /\ old \in Seq(Observations) /\ DistinctIds(old)
        /\ \A i \in DOMAIN old : HasId(st.window, old[i].id)
    BY <1>2, <2>1 DEF HeldOnce
  <2>3. CASE n = e.marker /\ Exists(st, n)
    <3>1. ~HasId(old, e.id)
      BY <1>3, <2>2 DEF HasId
    <3>2. DistinctIds(Append(old, e))
      BY <2>2, <3>1, DistinctAppended
    <3>3. \A i \in DOMAIN Append(old, e) :
            HasId(st.window, Append(old, e)[i].id) \/ Append(old, e)[i].id = e.id
      BY <2>2
    <3>4. \A i \in DOMAIN Append(old, e) : HasId(longer, Append(old, e)[i].id)
      BY <1>5, <3>3
    <3>5. new.sessions[n].observations = Append(old, e)
      BY <1>1, <2>3
    <3> HIDE DEF old
    <3>6. QED
      BY <2>1, <3>2, <3>4, <3>5
  <2>4. CASE ~(n = e.marker /\ Exists(st, n))
    BY <1>1, <1>5, <2>1, <2>2, <2>4
  <2>5. QED
    BY <2>3, <2>4
<1>8. \A n \in Markers : DistinctIds(new.sessions[n].truth)
  BY <1>1 DEF HeldOnce
<1>9. QED
  BY <1>6, <1>7, <1>8 DEF HeldOnce

LEMMA HeldPreserved ==
  ASSUME NEW st \in State, HeldOnce(st), NEW new, Operation(st, new)
  PROVE  HeldOnce(new)
<1>1. CASE \E slo \in SLOs : new = UpdateSLO(st, slo)
  BY <1>1, UpdateSLOForm, HeldUnchanged
<1>2. CASE \E run \in Runs : run.id \notin Markers /\ new = AddRun(st, run)
  BY <1>2, AddRunForm, HeldUnchanged
<1>3. CASE \E m \in Markers, cluster \in Clusters, slo \in SLOs :
             ~Exists(st, m) /\ new = CreateSession(st, m, cluster, slo)
  <2>1. PICK m \in Markers, cluster \in Clusters, slo \in SLOs :
          new = CreateSession(st, m, cluster, slo)
    BY <1>3
  <2>2. QED
    BY <2>1, CreateSessionForm, HeldCreated
<1>4. CASE \E e \in Truths :
             Exists(st, e.marker) /\ ~KnownTruth(st, e) /\ new = AddTruth(st, e)
  BY <1>4, HeldTruth
<1>5. CASE \E e \in Observations :
             ~KnownObservation(st, e) /\ new = AddObservation(st, e)
  BY <1>5, HeldObservation
<1>6. CASE \E m \in Markers, run \in Runs :
             run.id = m /\ Exists(st, m) /\ new = CompleteSession(st, m, run)
  <2>1. PICK m \in Markers, run \in Runs : new = CompleteSession(st, m, run)
    BY <1>6
  <2>2. QED
    BY <2>1, CompleteSessionForm, HeldUnchanged
<1>7. QED
  BY <1>1, <1>2, <1>3, <1>4, <1>5, <1>6 DEF Operation

LEMMA HeldInitially == HeldOnce(InitState)
<1>1. DistinctIds(<<>>) /\ DOMAIN <<>> = {} /\ Len(<<>>) = 0
  BY DEF DistinctIds
<1>2. /\ InitState.window = <<>>
      /\ \A m \in Markers : /\ InitState.sessions[m].truth = <<>>
                            /\ InitState.sessions[m].observations = <<>>
  BY DEF InitState, NoSession
<1>3. MaxWindow \in Nat
  BY StoreAssumption
<1>4. QED
  BY <1>1, <1>2, <1>3 DEF HeldOnce

\* Delivering evidence again adds nothing, whatever fails or crashes between:
\* truth events of a session are always distinct, and so are its observations
\* until the deduplication window has filled.  What makes it inductive is that
\* until then the window knows every observation that a session holds.
THEOREM EvidenceAlwaysHeldOnce == StoreSpec => []EvidenceHeldOnce
<1>1. StoreInit => EvidenceHeldOnce
  BY HeldInitially DEF StoreInit, EvidenceHeldOnce, Both, HeldOnce
<1>2. StoreTypeOK /\ EvidenceHeldOnce /\ [StoreNext]_storeVars => EvidenceHeldOnce'
  <2>1. SUFFICES ASSUME StoreTypeOK, EvidenceHeldOnce, [StoreNext]_storeVars
                 PROVE  EvidenceHeldOnce'
    OBVIOUS
  <2>2. HeldOnce(mem) /\ HeldOnce(disk)
    BY <2>1 DEF EvidenceHeldOnce, Both, HeldOnce
  <2>3. HeldOnce(mem') /\ HeldOnce(disk')
    BY <2>1, <2>2, StepForm, HeldPreserved DEF StoreTypeOK
  <2>4. QED
    BY <2>3 DEF EvidenceHeldOnce, Both, HeldOnce
<1>3. QED
  BY <1>1, <1>2, StoreTypeCorrect, PTL DEF StoreSpec

----------------------------------------------------------------------------
(* What was acknowledged and is not on disk had been refused.              *)

\* Evidence is only put into sessions that exist.
AbsentEmpty(st) ==
  \A m \in Markers :
    ~Exists(st, m) => st.sessions[m].truth = <<>> /\ st.sessions[m].observations = <<>>

\* A session that knows at least as much as before.
Grows(old, session) ==
  /\ old.status # "absent" => session.status # "absent"
  /\ old.status = "completed" => session.status = "completed"
  /\ \A id : HasId(old.truth, id) => HasId(session.truth, id)
  /\ \A id : HasId(old.observations, id) => HasId(session.observations, id)

LEMMA IdsAppended ==
  ASSUME NEW S, NEW s \in Seq(S), NEW e, NEW id, HasId(s, id)
  PROVE  HasId(Append(s, e), id)
<1>1. /\ DOMAIN s = 1..Len(s) /\ Len(s) \in Nat
      /\ DOMAIN Append(s, e) = 1..(Len(s) + 1)
      /\ \A i \in 1..Len(s) : Append(s, e)[i] = s[i]
  OBVIOUS
<1>2. QED
  BY <1>1 DEF HasId

\* An operation makes no session forget anything.
LEMMA SessionsGrow ==
  ASSUME NEW st \in State, AbsentEmpty(st), NEW new, Operation(st, new)
  PROVE  AbsentEmpty(new) /\ \A n \in Markers : Grows(st.sessions[n], new.sessions[n])
<1>0. \A n \in Markers : /\ st.sessions[n].truth \in Seq(Truths)
                         /\ st.sessions[n].observations \in Seq(Observations)
  BY SessionsOfState DEF Session
<1>1. CASE \E slo \in SLOs : new = UpdateSLO(st, slo)
  <2>1. new.sessions = st.sessions
    BY <1>1, UpdateSLOForm
  <2>2. QED
    BY <2>1 DEF AbsentEmpty, Exists, Grows
<1>2. CASE \E run \in Runs : run.id \notin Markers /\ new = AddRun(st, run)
  <2>1. new.sessions = st.sessions
    BY <1>2, AddRunForm
  <2>2. QED
    BY <2>1 DEF AbsentEmpty, Exists, Grows
<1>3. CASE \E m \in Markers, cluster \in Clusters, slo \in SLOs :
             ~Exists(st, m) /\ new = CreateSession(st, m, cluster, slo)
  <2>1. PICK m \in Markers, cluster \in Clusters, slo \in SLOs :
          ~Exists(st, m) /\ new = CreateSession(st, m, cluster, slo)
    BY <1>3
  <2>2. /\ st.sessions[m].status = "absent"
        /\ st.sessions[m].truth = <<>> /\ st.sessions[m].observations = <<>>
    BY <2>1 DEF AbsentEmpty, Exists
  <2>3. /\ \A n \in Markers \ {m} : new.sessions[n] = st.sessions[n]
        /\ new.sessions[m].status = "collecting"
        /\ new.sessions[m].truth = <<>> /\ new.sessions[m].observations = <<>>
    BY <2>1, CreateSessionForm
  <2>4. AbsentEmpty(new)
    BY <2>3 DEF AbsentEmpty, Exists
  <2>5. \A n \in Markers : Grows(st.sessions[n], new.sessions[n])
    BY <2>2, <2>3 DEF Grows
  <2>6. QED
    BY <2>4, <2>5
<1>4. CASE \E e \in Truths :
             Exists(st, e.marker) /\ ~KnownTruth(st, e) /\ new = AddTruth(st, e)
  <2>1. PICK e \in Truths : Exists(st, e.marker) /\ new = AddTruth(st, e)
    BY <1>4
  <2>2. \A n \in Markers :
          /\ new.sessions[n].status = st.sessions[n].status
          /\ new.sessions[n].observations = st.sessions[n].observations
          /\ new.sessions[n].truth
               = IF n = e.marker THEN Append(st.sessions[n].truth, e)
                                 ELSE st.sessions[n].truth
    BY <2>1, AddTruthForm
  <2>3. AbsentEmpty(new)
    BY <2>1, <2>2 DEF AbsentEmpty, Exists
  <2>4. \A n \in Markers : Grows(st.sessions[n], new.sessions[n])
    BY <1>0, <2>2, IdsAppended DEF Grows
  <2>5. QED
    BY <2>3, <2>4
<1>5. CASE \E e \in Observations :
             ~KnownObservation(st, e) /\ new = AddObservation(st, e)
  <2>1. PICK e \in Observations : new = AddObservation(st, e)
    BY <1>5
  <2>2. \A n \in Markers :
          /\ new.sessions[n].status = st.sessions[n].status
          /\ new.sessions[n].truth = st.sessions[n].truth
          /\ new.sessions[n].observations
               = IF n = e.marker /\ Exists(st, n)
                 THEN Append(st.sessions[n].observations, e)
                 ELSE st.sessions[n].observations
    BY <2>1, AddObservationForm
  <2>3. AbsentEmpty(new)
    BY <2>2 DEF AbsentEmpty, Exists
  <2>4. \A n \in Markers : Grows(st.sessions[n], new.sessions[n])
    BY <1>0, <2>2, IdsAppended DEF Grows
  <2>5. QED
    BY <2>3, <2>4
<1>6. CASE \E m \in Markers, run \in Runs :
             run.id = m /\ Exists(st, m) /\ new = CompleteSession(st, m, run)
  <2>1. PICK m \in Markers, run \in Runs :
          Exists(st, m) /\ new = CompleteSession(st, m, run)
    BY <1>6
  <2>2. \A n \in Markers :
          /\ new.sessions[n].status = IF n = m THEN "completed" ELSE st.sessions[n].status
          /\ new.sessions[n].truth = st.sessions[n].truth
          /\ new.sessions[n].observations = st.sessions[n].observations
    BY <2>1, CompleteSessionForm
  <2>3. QED
    BY <2>1, <2>2 DEF AbsentEmpty, Exists, Grows
<1>7. QED
  BY <1>1, <1>2, <1>3, <1>4, <1>5, <1>6 DEF Operation

LEMMA FactsGrow ==
  ASSUME NEW st, NEW new, \A n \in Markers : Grows(st.sessions[n], new.sessions[n])
  PROVE  Facts(st) \subseteq Facts(new)
<1>1. \A n \in Markers : /\ Exists(st, n) => Exists(new, n)
                         /\ st.sessions[n].status = "completed"
                              => new.sessions[n].status = "completed"
  BY DEF Grows, Exists
<1>2. \A e \in Truths : KnownTruth(st, e) => KnownTruth(new, e)
  BY EventTypes DEF Grows, KnownTruth
<1>3. \A e \in Observations : HasId(st.sessions[e.marker].observations, e.id)
                                => HasId(new.sessions[e.marker].observations, e.id)
  BY EventTypes DEF Grows
<1>4. QED
  BY <1>1, <1>2, <1>3 DEF Facts

\* A state knows no more than another and some facts, when each of its facts is of
\* one of them.
LEMMA FactsAdded ==
  ASSUME NEW st, NEW new, NEW facts,
         \A m \in Markers : Exists(new, m) => Exists(st, m) \/ <<"session", m>> \in facts,
         \A m \in Markers : new.sessions[m].status = "completed"
                              => \/ st.sessions[m].status = "completed"
                                 \/ <<"completed", m>> \in facts,
         \A e \in Truths : KnownTruth(new, e) => KnownTruth(st, e) \/ TruthFact(e) \in facts,
         \A e \in Observations :
           HasId(new.sessions[e.marker].observations, e.id)
             => \/ HasId(st.sessions[e.marker].observations, e.id)
                \/ ObservationFact(e) \in facts
  PROVE  Facts(new) \subseteq Facts(st) \cup facts
BY DEF Facts

\* What is appended is the only new id.
LEMMA OneIdAppended ==
  ASSUME NEW S, NEW s \in Seq(S), NEW e, NEW id, HasId(Append(s, e), id)
  PROVE  HasId(s, id) \/ e.id = id
<1>1. /\ DOMAIN s = 1..Len(s) /\ Len(s) \in Nat
      /\ DOMAIN Append(s, e) = 1..(Len(s) + 1) /\ Append(s, e)[Len(s) + 1] = e
      /\ \A i \in 1..Len(s) : Append(s, e)[i] = s[i]
  OBVIOUS
<1>2. QED
  BY <1>1 DEF HasId

\* The objective and the runs are no facts.
LEMMA SameSessionsSameFacts ==
  ASSUME NEW st, NEW new, new.sessions = st.sessions
  PROVE  Facts(new) = Facts(st)
BY DEF Facts, Exists, KnownTruth

\* Each other operation adds the fact that it is about, and no other.
LEMMA CreateSessionAdds ==
  ASSUME NEW st \in State, NEW m \in Markers, NEW cluster \in Clusters, NEW slo \in SLOs
  PROVE  Facts(CreateSession(st, m, cluster, slo)) \subseteq Facts(st) \cup {<<"session", m>>}
<1> DEFINE new == CreateSession(st, m, cluster, slo)
<1>1. /\ \A n \in Markers \ {m} : new.sessions[n] = st.sessions[n]
      /\ new.sessions[m].status = "collecting"
      /\ new.sessions[m].truth = <<>> /\ new.sessions[m].observations = <<>>
  BY CreateSessionForm
<1>2. \A id : ~HasId(<<>>, id)
  BY DEF HasId
<1> HIDE DEF new
<1>3. /\ \A n \in Markers : Exists(new, n) => Exists(st, n) \/ <<"session", n>> \in {<<"session", m>>}
      /\ \A n \in Markers : new.sessions[n].status = "completed"
                              => st.sessions[n].status = "completed"
  BY <1>1 DEF Exists
<1>4. \A e \in Truths : KnownTruth(new, e) => KnownTruth(st, e)
  BY <1>1, <1>2, EventTypes DEF KnownTruth
<1>5. \A e \in Observations : HasId(new.sessions[e.marker].observations, e.id)
                                => HasId(st.sessions[e.marker].observations, e.id)
  BY <1>1, <1>2, EventTypes
<1>6. Facts(new) \subseteq Facts(st) \cup {<<"session", m>>}
  BY <1>3, <1>4, <1>5, FactsAdded
<1>7. QED
  BY <1>6 DEF new

LEMMA AddTruthAdds ==
  ASSUME NEW st \in State, NEW e \in Truths
  PROVE  Facts(AddTruth(st, e)) \subseteq Facts(st) \cup {TruthFact(e)}
<1> DEFINE new == AddTruth(st, e)
<1>1. \A n \in Markers :
        /\ new.sessions[n].status = st.sessions[n].status
        /\ new.sessions[n].observations = st.sessions[n].observations
        /\ new.sessions[n].truth = IF n = e.marker THEN Append(st.sessions[n].truth, e)
                                   ELSE st.sessions[n].truth
  BY AddTruthForm
<1> HIDE DEF new
<1>2. \A n \in Markers : st.sessions[n].truth \in Seq(Truths)
  BY SessionsOfState DEF Session
<1>3. ASSUME NEW t \in Truths, KnownTruth(new, t)
      PROVE  KnownTruth(st, t) \/ TruthFact(t) \in {TruthFact(e)}
  <2>1. t.marker \in Markers
    BY EventTypes
  <2>2. CASE t.marker = e.marker
    <3>1. HasId(st.sessions[t.marker].truth, t.id) \/ e.id = t.id
      BY <1>1, <1>2, <1>3, <2>1, <2>2, OneIdAppended DEF KnownTruth
    <3>2. QED
      BY <2>2, <3>1 DEF KnownTruth, TruthFact
  <2>3. CASE t.marker # e.marker
    BY <1>1, <1>3, <2>1, <2>3 DEF KnownTruth
  <2>4. QED
    BY <2>2, <2>3
<1>4. \A o \in Observations : HasId(new.sessions[o.marker].observations, o.id)
                                => HasId(st.sessions[o.marker].observations, o.id)
  BY <1>1, EventTypes
<1>5. Facts(new) \subseteq Facts(st) \cup {TruthFact(e)}
  BY <1>1, <1>3, <1>4, FactsAdded DEF Exists
<1>6. QED
  BY <1>5 DEF new

LEMMA AddObservationAdds ==
  ASSUME NEW st \in State, NEW e \in Observations
  PROVE  Facts(AddObservation(st, e)) \subseteq Facts(st) \cup {ObservationFact(e)}
<1> DEFINE new == AddObservation(st, e)
<1>1. \A n \in Markers :
        /\ new.sessions[n].status = st.sessions[n].status
        /\ new.sessions[n].truth = st.sessions[n].truth
        /\ new.sessions[n].observations
             = IF n = e.marker /\ Exists(st, n) THEN Append(st.sessions[n].observations, e)
               ELSE st.sessions[n].observations
  BY AddObservationForm
<1> HIDE DEF new
<1>2. \A n \in Markers : st.sessions[n].observations \in Seq(Observations)
  BY SessionsOfState DEF Session
<1>3. ASSUME NEW o \in Observations, HasId(new.sessions[o.marker].observations, o.id)
      PROVE  \/ HasId(st.sessions[o.marker].observations, o.id)
             \/ ObservationFact(o) \in {ObservationFact(e)}
  <2>1. o.marker \in Markers
    BY EventTypes
  <2>2. CASE o.marker = e.marker
    <3>1. HasId(st.sessions[o.marker].observations, o.id) \/ e.id = o.id
      BY <1>1, <1>2, <1>3, <2>1, <2>2, OneIdAppended
    <3>2. QED
      BY <2>2, <3>1 DEF ObservationFact
  <2>3. CASE o.marker # e.marker
    BY <1>1, <1>3, <2>1, <2>3
  <2>4. QED
    BY <2>2, <2>3
<1>4. \A t \in Truths : KnownTruth(new, t) => KnownTruth(st, t)
  BY <1>1, EventTypes DEF KnownTruth
<1>5. Facts(new) \subseteq Facts(st) \cup {ObservationFact(e)}
  BY <1>1, <1>3, <1>4, FactsAdded DEF Exists
<1>6. QED
  BY <1>5 DEF new

LEMMA CompleteSessionAdds ==
  ASSUME NEW st \in State, NEW m \in Markers, NEW run \in Runs, Exists(st, m)
  PROVE  Facts(CompleteSession(st, m, run)) \subseteq Facts(st) \cup {<<"completed", m>>}
<1> DEFINE new == CompleteSession(st, m, run)
<1>1. \A n \in Markers :
        /\ new.sessions[n].status = IF n = m THEN "completed" ELSE st.sessions[n].status
        /\ new.sessions[n].truth = st.sessions[n].truth
        /\ new.sessions[n].observations = st.sessions[n].observations
  BY CompleteSessionForm
<1> HIDE DEF new
<1>2. /\ \A n \in Markers : Exists(new, n) => Exists(st, n)
      /\ \A n \in Markers : new.sessions[n].status = "completed"
           => st.sessions[n].status = "completed" \/ <<"completed", n>> \in {<<"completed", m>>}
  BY <1>1 DEF Exists
<1>3. /\ \A t \in Truths : KnownTruth(new, t) => KnownTruth(st, t)
      /\ \A o \in Observations : HasId(new.sessions[o.marker].observations, o.id)
                                   => HasId(st.sessions[o.marker].observations, o.id)
  BY <1>1, EventTypes DEF KnownTruth
<1>4. Facts(new) \subseteq Facts(st) \cup {<<"completed", m>>}
  BY <1>2, <1>3, FactsAdded
<1>5. QED
  BY <1>4 DEF new

\* What is on disk, or was refused and has not reached the disk since.
Kept == Facts(disk) \cup refused

\* The inductive invariant: the file holds nothing that memory has not, memory is
\* ahead of it by refused facts only, and all that was acknowledged is kept.  A
\* session that does not exist holds nothing that creating it would wipe out.
LostInv ==
  /\ AbsentEmpty(mem) /\ AbsentEmpty(disk)
  /\ Facts(disk) \subseteq Facts(mem) /\ Facts(mem) \subseteq Kept
  /\ acked \subseteq Kept

\* It survives a save that adds the given facts, whatever comes of it.
LEMMA SaveKeeps ==
  ASSUME StoreTypeOK, LostInv, NEW new, NEW facts, Operation(mem, new),
         Facts(new) \subseteq Facts(mem) \cup facts, Save(new, facts)
  PROVE  LostInv' /\ Kept \subseteq Kept'
<1>1. AbsentEmpty(new) /\ Facts(mem) \subseteq Facts(new)
  <2>1. AbsentEmpty(new) /\ \A n \in Markers : Grows(mem.sessions[n], new.sessions[n])
    BY SessionsGrow DEF StoreTypeOK, LostInv
  <2>2. QED
    BY <2>1, FactsGrow
<1>2. CASE Saved(new, facts)
  <2>1. /\ mem' = new /\ disk' = new
        /\ acked' \subseteq acked \cup Facts(new) /\ refused' = refused \ Facts(new)
    BY <1>2 DEF Saved, Acknowledge, Refuse
  <2>2. Facts(mem') = Facts(new) /\ Facts(disk') = Facts(new)
    BY <2>1
  <2>3. QED
    BY <1>1, <2>1, <2>2 DEF LostInv, Kept
<1>3. CASE SaveFails(new, facts)
  <2>1. /\ mem' = new /\ disk' = disk /\ acked' = acked
        /\ refused' = (refused \cup facts) \ Facts(disk)
    BY <1>3 DEF SaveFails, Refuse
  <2>2. Facts(mem') = Facts(new) /\ Facts(disk') = Facts(disk)
    BY <2>1
  <2>3. QED
    BY <1>1, <2>1, <2>2 DEF LostInv, Kept
<1>4. CASE DiesSaving(new)
  <2>1. PICK found \in {disk, new} : mem' = found /\ disk' = found
    BY <1>4 DEF DiesSaving
  <2>2. acked' = acked /\ refused' = refused \ Facts(disk')
    BY <1>4 DEF DiesSaving, Refuse
  <2>3. /\ Facts(mem') = Facts(disk') /\ Facts(disk) \subseteq Facts(disk')
        /\ AbsentEmpty(mem') /\ AbsentEmpty(disk')
    BY <1>1, <2>1 DEF LostInv
  <2>4. QED
    BY <2>2, <2>3 DEF LostInv, Kept
<1>5. QED
  BY <1>2, <1>3, <1>4 DEF Save

LEMMA DuplicateKeeps ==
  ASSUME LostInv, NEW facts, Duplicate(facts)
  PROVE  LostInv' /\ Kept \subseteq Kept'
<1>1. /\ mem' = mem /\ disk' = disk /\ refused' = refused
      /\ acked' \subseteq acked \cup Facts(mem)
  BY DEF Duplicate, Acknowledge
<1>2. Facts(mem') = Facts(mem) /\ Facts(disk') = Facts(disk)
  BY <1>1
<1>3. QED
  BY <1>1, <1>2 DEF LostInv, Kept

LEMMA StepKeepsFacts ==
  ASSUME StoreTypeOK, LostInv, [StoreNext]_storeVars
  PROVE  LostInv' /\ Kept \subseteq Kept'
<1>0. mem \in State
  BY DEF StoreTypeOK
<1>1. CASE \E slo \in SLOs : DoUpdateSLO(slo)
  <2>1. PICK slo \in SLOs : Save(UpdateSLO(mem, slo), {})
    BY <1>1 DEF DoUpdateSLO
  <2>2. Operation(mem, UpdateSLO(mem, slo))
    BY DEF Operation
  <2>3. Facts(UpdateSLO(mem, slo)) = Facts(mem)
    BY <1>0, UpdateSLOForm, SameSessionsSameFacts
  <2>4. QED
    BY <2>1, <2>2, <2>3, SaveKeeps
<1>2. CASE \E run \in DemoRuns : DoAddRun(run)
  <2>1. PICK run \in DemoRuns : Save(AddRun(mem, run), {})
    BY <1>2 DEF DoAddRun
  <2>2. run \in Runs /\ Operation(mem, AddRun(mem, run))
    BY DEF Operation, DemoRuns
  <2>3. Facts(AddRun(mem, run)) = Facts(mem)
    BY <1>0, <2>2, AddRunForm, SameSessionsSameFacts
  <2>4. QED
    BY <2>1, <2>2, <2>3, SaveKeeps
<1>3. CASE \E m \in Markers, cluster \in Clusters, slo \in SLOs :
             DoCreateSession(m, cluster, slo)
  <2>1. PICK m \in Markers, cluster \in Clusters, slo \in SLOs :
          ~Exists(mem, m) /\ Save(CreateSession(mem, m, cluster, slo), {<<"session", m>>})
    BY <1>3 DEF DoCreateSession
  <2>2. Operation(mem, CreateSession(mem, m, cluster, slo))
    BY <2>1 DEF Operation
  <2>3. QED
    BY <1>0, <2>1, <2>2, CreateSessionAdds, SaveKeeps
<1>4. CASE \E e \in Truths : DoAddTruth(e)
  <2>1. PICK e \in Truths : DoAddTruth(e)
    BY <1>4
  <2>2. CASE KnownTruth(mem, e) /\ Duplicate({TruthFact(e)})
    BY <2>2, DuplicateKeeps
  <2>3. CASE ~KnownTruth(mem, e) /\ Save(AddTruth(mem, e), {TruthFact(e)})
    <3>1. Operation(mem, AddTruth(mem, e))
      BY <2>1, <2>3 DEF Operation, DoAddTruth
    <3>2. QED
      BY <1>0, <2>3, <3>1, AddTruthAdds, SaveKeeps
  <2>4. QED
    BY <2>1, <2>2, <2>3 DEF DoAddTruth
<1>5. CASE \E e \in Observations : DoAddObservation(e)
  <2>1. PICK e \in Observations : DoAddObservation(e)
    BY <1>5
  <2>2. CASE KnownObservation(mem, e) /\ Duplicate({ObservationFact(e)})
    BY <2>2, DuplicateKeeps
  <2>3. CASE ~KnownObservation(mem, e) /\ Save(AddObservation(mem, e), {ObservationFact(e)})
    <3>1. Operation(mem, AddObservation(mem, e))
      BY <2>3 DEF Operation
    <3>2. QED
      BY <1>0, <2>3, <3>1, AddObservationAdds, SaveKeeps
  <2>4. QED
    BY <2>1, <2>2, <2>3 DEF DoAddObservation
<1>6. CASE \E m \in Markers : \E run \in RunsOf(m) : DoCompleteSession(m, run)
  <2>1. PICK m \in Markers, run \in Runs :
          /\ run.id = m /\ Exists(mem, m)
          /\ Save(CompleteSession(mem, m, run), {<<"completed", m>>})
    BY <1>6 DEF DoCompleteSession, RunsOf
  <2>2. Operation(mem, CompleteSession(mem, m, run))
    BY <2>1 DEF Operation
  <2>3. QED
    BY <1>0, <2>1, <2>2, CompleteSessionAdds, SaveKeeps
<1>7. CASE Dies
  <2>1. mem' = disk /\ disk' = disk /\ acked' = acked /\ refused' = refused
    BY <1>7 DEF Dies
  <2>2. Facts(mem') = Facts(disk) /\ Facts(disk') = Facts(disk)
    BY <2>1
  <2>3. QED
    BY <2>1, <2>2 DEF LostInv, Kept
<1>8. CASE UNCHANGED storeVars
  BY <1>8 DEF storeVars, LostInv, Kept
<1>9. QED
  BY <1>1, <1>2, <1>3, <1>4, <1>5, <1>6, <1>7, <1>8 DEF StoreNext

LEMMA InitiallyKept == StoreInit => LostInv
<1>1. AbsentEmpty(InitState)
  BY DEF AbsentEmpty, InitState, NoSession
<1>2. QED
  BY <1>1 DEF StoreInit, LostInv, Kept

\* Whichever saves fail and at whatever point processes die, what a client was told
\* was accepted is on disk from then on, or it is something a client had been
\* refused that no save has brought to disk since.
THEOREM OnlyRefusedIsEverLost == StoreSpec => []OnlyRefusedIsLost
<1>1. StoreInit => LostInv
  BY InitiallyKept
<1>2. StoreTypeOK /\ LostInv /\ [StoreNext]_storeVars => LostInv'
  BY StepKeepsFacts
<1>3. LostInv => OnlyRefusedIsLost
  BY DEF LostInv, Kept, OnlyRefusedIsLost
<1>4. QED
  BY <1>1, <1>2, <1>3, StoreTypeCorrect, PTL DEF StoreSpec

----------------------------------------------------------------------------
(* The truth counters.                                                      *)

TruthMatches(st) ==
  \A r \in Rows : /\ IsFiniteSet(TruthPlaces(st, r))
                  /\ st.clusters[r].truth = Cardinality(TruthPlaces(st, r))

\* A place is a marker and an index of the session's truth.
LEMMA PlaceForm ==
  ASSUME NEW st, NEW r, NEW p
  PROVE  p \in TruthPlaces(st, r)
           <=> /\ p = <<p[1], p[2]>>
               /\ p[1] \in Markers
               /\ p[2] \in DOMAIN st.sessions[p[1]].truth
               /\ Named(st.sessions[p[1]].truth[p[2]].cluster) = r
BY DEF TruthPlaces

LEMMA SamePlaces ==
  ASSUME NEW st, NEW new, NEW r,
         \A n \in Markers : new.sessions[n].truth = st.sessions[n].truth
  PROVE  TruthPlaces(new, r) = TruthPlaces(st, r)
<1>1. SUFFICES ASSUME NEW p
               PROVE  p \in TruthPlaces(new, r) <=> p \in TruthPlaces(st, r)
  OBVIOUS
<1>2. p[1] \in Markers => new.sessions[p[1]].truth = st.sessions[p[1]].truth
  OBVIOUS
<1>3. p \in TruthPlaces(new, r)
        <=> /\ p = <<p[1], p[2]>>
            /\ p[1] \in Markers
            /\ p[2] \in DOMAIN new.sessions[p[1]].truth
            /\ Named(new.sessions[p[1]].truth[p[2]].cluster) = r
  BY PlaceForm
<1>4. p \in TruthPlaces(st, r)
        <=> /\ p = <<p[1], p[2]>>
            /\ p[1] \in Markers
            /\ p[2] \in DOMAIN st.sessions[p[1]].truth
            /\ Named(st.sessions[p[1]].truth[p[2]].cluster) = r
  BY PlaceForm
<1>5. QED
  BY <1>2, <1>3, <1>4

\* An operation that leaves the truth of the sessions and the counts alone.
LEMMA TruthUnchanged ==
  ASSUME NEW st, NEW new, TruthMatches(st),
         \A n \in Markers : new.sessions[n].truth = st.sessions[n].truth,
         \A r \in Rows : new.clusters[r].truth = st.clusters[r].truth
  PROVE  TruthMatches(new)
BY SamePlaces DEF TruthMatches

\* An event is added: it has a place that was not there, in its own cluster.
LEMMA TruthAdded ==
  ASSUME NEW st \in State, TruthMatches(st), NEW e \in Truths,
         NEW new, new = AddTruth(st, e)
  PROVE  TruthMatches(new)
<1> DEFINE old   == st.sessions[e.marker].truth
           longer == Append(old, e)
           place == <<e.marker, Len(old) + 1>>
<1>1. \A n \in Markers :
        new.sessions[n].truth = IF n = e.marker THEN longer ELSE st.sessions[n].truth
  BY AddTruthForm
<1>2. e.marker \in Markers /\ old \in Seq(Truths)
  BY EventTypes, SessionsOfState DEF Session
<1>3. /\ DOMAIN old = 1..Len(old) /\ Len(old) \in Nat
      /\ DOMAIN longer = 1..(Len(old) + 1) /\ longer[Len(old) + 1] = e
      /\ \A i \in 1..Len(old) : longer[i] = old[i]
  <2> HIDE DEF old
  <2>1. QED
    BY <1>2
<1>4. SUFFICES ASSUME NEW r \in Rows
               PROVE  /\ IsFiniteSet(TruthPlaces(new, r))
                      /\ new.clusters[r].truth = Cardinality(TruthPlaces(new, r))
  BY DEF TruthMatches
<1>5. /\ IsFiniteSet(TruthPlaces(st, r))
      /\ st.clusters[r].truth = Cardinality(TruthPlaces(st, r))
      /\ new.clusters[r].truth = IF r = Named(e.cluster) THEN st.clusters[r].truth + 1
                                                         ELSE st.clusters[r].truth
  BY AddTruthForm DEF TruthMatches
<1>6. place[1] = e.marker /\ place[2] = Len(old) + 1 /\ place = <<place[1], place[2]>>
  OBVIOUS
<1> HIDE DEF old, longer
<1>7. ASSUME NEW p
      PROVE  p \in TruthPlaces(new, r)
               <=> p \in TruthPlaces(st, r) \/ (p = place /\ r = Named(e.cluster))
  <2>1. p \in TruthPlaces(new, r)
          <=> /\ p = <<p[1], p[2]>>
              /\ p[1] \in Markers
              /\ p[2] \in DOMAIN new.sessions[p[1]].truth
              /\ Named(new.sessions[p[1]].truth[p[2]].cluster) = r
    BY PlaceForm
  <2>2. p \in TruthPlaces(st, r)
          <=> /\ p = <<p[1], p[2]>>
              /\ p[1] \in Markers
              /\ p[2] \in DOMAIN st.sessions[p[1]].truth
              /\ Named(st.sessions[p[1]].truth[p[2]].cluster) = r
    BY PlaceForm
  <2>3. p = place <=> /\ p = <<p[1], p[2]>>
                      /\ p[1] = e.marker /\ p[2] = Len(old) + 1
    BY <1>6
  <2> HIDE DEF place
  <2>4. CASE p[1] = e.marker
    <3>1. new.sessions[p[1]].truth = longer /\ st.sessions[p[1]].truth = old
      BY <1>1, <1>2, <2>4 DEF old
    <3>2. p[2] \in 1..(Len(old) + 1) <=> p[2] \in 1..Len(old) \/ p[2] = Len(old) + 1
      BY <1>3
    <3>3. p[2] \in 1..Len(old) => longer[p[2]] = old[p[2]]
      BY <1>3
    <3>4. Len(old) + 1 \notin 1..Len(old)
      BY <1>3
    <3>5. QED
      BY <1>2, <1>3, <2>1, <2>2, <2>3, <2>4, <3>1, <3>2, <3>3, <3>4
  <2>5. CASE p[1] # e.marker
    <3>1. p[1] \in Markers => new.sessions[p[1]].truth = st.sessions[p[1]].truth
      BY <1>1, <2>5
    <3>2. QED
      BY <2>1, <2>2, <2>3, <2>5, <3>1
  <2>6. QED
    BY <2>4, <2>5
<1>8. place \notin TruthPlaces(st, r)
  <2>1. place \in TruthPlaces(st, r) => place[2] \in DOMAIN st.sessions[place[1]].truth
    BY PlaceForm
  <2>2. st.sessions[place[1]].truth = old
    BY <1>6 DEF old
  <2>3. place[2] \notin DOMAIN old
    BY <1>3, <1>6
  <2>4. QED
    BY <2>1, <2>2, <2>3
<1> HIDE DEF place
<1>9. CASE r = Named(e.cluster)
  <2>1. TruthPlaces(new, r) = TruthPlaces(st, r) \cup {place}
    BY <1>7, <1>9
  <2>2. /\ IsFiniteSet(TruthPlaces(st, r) \cup {place})
        /\ Cardinality(TruthPlaces(st, r) \cup {place}) = Cardinality(TruthPlaces(st, r)) + 1
    BY <1>5, <1>8, FS_AddElement
  <2>3. QED
    BY <1>5, <1>9, <2>1, <2>2
<1>10. CASE r # Named(e.cluster)
  <2>1. TruthPlaces(new, r) = TruthPlaces(st, r)
    BY <1>7, <1>10
  <2>2. QED
    BY <1>5, <1>10, <2>1
<1>11. QED
  BY <1>9, <1>10

LEMMA TruthPreserved ==
  ASSUME NEW st \in State, AbsentEmpty(st), TruthMatches(st), NEW new, Operation(st, new)
  PROVE  TruthMatches(new)
<1>1. CASE \E slo \in SLOs : new = UpdateSLO(st, slo)
  BY <1>1, UpdateSLOForm, TruthUnchanged
<1>2. CASE \E run \in Runs : run.id \notin Markers /\ new = AddRun(st, run)
  BY <1>2, AddRunForm, TruthUnchanged
<1>3. CASE \E m \in Markers, cluster \in Clusters, slo \in SLOs :
             ~Exists(st, m) /\ new = CreateSession(st, m, cluster, slo)
  <2>1. PICK m \in Markers, cluster \in Clusters, slo \in SLOs :
          ~Exists(st, m) /\ new = CreateSession(st, m, cluster, slo)
    BY <1>3
  <2>2. /\ \A n \in Markers : new.sessions[n].truth = st.sessions[n].truth
        /\ \A r \in Rows : new.clusters[r].truth = st.clusters[r].truth
    BY <2>1, CreateSessionForm DEF AbsentEmpty
  <2>3. QED
    BY <2>2, TruthUnchanged
<1>4. CASE \E e \in Truths :
             Exists(st, e.marker) /\ ~KnownTruth(st, e) /\ new = AddTruth(st, e)
  BY <1>4, TruthAdded
<1>5. CASE \E e \in Observations :
             ~KnownObservation(st, e) /\ new = AddObservation(st, e)
  <2>1. PICK e \in Observations : new = AddObservation(st, e)
    BY <1>5
  <2>2. QED
    BY <2>1, AddObservationForm, TruthUnchanged
<1>6. CASE \E m \in Markers, run \in Runs :
             run.id = m /\ Exists(st, m) /\ new = CompleteSession(st, m, run)
  <2>1. PICK m \in Markers, run \in Runs : new = CompleteSession(st, m, run)
    BY <1>6
  <2>2. \A r \in Rows : WithoutActive(st.sessions[m], st.clusters[r]).truth = st.clusters[r].truth
    BY DEF WithoutActive, State, Row
  <2>3. \A r \in Rows : new.clusters[r].truth = st.clusters[r].truth
    BY <2>1, <2>2, CompleteSessionForm
  <2>4. QED
    BY <2>1, <2>3, CompleteSessionForm, TruthUnchanged
<1>7. QED
  BY <1>1, <1>2, <1>3, <1>4, <1>5, <1>6 DEF Operation

\* What the counters need to be inductive: a session that is created has no truth
\* to lose.
CountedInv == \A st \in Both : AbsentEmpty(st) /\ TruthMatches(st)

LEMMA CountedInitially == StoreInit => CountedInv
<1>1. AbsentEmpty(InitState)
  BY DEF AbsentEmpty, InitState, NoSession
<1>2. ASSUME NEW r \in Rows
      PROVE  TruthPlaces(InitState, r) = {} /\ InitState.clusters[r].truth = 0
  <2>1. \A m \in Markers : DOMAIN InitState.sessions[m].truth = {}
    BY DEF InitState, NoSession
  <2>2. ASSUME NEW p \in TruthPlaces(InitState, r)
        PROVE  FALSE
    <3>1. p[1] \in Markers /\ p[2] \in DOMAIN InitState.sessions[p[1]].truth
      BY PlaceForm
    <3>2. QED
      BY <2>1, <3>1
  <2>3. InitState.clusters[r].truth = 0
    BY DEF InitState
  <2>4. QED
    BY <2>2, <2>3
<1>3. TruthMatches(InitState)
  BY <1>2, FS_EmptySet DEF TruthMatches
<1>4. QED
  BY <1>1, <1>3 DEF StoreInit, CountedInv, Both

\* Every truth event that a session holds was counted once, for the cluster that the
\* event names, and no other was: duplicates, failed saves and crashes do not
\* make the counters of touchClusterLocked drift from what the sessions hold.
THEOREM TruthAlwaysCounted == StoreSpec => []TruthCounted
<1>1. StoreTypeOK /\ CountedInv /\ [StoreNext]_storeVars => CountedInv'
  <2>1. SUFFICES ASSUME StoreTypeOK, CountedInv, [StoreNext]_storeVars
                 PROVE  CountedInv'
    OBVIOUS
  <2>2. \A st \in {mem', disk'} : AbsentEmpty(st) /\ TruthMatches(st)
    BY <2>1, StepForm, SessionsGrow, TruthPreserved DEF StoreTypeOK, CountedInv, Both
  <2>3. QED
    BY <2>2 DEF CountedInv, Both
<1>2. CountedInv => TruthCounted
  BY DEF CountedInv, TruthMatches, TruthCounted
<1>3. QED
  BY <1>1, <1>2, CountedInitially, StoreTypeCorrect, PTL DEF StoreSpec
=============================================================================
