---------------------------- MODULE ServerProofs ----------------------------
(***************************************************************************)
(* Theorems of Server.tla, for every set of requests, markers, objectives, *)
(* events and runs.  A step of the server is brought into one of three     *)
(* forms (StepShape): a handler moves on and the store stays; a handler's  *)
(* store call makes one operation (ServerOperation), with any outcome of   *)
(* its save; the process dies.  That the handlers' local variables fit the *)
(* store (Good) and that the states are fine (Fine) is then shown once for *)
(* each form.  The steps allowed here (AnyStep) are those of clients that  *)
(* send what they like, so that what is proved holds of the server under   *)
(* the canaries and the sensor as well.                                    *)
(***************************************************************************)
EXTENDS Server, StoreProofs, EngineProofs

----------------------------------------------------------------------------
(* The verdicts.                                                           *)

\* Every dimension that is attributed is observed.
LEMMA AttributedIsObserved ==
  ASSUME NEW slo, NEW X, slo.required \in Seq(X), NEW truth, NEW observations
  PROVE  LET checks == ChecksOf(slo, truth, observations)
             n == Len(slo.required)
         IN  AttributedUpto(checks, n) <= Upto(checks, n)
<1> DEFINE checks == ChecksOf(slo, truth, observations)
           n == Len(slo.required)
           C == {i \in 1..n : checks[i].observed}
           A == {i \in 1..n : checks[i].attributed}
<1>1. n \in Nat /\ \A i \in 1..n : checks[i] = Check(slo.required[i], truth, observations)
  BY ChecksForm
<1>2. \A d : Check(d, truth, observations).attributed => Check(d, truth, observations).observed
  BY DEF Check
<1> HIDE DEF checks
<1>3. A \subseteq C /\ C \subseteq 1..n
  BY <1>1, <1>2
<1>4. IsFiniteSet(1..n)
  <2> HIDE DEF n
  <2>1. QED
    BY <1>1, FirstIndices
<1>5. Cardinality(A) <= Cardinality(C)
  <2> HIDE DEF A, C, n
  <2>1. QED
    BY <1>3, <1>4, FS_Subset
<1>6. QED
  BY <1>5 DEF checks, Upto, AttributedUpto

\* The runs the history is typed with include every verdict on a session.
LEMMA LiveRunsAreRuns ==
  ASSUME NEW m \in Markers, NEW slo \in SLOs, NEW truth, NEW observations
  PROVE  LiveRun(m, slo, truth, observations) \in Runs
<1> DEFINE checks == ChecksOf(slo, truth, observations)
           n == Len(slo.required)
           seen == Upto(checks, n)
           attributed == AttributedUpto(checks, n)
           score == Score(checks)
           run == LiveRun(m, slo, truth, observations)
<1>1. slo.required \in Seq(STRING)
  BY ServerAssumption
<1>2. Checks(checks) /\ n = Len(checks)
  BY <1>1, ChecksForm
<1>3. attributed <= seen
  BY <1>1, AttributedIsObserved
<1> HIDE DEF checks
<1>4. seen \in 0..n /\ attributed \in 0..n /\ score = Mean(45 * seen + 55 * attributed, n)
  <2> HIDE DEF n
  <2>1. QED
    BY <1>2, ScoreForm
<1>5. score \in Scores
  <2> HIDE DEF seen, attributed, score
  <2>1. <<seen, attributed>> \in {q \in (0..n) \X (0..n) : q[2] <= q[1]}
    BY <1>3, <1>4
  <2>2. score \in ScoresOf(n)
    BY <1>4, <2>1 DEF ScoresOf
  <2>3. QED
    BY <2>2 DEF Scores
<1>6. /\ run = [id |-> m, score |-> score, status |-> run.status]
      /\ run.status \in {"passing", "failing"}
  BY DEF LiveRun, Correlate, Verdict, Status, checks
<1>7. [id : Markers, score : Scores, status : {"passing", "failing"}] \subseteq Runs
  BY ServerAssumption
<1> HIDE DEF run, score
<1>8. run \in [id : Markers, score : Scores, status : {"passing", "failing"}]
  BY <1>5, <1>6
<1>9. QED
  BY <1>7, <1>8 DEF run

----------------------------------------------------------------------------
(* Sequences that grow.                                                    *)

\* t began as s.
Began(s, t) == \E i \in 0..Len(t) : s = SubSeq(t, 1, i)

LEMMA BeganSelf ==
  ASSUME NEW S, NEW s \in Seq(S)
  PROVE  Began(s, s)
<1>1. SubSeq(s, 1, Len(s)) = s /\ Len(s) \in 0..Len(s)
  BY SubSeqFull
<1>2. QED
  BY <1>1 DEF Began

LEMMA BeganType ==
  ASSUME NEW S, NEW t \in Seq(S), NEW s, Began(s, t)
  PROVE  s \in Seq(S)
<1>1. PICK i \in 0..Len(t) : s = SubSeq(t, 1, i)
  BY DEF Began
<1>2. SubSeq(t, 1, i) \in Seq(S)
  OBVIOUS
<1>3. QED
  BY <1>1, <1>2

LEMMA BeganTransitive ==
  ASSUME NEW S, NEW u \in Seq(S), NEW t, NEW s, Began(s, t), Began(t, u)
  PROVE  Began(s, u)
<1>1. PICK j \in 0..Len(u) : t = SubSeq(u, 1, j)
  BY DEF Began
<1>2. PICK i \in 0..Len(t) : s = SubSeq(t, 1, i)
  BY DEF Began
<1>3. Len(t) = j /\ i \in 0..j
  BY <1>1, <1>2
<1>4. SubSeq(SubSeq(u, 1, j), 1, i) = SubSeq(u, 1, i)
  BY <1>3
<1>5. i \in 0..Len(u) /\ s = SubSeq(u, 1, i)
  BY <1>1, <1>2, <1>3, <1>4
<1>6. QED
  BY <1>5 DEF Began

LEMMA BeganAppend ==
  ASSUME NEW S, NEW s \in Seq(S), NEW e \in S
  PROVE  Began(s, Append(s, e))
<1>1. SubSeq(Append(s, e), 1, Len(s)) = s
  OBVIOUS
<1>2. Len(s) \in 0..Len(Append(s, e))
  OBVIOUS
<1>3. QED
  BY <1>1, <1>2 DEF Began

----------------------------------------------------------------------------
(* What an operation does to the sessions that exist.                      *)

\* The session of m is still there, under its objective, with what it held.
Lasts(m, st, new) ==
  Exists(st, m) =>
    /\ Exists(new, m) /\ new.sessions[m].slo = st.sessions[m].slo
    /\ Began(st.sessions[m].truth, new.sessions[m].truth)
    /\ Began(st.sessions[m].observations, new.sessions[m].observations)

LEMMA SessionLasts ==
  ASSUME NEW st \in State, NEW new, Operation(st, new), NEW m \in Markers
  PROVE  Lasts(m, st, new)
<1>0. /\ st.sessions[m].truth \in Seq(Truths)
      /\ st.sessions[m].observations \in Seq(Observations)
  BY SessionsOfState DEF Session
<1>1. /\ Began(st.sessions[m].truth, st.sessions[m].truth)
      /\ Began(st.sessions[m].observations, st.sessions[m].observations)
  BY <1>0, BeganSelf
<1>2. CASE \E slo \in SLOs : new = UpdateSLO(st, slo)
  BY <1>1, <1>2, UpdateSLOForm DEF Lasts, Exists
<1>3. CASE \E run \in Runs : run.id \notin Markers /\ new = AddRun(st, run)
  BY <1>1, <1>3, AddRunForm DEF Lasts, Exists
<1>4. CASE \E n \in Markers, cluster \in Clusters, slo \in SLOs :
             ~Exists(st, n) /\ new = CreateSession(st, n, cluster, slo)
  BY <1>1, <1>4, CreateSessionForm DEF Lasts, Exists
<1>5. CASE \E e \in Truths :
             Exists(st, e.marker) /\ ~KnownTruth(st, e) /\ new = AddTruth(st, e)
  <2>1. PICK e \in Truths : new = AddTruth(st, e)
    BY <1>5
  <2>2. Began(st.sessions[m].truth, Append(st.sessions[m].truth, e))
    BY <1>0, BeganAppend
  <2>3. QED
    BY <1>1, <2>1, <2>2, AddTruthForm DEF Lasts, Exists
<1>6. CASE \E e \in Observations :
             ~KnownObservation(st, e) /\ new = AddObservation(st, e)
  <2>1. PICK e \in Observations : new = AddObservation(st, e)
    BY <1>6
  <2>2. Began(st.sessions[m].observations, Append(st.sessions[m].observations, e))
    BY <1>0, BeganAppend
  <2>3. QED
    BY <1>1, <2>1, <2>2, AddObservationForm DEF Lasts, Exists
<1>7. CASE \E n \in Markers, run \in Runs :
             run.id = n /\ Exists(st, n) /\ new = CompleteSession(st, n, run)
  <2>1. PICK n \in Markers, run \in Runs : new = CompleteSession(st, n, run)
    BY <1>7
  <2>2. /\ new.sessions[m].status = IF m = n THEN "completed" ELSE st.sessions[m].status
        /\ new.sessions[m].slo = st.sessions[m].slo
        /\ new.sessions[m].truth = st.sessions[m].truth
        /\ new.sessions[m].observations = st.sessions[m].observations
    BY <2>1, CompleteSessionForm
  <2>3. QED
    BY <1>1, <2>2 DEF Lasts, Exists
<1>8. QED
  BY <1>2, <1>3, <1>4, <1>5, <1>6, <1>7 DEF Operation

----------------------------------------------------------------------------
(* What is always true of a state of the server.                           *)

\* The run is the verdict on what the session held at some moment.
ReflectsSession(run, session) ==
  \E truth, observations :
    /\ Began(truth, session.truth) /\ Began(observations, session.observations)
    /\ run = LiveRun(run.id, session.slo, truth, observations)

RunsReflect(st) ==
  \A k \in DOMAIN st.runs :
    st.runs[k].id \in Markers => ReflectsSession(st.runs[k], st.sessions[st.runs[k].id])

\* The evidence that a session holds carries its marker.
AtHome(st) ==
  \A m \in Markers :
    /\ \A i \in DOMAIN st.sessions[m].truth : st.sessions[m].truth[i].marker = m
    /\ \A i \in DOMAIN st.sessions[m].observations : st.sessions[m].observations[i].marker = m

UsableSLOs(st) ==
  /\ Usable(st.slo)
  /\ \A m \in Markers : Exists(st, m) => st.sessions[m].slo \in SLOs /\ Usable(st.sessions[m].slo)

Fine(st) ==
  AbsentEmpty(st) /\ HistoryMatches(st) /\ AtHome(st) /\ UsableSLOs(st) /\ RunsReflect(st)

\* The operations as the server uses them.
ServerOperation(st, new) ==
  \/ \E slo \in SLOs : Usable(slo) /\ new = UpdateSLO(st, slo)
  \/ \E run \in DemoRuns : new = AddRun(st, run)
  \/ \E m \in Markers, cluster \in Clusters, slo \in SLOs :
       Usable(slo) /\ ~Exists(st, m) /\ new = CreateSession(st, m, cluster, slo)
  \/ \E e \in Truths :
       Exists(st, e.marker) /\ ~KnownTruth(st, e) /\ new = AddTruth(st, e)
  \/ \E e \in Observations :
       ~KnownObservation(st, e) /\ new = AddObservation(st, e)
  \/ \E m \in Markers, run \in Runs :
       /\ run.id = m /\ Exists(st, m) /\ ReflectsSession(run, st.sessions[m])
       /\ new = CompleteSession(st, m, run)

LEMMA ServerOperationIsOne ==
  ASSUME NEW st, NEW new, ServerOperation(st, new)
  PROVE  Operation(st, new)
BY DEF ServerOperation, Operation, DemoRuns

\* Each run of the new history was there before or is the one put in.
LEMMA WithRunEntries ==
  ASSUME NEW runs \in Seq(Runs), NEW run \in Runs,
         NEW new, new = WithRun(runs, run), NEW k \in DOMAIN new
  PROVE  new[k] = run \/ \E j \in DOMAIN runs : new[k] = runs[j]
<1>1. CASE HasId(runs, run.id)
  <2>1. new = [runs EXCEPT ![CHOOSE i \in DOMAIN runs : runs[i].id = run.id] = run]
    BY <1>1 DEF WithRun
  <2>2. QED
    BY <2>1
<1>2. CASE ~HasId(runs, run.id)
  <2> DEFINE longer == <<run>> \o runs
  <2>1. /\ longer \in Seq(Runs) /\ Len(longer) = Len(runs) + 1
        /\ \A i \in 1..Len(longer) : longer[i] = IF i = 1 THEN run ELSE runs[i - 1]
    OBVIOUS
  <2>2. \A i \in 1..Len(longer) : longer[i] = run \/ \E j \in DOMAIN runs : longer[i] = runs[j]
    <3>1. TAKE i \in 1..Len(longer)
    <3>2. CASE i = 1
      BY <2>1, <3>2
    <3>3. CASE i # 1
      <4>1. i - 1 \in DOMAIN runs
        BY <2>1, <3>3
      <4>2. QED
        BY <2>1, <3>3, <4>1
    <3>4. QED
      BY <3>2, <3>3
  <2> HIDE DEF longer
  <2>3. CASE Len(longer) > MaxRuns
    <3>1. MaxRuns \in Nat \ {0}
      BY StoreAssumption
    <3>2. new = SubSeq(longer, 1, MaxRuns)
      BY <1>2, <2>3 DEF WithRun, longer
    <3>3. k \in 1..Len(longer) /\ new[k] = longer[k]
      BY <2>1, <2>3, <3>1, <3>2
    <3>4. QED
      BY <2>2, <3>3
  <2>4. CASE ~(Len(longer) > MaxRuns)
    <3>1. new = longer
      BY <1>2, <2>4 DEF WithRun, longer
    <3>2. k \in 1..Len(longer)
      BY <2>1, <3>1
    <3>3. QED
      BY <2>2, <3>1, <3>2
  <2>5. QED
    BY <2>3, <2>4
<1>3. QED
  BY <1>1, <1>2

LEMMA ReflectsLasting ==
  ASSUME NEW st, NEW new \in State, NEW m \in Markers, Exists(st, m), Lasts(m, st, new),
         NEW run, ReflectsSession(run, st.sessions[m])
  PROVE  ReflectsSession(run, new.sessions[m])
<1>1. PICK truth, observations :
        /\ Began(truth, st.sessions[m].truth)
        /\ Began(observations, st.sessions[m].observations)
        /\ run = LiveRun(run.id, st.sessions[m].slo, truth, observations)
  BY DEF ReflectsSession
<1>2. /\ new.sessions[m].slo = st.sessions[m].slo
      /\ Began(st.sessions[m].truth, new.sessions[m].truth)
      /\ Began(st.sessions[m].observations, new.sessions[m].observations)
  BY DEF Lasts
<1>3. /\ new.sessions[m].truth \in Seq(Truths)
      /\ new.sessions[m].observations \in Seq(Observations)
  BY SessionsOfState DEF Session
<1>4. /\ Began(truth, new.sessions[m].truth)
      /\ Began(observations, new.sessions[m].observations)
  BY <1>1, <1>2, <1>3, BeganTransitive
<1>5. run = LiveRun(run.id, new.sessions[m].slo, truth, observations)
  BY <1>1, <1>2
<1>6. QED
  BY <1>4, <1>5 DEF ReflectsSession

LEMMA AtHomePreserved ==
  ASSUME NEW st \in State, AtHome(st), NEW new, Operation(st, new)
  PROVE  AtHome(new)
<1>0. ASSUME NEW S, NEW s \in Seq(S), NEW e \in S, NEW m, e.marker = m,
             \A i \in DOMAIN s : s[i].marker = m
      PROVE  \A i \in DOMAIN Append(s, e) : Append(s, e)[i].marker = m
  <2>1. /\ DOMAIN Append(s, e) = 1..(Len(s) + 1) /\ Append(s, e)[Len(s) + 1] = e
        /\ \A i \in 1..Len(s) : Append(s, e)[i] = s[i]
        /\ DOMAIN s = 1..Len(s) /\ Len(s) \in Nat
    OBVIOUS
  <2>2. QED
    BY <1>0, <2>1
<1>1. \A m \in Markers : /\ st.sessions[m].truth \in Seq(Truths)
                         /\ st.sessions[m].observations \in Seq(Observations)
  BY SessionsOfState DEF Session
<1>2. CASE \E slo \in SLOs : new = UpdateSLO(st, slo)
  BY <1>2, UpdateSLOForm DEF AtHome
<1>3. CASE \E run \in Runs : run.id \notin Markers /\ new = AddRun(st, run)
  BY <1>3, AddRunForm DEF AtHome
<1>4. CASE \E m \in Markers, cluster \in Clusters, slo \in SLOs :
             ~Exists(st, m) /\ new = CreateSession(st, m, cluster, slo)
  <2>1. PICK m \in Markers, cluster \in Clusters, slo \in SLOs :
          new = CreateSession(st, m, cluster, slo)
    BY <1>4
  <2>2. /\ \A n \in Markers \ {m} : new.sessions[n] = st.sessions[n]
        /\ new.sessions[m].truth = <<>> /\ new.sessions[m].observations = <<>>
    BY <2>1, CreateSessionForm
  <2>3. QED
    BY <2>2 DEF AtHome
<1>5. CASE \E e \in Truths :
             Exists(st, e.marker) /\ ~KnownTruth(st, e) /\ new = AddTruth(st, e)
  <2>1. PICK e \in Truths : new = AddTruth(st, e)
    BY <1>5
  <2>2. SUFFICES ASSUME NEW m \in Markers
                 PROVE  /\ \A i \in DOMAIN new.sessions[m].truth :
                             new.sessions[m].truth[i].marker = m
                        /\ \A i \in DOMAIN new.sessions[m].observations :
                             new.sessions[m].observations[i].marker = m
    BY DEF AtHome
  <2>3. /\ new.sessions[m].observations = st.sessions[m].observations
        /\ new.sessions[m].truth = IF m = e.marker THEN Append(st.sessions[m].truth, e)
                                   ELSE st.sessions[m].truth
    BY <2>1, AddTruthForm
  <2>4. QED
    BY <1>0, <1>1, <2>3 DEF AtHome
<1>6. CASE \E e \in Observations :
             ~KnownObservation(st, e) /\ new = AddObservation(st, e)
  <2>1. PICK e \in Observations : new = AddObservation(st, e)
    BY <1>6
  <2>2. SUFFICES ASSUME NEW m \in Markers
                 PROVE  /\ \A i \in DOMAIN new.sessions[m].truth :
                             new.sessions[m].truth[i].marker = m
                        /\ \A i \in DOMAIN new.sessions[m].observations :
                             new.sessions[m].observations[i].marker = m
    BY DEF AtHome
  <2>3. /\ new.sessions[m].truth = st.sessions[m].truth
        /\ new.sessions[m].observations
             = IF m = e.marker /\ Exists(st, m) THEN Append(st.sessions[m].observations, e)
               ELSE st.sessions[m].observations
    BY <2>1, AddObservationForm
  <2>4. QED
    BY <1>0, <1>1, <2>3 DEF AtHome
<1>7. CASE \E m \in Markers, run \in Runs :
             run.id = m /\ Exists(st, m) /\ new = CompleteSession(st, m, run)
  <2>1. PICK m \in Markers, run \in Runs : new = CompleteSession(st, m, run)
    BY <1>7
  <2>2. \A n \in Markers : /\ new.sessions[n].truth = st.sessions[n].truth
                           /\ new.sessions[n].observations = st.sessions[n].observations
    BY <2>1, CompleteSessionForm
  <2>3. QED
    BY <2>2 DEF AtHome
<1>8. QED
  BY <1>2, <1>3, <1>4, <1>5, <1>6, <1>7 DEF Operation

LEMMA UsableSLOsPreserved ==
  ASSUME NEW st \in State, UsableSLOs(st), NEW new, ServerOperation(st, new)
  PROVE  UsableSLOs(new)
<1>1. CASE \E slo \in SLOs : Usable(slo) /\ new = UpdateSLO(st, slo)
  BY <1>1, UpdateSLOForm DEF UsableSLOs, Exists
<1>2. CASE \E run \in DemoRuns : new = AddRun(st, run)
  BY <1>2, AddRunForm DEF UsableSLOs, Exists, DemoRuns
<1>3. CASE \E m \in Markers, cluster \in Clusters, slo \in SLOs :
             Usable(slo) /\ ~Exists(st, m) /\ new = CreateSession(st, m, cluster, slo)
  BY <1>3, CreateSessionForm DEF UsableSLOs, Exists
<1>4. CASE \E e \in Truths :
             Exists(st, e.marker) /\ ~KnownTruth(st, e) /\ new = AddTruth(st, e)
  BY <1>4, AddTruthForm DEF UsableSLOs, Exists
<1>5. CASE \E e \in Observations :
             ~KnownObservation(st, e) /\ new = AddObservation(st, e)
  BY <1>5, AddObservationForm DEF UsableSLOs, Exists
<1>6. CASE \E m \in Markers, run \in Runs :
             /\ run.id = m /\ Exists(st, m) /\ ReflectsSession(run, st.sessions[m])
             /\ new = CompleteSession(st, m, run)
  <2>1. PICK m \in Markers, run \in Runs : Exists(st, m) /\ new = CompleteSession(st, m, run)
    BY <1>6
  <2>2. /\ new.slo = st.slo
        /\ \A n \in Markers : /\ new.sessions[n].slo = st.sessions[n].slo
                              /\ Exists(new, n) => Exists(st, n)
    BY <2>1, CompleteSessionForm DEF Exists
  <2>3. QED
    BY <2>2 DEF UsableSLOs
<1>7. QED
  BY <1>1, <1>2, <1>3, <1>4, <1>5, <1>6 DEF ServerOperation

\* A run put in reflects its session; the session of a run that stays exists,
\* since a session that does not exist has no run.
LEMMA RunsReflectPreserved ==
  ASSUME NEW st \in State, HistoryMatches(st), RunsReflect(st),
         NEW new, ServerOperation(st, new)
  PROVE  RunsReflect(new)
<1>0. Operation(st, new) /\ new \in State /\ st.runs \in Seq(Runs)
  BY ServerOperationIsOne, OperationType DEF State
<1>1. ASSUME NEW run, NEW j \in DOMAIN st.runs, run = st.runs[j], run.id \in Markers
      PROVE  ReflectsSession(run, new.sessions[run.id])
  <2>1. Exists(st, run.id)
    BY <1>1 DEF HistoryMatches, HasId, Exists
  <2>2. ReflectsSession(run, st.sessions[run.id])
    BY <1>1 DEF RunsReflect
  <2>3. QED
    BY <1>0, <1>1, <2>1, <2>2, SessionLasts, ReflectsLasting
<1>2. CASE new.runs = st.runs
  BY <1>1, <1>2 DEF RunsReflect
<1>3. CASE \E run \in Runs :
             /\ new.runs = WithRun(st.runs, run)
             /\ run.id \in Markers => ReflectsSession(run, new.sessions[run.id])
  <2>1. PICK run \in Runs :
          /\ new.runs = WithRun(st.runs, run)
          /\ run.id \in Markers => ReflectsSession(run, new.sessions[run.id])
    BY <1>3
  <2>2. ASSUME NEW k \in DOMAIN new.runs
        PROVE  new.runs[k] = run \/ \E j \in DOMAIN st.runs : new.runs[k] = st.runs[j]
    BY <1>0, <2>1, WithRunEntries
  <2>3. QED
    BY <1>1, <2>1, <2>2 DEF RunsReflect
<1>4. ASSUME NEW run \in DemoRuns, new = AddRun(st, run)
      PROVE  new.runs = WithRun(st.runs, run) /\ run \in Runs /\ run.id \notin Markers
  BY <1>4, AddRunForm DEF DemoRuns
<1>5. ASSUME NEW m \in Markers, NEW run \in Runs, run.id = m, Exists(st, m),
             ReflectsSession(run, st.sessions[m]), new = CompleteSession(st, m, run)
      PROVE  new.runs = WithRun(st.runs, run) /\ ReflectsSession(run, new.sessions[m])
  <2>1. new.runs = WithRun(st.runs, run)
    BY <1>5, CompleteSessionForm
  <2>2. Lasts(m, st, new)
    BY <1>0, SessionLasts
  <2>3. QED
    BY <1>0, <1>5, <2>1, <2>2, ReflectsLasting
<1>6. CASE \E m \in Markers, run \in Runs :
             /\ run.id = m /\ Exists(st, m) /\ ReflectsSession(run, st.sessions[m])
             /\ new = CompleteSession(st, m, run)
  BY <1>3, <1>5, <1>6
<1>7. CASE \E run \in DemoRuns : new = AddRun(st, run)
  BY <1>3, <1>4, <1>7
<1>8. CASE \/ \E slo \in SLOs : new = UpdateSLO(st, slo)
           \/ \E m \in Markers, cluster \in Clusters, slo \in SLOs :
                new = CreateSession(st, m, cluster, slo)
           \/ \E e \in Truths : new = AddTruth(st, e)
           \/ \E e \in Observations : new = AddObservation(st, e)
  BY <1>2, <1>8, UpdateSLOForm, CreateSessionForm, AddTruthForm, AddObservationForm
<1>9. QED
  BY <1>6, <1>7, <1>8 DEF ServerOperation

LEMMA FinePreserved ==
  ASSUME NEW st \in State, Fine(st), NEW new, ServerOperation(st, new)
  PROVE  Fine(new)
<1>1. Operation(st, new)
  BY ServerOperationIsOne
<1>2. AbsentEmpty(new)
  BY <1>1, SessionsGrow DEF Fine
<1>3. HistoryMatches(new)
  BY <1>1, HistoryPreserved DEF Fine
<1>4. AtHome(new)
  BY <1>1, AtHomePreserved DEF Fine
<1>5. UsableSLOs(new) /\ RunsReflect(new)
  BY UsableSLOsPreserved, RunsReflectPreserved DEF Fine
<1>6. QED
  BY <1>2, <1>3, <1>4, <1>5 DEF Fine

LEMMA FineInitially == Fine(InitState)
<1>1. \A m \in Markers : InitState.sessions[m] = NoSession
  BY DEF InitState
<1>2. AbsentEmpty(InitState) /\ AtHome(InitState)
  <2>1. /\ NoSession.truth = <<>> /\ NoSession.observations = <<>>
        /\ \A i \in DOMAIN <<>> : FALSE
    BY DEF NoSession
  <2>2. QED
    BY <1>1, <2>1 DEF AbsentEmpty, AtHome
<1>3. UsableSLOs(InitState)
  BY <1>1, ServerAssumption DEF UsableSLOs, Exists, NoSession, InitState
<1>4. RunsReflect(InitState)
  <2>1. InitState.runs = SeedRuns /\ \A k \in DOMAIN SeedRuns : SeedRuns[k] \in DemoRuns
    BY StoreAssumption DEF InitState
  <2>2. QED
    BY <2>1 DEF RunsReflect, DemoRuns
<1>5. QED
  BY <1>2, <1>3, <1>4, HistoryInitially DEF Fine

----------------------------------------------------------------------------
(* What is always true of a request.                                       *)

AllFacts == ({"session", "completed"} \X Markers) \cup {TruthFact(e) : e \in Truths}
              \cup {ObservationFact(e) : e \in Observations}

RequestKinds == {"none", "live", "create", "truth", "ingest", "correlate", "slo", "demo"}

RequestStages ==
  Final \cup {"new", "create", "probe", "truth", "observe", "wait", "snapshot", "complete",
             "add", "stuck"}

Request ==
  [kind : RequestKinds, stage : RequestStages, marker : Markers \cup {NoRun},
   slo : SLOs \cup {NoSLO}, cluster : Clusters \cup {""},
   todo : Seq(Truths) \cup Seq(Observations), truth : Seq(Truths),
   observations : Seq(Observations), claim : SUBSET AllFacts]

LEMMA KindNames ==
  /\ "none" \in RequestKinds /\ "live" \in RequestKinds /\ "create" \in RequestKinds
  /\ "truth" \in RequestKinds /\ "ingest" \in RequestKinds /\ "correlate" \in RequestKinds
  /\ "slo" \in RequestKinds /\ "demo" \in RequestKinds
BY DEF RequestKinds

LEMMA StageNames ==
  /\ "new" \in RequestStages /\ "create" \in RequestStages /\ "probe" \in RequestStages
  /\ "truth" \in RequestStages /\ "observe" \in RequestStages /\ "wait" \in RequestStages
  /\ "snapshot" \in RequestStages /\ "complete" \in RequestStages /\ "add" \in RequestStages
  /\ "stuck" \in RequestStages /\ "replied" \in RequestStages /\ "error" \in RequestStages
  /\ "cancelled" \in RequestStages /\ "killed" \in RequestStages
BY DEF RequestStages, Final

\* What each stage of a handler knows of the variables that it uses.
Staged(r) ==
  /\ r.stage = "create" =>
       r.kind \in {"live", "create"} /\ r.slo \in SLOs /\ Usable(r.slo) /\ r.cluster \in Clusters
  /\ r.stage \in {"probe", "wait"} => r.kind = "live" /\ r.marker \in Markers
  /\ r.stage = "truth" => /\ r.kind = "truth" \/ (r.kind = "live" /\ r.marker \in Markers)
                          /\ r.todo \in Seq(Truths) /\ r.todo # <<>>
  /\ r.stage = "observe" => /\ r.kind = "ingest"
                            /\ r.todo \in Seq(Observations) /\ r.todo # <<>>
  /\ r.stage \in {"snapshot", "complete"} =>
       r.kind \in {"live", "correlate"} /\ r.marker \in Markers
  /\ r.stage = "replied" /\ r.kind \in {"live", "correlate"} => r.marker \in Markers
  /\ r.stage = "add" => r.kind = "demo" /\ r.slo \in SLOs

\* The evidence that a correlation will score.
ScoredBy(r) == {TruthFact(r.truth[i]) : i \in DOMAIN r.truth}
                 \cup {ObservationFact(r.observations[i]) : i \in DOMAIN r.observations}

\* What the answer to a request will vouch for, memory knows or will be told.
Vouches(r, st) ==
  /\ r.stage = "truth" /\ r.kind = "truth" =>
       r.claim \subseteq Facts(st) \cup {TruthFact(r.todo[i]) : i \in DOMAIN r.todo}
  /\ r.stage = "snapshot" => r.claim \subseteq Facts(st) /\ \A f \in r.claim : f[2] = r.marker
  /\ r.stage = "complete" =>
       {f \in r.claim : f[1] \in {"truth", "observation"}} \subseteq ScoredBy(r)

\* A copy of a session is under its objective and what the session once held.
Copied(r, st) ==
  r.stage = "complete" =>
    /\ Exists(st, r.marker) /\ r.slo = st.sessions[r.marker].slo
    /\ Began(r.truth, st.sessions[r.marker].truth)
    /\ Began(r.observations, st.sessions[r.marker].observations)

\* What was answered is on disk, with the evidence it was scored on.
Stored(r, file) ==
  r.stage = "replied" /\ r.kind \in {"live", "correlate"} =>
    /\ file.sessions[r.marker].status = "completed"
    /\ r.slo = file.sessions[r.marker].slo
    /\ Began(r.truth, file.sessions[r.marker].truth)
    /\ Began(r.observations, file.sessions[r.marker].observations)

\* What was accepted is held: on disk, or refused before (Kept).
Accepted(r, held) == r.stage = "replied" /\ r.kind = "truth" => r.claim \subseteq held

Good(r, st, file, held) ==
  Staged(r) /\ Vouches(r, st) /\ Copied(r, st) /\ Stored(r, file) /\ Accepted(r, held)

\* The session of m goes on, with what is known of it.
Carries(m, st, new) == Grows(st.sessions[m], new.sessions[m]) /\ Lasts(m, st, new)

\* Memory is never behind the file.
Ahead(st, file) == \A m \in Markers : Carries(m, file, st)

ServerInv ==
  /\ StoreTypeOK /\ LostInv /\ Fine(mem) /\ Fine(disk) /\ Ahead(mem, disk)
  /\ order \in Orders /\ ToSet(order) \subseteq Dimensions
  /\ req \in [Requests -> Request] /\ \A h \in Requests : Good(req[h], mem, disk, Kept)

----------------------------------------------------------------------------
(* The forms of a step.                                                    *)

\* A request of any client, whatever it carries.
Opens(h) ==
  \/ \E kind \in {"live", "create"}, slo \in SLOs \cup {NoSLO}, cluster \in Clusters :
       StartSession(h, kind, slo, cluster)
  \/ \E batch \in Seq(Truths) \ {<<>>} : StartTruth(h, batch)
  \/ \E batch \in Seq(Observations) \ {<<>>} : StartObservations(h, batch)
  \/ \E m \in Markers : StartCorrelate(h, m)
  \/ \E slo \in PutSLOs : PutSLO(h, slo)
  \/ StartDemo(h)

\* A client that has its answer sends its next request.
NextRequest(h) == req[h].stage \in Final \cup {"new"} /\ req' = [req EXCEPT ![h] = NewRequest] /\ Quiet

AnyStep ==
  \/ \E h \in Requests : Opens(h) \/ Proceed(h) \/ ProbeHangs(h) \/ Cancelled(h) \/ NextRequest(h)
  \/ Crash \/ UNCHANGED vars

\* The handler of h moves on, and the store stays as it is.
MovesOn(h, n) ==
  /\ UNCHANGED <<mem, disk, refused, order>> /\ req' = [req EXCEPT ![h] = n]
  /\ n \in Request /\ Good(n, mem, disk, Kept)

\* The handler of h makes an operation on the store, with any outcome of its save.
Writes(h, n, new) ==
  /\ ServerOperation(mem, new) /\ n \in Request /\ Good(n, new, new, Facts(new))
  /\ \/ mem' = new /\ disk' = new /\ UNCHANGED order /\ req' = [req EXCEPT ![h] = n]
     \/ SaveMayFail /\ mem' = new /\ UNCHANGED <<disk, order>> /\ Go(h, "error")
     \/ (\E found \in {disk, new} : mem' = found /\ disk' = found) /\ KillAll

StepShape ==
  /\ [StoreNext]_storeVars
  /\ \/ \E h \in Requests : \E n : MovesOn(h, n)
     \/ \E h \in Requests : \E n, new : Writes(h, n, new)
     \/ Dies /\ KillAll
     \/ UNCHANGED vars

LEMMA NoPromises ==
  ASSUME NEW r, r.stage \notin {"truth", "replied", "snapshot", "complete"}, Staged(r),
         NEW st, NEW file, NEW held
  PROVE  Good(r, st, file, held)
BY DEF Good, Vouches, Copied, Stored, Accepted

\* A request that has ended other than by its answer promises nothing.
LEMMA EndedForm ==
  ASSUME NEW r \in Request, NEW stage \in {"error", "cancelled", "killed", "stuck"}
  PROVE  LET n == [r EXCEPT !.stage = stage]
         IN  n \in Request /\ n.stage = stage /\ \A st, file, held : Good(n, st, file, held)
<1>1. /\ [r EXCEPT !.stage = stage] \in Request
      /\ [r EXCEPT !.stage = stage].stage = stage
  BY StageNames DEF Request
<1>2. Staged([r EXCEPT !.stage = stage])
  BY <1>1 DEF Staged
<1>3. QED
  BY <1>1, <1>2, NoPromises

LEMMA GoForm ==
  ASSUME ServerInv, NEW h \in Requests, NEW stage \in {"error", "cancelled", "stuck"},
         Go(h, stage), Quiet
  PROVE  StepShape
<1>1. req \in [Requests -> Request] /\ req[h] \in Request
  BY DEF ServerInv
<1>2. req' = [req EXCEPT ![h] = [req[h] EXCEPT !.stage = stage]]
  BY <1>1 DEF Go
<1>3. MovesOn(h, [req[h] EXCEPT !.stage = stage])
  BY <1>1, <1>2, EndedForm DEF MovesOn, Quiet
<1>4. UNCHANGED storeVars
  BY DEF Quiet, storeVars
<1>5. QED
  BY <1>3, <1>4 DEF StepShape

LEMMA QuietForm ==
  ASSUME NEW h \in Requests, NEW n \in Request, Good(n, mem, disk, Kept),
         req' = [req EXCEPT ![h] = n], Quiet
  PROVE  StepShape
<1>1. MovesOn(h, n) /\ UNCHANGED storeVars
  BY DEF MovesOn, Quiet, storeVars
<1>2. QED
  BY <1>1 DEF StepShape

LEMMA CallSaveForm ==
  ASSUME NEW h \in Requests, NEW n \in Request, NEW new, NEW facts,
         ServerOperation(mem, new), Good(n, new, new, Facts(new)), CallSave(h, new, facts, n),
         Save(new, facts) => StoreNext
  PROVE  StepShape
<1>1. Writes(h, n, new)
  BY DEF CallSave, Saved, SaveFails, DiesSaving, Writes
<1>2. StoreNext
  BY DEF CallSave, Save
<1>3. QED
  BY <1>1, <1>2 DEF StepShape

----------------------------------------------------------------------------
(* The steps of the handlers.                                              *)

LEMMA StartSessionShape ==
  ASSUME ServerInv, NEW h \in Requests, NEW kind \in {"live", "create"},
         NEW slo \in SLOs \cup {NoSLO}, NEW cluster \in Clusters,
         StartSession(h, kind, slo, cluster)
  PROVE  StepShape
<1> DEFINE chosen == IF slo = NoSLO THEN mem.slo ELSE slo
           n == [req[h] EXCEPT !.kind = kind, !.stage = "create", !.slo = chosen,
                               !.cluster = cluster]
<1>1. req \in [Requests -> Request] /\ req[h] \in Request /\ Quiet
  BY DEF ServerInv, StartSession
<1>2. CASE slo = NoSLO \/ Valid(slo)
  <2>1. req' = [req EXCEPT ![h] = n]
    BY <1>1, <1>2 DEF StartSession
  <2>2. chosen \in SLOs /\ Usable(chosen)
    <3>1. CASE slo = NoSLO
      BY <3>1 DEF ServerInv, StoreTypeOK, State, Fine, UsableSLOs
    <3>2. CASE slo # NoSLO
      <4>1. Valid(slo)
        BY <1>2, <3>2
      <4>2. Usable(slo)
        BY <4>1 DEF ServerInv, Usable, Valid, ValidDimensions
      <4>3. QED
        BY <3>2, <4>2
    <3>3. QED
      BY <3>1, <3>2
  <2> HIDE DEF chosen
  <2>3. /\ n \in Request /\ n.kind = kind /\ n.stage = "create" /\ n.slo = chosen
        /\ n.cluster = cluster
    BY <1>1, <2>2, KindNames, StageNames DEF Request
  <2> HIDE DEF n
  <2>4. Staged(n)
    BY <2>2, <2>3 DEF Staged
  <2>5. Good(n, mem, disk, Kept)
    BY <2>3, <2>4, NoPromises
  <2>6. QED
    BY <1>1, <2>1, <2>3, <2>5, QuietForm
<1>3. CASE ~(slo = NoSLO \/ Valid(slo))
  BY <1>1, <1>3, GoForm DEF StartSession
<1>4. QED
  BY <1>2, <1>3

LEMMA CreateShape ==
  ASSUME ServerInv, NEW h \in Requests, NEW m \in Markers, Create(h, m)
  PROVE  StepShape
<1> DEFINE new == CreateSession(mem, m, req[h].cluster, req[h].slo)
           next == IF req[h].kind = "live" THEN "probe" ELSE "replied"
           n == [req[h] EXCEPT !.marker = m, !.stage = next]
<1>1. /\ req \in [Requests -> Request] /\ req[h] \in Request /\ mem \in State
      /\ req[h].stage = "create" /\ Staged(req[h])
  BY DEF ServerInv, StoreTypeOK, Good, Create, At
<1>2. CASE Exists(mem, m) /\ Go(h, "error") /\ Quiet
  BY <1>2, GoForm
<1>3. CASE ~Exists(mem, m) /\ CallSave(h, new, {<<"session", m>>}, n)
  <2>1. /\ req[h].kind \in {"live", "create"} /\ req[h].cluster \in Clusters
        /\ req[h].slo \in SLOs /\ Usable(req[h].slo)
    BY <1>1 DEF Staged
  <2>2. ServerOperation(mem, new)
    BY <1>3, <2>1 DEF ServerOperation
  <2>3. Save(new, {<<"session", m>>}) => StoreNext
    BY <1>3, <2>1 DEF StoreNext, DoCreateSession
  <2>4. n \in Request /\ n.kind = req[h].kind /\ n.stage = next /\ n.marker = m
    BY <1>1, KindNames, StageNames DEF Request
  <2> HIDE DEF n, new
  <2>5. n.stage \in {"probe", "replied"} /\ (n.stage = "replied" => n.kind = "create")
          /\ (n.stage = "probe" => n.kind = "live")
    BY <2>1, <2>4
  <2>6. Good(n, new, new, Facts(new))
    BY <2>4, <2>5 DEF Good, Staged, Vouches, Copied, Stored, Accepted
  <2>7. QED
    BY <1>3, <2>2, <2>3, <2>4, <2>6, CallSaveForm
<1>4. QED
  BY <1>2, <1>3 DEF Create

LEMMA ProbeShape ==
  ASSUME ServerInv, NEW h \in Requests, NEW events \in ProbeResults, Probe(h, events)
  PROVE  StepShape
<1> DEFINE n == [req[h] EXCEPT !.todo = events, !.stage = "truth"]
<1>1. /\ req \in [Requests -> Request] /\ req[h] \in Request /\ Quiet
      /\ req[h].stage = "probe" /\ Staged(req[h])
  BY DEF ServerInv, Good, Probe, At
<1>2. events \in Seq(Truths) /\ events # <<>>
  BY ServerAssumption
<1>3. req' = [req EXCEPT ![h] = n]
  BY <1>1 DEF Probe
<1>4. /\ n \in Request /\ n.kind = req[h].kind /\ n.stage = "truth" /\ n.todo = events
      /\ n.marker = req[h].marker
  BY <1>1, <1>2, KindNames, StageNames DEF Request
<1>5. req[h].kind = "live" /\ req[h].marker \in Markers
  BY <1>1 DEF Staged
<1> HIDE DEF n
<1>6. Good(n, mem, disk, Kept)
  BY <1>2, <1>4, <1>5 DEF Good, Staged, Vouches, Copied, Stored, Accepted
<1>7. QED
  BY <1>1, <1>3, <1>4, <1>6, QuietForm

LEMMA NextRequestShape ==
  ASSUME ServerInv, NEW h \in Requests, NextRequest(h)
  PROVE  StepShape
<1>1. NewRequest \in Request /\ NewRequest.stage = "new"
  BY KindNames, StageNames DEF NewRequest, Request
<1>2. Good(NewRequest, mem, disk, Kept)
  BY <1>1, NoPromises DEF Staged
<1>3. QED
  BY <1>1, <1>2, QuietForm DEF NextRequest

\* What clients were told about a session is known in memory.
LEMMA ClaimsKnown ==
  ASSUME NEW m \in Markers
  PROVE  /\ Claims(m) \in SUBSET AllFacts /\ Claims(m) \subseteq Facts(mem)
         /\ \A f \in Claims(m) : f[2] = m
<1>1. Facts(mem) \subseteq AllFacts
  BY DEF Facts, AllFacts
<1>2. QED
  BY <1>1 DEF Claims

LEMMA TimerFiresShape ==
  ASSUME ServerInv, NEW h \in Requests, TimerFires(h)
  PROVE  StepShape
<1> DEFINE n == [req[h] EXCEPT !.stage = "snapshot", !.claim = Claims(req[h].marker)]
<1>1. /\ req \in [Requests -> Request] /\ req[h] \in Request /\ Quiet
      /\ req[h].stage = "wait" /\ Staged(req[h])
  BY DEF ServerInv, Good, TimerFires, At
<1>2. req[h].kind = "live" /\ req[h].marker \in Markers
  BY <1>1 DEF Staged
<1>3. /\ Claims(req[h].marker) \in SUBSET AllFacts
      /\ Claims(req[h].marker) \subseteq Facts(mem)
      /\ \A f \in Claims(req[h].marker) : f[2] = req[h].marker
  BY <1>2, ClaimsKnown
<1>4. req' = [req EXCEPT ![h] = n]
  BY <1>1 DEF TimerFires
<1>5. /\ n \in Request /\ n.kind = req[h].kind /\ n.stage = "snapshot"
      /\ n.marker = req[h].marker /\ n.claim = Claims(req[h].marker)
  BY <1>1, <1>3, KindNames, StageNames DEF Request
<1> HIDE DEF n
<1>6. Good(n, mem, disk, Kept)
  BY <1>2, <1>3, <1>5 DEF Good, Staged, Vouches, Copied, Stored, Accepted
<1>7. QED
  BY <1>1, <1>4, <1>5, <1>6, QuietForm

LEMMA StartCorrelateShape ==
  ASSUME ServerInv, NEW h \in Requests, NEW m \in Markers, StartCorrelate(h, m)
  PROVE  StepShape
<1> DEFINE n == [req[h] EXCEPT !.kind = "correlate", !.stage = "snapshot", !.marker = m,
                               !.claim = Claims(m)]
<1>1. req \in [Requests -> Request] /\ req[h] \in Request /\ Quiet
  BY DEF ServerInv, StartCorrelate
<1>2. /\ Claims(m) \in SUBSET AllFacts /\ Claims(m) \subseteq Facts(mem)
      /\ \A f \in Claims(m) : f[2] = m
  BY ClaimsKnown
<1>3. req' = [req EXCEPT ![h] = n]
  BY <1>1 DEF StartCorrelate
<1>4. /\ n \in Request /\ n.kind = "correlate" /\ n.stage = "snapshot"
      /\ n.marker = m /\ n.claim = Claims(m)
  BY <1>1, <1>2, KindNames, StageNames DEF Request
<1> HIDE DEF n
<1>5. Good(n, mem, disk, Kept)
  BY <1>2, <1>4 DEF Good, Staged, Vouches, Copied, Stored, Accepted
<1>6. QED
  BY <1>1, <1>3, <1>4, <1>5, QuietForm

LEMMA StartTruthShape ==
  ASSUME ServerInv, NEW h \in Requests, NEW batch \in Seq(Truths) \ {<<>>},
         StartTruth(h, batch)
  PROVE  StepShape
<1> DEFINE claim == {TruthFact(batch[i]) : i \in DOMAIN batch}
           n == [req[h] EXCEPT !.kind = "truth", !.stage = "truth", !.todo = batch,
                               !.claim = claim]
<1>1. req \in [Requests -> Request] /\ req[h] \in Request /\ Quiet
  BY DEF ServerInv, StartTruth
<1>2. claim \in SUBSET AllFacts
  <2>1. \A i \in DOMAIN batch : batch[i] \in Truths
    OBVIOUS
  <2>2. QED
    BY <2>1 DEF AllFacts
<1>3. req' = [req EXCEPT ![h] = n]
  BY <1>1 DEF StartTruth
<1> HIDE DEF claim
<1>4. /\ n \in Request /\ n.kind = "truth" /\ n.stage = "truth"
      /\ n.todo = batch /\ n.claim = claim
  BY <1>1, <1>2, KindNames, StageNames DEF Request
<1> HIDE DEF n
<1>5. Staged(n)
  BY <1>4 DEF Staged
<1>6. n.claim \subseteq {TruthFact(n.todo[i]) : i \in DOMAIN n.todo}
  BY <1>4 DEF claim
<1>7. Good(n, mem, disk, Kept)
  BY <1>4, <1>5, <1>6 DEF Good, Vouches, Copied, Stored, Accepted
<1>8. QED
  BY <1>1, <1>3, <1>4, <1>7, QuietForm

LEMMA StartObservationsShape ==
  ASSUME ServerInv, NEW h \in Requests, NEW batch \in Seq(Observations) \ {<<>>},
         StartObservations(h, batch)
  PROVE  StepShape
<1> DEFINE n == [req[h] EXCEPT !.kind = "ingest", !.stage = "observe", !.todo = batch]
<1>1. req \in [Requests -> Request] /\ req[h] \in Request /\ Quiet
  BY DEF ServerInv, StartObservations
<1>2. req' = [req EXCEPT ![h] = n]
  BY <1>1 DEF StartObservations
<1>3. n \in Request /\ n.kind = "ingest" /\ n.stage = "observe" /\ n.todo = batch
  BY <1>1, KindNames, StageNames DEF Request
<1> HIDE DEF n
<1>4. Staged(n)
  BY <1>3 DEF Staged
<1>5. Good(n, mem, disk, Kept)
  BY <1>3, <1>4, NoPromises
<1>6. QED
  BY <1>1, <1>2, <1>3, <1>5, QuietForm

\* An operation makes nothing unknown.
LEMMA OperationFacts ==
  ASSUME NEW st \in State, Fine(st), NEW new, ServerOperation(st, new)
  PROVE  Facts(st) \subseteq Facts(new)
<1>1. \A n \in Markers : Grows(st.sessions[n], new.sessions[n])
  BY ServerOperationIsOne, SessionsGrow DEF Fine
<1>2. QED
  BY <1>1, FactsGrow

LEMMA AddedTruthIsKnown ==
  ASSUME NEW st \in State, NEW e \in Truths, NEW new, new = AddTruth(st, e)
  PROVE  TruthFact(e) \in Facts(new)
<1> DEFINE old == st.sessions[e.marker].truth
<1>1. e.marker \in Markers /\ old \in Seq(Truths)
  BY EventTypes, SessionsOfState DEF Session
<1>2. new.sessions[e.marker].truth = Append(old, e)
  <2>1. \A n \in Markers :
          new.sessions[n].truth = IF n = e.marker THEN Append(st.sessions[n].truth, e)
                                                  ELSE st.sessions[n].truth
    BY AddTruthForm
  <2>2. QED
    BY <1>1, <2>1
<1> HIDE DEF old
<1>3. Len(old) + 1 \in DOMAIN Append(old, e) /\ Append(old, e)[Len(old) + 1] = e
  BY <1>1
<1>4. KnownTruth(new, e)
  BY <1>2, <1>3 DEF KnownTruth, HasId
<1>5. QED
  BY <1>4 DEF Facts

\* The event at hand is dealt with: what follows it in the loop, or after it.
LEMMA AfterEventForm ==
  ASSUME ServerInv, NEW h \in Requests, req[h].stage \in {"truth", "observe"}
  PROVE  LET n == AfterEvent(h)
         IN  /\ n \in Request /\ n.kind = req[h].kind /\ n.marker = req[h].marker
             /\ n.claim = req[h].claim /\ n.todo = Tail(req[h].todo)
             /\ n.stage = IF Len(req[h].todo) > 1 THEN req[h].stage
                          ELSE IF req[h].kind = "live" THEN "wait" ELSE "replied"
             /\ Staged(n)
<1> DEFINE r == req[h]
           rest == Tail(r.todo)
           stage == IF Len(r.todo) > 1 THEN r.stage
                    ELSE IF r.kind = "live" THEN "wait" ELSE "replied"
           n == [r EXCEPT !.todo = rest, !.stage = stage]
<1>1. r \in Request /\ Staged(r) /\ r.stage \in {"truth", "observe"}
  BY DEF ServerInv, Good
<1>2. AfterEvent(h) = n
  BY <1>1 DEF AfterEvent, Request
<1> HIDE DEF r
<1>3. /\ r.todo # <<>>
      /\ r.stage = "truth" => r.todo \in Seq(Truths)
      /\ r.stage = "observe" => r.todo \in Seq(Observations)
      /\ r.kind \in {"live", "truth", "ingest"}
      /\ r.stage = "observe" => r.kind = "ingest"
      /\ r.stage = "truth" => r.kind = "truth" \/ (r.kind = "live" /\ r.marker \in Markers)
  BY <1>1 DEF Staged
<1>4. /\ r.stage = "truth" => rest \in Seq(Truths)
      /\ r.stage = "observe" => rest \in Seq(Observations)
      /\ Len(r.todo) > 1 => rest # <<>>
  <2>1. r.todo \in Seq(Truths) \/ r.todo \in Seq(Observations)
    BY <1>1, <1>3
  <2>2. QED
    <3>1. ASSUME NEW S, r.todo \in Seq(S)
          PROVE  rest \in Seq(S) /\ (Len(r.todo) > 1 => rest # <<>>)
      <4>1. Len(rest) = Len(r.todo) - 1 /\ rest \in Seq(S) /\ Len(r.todo) \in Nat
        BY <1>3, <3>1, HeadTailProperties
      <4> HIDE DEF rest
      <4>2. rest = <<>> => Len(rest) = 0
        OBVIOUS
      <4>3. QED
        BY <4>1, <4>2
    <3> HIDE DEF rest
    <3>2. QED
      BY <1>3, <2>1, <3>1
<1>5. /\ stage \in {r.stage, "wait", "replied"}
      /\ stage \in Final \cup {"truth", "observe", "wait"}
      /\ stage \in RequestStages
  BY <1>1, StageNames DEF Final
<1>6. /\ Len(r.todo) > 1 => stage = r.stage
      /\ stage = "wait" => r.kind = "live" /\ r.stage = "truth"
      /\ stage = "replied" => r.kind # "live"
  BY <1>1, <1>3
<1>7. stage \in {"truth", "observe"} => stage = r.stage /\ rest # <<>>
  BY <1>4, <1>6
<1>8. n.stage = IF Len(r.todo) > 1 THEN r.stage
                ELSE IF r.kind = "live" THEN "wait" ELSE "replied"
  BY <1>1 DEF Request
<1> HIDE DEF stage, rest
<1>9. /\ n \in Request /\ n.kind = r.kind /\ n.marker = r.marker /\ n.claim = r.claim
      /\ n.todo = rest /\ n.stage = stage
  <2>1. rest \in Seq(Truths) \cup Seq(Observations)
    BY <1>1, <1>4
  <2>2. QED
    BY <1>1, <1>5, <2>1 DEF Request
<1> HIDE DEF n
<1>10. Staged(n)
  BY <1>1, <1>3, <1>4, <1>5, <1>6, <1>7, <1>9 DEF Staged
<1>11. QED
  BY <1>2, <1>8, <1>9, <1>10 DEF r, rest

\* Each element but the first is in the tail.
LEMMA TailHasRest ==
  ASSUME NEW S, NEW s \in Seq(S), s # <<>>, NEW i \in DOMAIN s
  PROVE  i = 1 \/ (i - 1 \in DOMAIN Tail(s) /\ Tail(s)[i - 1] = s[i])
OBVIOUS

LEMMA TruthHandled ==
  ASSUME ServerInv, NEW h \in Requests, At(h, "truth"),
         NEW st, NEW file, NEW held, Facts(mem) \subseteq Facts(st), Facts(st) \subseteq held,
         TruthFact(Head(req[h].todo)) \in Facts(st)
  PROVE  Good(AfterEvent(h), st, file, held)
<1> DEFINE r == req[h]
           n == AfterEvent(h)
<1>1. r \in Request /\ Staged(r) /\ Vouches(r, mem) /\ r.stage = "truth"
  BY DEF ServerInv, Good, At
<1>2. r.todo \in Seq(Truths) /\ r.todo # <<>>
  BY <1>1 DEF Staged
<1>3. /\ n.kind = r.kind /\ n.claim = r.claim /\ n.todo = Tail(r.todo) /\ Staged(n)
      /\ n.stage = IF Len(r.todo) > 1 THEN "truth"
                   ELSE IF r.kind = "live" THEN "wait" ELSE "replied"
  BY <1>1, AfterEventForm
<1>4. r.kind \in {"truth", "live"}
  BY <1>1 DEF Staged
<1>5. \A i \in DOMAIN r.todo :
        i = 1 \/ (i - 1 \in DOMAIN Tail(r.todo) /\ Tail(r.todo)[i - 1] = r.todo[i])
  <2> HIDE DEF r
  <2>1. QED
    BY <1>2, TailHasRest
<1>6. \A i \in DOMAIN r.todo :
        TruthFact(r.todo[i]) \in Facts(st)
          \/ \E j \in DOMAIN Tail(r.todo) : TruthFact(Tail(r.todo)[j]) = TruthFact(r.todo[i])
  <2>1. TAKE i \in DOMAIN r.todo
  <2>2. CASE i = 1
    <3>1. Head(r.todo) = r.todo[1]
      BY <1>2
    <3>2. QED
      BY <2>2, <3>1
  <2>3. CASE i # 1
    BY <1>5, <2>3
  <2>4. QED
    BY <2>2, <2>3
<1>7. r.kind = "truth"
        => r.claim \subseteq Facts(mem) \cup {TruthFact(r.todo[i]) : i \in DOMAIN r.todo}
  BY <1>1 DEF Vouches
<1> HIDE DEF r, n
<1>8. ASSUME r.kind = "truth"
      PROVE  r.claim \subseteq Facts(st) \cup
               {TruthFact(Tail(r.todo)[i]) : i \in DOMAIN Tail(r.todo)}
  BY <1>6, <1>7, <1>8
<1>9. ~(Len(r.todo) > 1) => DOMAIN Tail(r.todo) = {}
  BY <1>2
<1>10. Vouches(n, st) /\ Accepted(n, held)
  <2>1. n.kind = "truth" /\ n.stage = "replied" => n.claim \subseteq Facts(st)
    BY <1>3, <1>8, <1>9
  <2>2. n.stage = "truth" /\ n.kind = "truth" =>
          n.claim \subseteq Facts(st) \cup {TruthFact(n.todo[i]) : i \in DOMAIN n.todo}
    BY <1>3, <1>8
  <2>3. n.stage \in {"truth", "wait", "replied"}
    BY <1>3
  <2>4. QED
    BY <2>1, <2>2, <2>3 DEF Vouches, Accepted
<1>11. Copied(n, st) /\ Stored(n, file)
  BY <1>3, <1>4 DEF Copied, Stored
<1>12. QED
  BY <1>3, <1>10, <1>11 DEF Good, n

LEMMA StoreTruthShape ==
  ASSUME ServerInv, NEW h \in Requests, StoreTruth(h)
  PROVE  StepShape
<1> DEFINE e == Head(req[h].todo)
           new == AddTruth(mem, e)
<1>1. /\ req \in [Requests -> Request] /\ mem \in State /\ Fine(mem)
      /\ At(h, "truth") /\ Staged(req[h])
  BY DEF ServerInv, StoreTypeOK, Good, StoreTruth
<1>2. e \in Truths /\ e.marker \in Markers
  <2>1. req[h].todo \in Seq(Truths) /\ req[h].todo # <<>>
    BY <1>1 DEF Staged, At
  <2>2. QED
    BY <2>1, EventTypes
<1>3. AfterEvent(h) \in Request
  BY <1>1, AfterEventForm DEF At
<1>4. CASE ~Exists(mem, e.marker) /\ Go(h, "error") /\ Quiet
  BY <1>4, GoForm
<1>5. CASE /\ Exists(mem, e.marker) /\ KnownTruth(mem, e)
           /\ Duplicate({TruthFact(e)}) /\ UNCHANGED order
           /\ req' = [req EXCEPT ![h] = AfterEvent(h)]
  <2>1. TruthFact(e) \in Facts(mem)
    BY <1>2, <1>5 DEF Facts
  <2>2. Good(AfterEvent(h), mem, disk, Kept)
    BY <1>1, <2>1, TruthHandled DEF ServerInv, LostInv
  <2>3. MovesOn(h, AfterEvent(h))
    BY <1>3, <1>5, <2>2 DEF MovesOn, Duplicate
  <2>4. StoreNext
    BY <1>2, <1>5 DEF StoreNext, DoAddTruth
  <2>5. QED
    BY <2>3, <2>4 DEF StepShape
<1>6. CASE /\ Exists(mem, e.marker) /\ ~KnownTruth(mem, e)
           /\ CallSave(h, new, {TruthFact(e)}, AfterEvent(h))
  <2>1. ServerOperation(mem, new)
    BY <1>2, <1>6 DEF ServerOperation
  <2>2. TruthFact(e) \in Facts(new)
    BY <1>1, <1>2, AddedTruthIsKnown
  <2>3. Facts(mem) \subseteq Facts(new)
    BY <1>1, <2>1, OperationFacts
  <2> HIDE DEF new
  <2>4. Good(AfterEvent(h), new, new, Facts(new))
    BY <1>1, <2>2, <2>3, TruthHandled
  <2>5. Save(new, {TruthFact(e)}) => StoreNext
    BY <1>2, <1>6 DEF StoreNext, DoAddTruth, new
  <2>6. QED
    BY <1>3, <1>6, <2>1, <2>4, <2>5, CallSaveForm
<1>7. QED
  BY <1>4, <1>5, <1>6 DEF StoreTruth

LEMMA StoreObservationShape ==
  ASSUME ServerInv, NEW h \in Requests, StoreObservation(h)
  PROVE  StepShape
<1> DEFINE e == Head(req[h].todo)
           new == AddObservation(mem, e)
           n == AfterEvent(h)
<1>1. /\ req \in [Requests -> Request] /\ At(h, "observe") /\ req[h].stage = "observe"
      /\ Staged(req[h])
  BY DEF ServerInv, Good, StoreObservation, At
<1>2. e \in Observations /\ req[h].kind = "ingest"
  BY <1>1 DEF Staged
<1>3. /\ n \in Request /\ n.kind = "ingest" /\ n.stage \in {"observe", "replied"}
      /\ Staged(n)
  BY <1>1, <1>2, AfterEventForm
<1> HIDE DEF n
<1>4. \A st, file, held : Good(n, st, file, held)
  BY <1>3 DEF Good, Vouches, Copied, Stored, Accepted
<1>5. CASE /\ KnownObservation(mem, e)
           /\ Duplicate({ObservationFact(e)}) /\ UNCHANGED order
           /\ req' = [req EXCEPT ![h] = n]
  <2>1. MovesOn(h, n)
    BY <1>3, <1>4, <1>5 DEF MovesOn, Duplicate
  <2>2. StoreNext
    BY <1>2, <1>5 DEF StoreNext, DoAddObservation
  <2>3. QED
    BY <2>1, <2>2 DEF StepShape
<1>6. CASE ~KnownObservation(mem, e) /\ CallSave(h, new, {ObservationFact(e)}, n)
  <2>1. ServerOperation(mem, new)
    BY <1>2, <1>6 DEF ServerOperation
  <2>2. Save(new, {ObservationFact(e)}) => StoreNext
    BY <1>2, <1>6 DEF StoreNext, DoAddObservation
  <2>3. QED
    BY <1>3, <1>4, <1>6, <2>1, <2>2, CallSaveForm
<1>7. QED
  BY <1>5, <1>6 DEF StoreObservation, n

\* What is known of a session's evidence is in a copy of the session.
LEMMA KnownIsCopied ==
  ASSUME NEW st, AtHome(st), NEW m \in Markers, NEW f \in Facts(st),
         f[1] \in {"truth", "observation"}, f[2] = m,
         NEW r, r.truth = st.sessions[m].truth, r.observations = st.sessions[m].observations
  PROVE  f \in ScoredBy(r)
<1>1. \/ \E n \in Markers : f = <<"session", n>> \/ f = <<"completed", n>>
      \/ \E e \in Truths : f = TruthFact(e) /\ KnownTruth(st, e)
      \/ \E e \in Observations :
           f = ObservationFact(e) /\ HasId(st.sessions[e.marker].observations, e.id)
  BY DEF Facts
<1>2. CASE \E e \in Truths : f = TruthFact(e) /\ KnownTruth(st, e)
  <2>1. PICK e \in Truths : f = TruthFact(e) /\ KnownTruth(st, e)
    BY <1>2
  <2>2. e.marker = m
    BY <2>1 DEF TruthFact
  <2>3. PICK i \in DOMAIN r.truth : r.truth[i].id = e.id
    BY <2>1, <2>2 DEF KnownTruth, HasId
  <2>4. r.truth[i].marker = m
    BY <2>3 DEF AtHome
  <2>5. f = TruthFact(r.truth[i])
    BY <2>1, <2>2, <2>3, <2>4 DEF TruthFact
  <2>6. QED
    BY <2>3, <2>5 DEF ScoredBy
<1>3. CASE \E e \in Observations :
             f = ObservationFact(e) /\ HasId(st.sessions[e.marker].observations, e.id)
  <2>1. PICK e \in Observations :
          f = ObservationFact(e) /\ HasId(st.sessions[e.marker].observations, e.id)
    BY <1>3
  <2>2. e.marker = m
    BY <2>1 DEF ObservationFact
  <2>3. PICK i \in DOMAIN r.observations : r.observations[i].id = e.id
    BY <2>1, <2>2 DEF HasId
  <2>4. r.observations[i].marker = m
    BY <2>3 DEF AtHome
  <2>5. f = ObservationFact(r.observations[i])
    BY <2>1, <2>2, <2>3, <2>4 DEF ObservationFact
  <2>6. QED
    BY <2>3, <2>5 DEF ScoredBy
<1>4. CASE \E n \in Markers : f = <<"session", n>> \/ f = <<"completed", n>>
  BY <1>4
<1>5. QED
  BY <1>1, <1>2, <1>3, <1>4

LEMMA SnapshotShape ==
  ASSUME ServerInv, NEW h \in Requests, Snapshot(h)
  PROVE  StepShape
<1> DEFINE m == req[h].marker
           session == mem.sessions[m]
           n == [req[h] EXCEPT !.stage = "complete", !.slo = session.slo,
                               !.truth = session.truth,
                               !.observations = session.observations]
<1>1. /\ req \in [Requests -> Request] /\ req[h] \in Request /\ Quiet
      /\ req[h].stage = "snapshot" /\ Staged(req[h]) /\ Vouches(req[h], mem)
      /\ mem \in State /\ AtHome(mem)
  BY DEF ServerInv, Good, Fine, StoreTypeOK, Snapshot, At
<1>2. req[h].kind \in {"live", "correlate"} /\ m \in Markers
  BY <1>1 DEF Staged
<1>3. /\ session.slo \in SLOs \cup {NoSLO} /\ session.truth \in Seq(Truths)
      /\ session.observations \in Seq(Observations)
  BY <1>1, <1>2, SessionsOfState DEF Session
<1>4. CASE ~Exists(mem, m) /\ Go(h, "error")
  BY <1>1, <1>4, GoForm
<1>5. CASE Exists(mem, m) /\ req' = [req EXCEPT ![h] = n]
  <2>1. /\ n \in Request /\ n.kind = req[h].kind /\ n.stage = "complete" /\ n.marker = m
        /\ n.claim = req[h].claim /\ n.slo = session.slo /\ n.truth = session.truth
        /\ n.observations = session.observations
    <3> HIDE DEF session
    <3>1. QED
      BY <1>1, <1>3, KindNames, StageNames DEF Request
  <2> HIDE DEF n
  <2>2. req[h].claim \subseteq Facts(mem) /\ \A f \in req[h].claim : f[2] = m
    BY <1>1 DEF Vouches
  <2>3. \A f \in n.claim : f[1] \in {"truth", "observation"} => f \in ScoredBy(n)
    BY <1>1, <1>2, <2>1, <2>2, KnownIsCopied
  <2>4. Vouches(n, mem)
    BY <2>1, <2>3 DEF Vouches
  <2>5. Copied(n, mem)
    BY <1>3, <1>5, <2>1, BeganSelf DEF Copied
  <2>6. Staged(n) /\ Stored(n, disk) /\ Accepted(n, Kept)
    BY <1>2, <2>1 DEF Staged, Stored, Accepted
  <2>7. Good(n, mem, disk, Kept)
    BY <2>4, <2>5, <2>6 DEF Good
  <2>8. QED
    BY <1>1, <1>5, <2>1, <2>7, QuietForm
<1>6. QED
  BY <1>4, <1>5 DEF Snapshot

LEMMA CompleteShape ==
  ASSUME ServerInv, NEW h \in Requests, Complete(h)
  PROVE  StepShape
<1> DEFINE r == req[h]
           m == r.marker
           run == LiveRun(m, r.slo, r.truth, r.observations)
           new == CompleteSession(mem, m, run)
           n == [r EXCEPT !.stage = "replied"]
<1>1. /\ req \in [Requests -> Request] /\ r \in Request
      /\ r.stage = "complete" /\ Staged(r) /\ Copied(r, mem)
      /\ mem \in State /\ UsableSLOs(mem)
  BY DEF ServerInv, Good, Fine, StoreTypeOK, Complete, At
<1>2. r.kind \in {"live", "correlate"} /\ m \in Markers
  BY <1>1 DEF Staged
<1>3. /\ Exists(mem, m) /\ r.slo = mem.sessions[m].slo
      /\ Began(r.truth, mem.sessions[m].truth)
      /\ Began(r.observations, mem.sessions[m].observations)
  BY <1>1 DEF Copied
<1>4. r.slo \in SLOs /\ r.truth \in Seq(Truths) /\ r.observations \in Seq(Observations)
  BY <1>1, <1>2, <1>3 DEF UsableSLOs, Request
<1>5. run \in Runs
  BY <1>2, <1>4, LiveRunsAreRuns
<1>6. run.id = m
  BY DEF LiveRun
<1>7. ReflectsSession(run, mem.sessions[m])
  BY <1>3, <1>6 DEF ReflectsSession
<1>8. CallSave(h, new, {<<"completed", m>>}, n)
  BY <1>6 DEF Complete
<1> HIDE DEF run
<1>9. ServerOperation(mem, new)
  BY <1>2, <1>3, <1>5, <1>6, <1>7 DEF ServerOperation
<1>10. Save(new, {<<"completed", m>>}) => StoreNext
  <2>1. run \in RunsOf(m)
    BY <1>5, <1>6 DEF RunsOf
  <2>2. QED
    BY <1>2, <1>3, <2>1 DEF StoreNext, DoCompleteSession
<1>11. new.sessions[m].status = "completed"
  <2>1. \A p \in Markers :
          new.sessions[p].status = IF p = m THEN "completed" ELSE mem.sessions[p].status
    BY <1>1, <1>2, <1>5, CompleteSessionForm
  <2>2. QED
    BY <1>2, <2>1
<1>12. /\ n \in Request /\ n.kind = r.kind /\ n.stage = "replied" /\ n.marker = m
       /\ n.slo = r.slo /\ n.truth = r.truth /\ n.observations = r.observations
  BY <1>1, KindNames, StageNames DEF Request
<1>15. /\ new.sessions[m].slo = mem.sessions[m].slo
       /\ new.sessions[m].truth = mem.sessions[m].truth
       /\ new.sessions[m].observations = mem.sessions[m].observations
  BY <1>1, <1>2, <1>5, CompleteSessionForm
<1> HIDE DEF n, new
<1>13. Good(n, new, new, Facts(new))
  BY <1>2, <1>3, <1>11, <1>12, <1>15 DEF Good, Staged, Vouches, Copied, Stored, Accepted
<1>14. QED
  BY <1>8, <1>9, <1>10, <1>12, <1>13, CallSaveForm

LEMMA PutSLOShape ==
  ASSUME ServerInv, NEW h \in Requests, NEW slo \in PutSLOs, PutSLO(h, slo)
  PROVE  StepShape
<1> DEFINE full == Defaulted(slo)
           new == UpdateSLO(mem, full)
           n == [req[h] EXCEPT !.kind = "slo", !.stage = "replied"]
<1>1. /\ req \in [Requests -> Request] /\ req[h] \in Request
      /\ order \in Orders /\ ToSet(order) \subseteq Dimensions
  BY DEF ServerInv
<1>2. CASE Go(h, "error") /\ Quiet
  BY <1>2, GoForm
<1>3. CASE Valid(full) /\ CallSave(h, new, {}, n)
  <2>1. full \in SLOs
    BY <1>1, <1>3, ServerAssumption DEF Valid, ValidDimensions, Defaulted
  <2>2. Usable(full)
    BY <1>1, <1>3 DEF Valid, ValidDimensions, Usable
  <2> HIDE DEF full
  <2>3. ServerOperation(mem, new)
    BY <2>1, <2>2 DEF ServerOperation
  <2>4. Save(new, {}) => StoreNext
    BY <2>1 DEF StoreNext, DoUpdateSLO
  <2>5. n \in Request /\ n.kind = "slo" /\ n.stage = "replied"
    BY <1>1, KindNames, StageNames DEF Request
  <2> HIDE DEF n, new
  <2>6. Good(n, new, new, Facts(new))
    BY <2>5 DEF Good, Staged, Vouches, Copied, Stored, Accepted
  <2>7. QED
    BY <1>3, <2>3, <2>4, <2>5, <2>6, CallSaveForm
<1>4. QED
  BY <1>2, <1>3 DEF PutSLO

LEMMA StartDemoShape ==
  ASSUME ServerInv, NEW h \in Requests, StartDemo(h)
  PROVE  StepShape
<1> DEFINE n == [req[h] EXCEPT !.kind = "demo", !.stage = "add", !.slo = mem.slo]
<1>1. req \in [Requests -> Request] /\ req[h] \in Request /\ Quiet /\ mem.slo \in SLOs
  BY DEF ServerInv, StoreTypeOK, State, StartDemo
<1>2. req' = [req EXCEPT ![h] = n]
  BY <1>1 DEF StartDemo
<1>3. n \in Request /\ n.kind = "demo" /\ n.stage = "add" /\ n.slo = mem.slo
  BY <1>1, KindNames, StageNames DEF Request
<1> HIDE DEF n
<1>4. Good(n, mem, disk, Kept)
  BY <1>1, <1>3, NoPromises DEF Staged
<1>5. QED
  BY <1>1, <1>2, <1>3, <1>4, QuietForm

LEMMA AddDemoShape ==
  ASSUME ServerInv, NEW h \in Requests, NEW scenario \in Scenarios \cup {""},
         AddDemo(h, scenario)
  PROVE  StepShape
<1>0. PICK id \in DemoIds :
        CallSave(h, AddRun(mem, RunOfDemo(id, DemoVerdict[req[h].slo, scenario])), {},
                 [req[h] EXCEPT !.stage = "replied"])
  BY DEF AddDemo
<1> DEFINE run == RunOfDemo(id, DemoVerdict[req[h].slo, scenario])
           new == AddRun(mem, run)
           n == [req[h] EXCEPT !.stage = "replied"]
<1>1. /\ req \in [Requests -> Request] /\ req[h] \in Request
      /\ req[h].kind = "demo" /\ req[h].slo \in SLOs /\ CallSave(h, new, {}, n)
  BY <1>0 DEF ServerInv, Good, Staged, AddDemo, At
<1>2. run \in DemoRuns
  BY <1>1, ServerAssumption
<1> HIDE DEF run
<1>3. ServerOperation(mem, new)
  BY <1>2 DEF ServerOperation
<1>4. Save(new, {}) => StoreNext
  BY <1>2 DEF StoreNext, DoAddRun
<1>5. n \in Request /\ n.kind = "demo" /\ n.stage = "replied"
  BY <1>1, KindNames, StageNames DEF Request
<1> HIDE DEF n, new
<1>6. Good(n, new, new, Facts(new))
  BY <1>5 DEF Good, Staged, Vouches, Copied, Stored, Accepted
<1>7. QED
  BY <1>1, <1>3, <1>4, <1>5, <1>6, CallSaveForm

LEMMA AnyStepShape ==
  ASSUME ServerInv, AnyStep
  PROVE  StepShape
<1>1. ASSUME NEW h \in Requests, Opens(h)
      PROVE  StepShape
  BY <1>1, StartSessionShape, StartTruthShape, StartObservationsShape, StartCorrelateShape,
     PutSLOShape, StartDemoShape DEF Opens
<1>2. ASSUME NEW h \in Requests, Proceed(h)
      PROVE  StepShape
  BY <1>2, CreateShape, ProbeShape, StoreTruthShape, StoreObservationShape, TimerFiresShape,
     SnapshotShape, CompleteShape, AddDemoShape DEF Proceed
<1>3. ASSUME NEW h \in Requests, ProbeHangs(h)
      PROVE  StepShape
  BY <1>3, GoForm DEF ProbeHangs
<1>4. ASSUME NEW h \in Requests, Cancelled(h)
      PROVE  StepShape
  BY <1>4, GoForm DEF Cancelled
<1>5. ASSUME NEW h \in Requests, NextRequest(h)
      PROVE  StepShape
  BY <1>5, NextRequestShape
<1>6. CASE Crash
  BY <1>6 DEF Crash, StepShape, StoreNext
<1>7. CASE UNCHANGED vars
  BY <1>7 DEF StepShape, vars, storeVars
<1>8. QED
  BY <1>1, <1>2, <1>3, <1>4, <1>5, <1>6, <1>7 DEF AnyStep

----------------------------------------------------------------------------
(* The invariant is inductive.                                             *)

LEMMA CarriesTransitive ==
  ASSUME NEW a, NEW b, NEW c \in State, NEW m \in Markers, Carries(m, a, b), Carries(m, b, c)
  PROVE  Carries(m, a, c)
<1>1. Grows(a.sessions[m], c.sessions[m])
  BY DEF Carries, Grows
<1>2. c.sessions[m].truth \in Seq(Truths) /\ c.sessions[m].observations \in Seq(Observations)
  BY SessionsOfState DEF Session
<1>3. Lasts(m, a, c)
  BY <1>2, BeganTransitive DEF Carries, Lasts
<1>4. QED
  BY <1>1, <1>3 DEF Carries

LEMMA CarriesSelf ==
  ASSUME NEW a \in State, NEW m \in Markers
  PROVE  Carries(m, a, a)
<1>1. a.sessions[m].truth \in Seq(Truths) /\ a.sessions[m].observations \in Seq(Observations)
  BY SessionsOfState DEF Session
<1>2. QED
  BY <1>1, BeganSelf DEF Carries, Lasts, Grows

\* What was answered stays on disk.
LEMMA StoredLater ==
  ASSUME NEW r, Staged(r), NEW file, NEW later \in State, Stored(r, file),
         \A m \in Markers : Carries(m, file, later)
  PROVE  Stored(r, later)
<1>1. SUFFICES ASSUME r.stage = "replied", r.kind \in {"live", "correlate"}
               PROVE  /\ later.sessions[r.marker].status = "completed"
                      /\ r.slo = later.sessions[r.marker].slo
                      /\ Began(r.truth, later.sessions[r.marker].truth)
                      /\ Began(r.observations, later.sessions[r.marker].observations)
  BY DEF Stored
<1> DEFINE m == r.marker
<1>2. m \in Markers
  BY <1>1 DEF Staged
<1>3. /\ file.sessions[m].status = "completed" /\ r.slo = file.sessions[m].slo
      /\ Began(r.truth, file.sessions[m].truth)
      /\ Began(r.observations, file.sessions[m].observations)
  BY <1>1 DEF Stored
<1>4. /\ later.sessions[m].status = "completed"
      /\ later.sessions[m].slo = file.sessions[m].slo
      /\ Began(file.sessions[m].truth, later.sessions[m].truth)
      /\ Began(file.sessions[m].observations, later.sessions[m].observations)
  BY <1>2, <1>3 DEF Carries, Grows, Lasts, Exists
<1>5. /\ later.sessions[m].truth \in Seq(Truths)
      /\ later.sessions[m].observations \in Seq(Observations)
  BY <1>2, SessionsOfState DEF Session
<1>6. QED
  BY <1>3, <1>4, <1>5, BeganTransitive

\* A request that waits while memory and file learn more is as good as before.
LEMMA GoodLater ==
  ASSUME NEW r \in Request, NEW st \in State, NEW new \in State, NEW file,
         NEW later \in State, NEW held, NEW more, Good(r, st, file, held),
         Facts(st) \subseteq Facts(new), held \subseteq more,
         \A m \in Markers : Lasts(m, st, new),
         \A m \in Markers : Carries(m, file, later)
  PROVE  Good(r, new, later, more)
<1>1. Staged(r) /\ Vouches(r, new) /\ Accepted(r, more)
  BY DEF Good, Vouches, Accepted
<1>2. Copied(r, new)
  <2>1. SUFFICES ASSUME r.stage = "complete"
                 PROVE  /\ Exists(new, r.marker) /\ r.slo = new.sessions[r.marker].slo
                        /\ Began(r.truth, new.sessions[r.marker].truth)
                        /\ Began(r.observations, new.sessions[r.marker].observations)
    BY DEF Copied
  <2> DEFINE m == r.marker
  <2>2. m \in Markers
    BY <2>1 DEF Good, Staged
  <2>3. /\ Exists(st, m) /\ r.slo = st.sessions[m].slo
        /\ Began(r.truth, st.sessions[m].truth)
        /\ Began(r.observations, st.sessions[m].observations)
    BY <2>1 DEF Good, Copied
  <2>4. /\ Exists(new, m) /\ new.sessions[m].slo = st.sessions[m].slo
        /\ Began(st.sessions[m].truth, new.sessions[m].truth)
        /\ Began(st.sessions[m].observations, new.sessions[m].observations)
    BY <2>2, <2>3 DEF Lasts
  <2>5. /\ new.sessions[m].truth \in Seq(Truths)
        /\ new.sessions[m].observations \in Seq(Observations)
    BY <2>2, SessionsOfState DEF Session
  <2>6. QED
    BY <2>3, <2>4, <2>5, BeganTransitive
<1>3. Stored(r, later)
  BY StoredLater DEF Good
<1>4. QED
  BY <1>1, <1>2, <1>3 DEF Good

LEMMA GoodKept ==
  ASSUME NEW r, NEW st, NEW file, NEW held, NEW more, Good(r, st, file, held), held \subseteq more
  PROVE  Good(r, st, file, more)
BY DEF Good, Accepted

\* What KillAll makes of a request.
Killed(r) == IF r.stage \in Final \cup {"new"} THEN r ELSE [r EXCEPT !.stage = "killed"]

\* A request that has ended stays good, for what its answer vouched for is kept.
LEMMA GoodKilled ==
  ASSUME NEW r \in Request, NEW st, NEW new, NEW file, NEW later \in State,
         NEW held, NEW more, Good(r, st, file, held), held \subseteq more,
         \A m \in Markers : Carries(m, file, later)
  PROVE  Killed(r) \in Request /\ Good(Killed(r), new, later, more)
<1>1. CASE r.stage \in Final \cup {"new"}
  <2>1. r.stage \notin {"truth", "snapshot", "complete"}
    BY <1>1 DEF Final
  <2>2. Staged(r) /\ Vouches(r, new) /\ Copied(r, new) /\ Accepted(r, more)
    BY <2>1 DEF Good, Vouches, Copied, Accepted
  <2>3. Stored(r, later)
    BY StoredLater DEF Good
  <2>4. QED
    BY <1>1, <2>2, <2>3 DEF Good, Killed
<1>2. CASE r.stage \notin Final \cup {"new"}
  BY <1>2, EndedForm DEF Killed
<1>3. QED
  BY <1>1, <1>2

LEMMA ElementsMakeSeq ==
  ASSUME NEW S, NEW T, NEW s \in Seq(S), \A i \in DOMAIN s : s[i] \in T
  PROVE  s \in Seq(T)
OBVIOUS

LEMMA OrderAfterDimensions ==
  ASSUME NEW slo \in SLOs, Usable(slo)
  PROVE  OrderAfter(slo.required) \in Orders /\ ToSet(OrderAfter(slo.required)) \subseteq Dimensions
<1> DEFINE s == slo.required
           rest == SubSeq(DimensionOrder, Len(s) + 1, Len(DimensionOrder))
<1>1. s \in Seq(Dimensions) /\ Len(s) \in Nat
  <2>1. s \in Seq(STRING)
    BY ServerAssumption
  <2>2. \A i \in DOMAIN s : s[i] \in Dimensions
    BY DEF Usable, ToSet
  <2> HIDE DEF s
  <2>3. QED
    BY <2>1, <2>2, ElementsMakeSeq
<1>2. DimensionOrder \in Seq(Dimensions) /\ Len(DimensionOrder) \in Nat
  <2>1. /\ DOMAIN DimensionOrder = 1..8 /\ Len(DimensionOrder) = 8
        /\ DimensionOrder = [i \in 1..8 |-> DimensionOrder[i]]
    BY DEF DimensionOrder
  <2>2. \A i \in DOMAIN DimensionOrder : DimensionOrder[i] \in Dimensions
    BY DEF Dimensions, ToSet
  <2>3. QED
    BY <2>1, <2>2
<1>3. rest \in Seq(Dimensions)
  <2>1. CASE Len(s) + 1 > Len(DimensionOrder)
    BY <1>1, <1>2, <2>1, SubSeqEmpty
  <2>2. CASE Len(s) + 1 <= Len(DimensionOrder)
    BY <1>1, <1>2, <2>2, SubSeqProperties
  <2>3. QED
    BY <1>1, <1>2, <2>1, <2>2
<1> HIDE DEF s, rest
<1>4. s \o rest \in Seq(Dimensions)
  BY <1>1, <1>3
<1>5. ToSet(s \o rest) \subseteq Dimensions
  BY <1>4 DEF ToSet
<1>6. QED
  BY <1>5 DEF OrderAfter, Orders, s, rest

\* A handler's own moves.
LEMMA MovesOnKeeps ==
  ASSUME ServerInv, NEW h \in Requests, NEW n, MovesOn(h, n), LostInv'
  PROVE  ServerInv'
<1>1. mem' = mem /\ disk' = disk /\ order' = order /\ Kept' = Kept
  BY DEF MovesOn, Kept
<1>2. req' \in [Requests -> Request]
  BY DEF ServerInv, MovesOn
<1>3. \A g \in Requests : Good(req'[g], mem, disk, Kept)
  BY DEF ServerInv, MovesOn
<1>4. \A g \in Requests : Good(req'[g], mem', disk', Kept')
  BY <1>1, <1>3
<1>5. StoreTypeOK' /\ Fine(mem') /\ Fine(disk') /\ Ahead(mem', disk')
  BY <1>1 DEF ServerInv, StoreTypeOK
<1>6. QED
  BY <1>1, <1>2, <1>4, <1>5 DEF ServerInv

\* The process dies: memory and file are what the file was or was becoming.
LEMMA DeathKeeps ==
  ASSUME ServerInv, KillAll, mem' = disk', disk' \in State, Fine(disk'),
         LostInv', Kept \subseteq Kept', \A m \in Markers : Carries(m, disk, disk')
  PROVE  ServerInv'
<1>1. StoreTypeOK' /\ Fine(mem') /\ Fine(disk')
  BY DEF StoreTypeOK
<1>2. Ahead(mem', disk')
  BY CarriesSelf DEF Ahead
<1>3. order' \in Orders /\ ToSet(order') \subseteq Dimensions
  <2>1. (disk').slo \in SLOs /\ Usable((disk').slo)
    BY DEF State, Fine, UsableSLOs
  <2>2. order' = OrderAfter((disk').slo.required)
    BY DEF KillAll, ReadOrder
  <2>3. QED
    BY <2>1, <2>2, OrderAfterDimensions
<1>4. req' = [h \in Requests |-> Killed(req[h])]
  BY DEF KillAll, Killed
<1>5. ASSUME NEW h \in Requests
      PROVE  Killed(req[h]) \in Request /\ Good(Killed(req[h]), mem', disk', Kept')
  <2>1. req[h] \in Request /\ Good(req[h], mem, disk, Kept)
    BY DEF ServerInv
  <2>2. QED
    BY <2>1, GoodKilled
<1>6. req' \in [Requests -> Request] /\ \A h \in Requests : Good(req'[h], mem', disk', Kept')
  BY <1>4, <1>5
<1>7. QED
  BY <1>1, <1>2, <1>3, <1>6 DEF ServerInv

LEMMA CrashKeeps ==
  ASSUME ServerInv, Dies, KillAll, LostInv', Kept \subseteq Kept'
  PROVE  ServerInv'
<1>1. mem' = disk' /\ disk' = disk /\ disk \in State /\ Fine(disk)
  BY DEF ServerInv, StoreTypeOK, Dies
<1>2. \A m \in Markers : Carries(m, disk, disk')
  BY <1>1, CarriesSelf
<1>3. QED
  BY <1>1, <1>2, DeathKeeps

\* An operation on the memory leaves a state that carries on what memory and file hold.
LEMMA OperationCarries ==
  ASSUME ServerInv, NEW new, ServerOperation(mem, new)
  PROVE  /\ new \in State /\ Fine(new) /\ Facts(mem) \subseteq Facts(new)
         /\ \A m \in Markers : Carries(m, mem, new) /\ Carries(m, disk, new)
<1>1. mem \in State /\ Fine(mem)
  BY DEF ServerInv, StoreTypeOK
<1>2. Operation(mem, new) /\ new \in State /\ Fine(new) /\ Facts(mem) \subseteq Facts(new)
  BY <1>1, ServerOperationIsOne, OperationType, FinePreserved, OperationFacts
<1>3. \A m \in Markers : Carries(m, mem, new)
  BY <1>1, <1>2, SessionLasts, SessionsGrow DEF Fine, Carries
<1>4. \A m \in Markers : Carries(m, disk, mem)
  BY DEF ServerInv, Ahead
<1>5. QED
  BY <1>2, <1>3, <1>4, CarriesTransitive

LEMMA WritesKeeps ==
  ASSUME ServerInv, NEW h \in Requests, NEW n, NEW new, Writes(h, n, new),
         LostInv', Kept \subseteq Kept'
  PROVE  ServerInv'
<1>1. /\ mem \in State /\ disk \in State /\ Fine(mem) /\ Fine(disk)
      /\ ServerOperation(mem, new) /\ n \in Request /\ Good(n, new, new, Facts(new))
      /\ req \in [Requests -> Request]
      /\ \A g \in Requests : req[g] \in Request /\ Good(req[g], mem, disk, Kept)
  BY DEF ServerInv, StoreTypeOK, Writes
<1>2. new \in State /\ Fine(new) /\ Facts(mem) \subseteq Facts(new)
  BY <1>1, OperationCarries
<1>4. \A m \in Markers : Carries(m, mem, new) /\ Carries(m, disk, new)
  BY <1>1, OperationCarries
<1>3. \A m \in Markers : Lasts(m, mem, new)
  BY <1>4 DEF Carries
<1>5. CASE mem' = new /\ disk' = new /\ UNCHANGED order /\ req' = [req EXCEPT ![h] = n]
  <2>1. \A g \in Requests : Good(req[g], new, new, Kept')
    BY <1>1, <1>2, <1>3, <1>4, GoodLater
  <2>2. Good(n, new, new, Kept')
    <3>1. Facts(mem') = Facts(new)
      BY <1>5
    <3>2. Facts(new) \subseteq Kept'
      BY <3>1 DEF LostInv
    <3>3. QED
      BY <1>1, <3>2, GoodKept
  <2>3. req' \in [Requests -> Request] /\ \A g \in Requests : Good(req'[g], new, new, Kept')
    BY <1>1, <1>5, <2>1, <2>2
  <2>4. Ahead(new, new)
    BY <1>2, CarriesSelf DEF Ahead
  <2>5. QED
    BY <1>2, <1>5, <2>3, <2>4 DEF ServerInv, StoreTypeOK
<1>6. CASE SaveMayFail /\ mem' = new /\ UNCHANGED <<disk, order>> /\ Go(h, "error")
  <2> DEFINE failed == [req[h] EXCEPT !.stage = "error"]
  <2>1. failed \in Request /\ Good(failed, new, disk, Kept')
    BY <1>1, EndedForm
  <2>2. req' = [req EXCEPT ![h] = failed]
    BY <1>1, <1>6 DEF Go
  <2> HIDE DEF failed
  <2>3. \A m \in Markers : Carries(m, disk, disk)
    BY <1>1, CarriesSelf
  <2>4. \A g \in Requests : Good(req[g], new, disk, Kept')
    BY <1>1, <1>2, <1>3, <2>3, GoodLater
  <2>5. req' \in [Requests -> Request] /\ \A g \in Requests : Good(req'[g], new, disk, Kept')
    BY <1>1, <2>1, <2>2, <2>4
  <2>6. Ahead(new, disk)
    BY <1>4, <1>6 DEF Ahead
  <2>7. QED
    BY <1>1, <1>2, <1>6, <2>5, <2>6 DEF ServerInv, StoreTypeOK
<1>7. CASE (\E found \in {disk, new} : mem' = found /\ disk' = found) /\ KillAll
  <2>1. mem' = disk' /\ (disk' = disk \/ disk' = new)
    BY <1>7
  <2>2. disk' \in State /\ Fine(disk')
    BY <1>1, <1>2, <2>1
  <2>3. \A m \in Markers : Carries(m, disk, disk')
    BY <1>1, <1>4, <2>1, CarriesSelf
  <2>4. QED
    BY <1>7, <2>1, <2>2, <2>3, DeathKeeps
<1>8. QED
  BY <1>5, <1>6, <1>7 DEF Writes

LEMMA StepKeeps ==
  ASSUME ServerInv, StepShape
  PROVE  ServerInv'
<1>1. LostInv' /\ Kept \subseteq Kept'
  BY StepKeepsFacts DEF ServerInv, StepShape
<1>2. CASE UNCHANGED vars
  BY <1>1, <1>2 DEF vars, ServerInv, StoreTypeOK, Kept
<1>3. QED
  BY <1>1, <1>2, MovesOnKeeps, WritesKeeps, CrashKeeps DEF StepShape

LEMMA InitiallyInv == Init => ServerInv
<1>1. SUFFICES ASSUME Init
               PROVE  ServerInv
  OBVIOUS
<1>2. mem = InitState /\ disk = InitState /\ InitState \in State /\ Fine(InitState)
  BY <1>1, InitStateType, FineInitially DEF Init, StoreInit
<1>3. Ahead(mem, disk)
  BY <1>2, CarriesSelf DEF Ahead
<1>4. order \in Orders /\ ToSet(order) \subseteq Dimensions
  BY <1>1 DEF Init, Orders, Dimensions
<1>5. NewRequest \in Request /\ Good(NewRequest, mem, disk, Kept)
  <2>1. NewRequest \in Request /\ NewRequest.stage = "new"
    BY KindNames, StageNames DEF NewRequest, Request
  <2>2. QED
    BY <2>1, NoPromises DEF Staged
<1>6. req \in [Requests -> Request] /\ \A h \in Requests : Good(req[h], mem, disk, Kept)
  BY <1>1, <1>5 DEF Init
<1>7. LostInv
  BY <1>1, InitiallyKept DEF Init
<1>8. QED
  BY <1>2, <1>3, <1>4, <1>6, <1>7 DEF ServerInv, StoreTypeOK

LEMMA NextIsAnyStep ==
  ASSUME [Next]_vars
  PROVE  AnyStep
<1>1. ASSUME NEW h \in Requests, Start(h)
      PROVE  Opens(h)
  <2>1. /\ SessionSLOs \subseteq SLOs
        /\ \A batch \in TruthBatches : batch \in Seq(Truths) \ {<<>>}
        /\ \A batch \in ObservationBatches : batch \in Seq(Observations) \ {<<>>}
    BY ServerAssumption
  <2>2. QED
    BY <1>1, <2>1 DEF Start, Opens
<1>2. QED
  BY <1>1 DEF Next, AnyStep

\* The inductive invariant, and that every step is the store's.
LEMMA ServerInvariant ==
  Spec => StoreInit /\ [][StepShape]_vars /\ []ServerInv
<1>1. ServerInv /\ [Next]_vars => StepShape /\ ServerInv'
  BY NextIsAnyStep, AnyStepShape, StepKeeps
<1>2. Init => ServerInv /\ StoreInit
  BY InitiallyInv DEF Init
<1>3. QED
  BY <1>1, <1>2, PTL DEF Spec

----------------------------------------------------------------------------
(* The theorems.                                                           *)

\* Whatever requests come and however their handlers interleave, save, fail and die,
\* the server makes on the store only calls that Store allows, with the outcomes
\* it allows: Server implements Store.
THEOREM ServerUsesStore == Spec => UsesStore
<1>1. StepShape => [StoreNext]_storeVars
  BY DEF StepShape
<1>2. UNCHANGED vars => UNCHANGED storeVars
  BY DEF vars, storeVars
<1>3. QED
  BY <1>1, <1>2, ServerInvariant, PTL DEF UsesStore, StoreSpec

\* The invariant gives each property of the handlers.

LEMMA InvRunReflectsSession == ServerInv => RunReflectsSession
<1>1. SUFFICES ASSUME ServerInv, NEW st \in Both, NEW k \in DOMAIN st.runs,
                      st.runs[k].id \in Markers
               PROVE  LET m == st.runs[k].id
                          session == st.sessions[m]
                      IN  \E i \in 0..Len(session.truth), j \in 0..Len(session.observations) :
                            st.runs[k] = LiveRun(m, session.slo, SubSeq(session.truth, 1, i),
                                                 SubSeq(session.observations, 1, j))
  BY DEF RunReflectsSession
<1> DEFINE m == st.runs[k].id
           session == st.sessions[m]
<1>2. ReflectsSession(st.runs[k], session)
  BY <1>1 DEF ServerInv, Fine, RunsReflect, Both
<1>3. PICK truth, observations :
        /\ Began(truth, session.truth) /\ Began(observations, session.observations)
        /\ st.runs[k] = LiveRun(m, session.slo, truth, observations)
  BY <1>2 DEF ReflectsSession
<1>4. PICK i \in 0..Len(session.truth) : truth = SubSeq(session.truth, 1, i)
  BY <1>3 DEF Began
<1>5. PICK j \in 0..Len(session.observations) :
        observations = SubSeq(session.observations, 1, j)
  BY <1>3 DEF Began
<1>6. QED
  BY <1>3, <1>4, <1>5

LEMMA InvCorrelationSeesAccepted == ServerInv => CorrelationSeesAccepted
<1>1. SUFFICES ASSUME ServerInv, NEW h \in Requests, At(h, "complete")
               PROVE  {f \in req[h].claim : f[1] \in {"truth", "observation"}}
                        \subseteq ScoredBy(req[h])
  BY DEF CorrelationSeesAccepted, ScoredBy
<1>2. QED
  BY <1>1 DEF ServerInv, Good, Vouches, At

LEMMA InvAnsweredIsStored == ServerInv => AnsweredIsStored
<1>1. SUFFICES ASSUME ServerInv, NEW h \in Requests, At(h, "replied"),
                      req[h].kind \in {"live", "correlate"}
               PROVE  /\ disk.sessions[req[h].marker].status = "completed"
                      /\ HasId(disk.runs, req[h].marker) \/ Len(disk.runs) = MaxRuns
  BY DEF AnsweredIsStored
<1>2. /\ req[h].marker \in Markers
      /\ disk.sessions[req[h].marker].status = "completed"
  BY <1>1 DEF ServerInv, Good, Staged, Stored, At
<1>3. HistoryMatches(disk)
  BY <1>1 DEF ServerInv, Fine
<1>4. QED
  BY <1>2, <1>3 DEF HistoryMatches

LEMMA InvSLOsUsable == ServerInv => SLOsUsable
BY DEF ServerInv, Fine, UsableSLOs, SLOsUsable, Both

LEMMA InvAcceptedMeansAll == ServerInv => AcceptedMeansAll
BY DEF ServerInv, Good, Accepted, Kept, AcceptedMeansAll, At

\* In memory and on disk, always, a live run is the verdict on its own session:
\* under the objective the session was created with, and on truth and
\* observations that it has held, whatever was delivered, correlated again, refused or lost since.
THEOREM RunsAlwaysReflectSessions ==
  Spec => []RunReflectsSession
BY ServerInvariant, InvRunReflectsSession, PTL

\* A correlation, and a live run, always scores all the evidence that clients had been
\* told was accepted for its session when it was asked for, crashes aside.
THEOREM CorrelationAlwaysSeesAccepted ==
  Spec => []CorrelationSeesAccepted
BY ServerInvariant, InvCorrelationSeesAccepted, PTL

\* Once a correlation or a live run is answered, its session is completed on disk and
\* stays so, and its run is there unless newer runs fill the history, although
\* other saves may fail and the process may die.
THEOREM AnsweredIsAlwaysStored ==
  Spec => []AnsweredIsStored
BY ServerInvariant, InvAnsweredIsStored, PTL

\* No request and no restart ever makes an objective active, or gives one to a session,
\* that no evidence can meet or that counts a dimension twice.
THEOREM SLOsAlwaysUsable ==
  Spec => []SLOsUsable
BY ServerInvariant, InvSLOsUsable, PTL

\* Whatever fails, dies or interleaves, each event of a truth envelope that was
\* answered 202 is on disk, or a client had been refused it and no save has brought it
\* to disk since.
THEOREM AcceptedAlwaysMeansAll ==
  Spec => []AcceptedMeansAll
BY ServerInvariant, InvAcceptedMeansAll, PTL

\* What is proved of the store holds of the server: its types, the counters, the history,
\* the deduplication, and that only refused evidence is ever lost.
THEOREM ServerKeepsStoreInvariants ==
  Spec => [](/\ StoreTypeOK /\ ActiveSessionsMatch /\ TruthCounted
             /\ HistoryMatchesSessions /\ EvidenceHeldOnce /\ OnlyRefusedIsLost)
<1>1. StoreSpec => [](/\ StoreTypeOK /\ ActiveSessionsMatch /\ TruthCounted
                      /\ HistoryMatchesSessions /\ EvidenceHeldOnce /\ OnlyRefusedIsLost)
  BY StoreTypeCorrect, ActiveSessionsAlwaysMatch, TruthAlwaysCounted, HistoryAlwaysMatches,
     EvidenceAlwaysHeldOnce, OnlyRefusedIsEverLost, PTL
<1>2. QED
  BY <1>1, ServerUsesStore, PTL DEF UsesStore
=============================================================================
