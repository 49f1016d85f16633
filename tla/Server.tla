------------------------------- MODULE Server -------------------------------
(***************************************************************************)
(* The request handlers of internal/server/server.go.  Every request is a  *)
(* goroutine of its own that makes a sequence of calls on the store; the   *)
(* store's lock is released between two calls, so requests interleave      *)
(* there: a session is created, probed and waited for, then copied, scored *)
(* and completed while other requests deliver evidence, change the SLO or  *)
(* correlate the same session.  A crash ends every request in progress.    *)
(*                                                                         *)
(* One element of Requests is one HTTP request.  Authentication, decoding, *)
(* the read-only endpoints, the metrics, and the baseline a run is compared*)
(* with (a figure of the report, not of the verdict) are left out.         *)
(***************************************************************************)
EXTENDS Store, Engine

CONSTANTS
  Requests,
  SessionSLOs,   \* objectives a request for a session may bring along
  PutSLOs,       \* objectives a PUT may carry
  ProbeResults,  \* what the canary's actions may yield: sequences of truth events
  TruthBatches, ObservationBatches,  \* the envelopes that may be posted
  DemoIds,       \* ids of demo runs
  ProbeMayHang   \* the probe's loopback connection may fail to be dialled

\* The requests: kind and stage, what the handler's local variables hold, and
\* a ghost, the facts that the answer will vouch for.
VARIABLE req

\* domain.DimensionOrder, a global slice of the process.
VARIABLE order

vars == <<mem, disk, acked, refused, req, order>>

Final == {"replied", "error", "cancelled", "killed"}

NewRequest == [kind |-> "none", stage |-> "new", marker |-> NoRun, slo |-> NoSLO,
               cluster |-> "", todo |-> <<>>, truth |-> <<>>, observations |-> <<>>,
               claim |-> {}]

Init == StoreInit /\ req = [h \in Requests |-> NewRequest] /\ order = DimensionOrder

Quiet == UNCHANGED <<mem, disk, acked, refused, order>>

At(h, stage) == req[h].stage = stage

Go(h, stage) == req' = [req EXCEPT ![h].stage = stage]

\* What clients were told about a session and a crash has not undone.
Claims(m) == {f \in acked \cap Facts(mem) : f[2] = m}

\* The default objective's required context is the array of DimensionOrder;
\* Open decodes the objective of the file into it, over its first elements.
OrderAfter(required) ==
  required \o SubSeq(DimensionOrder, Len(required) + 1, Len(DimensionOrder))

ReadOrder == order' = OrderAfter(disk'.slo.required)

\* The process dies with all its requests, and a new one opens the file.
KillAll ==
  /\ req' = [h \in Requests |->
               IF req[h].stage \in Final \cup {"new"} THEN req[h]
               ELSE [req[h] EXCEPT !.stage = "killed"]]
  /\ ReadOrder

\* Mutant: the handler goes on although the save returned an error.
CallSaveIgnoringError(h, new, facts, next) ==
  \/ (Saved(new, facts) \/ SaveFails(new, facts)) /\ req' = [req EXCEPT ![h] = next] /\ UNCHANGED order
  \/ DiesSaving(new) /\ KillAll

\* A store call that saves: the handler goes on, answers 500, or dies with the
\* process.
CallSave(h, new, facts, next) ==
  \/ Saved(new, facts) /\ req' = [req EXCEPT ![h] = next] /\ UNCHANGED order
  \/ SaveFails(new, facts) /\ Go(h, "error") /\ UNCHANGED order
  \/ DiesSaving(new) /\ KillAll

----------------------------------------------------------------------------
(* Sessions: POST /runs with mode live, and POST /sessions.                *)

\* Mutant: a dimension may be required twice.
KnownDimensions(ds) == ds # <<>> /\ ToSet(ds) \subseteq ToSet(order)

ValidDimensions(ds) ==
  ds # <<>> /\ ToSet(ds) \subseteq ToSet(order) /\ IsInjective(ds)

Valid(slo) ==
  slo.target \in 1..1000 /\ slo.latencyP95 > 0 /\ ValidDimensions(slo.required)

\* newSession reads the active SLO, or checks and takes the one of the request.
StartSession(h, kind, slo, cluster) ==
  /\ At(h, "new")
  /\ IF slo = NoSLO \/ Valid(slo)
     THEN req' = [req EXCEPT ![h] = [@ EXCEPT !.kind = kind, !.stage = "create",
                    !.slo = IF slo = NoSLO THEN mem.slo ELSE slo, !.cluster = cluster]]
     ELSE Go(h, "error")
  /\ Quiet

\* Mutant: a marker already taken is taken again.
CreateUnchecked(h, m) ==
  /\ At(h, "create")
  /\ CallSave(h, CreateSession(mem, m, req[h].cluster, req[h].slo),
              {<<"session", m>>},
              [req[h] EXCEPT !.marker = m,
                 !.stage = IF req[h].kind = "live" THEN "probe" ELSE "replied"])

\* The marker is random and may already be taken.
Create(h, m) ==
  /\ At(h, "create")
  /\ \/ /\ Exists(mem, m)
        /\ Go(h, "error") /\ Quiet
     \/ /\ ~Exists(mem, m)
        /\ CallSave(h, CreateSession(mem, m, req[h].cluster, req[h].slo),
                    {<<"session", m>>},
                    [req[h] EXCEPT !.marker = m,
                       !.stage = IF req[h].kind = "live" THEN "probe" ELSE "replied"])

\* runner.Run: the canary acts and returns one truth event per dimension.
Probe(h, events) ==
  /\ At(h, "probe")
  /\ \A i \in DOMAIN events : events[i].marker = req[h].marker
  /\ req' = [req EXCEPT ![h].todo = events, ![h].stage = "truth"]
  /\ Quiet

\* runner.go:95: Run waits for a connection that was never made.
ProbeHangs(h) == ProbeMayHang /\ At(h, "probe") /\ Go(h, "stuck") /\ Quiet

\* Mutant: the handler waits for the client only.
TimerIgnored(h) == At(h, "wait") /\ FALSE /\ UNCHANGED vars

\* The collection window ends: the handler turns to the correlation.
TimerFires(h) ==
  /\ At(h, "wait")
  /\ req' = [req EXCEPT ![h].stage = "snapshot",
                        ![h].claim = Claims(req[h].marker)]
  /\ Quiet

Cancelled(h) == At(h, "wait") /\ Go(h, "cancelled") /\ Quiet

----------------------------------------------------------------------------
(* Evidence: POST /truth, POST /ingest and POST /ingest/{adapter}.         *)

StartTruth(h, batch) ==
  /\ At(h, "new")
  /\ req' = [req EXCEPT ![h] = [@ EXCEPT !.kind = "truth", !.stage = "truth", !.todo = batch,
                      !.claim = {TruthFact(batch[i]) : i \in DOMAIN batch}]]
  /\ Quiet

StartObservations(h, batch) ==
  /\ At(h, "new")
  /\ req' = [req EXCEPT ![h] = [@ EXCEPT !.kind = "ingest", !.stage = "observe", !.todo = batch]]
  /\ Quiet

\* Mutant: the loop ends with its first event.
AfterFirstEvent(h) ==
  [req[h] EXCEPT !.todo = <<>>,
                 !.stage = IF req[h].kind = "live" THEN "wait" ELSE "replied"]

\* Where a loop over events goes on: the next event, or what follows the loop.
AfterEvent(h) ==
  [req[h] EXCEPT !.todo = Tail(@),
                 !.stage = IF Len(req[h].todo) > 1 THEN @
                           ELSE IF req[h].kind = "live" THEN "wait" ELSE "replied"]

\* One turn of the loops over AddTruth; the first error ends the request.
StoreTruth(h) ==
  /\ At(h, "truth")
  /\ LET e == Head(req[h].todo)
     IN  \/ /\ ~Exists(mem, e.marker)
            /\ Go(h, "error") /\ Quiet
         \/ /\ Exists(mem, e.marker) /\ KnownTruth(mem, e)
            /\ Duplicate({TruthFact(e)}) /\ UNCHANGED order
            /\ req' = [req EXCEPT ![h] = AfterEvent(h)]
         \/ /\ Exists(mem, e.marker) /\ ~KnownTruth(mem, e)
            /\ CallSave(h, AddTruth(mem, e), {TruthFact(e)}, AfterEvent(h))

\* One turn of the loop over AddObservation.
StoreObservation(h) ==
  /\ At(h, "observe")
  /\ LET e == Head(req[h].todo)
     IN  \/ /\ KnownObservation(mem, e)
            /\ Duplicate({ObservationFact(e)}) /\ UNCHANGED order
            /\ req' = [req EXCEPT ![h] = AfterEvent(h)]
         \/ /\ ~KnownObservation(mem, e)
            /\ CallSave(h, AddObservation(mem, e), {ObservationFact(e)}, AfterEvent(h))

----------------------------------------------------------------------------
(* Correlation: POST /sessions/{marker}/correlate, and the end of a live run.*)

StartCorrelate(h, m) ==
  /\ At(h, "new")
  /\ req' = [req EXCEPT ![h] = [@ EXCEPT !.kind = "correlate", !.stage = "snapshot",
                                         !.marker = m, !.claim = Claims(m)]]
  /\ Quiet

\* Mutant: a live run is scored on the session it created, before any evidence.
StaleSnapshot(h) ==
  /\ At(h, "snapshot")
  /\ Exists(mem, req[h].marker)
  /\ req' = [req EXCEPT ![h] = [@ EXCEPT !.stage = "complete",
                                         !.slo = mem.sessions[req[h].marker].slo]]
  /\ Quiet

\* Mutant: the run is held against the SLO active now, not the session's.
SnapshotWithActiveSLO(h) ==
  /\ At(h, "snapshot")
  /\ LET session == mem.sessions[req[h].marker]
     IN  /\ Exists(mem, req[h].marker)
         /\ req' = [req EXCEPT ![h] = [@ EXCEPT !.stage = "complete", !.slo = mem.slo,
                                         !.truth = session.truth,
                                         !.observations = session.observations]]
  /\ Quiet

\* correlate copies the session; the copy carries the session's own SLO.
Snapshot(h) ==
  /\ At(h, "snapshot")
  /\ LET session == mem.sessions[req[h].marker]
     IN  \/ /\ ~Exists(mem, req[h].marker)
            /\ Go(h, "error")
         \/ /\ Exists(mem, req[h].marker)
            /\ req' = [req EXCEPT ![h] = [@ EXCEPT !.stage = "complete",
                                            !.slo = session.slo,
                                            !.truth = session.truth,
                                            !.observations = session.observations]]
  /\ Quiet

LiveRun(m, slo, truth, observations) ==
  LET verdict == Correlate(slo, truth, observations, 0).verdict
  IN  [id |-> m, score |-> verdict.score, status |-> verdict.status]

\* The copy is scored outside the lock and the session completed with the run.
Complete(h) ==
  /\ At(h, "complete")
  /\ \E run \in {LiveRun(req[h].marker, req[h].slo, req[h].truth, req[h].observations)} :
       CallSave(h, CompleteSession(mem, run.id, run), {<<"completed", run.id>>},
                [req[h] EXCEPT !.stage = "replied"])

----------------------------------------------------------------------------
(* The SLO and demo runs: PUT /slo, POST /runs with mode demo.             *)

\* An SLO that requires nothing requires what DimensionOrder holds.
WithDefault(slo, dimensions) == [slo EXCEPT !.required = IF @ = <<>> THEN dimensions ELSE @]
Defaulted(slo) == WithDefault(slo, order)

PutSLO(h, slo) ==
  /\ At(h, "new")
  /\ \/ ~Valid(Defaulted(slo)) /\ Go(h, "error") /\ Quiet
     \/ /\ Valid(Defaulted(slo))
        /\ CallSave(h, UpdateSLO(mem, Defaulted(slo)), {},
                    [req[h] EXCEPT !.kind = "slo", !.stage = "replied"])

\* The SLO is read and the run computed before the store is called again.
StartDemo(h) ==
  /\ At(h, "new")
  /\ req' = [req EXCEPT ![h] = [@ EXCEPT !.kind = "demo", !.stage = "add", !.slo = mem.slo]]
  /\ Quiet

DemoVerdict ==
  [slo \in SLOs, scenario \in Scenarios \cup {""} |->
     DemoRun(slo, ScenarioOf(scenario), 0).verdict]

RunOfDemo(id, verdict) == [id |-> id, score |-> verdict.score, status |-> verdict.status]

\* The id of a demo run is random, so no run of the history has it.
AddDemo(h, scenario) ==
  /\ At(h, "add")
  /\ \E id \in DemoIds :
       /\ ~HasId(mem.runs, id)
       /\ CallSave(h, AddRun(mem, RunOfDemo(id, DemoVerdict[req[h].slo, scenario])), {},
                   [req[h] EXCEPT !.stage = "replied"])

----------------------------------------------------------------------------
(* The constants.  A target, a latency and dimensions that can be met make *)
(* an objective usable; the default one is (main.go:195).  SLOs holds what *)
(* handlers may make of the objectives they are sent; an envelope without  *)
(* events is refused (server.go:305, adapters.go:42).                      *)

Usable(slo) ==
  /\ slo.target \in 1..1000 /\ slo.latencyP95 > 0
  /\ slo.required # <<>> /\ IsInjective(slo.required)
  /\ ToSet(slo.required) \subseteq Dimensions

\* What DimensionOrder may hold.
Orders == {DimensionOrder} \cup {OrderAfter(slo.required) : slo \in SLOs}

\* The scores of live runs: 45 points for each of the dimensions observed, and 55 for
\* each of those that are also attributed.
ScoresOf(n) == {Mean(45 * p[1] + 55 * p[2], n) : p \in {q \in (0..n) \X (0..n) : q[2] <= q[1]}}
Scores == UNION {ScoresOf(Len(slo.required)) : slo \in SLOs}

ASSUME ServerAssumption ==
  /\ Usable(InitSLO) /\ SessionSLOs \subseteq SLOs
  /\ \A slo \in SLOs : slo.required \in Seq(STRING) /\ slo.required # <<>>
  /\ \A slo \in PutSLOs, ds \in Orders :
       IsInjective(WithDefault(slo, ds).required) => WithDefault(slo, ds) \in SLOs
  /\ \A events \in ProbeResults \cup TruthBatches : events \in Seq(Truths) /\ events # <<>>
  /\ \A events \in ObservationBatches : events \in Seq(Observations) /\ events # <<>>
  /\ [id : Markers, score : Scores, status : {"passing", "failing"}] \subseteq Runs
  /\ \A id \in DemoIds, slo \in SLOs, scenario \in Scenarios \cup {""} :
       RunOfDemo(id, DemoVerdict[slo, scenario]) \in DemoRuns

----------------------------------------------------------------------------
\* A crash, or a shutdown that requests outlast.
Crash == Dies /\ KillAll

\* What a request does by itself once it has started.
Proceed(h) ==
  \/ \E m \in Markers : Create(h, m)
  \/ \E events \in ProbeResults : Probe(h, events)
  \/ StoreTruth(h) \/ StoreObservation(h)
  \/ TimerFires(h) \/ Snapshot(h) \/ Complete(h)
  \/ \E scenario \in Scenarios \cup {""} : AddDemo(h, scenario)

Start(h) ==
  \/ \E kind \in {"live", "create"}, slo \in SessionSLOs \cup {NoSLO}, cluster \in Clusters :
       StartSession(h, kind, slo, cluster)
  \/ \E batch \in TruthBatches : StartTruth(h, batch)
  \/ \E batch \in ObservationBatches : StartObservations(h, batch)
  \/ \E m \in Markers : StartCorrelate(h, m)
  \/ \E slo \in PutSLOs : PutSLO(h, slo)
  \/ StartDemo(h)

Next == (\E h \in Requests : Start(h) \/ Proceed(h) \/ ProbeHangs(h) \/ Cancelled(h)) \/ Crash

\* The scheduler runs every goroutine, the timer of a live run fires, and a probe
\* that does not hang returns.  Clients need not send, nor cancel, and nothing
\* need fail.
Spec == Init /\ [][Next]_vars /\ \A h \in Requests : WF_vars(Proceed(h))

----------------------------------------------------------------------------
(* Properties.                                                             *)

\* A stored live run is the verdict on its own session: under the SLO the
\* session was created with, whatever the active one is now, on the truth that it
\* held at some moment and the observations that it held at some moment (not
\* necessarily the same), whatever arrived, correlated or crashed in between.
\* server.go:235-257, 280-295.
RunReflectsSession ==
  \A st \in Both : \A k \in DOMAIN st.runs :
    LET m == st.runs[k].id
        session == st.sessions[m]
    IN  m \in Markers =>
          \E i \in 0..Len(session.truth), j \in 0..Len(session.observations) :
            st.runs[k] = LiveRun(m, session.slo, SubSeq(session.truth, 1, i),
                                 SubSeq(session.observations, 1, j))

\* A correlation scores all the evidence that had been accepted for its session,
\* and not been lost in a crash, when it was requested, or when the collection
\* window of the live run ended.  server.go:206-232, 280-290.
CorrelationSeesAccepted ==
  \A h \in Requests : At(h, "complete") =>
    LET r == req[h]
        Scored == {TruthFact(r.truth[i]) : i \in DOMAIN r.truth}
            \cup {ObservationFact(r.observations[i]) : i \in DOMAIN r.observations}
    IN  {f \in r.claim : f[1] \in {"truth", "observation"}} \subseteq Scored

\* An answered correlation has left its session completed, on disk, with a run
\* in the history unless newer ones filled it, even when other saves fail or
\* the process dies later.  server.go:227-232, 291-294.
AnsweredIsStored ==
  \A h \in Requests : At(h, "replied") /\ req[h].kind \in {"live", "correlate"} =>
    /\ disk.sessions[req[h].marker].status = "completed"
    /\ HasId(disk.runs, req[h].marker) \/ Len(disk.runs) = MaxRuns

\* A truth envelope is answered 202 only when each of its events is on disk, but
\* for those that a failed save had refused before, to this client or another: no
\* other partial success, whatever fails, dies or interleaves.  server.go:309-323.
AcceptedMeansAll ==
  \A h \in Requests :
    At(h, "replied") /\ req[h].kind = "truth" => req[h].claim \subseteq Facts(disk) \cup refused

\* Whatever its requests do and however they interleave, the server uses the
\* store by its operations only, so what holds of Store holds of the server.
UsesStore == StoreSpec

\* Whatever is PUT, brought along or restored by a restart, the active SLO and
\* those of the sessions can be met: a target, a latency, and at least one
\* dimension, each known and none counted twice.  server.go:235-241, 385-425.
SLOsUsable ==
  \A st \in Both :
    \A slo \in {st.slo} \cup {st.sessions[m].slo : m \in {n \in Markers : Exists(st, n)}} :
      Usable(slo)

\* deploy/kubernetes/crd.yaml:50 admits eight dimensions, README.md:72-79 explains
\* them: an SLO on any of them is accepted.
EveryDimensionAccepted == \A d \in Dimensions : ValidDimensions(<<d>>)
=============================================================================
