----------------------------- MODULE WorldProofs -----------------------------
(***************************************************************************)
(* Theorems of Sensor.tla: the server under canaries, the sensor and other *)
(* clients.  Whatever they do is a step that ServerProofs allows, so what  *)
(* holds of the server holds here; what a passed canary and a kernel event *)
(* tell follows from how requests, sessions and canaries fit together.     *)
(***************************************************************************)
EXTENDS Sensor, ServerProofs

----------------------------------------------------------------------------
(* How a step of the server changes the requests.                          *)

\* A request ends without its answer.
Drops(g) ==
  /\ req[g].stage \notin Final \cup {"new"}
  /\ \E stage \in {"error", "cancelled", "killed", "stuck"} :
       req'[g] = [req[g] EXCEPT !.stage = stage]

Rests(g) == req'[g] = req[g] \/ Drops(g)

\* The handler has created the session of m.
Made(h, m) ==
  /\ req[h].stage = "create" /\ req[h].kind \in {"live", "create"} /\ ~Exists(mem, m)
  /\ req[h].slo \in SLOs /\ req[h].cluster \in Clusters
  /\ disk' = CreateSession(mem, m, req[h].cluster, req[h].slo)
  /\ req'[h] = [req[h] EXCEPT !.marker = m,
                  !.stage = IF req[h].kind = "live" THEN "probe" ELSE "replied"]

Probed(h) ==
  /\ req[h].stage = "probe" /\ req[h].kind = "live" /\ req[h].marker \in Markers
  /\ \E events \in ProbeResults :
       /\ \A i \in DOMAIN events : events[i].marker = req[h].marker
       /\ req'[h] = [req[h] EXCEPT !.todo = events, !.stage = "truth"]

\* The handler has stored the first event of its list, or found it stored.
Took(h) ==
  /\ req[h].stage = "truth" /\ req'[h] = AfterEvent(h)
  /\ KnownTruth(mem, Head(req[h].todo)) \/ disk' = AddTruth(mem, Head(req[h].todo))

\* The handler has gone on with telemetry, a correlation or a demo run.
Went(h) ==
  /\ req[h].stage \in {"observe", "wait", "snapshot", "complete", "add"}
  /\ req'[h].stage \in {"observe", "snapshot", "complete", "replied"}
  /\ req'[h].kind = req[h].kind /\ req'[h].marker = req[h].marker

Handled(h) == Rests(h) \/ (\E m \in Markers : Made(h, m)) \/ Probed(h) \/ Took(h) \/ Went(h)

\* A new request.
Opened(h) ==
  /\ req[h].stage = "new" /\ req'[h].marker \in Markers \cup {NoRun}
  /\ req'[h].kind \in {"live", "create"} =>
       req'[h].stage = "create" /\ req'[h].marker = req[h].marker
  /\ req'[h].stage = "create" => req'[h].kind \in {"live", "create"}
  /\ req'[h].stage = "truth" => req'[h].kind = "truth"
  /\ req'[h].stage # "new"
  /\ req'[h].kind = "none" => req'[h].stage = "error"

\* Other clients post what they have.
Batched(h) == req'[h].stage = "truth" => req'[h].todo \in TruthBatches

\* The truth of the session of m stays, is that of the file, or gains the first event
\* of the list of h.
TruthTurns(h, m) ==
  \/ mem'.sessions[m].truth \in {mem.sessions[m].truth, disk.sessions[m].truth}
  \/ /\ req[h].stage = "truth" /\ Head(req[h].todo).marker = m /\ (Took(h) \/ Drops(h))
     /\ mem'.sessions[m].truth = Append(mem.sessions[m].truth, Head(req[h].todo))

LEMMA KilledRests ==
  ASSUME req \in [Requests -> Request], KillAll, NEW g \in Requests
  PROVE  Rests(g)
BY DEF KillAll, Rests, Drops

LEMMA OthersRest ==
  ASSUME req \in [Requests -> Request], NEW h, NEW n, req' = [req EXCEPT ![h] = n],
         NEW g \in Requests \ {h}
  PROVE  Rests(g)
BY DEF Rests

LEMMA GoRests ==
  ASSUME req \in [Requests -> Request], NEW h \in Requests, NEW stage \in {"error", "cancelled", "stuck"},
         req[h].stage \notin Final \cup {"new"}, Go(h, stage)
  PROVE  \A g \in Requests : Rests(g)
BY DEF Go, Rests, Drops

LEMMA CallSaveTurns ==
  ASSUME req \in [Requests -> Request], NEW h \in Requests, req[h].stage \notin Final \cup {"new"},
         NEW new, NEW facts, NEW n, CallSave(h, new, facts, n)
  PROVE  /\ mem' = new \/ mem' = disk
         /\ \A g \in Requests \ {h} : Rests(g)
         /\ \/ Drops(h)
            \/ mem' = new /\ disk' = new /\ req'[h] = n
<1>1. CASE Saved(new, facts) /\ req' = [req EXCEPT ![h] = n]
  BY <1>1, OthersRest DEF Saved
<1>2. CASE SaveFails(new, facts) /\ Go(h, "error")
  BY <1>2, GoRests DEF SaveFails, Go, Drops
<1>3. CASE DiesSaving(new) /\ KillAll
  <2>1. Drops(h)
    BY <1>3 DEF KillAll, Drops
  <2>2. QED
    BY <1>3, <2>1, KilledRests DEF DiesSaving
<1>4. QED
  BY <1>1, <1>2, <1>3 DEF CallSave

LEMMA QuietTurns ==
  ASSUME Quiet, NEW h
  PROVE  \A m \in Markers : TruthTurns(h, m)
BY DEF Quiet, TruthTurns

\* A call that leaves the sessions' truth alone.
LEMMA SavedTruthTurns ==
  ASSUME NEW h, NEW new, mem' = new \/ mem' = disk, NEW m \in Markers,
         new.sessions[m].truth = mem.sessions[m].truth
  PROVE  TruthTurns(h, m)
BY DEF TruthTurns

\* What a step of the handler of h is.
Turns(h) ==
  Handled(h) /\ (\A g \in Requests \ {h} : Rests(g)) /\ \A m \in Markers : TruthTurns(h, m)

LEMMA GoTurns ==
  ASSUME req \in [Requests -> Request], NEW h \in Requests, NEW stage \in {"error", "cancelled", "stuck"},
         req[h].stage \notin Final \cup {"new"}, Go(h, stage), Quiet
  PROVE  Turns(h)
BY GoRests, QuietTurns DEF Turns, Handled

LEMMA CreateTurns ==
  ASSUME ServerInv, NEW h \in Requests, NEW m \in Markers, Create(h, m)
  PROVE  Turns(h)
<1> DEFINE new == CreateSession(mem, m, req[h].cluster, req[h].slo)
           n == [req[h] EXCEPT !.marker = m,
                   !.stage = IF req[h].kind = "live" THEN "probe" ELSE "replied"]
<1>1. /\ req \in [Requests -> Request] /\ mem \in State /\ AbsentEmpty(mem)
      /\ req[h].stage = "create" /\ Staged(req[h])
  BY DEF ServerInv, StoreTypeOK, Fine, Good, Create, At
<1>2. /\ req[h].kind \in {"live", "create"} /\ req[h].cluster \in Clusters
      /\ req[h].slo \in SLOs /\ req[h].stage \notin Final \cup {"new"}
  BY <1>1 DEF Staged, Final
<1>3. CASE Exists(mem, m) /\ Go(h, "error") /\ Quiet
  BY <1>1, <1>2, <1>3, GoTurns
<1>4. CASE ~Exists(mem, m) /\ CallSave(h, new, {<<"session", m>>}, n)
  <2>1. /\ mem' = new \/ mem' = disk
        /\ \A g \in Requests \ {h} : Rests(g)
        /\ Drops(h) \/ (mem' = new /\ disk' = new /\ req'[h] = n)
    BY <1>1, <1>2, <1>4, CallSaveTurns
  <2>2. \A k \in Markers : new.sessions[k].truth = mem.sessions[k].truth
    BY <1>1, <1>2, <1>4, CreateSessionForm DEF AbsentEmpty
  <2> HIDE DEF new
  <2>3. \A k \in Markers : TruthTurns(h, k)
    BY <2>1, <2>2, SavedTruthTurns
  <2>4. Handled(h)
    BY <1>1, <1>2, <1>4, <2>1 DEF Handled, Rests, Made, new
  <2>5. QED
    BY <2>1, <2>3, <2>4 DEF Turns
<1>5. QED
  BY <1>3, <1>4 DEF Create

LEMMA ProbeTurns ==
  ASSUME ServerInv, NEW h \in Requests, NEW events \in ProbeResults, Probe(h, events)
  PROVE  Turns(h)
<1>1. req \in [Requests -> Request] /\ req[h].stage = "probe" /\ Staged(req[h]) /\ Quiet
  BY DEF ServerInv, Good, Probe, At
<1>2. req[h].kind = "live" /\ req[h].marker \in Markers
  BY <1>1 DEF Staged
<1>3. \A g \in Requests \ {h} : Rests(g)
  BY <1>1, OthersRest DEF Probe
<1>4. Probed(h)
  BY <1>1, <1>2 DEF Probe, Probed
<1>5. QED
  BY <1>1, <1>3, <1>4, QuietTurns DEF Turns, Handled

LEMMA StoreTruthTurns ==
  ASSUME ServerInv, NEW h \in Requests, StoreTruth(h)
  PROVE  Turns(h)
<1> DEFINE e == Head(req[h].todo)
           new == AddTruth(mem, e)
<1>1. /\ req \in [Requests -> Request] /\ mem \in State
      /\ req[h].stage = "truth" /\ Staged(req[h]) /\ req[h].stage \notin Final \cup {"new"}
  BY DEF ServerInv, StoreTypeOK, Good, StoreTruth, At, Final
<1>2. e \in Truths
  BY <1>1 DEF Staged
<1>3. CASE ~Exists(mem, e.marker) /\ Go(h, "error") /\ Quiet
  BY <1>1, <1>3, GoTurns
<1>4. CASE /\ KnownTruth(mem, e) /\ Duplicate({TruthFact(e)})
           /\ req' = [req EXCEPT ![h] = AfterEvent(h)]
  <2>1. mem' = mem /\ req'[h] = AfterEvent(h)
    BY <1>1, <1>4 DEF Duplicate
  <2>2. Took(h) /\ \A m \in Markers : TruthTurns(h, m)
    BY <1>1, <1>4, <2>1 DEF Took, TruthTurns
  <2>3. \A g \in Requests \ {h} : Rests(g)
    BY <1>1, <1>4, OthersRest
  <2>4. QED
    BY <2>2, <2>3 DEF Turns, Handled
<1>5. CASE CallSave(h, new, {TruthFact(e)}, AfterEvent(h))
  <2>1. /\ mem' = new \/ mem' = disk
        /\ \A g \in Requests \ {h} : Rests(g)
        /\ Drops(h) \/ (mem' = new /\ disk' = new /\ req'[h] = AfterEvent(h))
    BY <1>1, <1>5, CallSaveTurns
  <2>2. \A m \in Markers :
          new.sessions[m].truth = IF m = e.marker THEN Append(mem.sessions[m].truth, e)
                                  ELSE mem.sessions[m].truth
    BY <1>1, <1>2, AddTruthForm
  <2>3. Drops(h) \/ Took(h)
    BY <1>1, <2>1 DEF Took
  <2> HIDE DEF new
  <2>4. \A m \in Markers : TruthTurns(h, m)
    BY <1>1, <2>1, <2>2, <2>3 DEF TruthTurns
  <2>5. QED
    BY <2>1, <2>3, <2>4 DEF Turns, Handled, Rests
<1>6. QED
  BY <1>3, <1>4, <1>5 DEF StoreTruth

LEMMA StoreObservationTurns ==
  ASSUME ServerInv, NEW h \in Requests, StoreObservation(h)
  PROVE  Turns(h)
<1> DEFINE e == Head(req[h].todo)
           new == AddObservation(mem, e)
<1>1. /\ req \in [Requests -> Request] /\ mem \in State
      /\ req[h].stage = "observe" /\ Staged(req[h]) /\ req[h].stage \notin Final \cup {"new"}
  BY DEF ServerInv, StoreTypeOK, Good, StoreObservation, At, Final
<1>2. e \in Observations
  BY <1>1 DEF Staged
<1>3. req'[h] = AfterEvent(h) => Went(h)
  <2>1. /\ AfterEvent(h).kind = req[h].kind /\ AfterEvent(h).marker = req[h].marker
        /\ AfterEvent(h).stage = IF Len(req[h].todo) > 1 THEN req[h].stage
                                 ELSE IF req[h].kind = "live" THEN "wait" ELSE "replied"
    BY <1>1, AfterEventForm
  <2>2. req[h].kind = "ingest"
    BY <1>1 DEF Staged
  <2>3. QED
    BY <1>1, <2>1, <2>2 DEF Went
<1>4. CASE Duplicate({ObservationFact(e)}) /\ req' = [req EXCEPT ![h] = AfterEvent(h)]
  <2>1. mem' = mem /\ req'[h] = AfterEvent(h)
    BY <1>1, <1>4 DEF Duplicate
  <2>2. \A m \in Markers : TruthTurns(h, m)
    BY <2>1 DEF TruthTurns
  <2>3. \A g \in Requests \ {h} : Rests(g)
    BY <1>1, <1>4, OthersRest
  <2>4. QED
    BY <1>3, <2>1, <2>2, <2>3 DEF Turns, Handled
<1>5. CASE CallSave(h, new, {ObservationFact(e)}, AfterEvent(h))
  <2>1. /\ mem' = new \/ mem' = disk
        /\ \A g \in Requests \ {h} : Rests(g)
        /\ Drops(h) \/ (mem' = new /\ disk' = new /\ req'[h] = AfterEvent(h))
    BY <1>1, <1>5, CallSaveTurns
  <2>2. \A m \in Markers : new.sessions[m].truth = mem.sessions[m].truth
    BY <1>1, <1>2, AddObservationForm
  <2> HIDE DEF new
  <2>3. \A m \in Markers : TruthTurns(h, m)
    BY <2>1, <2>2, SavedTruthTurns
  <2>4. QED
    BY <1>3, <2>1, <2>3 DEF Turns, Handled, Rests
<1>6. QED
  BY <1>4, <1>5 DEF StoreObservation

LEMMA TimerFiresTurns ==
  ASSUME ServerInv, NEW h \in Requests, TimerFires(h)
  PROVE  Turns(h)
<1>1. req \in [Requests -> Request] /\ req[h] \in Request /\ req[h].stage = "wait" /\ Quiet
  BY DEF ServerInv, TimerFires, At
<1>2. /\ req'[h].stage = "snapshot" /\ req'[h].kind = req[h].kind
      /\ req'[h].marker = req[h].marker
  BY <1>1 DEF TimerFires, Request
<1>3. \A g \in Requests \ {h} : Rests(g)
  BY <1>1, OthersRest DEF TimerFires
<1>4. QED
  BY <1>1, <1>2, <1>3, QuietTurns DEF Turns, Handled, Went

LEMMA SnapshotTurns ==
  ASSUME ServerInv, NEW h \in Requests, Snapshot(h)
  PROVE  Turns(h)
<1> DEFINE session == mem.sessions[req[h].marker]
<1>1. /\ req \in [Requests -> Request] /\ req[h] \in Request /\ req[h].stage = "snapshot"
      /\ req[h].stage \notin Final \cup {"new"} /\ Quiet
  BY DEF ServerInv, Snapshot, At, Final
<1>2. CASE Go(h, "error")
  BY <1>1, <1>2, GoTurns
<1>3. CASE req' = [req EXCEPT ![h] = [req[h] EXCEPT !.stage = "complete",
                     !.slo = session.slo, !.truth = session.truth,
                     !.observations = session.observations]]
  <2>1. /\ req'[h].stage = "complete" /\ req'[h].kind = req[h].kind
        /\ req'[h].marker = req[h].marker
    BY <1>1, <1>3 DEF Request
  <2>2. \A g \in Requests \ {h} : Rests(g)
    BY <1>1, <1>3, OthersRest
  <2>3. QED
    BY <1>1, <2>1, <2>2, QuietTurns DEF Turns, Handled, Went
<1>4. QED
  BY <1>1, <1>2, <1>3 DEF Snapshot

\* A store call about runs leaves the sessions' truth alone and is followed by the answer.
LEMMA RunTurns ==
  ASSUME ServerInv, NEW h \in Requests, req[h].stage \in {"complete", "add"}, NEW new, NEW facts,
         CallSave(h, new, facts, [req[h] EXCEPT !.stage = "replied"]),
         \A m \in Markers : new.sessions[m].truth = mem.sessions[m].truth
  PROVE  Turns(h)
<1>1. req \in [Requests -> Request] /\ req[h] \in Request /\ req[h].stage \notin Final \cup {"new"}
  BY DEF ServerInv, Final
<1>2. /\ mem' = new \/ mem' = disk
      /\ \A g \in Requests \ {h} : Rests(g)
      /\ Drops(h) \/ req'[h] = [req[h] EXCEPT !.stage = "replied"]
  BY <1>1, CallSaveTurns
<1>3. \A m \in Markers : TruthTurns(h, m)
  BY <1>2, SavedTruthTurns
<1>4. req'[h] = [req[h] EXCEPT !.stage = "replied"] => Went(h)
  BY <1>1 DEF Went, Request
<1>5. QED
  BY <1>2, <1>3, <1>4 DEF Turns, Handled, Rests

LEMMA CompleteTurns ==
  ASSUME ServerInv, NEW h \in Requests, Complete(h)
  PROVE  Turns(h)
<1> DEFINE run == LiveRun(req[h].marker, req[h].slo, req[h].truth, req[h].observations)
           new == CompleteSession(mem, run.id, run)
<1>1. /\ req[h].stage = "complete" /\ req[h] \in Request /\ mem \in State
      /\ CallSave(h, new, {<<"completed", run.id>>}, [req[h] EXCEPT !.stage = "replied"])
  BY DEF ServerInv, StoreTypeOK, Complete, At
<1>2. Staged(req[h]) /\ Copied(req[h], mem) /\ UsableSLOs(mem)
  BY DEF ServerInv, Good, Fine
<1>3. /\ req[h].marker \in Markers /\ req[h].slo \in SLOs /\ req[h].truth \in Seq(Truths)
      /\ req[h].observations \in Seq(Observations)
  BY <1>1, <1>2 DEF Staged, Copied, UsableSLOs, Request
<1>4. run \in Runs /\ run.id = req[h].marker
  BY <1>3, LiveRunsAreRuns DEF LiveRun
<1> HIDE DEF run
<1>5. \A m \in Markers : new.sessions[m].truth = mem.sessions[m].truth
  BY <1>1, <1>3, <1>4, CompleteSessionForm
<1> HIDE DEF new
<1>6. QED
  BY <1>1, <1>5, RunTurns

LEMMA AddDemoTurns ==
  ASSUME ServerInv, NEW h \in Requests, NEW scenario \in Scenarios \cup {""}, AddDemo(h, scenario)
  PROVE  Turns(h)
<1>0. PICK id \in DemoIds :
        CallSave(h, AddRun(mem, RunOfDemo(id, DemoVerdict[req[h].slo, scenario])), {},
                 [req[h] EXCEPT !.stage = "replied"])
  BY DEF AddDemo
<1> DEFINE run == RunOfDemo(id, DemoVerdict[req[h].slo, scenario])
           new == AddRun(mem, run)
<1>1. /\ req[h].stage = "add" /\ mem \in State /\ Staged(req[h])
      /\ CallSave(h, new, {}, [req[h] EXCEPT !.stage = "replied"])
  BY <1>0 DEF ServerInv, StoreTypeOK, Good, AddDemo, At
<1>2. run \in Runs
  BY <1>1, ServerAssumption DEF Staged, DemoRuns
<1> HIDE DEF run
<1>3. new.sessions = mem.sessions
  BY <1>1, <1>2, AddRunForm
<1> HIDE DEF new
<1>4. QED
  BY <1>1, <1>3, RunTurns

LEMMA HandlerTurns ==
  ASSUME ServerInv, NEW h \in Requests,
         Proceed(h) \/ ProbeHangs(h) \/ Cancelled(h)
  PROVE  Turns(h)
<1>1. req \in [Requests -> Request]
  BY DEF ServerInv
<1>2. CASE Proceed(h)
  BY <1>2, CreateTurns, ProbeTurns, StoreTruthTurns, StoreObservationTurns, TimerFiresTurns,
     SnapshotTurns, CompleteTurns, AddDemoTurns DEF Proceed
<1>3. CASE ProbeHangs(h)
  BY <1>1, <1>3, GoTurns DEF ProbeHangs, At, Final
<1>4. CASE Cancelled(h)
  BY <1>1, <1>4, GoTurns DEF Cancelled, At, Final
<1>5. QED
  BY <1>2, <1>3, <1>4

\* Requests begin empty, and have no marker before a session is created.
Fresh ==
  \A h \in Requests :
    /\ req[h].stage = "new" => req[h] = NewRequest
    /\ req[h].stage = "create" => req[h].marker = NoRun
    /\ req[h].kind = "none" => req[h].stage \in {"new", "error"}

LEMMA NewIsUnmarked ==
  ASSUME Fresh, NEW h \in Requests, req[h].stage = "new"
  PROVE  req[h].marker = NoRun
<1>1. NewRequest.marker = NoRun
  BY DEF NewRequest
<1>2. QED
  BY <1>1 DEF Fresh

LEMMA StartSessionOpens ==
  ASSUME req \in [Requests -> Request], Fresh, NEW h \in Requests, NEW kind \in {"live", "create"},
         NEW slo, NEW cluster, StartSession(h, kind, slo, cluster)
  PROVE  /\ Opened(h) /\ Batched(h) /\ \A g \in Requests \ {h} : req'[g] = req[g]
         /\ \/ /\ req'[h].stage = "create" /\ req'[h].kind = kind
               /\ slo # NoSLO => req'[h].slo = slo
            \/ req'[h].stage = "error" /\ req'[h].kind = "none"
<1>1. req[h] = NewRequest /\ req[h].stage = "new" /\ req[h] \in Request
  BY DEF Fresh, StartSession, At
<1>2. NewRequest.kind = "none" /\ NewRequest.marker = NoRun
  BY DEF NewRequest
<1>3. CASE slo = NoSLO \/ Valid(slo)
  <2>1. req' = [req EXCEPT ![h] = [req[h] EXCEPT !.kind = kind, !.stage = "create",
                  !.slo = IF slo = NoSLO THEN mem.slo ELSE slo, !.cluster = cluster]]
    BY <1>3 DEF StartSession
  <2>2. /\ req'[h].stage = "create" /\ req'[h].kind = kind /\ req'[h].marker = req[h].marker
        /\ slo # NoSLO => req'[h].slo = slo
    BY <1>1, <2>1 DEF Request
  <2>3. \A g \in Requests \ {h} : req'[g] = req[g]
    BY <2>1
  <2>4. QED
    BY <1>1, <1>2, <2>2, <2>3 DEF Opened, Batched
<1>4. CASE ~(slo = NoSLO \/ Valid(slo))
  <2>1. req' = [req EXCEPT ![h] = [req[h] EXCEPT !.stage = "error"]]
    BY <1>4 DEF StartSession, Go
  <2>2. req'[h].stage = "error" /\ req'[h].kind = "none" /\ req'[h].marker = NoRun
    BY <1>1, <1>2, <2>1 DEF Request
  <2>3. \A g \in Requests \ {h} : req'[g] = req[g]
    BY <2>1
  <2>4. QED
    BY <1>1, <2>2, <2>3 DEF Opened, Batched
<1>5. QED
  BY <1>3, <1>4

LEMMA StartTruthOpens ==
  ASSUME req \in [Requests -> Request], Fresh, NEW h \in Requests, NEW batch, StartTruth(h, batch)
  PROVE  /\ req'[h].stage = "truth" /\ req'[h].kind = "truth" /\ req'[h].todo = batch
         /\ req'[h].marker = NoRun
         /\ \A g \in Requests \ {h} : req'[g] = req[g]
<1>1. req[h] = NewRequest /\ req[h].stage = "new" /\ req[h] \in Request
  BY DEF Fresh, StartTruth, At
<1>2. NewRequest.marker = NoRun
  BY DEF NewRequest
<1>3. QED
  BY <1>1, <1>2 DEF StartTruth, Request

LEMMA StartCorrelateOpens ==
  ASSUME req \in [Requests -> Request], NEW h \in Requests, NEW m, StartCorrelate(h, m)
  PROVE  /\ req[h].stage = "new"
         /\ req'[h].stage = "snapshot" /\ req'[h].kind = "correlate" /\ req'[h].marker = m
         /\ \A g \in Requests \ {h} : req'[g] = req[g]
BY DEF StartCorrelate, Request, At

LEMMA PutSLOOpens ==
  ASSUME ServerInv, Fresh, NEW h \in Requests, NEW slo \in PutSLOs, PutSLO(h, slo)
  PROVE  /\ (Opened(h) /\ Batched(h)) \/ Rests(h)
         /\ \A g \in Requests \ {h} : Rests(g)
         /\ \A m \in Markers : TruthTurns(h, m)
<1> DEFINE new == UpdateSLO(mem, Defaulted(slo))
           n == [req[h] EXCEPT !.kind = "slo", !.stage = "replied"]
<1>1. /\ req[h] = NewRequest /\ req[h].stage = "new" /\ req[h] \in Request
      /\ req \in [Requests -> Request]
  BY DEF ServerInv, Fresh, PutSLO, At
<1>2. NewRequest.kind = "none" /\ NewRequest.marker = NoRun
  BY DEF NewRequest
<1>3. ASSUME Go(h, "error")
      PROVE  Opened(h) /\ Batched(h) /\ \A g \in Requests \ {h} : Rests(g)
  <2>1. req' = [req EXCEPT ![h] = [req[h] EXCEPT !.stage = "error"]]
    BY <1>3 DEF Go
  <2>2. req'[h].stage = "error" /\ req'[h].kind = "none" /\ req'[h].marker = NoRun
    BY <1>1, <1>2, <2>1 DEF Request
  <2>3. QED
    BY <1>1, <2>1, <2>2, OthersRest DEF Opened, Batched
<1>4. CASE Go(h, "error") /\ Quiet
  BY <1>3, <1>4, QuietTurns
<1>5. CASE CallSave(h, new, {}, n)
  <2>1. mem' = new \/ mem' = disk \/ mem' = mem
    BY <1>5 DEF CallSave, Saved, SaveFails, DiesSaving
  <2>2. \A m \in Markers : new.sessions[m].truth = mem.sessions[m].truth
    BY DEF UpdateSLO, ServerInv, StoreTypeOK, State
  <2> HIDE DEF new
  <2>3. \A m \in Markers : TruthTurns(h, m)
    BY <2>1, <2>2 DEF TruthTurns
  <2>4. CASE req' = [req EXCEPT ![h] = n]
    <3>1. req'[h].stage = "replied" /\ req'[h].kind = "slo" /\ req'[h].marker = NoRun
      BY <1>1, <1>2, <2>4 DEF Request
    <3>2. QED
      BY <1>1, <2>3, <2>4, <3>1, OthersRest DEF Opened, Batched
  <2>5. CASE Go(h, "error")
    BY <1>3, <2>3, <2>5
  <2>6. CASE KillAll
    BY <1>1, <2>3, <2>6, KilledRests
  <2>7. QED
    BY <1>5, <2>4, <2>5, <2>6 DEF CallSave
<1>6. QED
  BY <1>4, <1>5 DEF PutSLO

\* What a step of the server, or of its other clients, is.
ServerTurns ==
  \E h \in Requests :
    /\ Handled(h) \/ (h \in Others /\ Opened(h) /\ Batched(h))
    /\ \A g \in Requests \ {h} : Rests(g)
    /\ \A m \in Markers : TruthTurns(h, m)

LEMMA StartTurns ==
  ASSUME ServerInv, Fresh, NEW h \in Others, Start(h)
  PROVE  ServerTurns
<1>1. h \in Requests /\ req \in [Requests -> Request] /\ req[h] \in Request
  BY CanaryAssumption DEF ServerInv
<1>2. SUFFICES /\ (Opened(h) /\ Batched(h)) \/ Rests(h)
               /\ \A g \in Requests \ {h} : Rests(g)
               /\ \A m \in Markers : TruthTurns(h, m)
  BY <1>1 DEF ServerTurns, Handled
<1>3. CASE \E kind \in {"live", "create"}, slo \in SessionSLOs \cup {NoSLO}, cluster \in Clusters :
             StartSession(h, kind, slo, cluster)
  BY <1>1, <1>3, StartSessionOpens, QuietTurns DEF StartSession, Rests
<1>4. CASE \E batch \in TruthBatches : StartTruth(h, batch)
  <2>1. PICK batch \in TruthBatches : StartTruth(h, batch)
    BY <1>4
  <2>2. /\ req'[h].stage = "truth" /\ req'[h].kind = "truth" /\ req'[h].todo = batch
        /\ req'[h].marker = NoRun
        /\ \A g \in Requests \ {h} : req'[g] = req[g]
    BY <1>1, <2>1, StartTruthOpens
  <2>3. req[h].stage = "new" /\ Quiet
    BY <2>1 DEF StartTruth, At
  <2>4. QED
    BY <2>2, <2>3, QuietTurns DEF Opened, Batched, Rests
<1>5. CASE \E batch \in ObservationBatches : StartObservations(h, batch)
  <2>1. PICK batch \in ObservationBatches : StartObservations(h, batch)
    BY <1>5
  <2>2. req[h].stage = "new" /\ Quiet /\ req[h].marker = NoRun
    BY <1>1, <2>1, NewIsUnmarked DEF StartObservations, At
  <2>3. /\ req'[h].stage = "observe" /\ req'[h].kind = "ingest" /\ req'[h].marker = NoRun
        /\ \A g \in Requests \ {h} : req'[g] = req[g]
    BY <1>1, <2>1, <2>2 DEF StartObservations, Request
  <2>4. QED
    BY <2>2, <2>3, QuietTurns DEF Opened, Batched, Rests
<1>6. CASE \E m \in Markers : StartCorrelate(h, m)
  <2>1. PICK m \in Markers : StartCorrelate(h, m)
    BY <1>6
  <2>2. /\ req[h].stage = "new"
        /\ req'[h].stage = "snapshot" /\ req'[h].kind = "correlate" /\ req'[h].marker = m
        /\ \A g \in Requests \ {h} : req'[g] = req[g]
    BY <1>1, <2>1, StartCorrelateOpens
  <2>3. QED
    BY <2>1, <2>2, QuietTurns DEF Opened, Batched, Rests, StartCorrelate
<1>7. CASE \E slo \in PutSLOs : PutSLO(h, slo)
  BY <1>1, <1>7, PutSLOOpens
<1>8. CASE StartDemo(h)
  <2>1. req[h].stage = "new" /\ Quiet /\ req[h].marker = NoRun
    BY <1>1, <1>8, NewIsUnmarked DEF StartDemo, At
  <2>2. /\ req'[h].stage = "add" /\ req'[h].kind = "demo" /\ req'[h].marker = NoRun
        /\ \A g \in Requests \ {h} : req'[g] = req[g]
    BY <1>1, <1>8, <2>1 DEF StartDemo, Request
  <2>3. QED
    BY <2>1, <2>2, QuietTurns DEF Opened, Batched, Rests
<1>9. QED
  BY <1>3, <1>4, <1>5, <1>6, <1>7, <1>8 DEF Start

LEMMA ServerStepTurns ==
  ASSUME ServerInv, Fresh, ServerStep
  PROVE  ServerTurns
<1>1. CASE \E h \in Others : Start(h)
  BY <1>1, StartTurns
<1>2. CASE \E h \in Requests : Proceed(h) \/ ProbeHangs(h) \/ Cancelled(h)
  BY <1>2, HandlerTurns DEF Turns, ServerTurns
<1>3. CASE Crash
  <2>1. \A g \in Requests : Rests(g)
    BY <1>3, KilledRests DEF Crash, ServerInv
  <2>2. SensorSlot \in Requests
    BY SensorAssumption
  <2>3. \A m \in Markers : TruthTurns(SensorSlot, m)
    BY <1>3 DEF Crash, Dies, TruthTurns
  <2>4. QED
    BY <2>1, <2>2, <2>3 DEF ServerTurns, Handled
<1>4. QED
  BY <1>1, <1>2, <1>3 DEF ServerStep

----------------------------------------------------------------------------
(* The requests of the canaries and of the sensor.                         *)

Sess(c) == Slot(c, "session")
Post(c) == Slot(c, "truth")
Ask(c)  == Slot(c, "correlate")

Kinds ==
  /\ \A c \in Canaries : /\ req[Sess(c)].kind \in {"none", "create"}
                         /\ req[Post(c)].kind \in {"none", "truth"}
                         /\ req[Ask(c)].kind \in {"none", "correlate"}
  /\ req[SensorSlot].kind \in {"none", "truth"}

LEMMA SlotsAreRequests ==
  /\ \A c \in Canaries : {Sess(c), Post(c), Ask(c)} \subseteq Requests \ (Others \cup {SensorSlot})
  /\ SensorSlot \in Requests \ (Others \cup Slots)
  /\ \A c, d \in Canaries : /\ Sess(c) # Post(d) /\ Sess(c) # Ask(d) /\ Post(c) # Ask(d)
                            /\ Sess(c) = Sess(d) => c = d
                            /\ Post(c) = Post(d) => c = d
                            /\ Ask(c) = Ask(d) => c = d
  /\ \A h \in Requests :
       h \in Others \cup {SensorSlot} \/ \E c \in Canaries : h \in {Sess(c), Post(c), Ask(c)}
<1>1. /\ Slots \cap Others = {} /\ Requests = Others \cup Slots \cup {SensorSlot}
      /\ SensorSlot \notin Others \cup Slots
  BY CanaryAssumption, SensorAssumption
<1>2. \A c \in Canaries : {Sess(c), Post(c), Ask(c)} \subseteq Slots
  BY DEF Slots, Calls, Sess, Post, Ask
<1>3. \A h \in Slots : \E c \in Canaries : h \in {Sess(c), Post(c), Ask(c)}
  BY DEF Slots, Calls, Sess, Post, Ask
<1>4. \A c, d : /\ Sess(c) # Post(d) /\ Sess(c) # Ask(d) /\ Post(c) # Ask(d)
                /\ Sess(c) = Sess(d) => c = d
                /\ Post(c) = Post(d) => c = d
                /\ Ask(c) = Ask(d) => c = d
  BY DEF Sess, Post, Ask, Slot
<1> HIDE DEF Sess, Post, Ask, SensorSlot
<1>5. QED
  BY <1>1, <1>2, <1>3, <1>4

LEMMA RestsForm ==
  ASSUME req \in [Requests -> Request], NEW h \in Requests, Rests(h)
  PROVE  /\ req'[h].kind = req[h].kind /\ req'[h].marker = req[h].marker
         /\ req'[h].slo = req[h].slo /\ req'[h].todo = req[h].todo
         /\ req'[h].truth = req[h].truth /\ req'[h].observations = req[h].observations
         /\ \/ req'[h].stage = req[h].stage
            \/ /\ req[h].stage \notin Final \cup {"new"}
               /\ req'[h].stage \in {"error", "cancelled", "killed", "stuck"}
         /\ req[h].stage \in Final \cup {"new"} => req'[h] = req[h]
<1>1. req[h] \in Request
  OBVIOUS
<1>2. QED
  BY <1>1 DEF Rests, Drops, Request

LEMMA MadeForm ==
  ASSUME req \in [Requests -> Request], NEW h \in Requests, NEW m, Made(h, m)
  PROVE  /\ req'[h].kind = req[h].kind /\ req'[h].marker = m /\ req'[h].slo = req[h].slo
         /\ req'[h].stage = IF req[h].kind = "live" THEN "probe" ELSE "replied"
<1>1. req[h] \in Request
  OBVIOUS
<1>2. QED
  BY <1>1 DEF Made, Request

LEMMA ProbedForm ==
  ASSUME req \in [Requests -> Request], NEW h \in Requests, Probed(h)
  PROVE  /\ req'[h].kind = "live" /\ req'[h].marker = req[h].marker /\ req'[h].stage = "truth"
         /\ req'[h].todo \in ProbeResults
         /\ \A i \in DOMAIN req'[h].todo : req'[h].todo[i].marker = req[h].marker
<1>1. req[h] \in Request
  OBVIOUS
<1>2. QED
  BY <1>1 DEF Probed, Request

LEMMA TookForm ==
  ASSUME ServerInv, NEW h \in Requests, Took(h)
  PROVE  /\ req[h].kind \in {"truth", "live"}
         /\ req[h].todo \in Seq(Truths) /\ req[h].todo # <<>>
         /\ req'[h].kind = req[h].kind /\ req'[h].marker = req[h].marker
         /\ req'[h].todo = Tail(req[h].todo)
         /\ req'[h].stage = IF Len(req[h].todo) > 1 THEN "truth"
                            ELSE IF req[h].kind = "live" THEN "wait" ELSE "replied"
<1>1. req[h].stage = "truth" /\ req'[h] = AfterEvent(h) /\ Staged(req[h])
  BY DEF Took, ServerInv, Good
<1>2. QED
  BY <1>1, AfterEventForm DEF Staged

\* What a handler never does.
LEMMA HandledForm ==
  ASSUME ServerInv, NEW h \in Requests, Handled(h)
  PROVE  /\ req'[h].kind = req[h].kind
         /\ req[h].stage \in Final \cup {"new"} => req'[h] = req[h]
         /\ req'[h].stage = "new" => req[h].stage = "new"
         /\ req'[h].stage = "create" => req[h].stage = "create" /\ req'[h].marker = req[h].marker
         /\ req'[h].stage = "truth" => req[h].stage \in {"truth", "probe"}
         /\ req'[h].marker = req[h].marker \/ \E m \in Markers : Made(h, m)
<1>1. req \in [Requests -> Request]
  BY DEF ServerInv
<1>2. CASE Rests(h)
  BY <1>1, <1>2, RestsForm DEF Final
<1>3. CASE \E m \in Markers : Made(h, m)
  BY <1>1, <1>3, MadeForm DEF Made, Final
<1>4. CASE Probed(h)
  BY <1>1, <1>4, ProbedForm DEF Probed, Final
<1>5. CASE Took(h)
  BY <1>5, TookForm DEF Took, Final
<1>6. CASE Went(h)
  BY <1>6 DEF Went, Final
<1>7. QED
  BY <1>2, <1>3, <1>4, <1>5, <1>6 DEF Handled

LEMMA ServerTurnsSlots ==
  ASSUME ServerInv, ServerTurns, NEW h \in Requests \ Others
  PROVE  Handled(h)
BY DEF ServerTurns, Handled

LEMMA SessTurns ==
  ASSUME ServerInv, Kinds, NEW c \in Canaries, Handled(Sess(c))
  PROVE  Rests(Sess(c)) \/ \E m \in Markers : Made(Sess(c), m)
<1>1. Sess(c) \in Requests /\ Staged(req[Sess(c)]) /\ req[Sess(c)].kind \in {"none", "create"}
  BY SlotsAreRequests DEF ServerInv, Good, Kinds
<1>2. ~Probed(Sess(c)) /\ ~Took(Sess(c)) /\ ~Went(Sess(c))
  BY <1>1 DEF Staged, Probed, Took, Went
<1>3. QED
  BY <1>2 DEF Handled

LEMMA PostTurns ==
  ASSUME ServerInv, Kinds, NEW h, h = SensorSlot \/ \E c \in Canaries : h = Post(c), Handled(h)
  PROVE  Rests(h) \/ Took(h)
<1>1. h \in Requests /\ Staged(req[h]) /\ req[h].kind \in {"none", "truth"}
  BY SlotsAreRequests DEF ServerInv, Good, Kinds
<1>2. ~Probed(h) /\ (\A m : ~Made(h, m)) /\ ~Went(h)
  BY <1>1 DEF Staged, Probed, Made, Went
<1>3. QED
  BY <1>2 DEF Handled

LEMMA AskTurns ==
  ASSUME ServerInv, Kinds, NEW c \in Canaries, Handled(Ask(c))
  PROVE  Rests(Ask(c)) \/ Went(Ask(c))
<1>1. Ask(c) \in Requests /\ Staged(req[Ask(c)]) /\ req[Ask(c)].kind \in {"none", "correlate"}
  BY SlotsAreRequests DEF ServerInv, Good, Kinds
<1>2. ~Probed(Ask(c)) /\ (\A m : ~Made(Ask(c), m)) /\ ~Took(Ask(c))
  BY <1>1 DEF Staged, Probed, Made, Took
<1>3. QED
  BY <1>2 DEF Handled

----------------------------------------------------------------------------
(* The canaries' actions, one after the other.                             *)

Outcome == [dimension : Dimensions, success : BOOLEAN]

ProbeRecord ==
  [at : Nat, done : Seq(Outcome),
   dial : {"none", "dialing", "dialled", "written", "failed"},
   peer : {"none", "accepting", "connected", "read", "broken"}]

\* Each action before the current one has been recorded, in order.
Recorded(p) ==
  /\ p \in ProbeRecord /\ p.at <= Len(Actions) + 1
  /\ Len(p.done) = IF p.at = 0 THEN 0 ELSE p.at - 1
  /\ \A i \in 1..Len(p.done) : p.done[i].dimension = Actions[i]

LEMMA NotProbingRecorded ==
  /\ Recorded(NotProbing) /\ Recorded([NotProbing EXCEPT !.at = 1])
<1>1. Len(Actions) \in Nat
  BY CanaryAssumption
<1>2. <<>> \in Seq(Outcome) /\ Len(<<>>) = 0
  OBVIOUS
<1>3. /\ NotProbing \in ProbeRecord /\ NotProbing.at = 0 /\ NotProbing.done = <<>>
      /\ [NotProbing EXCEPT !.at = 1] \in ProbeRecord
      /\ [NotProbing EXCEPT !.at = 1].at = 1 /\ [NotProbing EXCEPT !.at = 1].done = <<>>
  BY <1>2 DEF NotProbing, ProbeRecord
<1>4. QED
  BY <1>1, <1>2, <1>3 DEF Recorded

\* The next action is recorded.
LEMMA AddRecorded ==
  ASSUME NEW c \in Canaries, probe \in [Canaries -> ProbeRecord], Recorded(probe[c]),
         Probing(c), NEW ok \in BOOLEAN, Add(c, ok)
  PROVE  Recorded(probe'[c])
<1> DEFINE p == probe[c]
           outcome == [dimension |-> Actions[p.at], success |-> ok]
           done == Append(p.done, outcome)
           n == [NotProbing EXCEPT !.at = p.at + 1, !.done = done]
<1>1. Actions \in Seq(Dimensions)
  BY CanaryAssumption
<1>2. p \in ProbeRecord /\ p.at \in 1..Len(Actions) /\ p.done \in Seq(Outcome)
  BY <1>1 DEF Probing, ProbeRecord
<1>3. outcome \in Outcome /\ outcome.dimension = Actions[p.at]
  BY <1>1, <1>2 DEF Outcome
<1>4. Len(p.done) = p.at - 1 /\ \A i \in 1..Len(p.done) : p.done[i].dimension = Actions[i]
  BY <1>2 DEF Recorded
<1>5. probe'[c] = n
  BY DEF Add
<1> HIDE DEF outcome
<1>6. /\ done \in Seq(Outcome) /\ Len(done) = p.at
      /\ \A i \in 1..Len(done) : done[i].dimension = Actions[i]
  <2>1. done \in Seq(Outcome) /\ Len(done) = p.at /\ done[p.at] = outcome
    BY <1>2, <1>3, <1>4
  <2>2. \A i \in 1..Len(p.done) : done[i] = p.done[i]
    BY <1>2, <1>3
  <2>3. QED
    BY <1>2, <1>3, <1>4, <2>1, <2>2
<1> HIDE DEF done
<1>7. n \in ProbeRecord /\ n.at = p.at + 1 /\ n.done = done
  <2>1. p.at + 1 \in Nat
    BY <1>2
  <2>2. QED
    BY <1>6, <2>1 DEF NotProbing, ProbeRecord
<1> HIDE DEF n
<1>8. QED
  BY <1>1, <1>2, <1>5, <1>6, <1>7 DEF Recorded

\* One end of the loopback connection moves on.
LEMMA EndsRecorded ==
  ASSUME NEW c \in Canaries, probe \in [Canaries -> ProbeRecord], Recorded(probe[c]),
         NEW dial \in {"none", "dialing", "dialled", "written", "failed"},
         NEW peer \in {"none", "accepting", "connected", "read", "broken"},
         Ends(c, dial, peer)
  PROVE  Recorded(probe'[c])
<1>1. probe[c] \in ProbeRecord
  OBVIOUS
<1>2. /\ probe'[c] \in ProbeRecord /\ probe'[c].at = probe[c].at
      /\ probe'[c].done = probe[c].done
  BY <1>1 DEF Ends, ProbeRecord
<1>3. QED
  BY <1>2 DEF Recorded

LEMMA ProbeStepRecorded ==
  ASSUME NEW c \in Canaries, probe \in [Canaries -> ProbeRecord],
         \A d \in Canaries : Recorded(probe[d]), ProbeStep(c)
  PROVE  probe' \in [Canaries -> ProbeRecord] /\ \A d \in Canaries : Recorded(probe'[d])
<1>1. probe[c] \in ProbeRecord /\ Recorded(probe[c])
  OBVIOUS
<1>2. /\ probe[c].dial \in {"none", "dialing", "dialled", "written", "failed"}
      /\ probe[c].peer \in {"none", "accepting", "connected", "read", "broken"}
  BY <1>1 DEF ProbeRecord
<1>3. (\E ok \in BOOLEAN : Probing(c) /\ Add(c, ok))
        \/ \E dial \in {"none", "dialing", "dialled", "written", "failed"},
              peer \in {"none", "accepting", "connected", "read", "broken"} : Ends(c, dial, peer)
  <2>1. CASE Act(c)
    BY <2>1 DEF Act, Outcomes
  <2>2. CASE Listen(c)
    BY <2>2 DEF Listen, Connecting
  <2>3. CASE Dial(c)
    BY <2>3 DEF Dial
  <2>4. CASE Write(c)
    BY <1>2, <2>4 DEF Write
  <2>5. CASE Accept(c)
    BY <1>2, <2>5 DEF Accept
  <2>6. CASE Join(c)
    BY <2>6 DEF Join
  <2>7. QED
    BY <2>1, <2>2, <2>3, <2>4, <2>5, <2>6 DEF ProbeStep
<1>4. Recorded(probe'[c])
  BY <1>3, <1>1, AddRecorded, EndsRecorded
<1>5. \E n : probe' = [probe EXCEPT ![c] = n]
  BY <1>3 DEF Add, Ends
<1>6. QED
  BY <1>4, <1>5 DEF Recorded

LEMMA BeginOrStopRecorded ==
  ASSUME NEW c \in Canaries, probe \in [Canaries -> ProbeRecord],
         \A d \in Canaries : Recorded(probe[d]), Begin(c) \/ Stop(c)
  PROVE  probe' \in [Canaries -> ProbeRecord] /\ \A d \in Canaries : Recorded(probe'[d])
<1>1. PICK n : probe' = [probe EXCEPT ![c] = n] /\ Recorded(n)
  BY NotProbingRecorded DEF Begin, Stop
<1>2. QED
  BY <1>1 DEF Recorded

----------------------------------------------------------------------------
(* What is always true of the parts of the world by themselves.            *)

CanaryRecord == [stage : {"new"} \cup Started \cup Ended, marker : Markers \cup {NoRun},
                 slo : SLOs \cup {NoSLO}]

\* The kernel's events as the ring holds them.
Traced == {[pid |-> HostPid[p], by |-> p, dimension |-> d, at |-> n] :
             p \in Processes, d \in KernelDimensions, n \in 0..MaxKernelEvents - 1}

Typed ==
  /\ canary \in [Canaries -> CanaryRecord]
  /\ probe \in [Canaries -> ProbeRecord] /\ \A c \in Canaries : Recorded(probe[c])
  /\ ring \in Seq(Traced) /\ seen \in 0..MaxKernelEvents
  /\ \A pid \in DOMAIN pids : pids[pid] \in Markers

\* The stages of a canary that has posted what it did.
After == {"truth", "wait", "correlate", "passed"}

\* A created session is known by its marker, to its canary too.
Marked(c) ==
  /\ req[Sess(c)].stage = "replied" => req[Sess(c)].marker \in Markers
  /\ canary[c].stage \in {"probe"} \cup After => canary[c].marker \in Markers

Base == ServerInv /\ Fresh /\ Kinds /\ Typed /\ \A c \in Canaries : Marked(c)

LEMMA EventsForm ==
  ASSUME Typed, NEW c \in Canaries, canary[c].marker \in Markers,
         Len(probe[c].done) = Len(Actions)
  PROVE  /\ EventsOf(c) \in Seq(Truths) /\ Len(EventsOf(c)) = Len(Actions)
         /\ Len(Actions) \in Nat \ {0}
         /\ \A i \in 1..Len(Actions) :
              /\ EventsOf(c)[i] = TruthEvent(canary[c].marker, c, Actions[i],
                                             probe[c].done[i].success)
              /\ EventsOf(c)[i].id = <<canary[c].marker, Actions[i]>>
              /\ EventsOf(c)[i].marker = canary[c].marker
<1> DEFINE m == canary[c].marker
           done == probe[c].done
<1>1. /\ Actions \in Seq(Dimensions) /\ Actions # <<>>
      /\ \A d \in ToSet(Actions), ok \in BOOLEAN : TruthEvent(m, c, d, ok) \in Truths
  BY CanaryAssumption
<1>2. /\ done \in Seq(Outcome) /\ Len(done) = Len(Actions) /\ DOMAIN done = 1..Len(Actions)
      /\ \A i \in 1..Len(Actions) : done[i].dimension = Actions[i] /\ done[i].success \in BOOLEAN
  <2>1. done \in Seq(Outcome) /\ \A i \in 1..Len(done) : done[i].dimension = Actions[i]
    BY DEF Typed, Recorded, ProbeRecord
  <2>2. \A i \in 1..Len(done) : done[i] \in Outcome
    BY <2>1
  <2>3. QED
    BY <2>1, <2>2 DEF Outcome
<1>3. EventsOf(c) = [i \in 1..Len(Actions) |->
                       TruthEvent(m, c, done[i].dimension, done[i].success)]
  BY <1>2 DEF EventsOf
<1>4. Len(Actions) \in Nat \ {0}
  BY <1>1
<1>5. \A i \in 1..Len(Actions) : Actions[i] \in ToSet(Actions)
  BY <1>1 DEF ToSet
<1>6. \A i \in 1..Len(Actions) :
        /\ EventsOf(c)[i] = TruthEvent(m, c, Actions[i], done[i].success)
        /\ EventsOf(c)[i] \in Truths
  BY <1>1, <1>2, <1>3, <1>5
<1>7. EventsOf(c) \in Seq(Truths) /\ Len(EventsOf(c)) = Len(Actions)
  <2>1. EventsOf(c) \in [1..Len(Actions) -> Truths]
    BY <1>3, <1>6
  <2>2. QED
    BY <1>4, <2>1
<1>8. \A i \in 1..Len(Actions) :
        /\ TruthEvent(m, c, Actions[i], done[i].success).id = <<m, Actions[i]>>
        /\ TruthEvent(m, c, Actions[i], done[i].success).marker = m
  BY DEF TruthEvent
<1>9. QED
  BY <1>4, <1>6, <1>7, <1>8

\* A canary that posts has done and recorded everything.
LEMMA PostedEvents ==
  ASSUME Base, NEW c \in Canaries, PostTruth(c)
  PROVE  /\ canary[c].marker \in Markers /\ Len(probe[c].done) = Len(Actions)
         /\ EventsOf(c) \in Seq(Truths) \ {<<>>}
<1>1. canary[c].stage = "probe" /\ Finished(c)
  BY DEF PostTruth
<1>2. canary[c].marker \in Markers
  BY <1>1 DEF Base, Marked
<1>3. Len(probe[c].done) = Len(Actions)
  <2>1. Recorded(probe[c]) /\ probe[c].at > Len(Actions) /\ Len(Actions) \in Nat
    BY <1>1, CanaryAssumption DEF Base, Typed, Finished
  <2>2. QED
    BY <2>1 DEF Recorded, ProbeRecord
<1>4. QED
  BY <1>2, <1>3, EventsForm DEF Base

LEMMA MapsForm ==
  ASSUME Typed, NEW map \in Maps, NEW pid \in DOMAIN map
  PROVE  map[pid] \in Markers
BY DEF Maps, Typed, NoPids

\* What the sensor posts.
LEMMA KernelTruthForm ==
  ASSUME Typed, ring # <<>>, NEW m \in Markers
  PROVE  /\ Head(ring) \in Traced /\ Tail(ring) \in Seq(Traced)
         /\ KernelTruth(Head(ring), m) \in Truths
<1>1. Head(ring) \in Traced /\ Tail(ring) \in Seq(Traced)
  BY DEF Typed
<1>2. PICK p \in Processes, d \in KernelDimensions, n \in 0..MaxKernelEvents - 1 :
        Head(ring) = [pid |-> HostPid[p], by |-> p, dimension |-> d, at |-> n]
  BY <1>1 DEF Traced
<1>3. KernelTruth([pid |-> HostPid[p], by |-> p, dimension |-> d, at |-> n], m) \in Truths
  BY SensorAssumption
<1>4. QED
  BY <1>1, <1>2, <1>3

\* Whatever happens in the world, the server sees a step of its clients or its own.
LEMMA ReadsIsAnyStep ==
  ASSUME Base, Reads
  PROVE  AnyStep
<1>1. SensorSlot \in Requests /\ ring # <<>>
  BY SlotsAreRequests DEF Reads
<1>2. CASE UNCHANGED req /\ Quiet
  BY <1>2 DEF AnyStep, vars, Quiet
<1>3. CASE \E map \in Maps : \E m \in Resolve(map, Head(ring).pid) :
             StartTruth(SensorSlot, <<KernelTruth(Head(ring), m)>>)
  <2>0. PICK map \in Maps : \E m \in Resolve(map, Head(ring).pid) :
          StartTruth(SensorSlot, <<KernelTruth(Head(ring), m)>>)
    BY <1>3
  <2>1. PICK m \in Resolve(map, Head(ring).pid) :
          StartTruth(SensorSlot, <<KernelTruth(Head(ring), m)>>)
    BY <2>0
  <2>2. m \in Markers
    BY MapsForm DEF Base, Resolve
  <2>3. KernelTruth(Head(ring), m) \in Truths
    BY <1>1, <2>2, KernelTruthForm DEF Base
  <2> DEFINE batch == <<KernelTruth(Head(ring), m)>>
  <2>4. batch \in Seq(Truths) \ {<<>>}
    BY <2>3
  <2> HIDE DEF batch
  <2>5. StartTruth(SensorSlot, batch)
    BY <2>1 DEF batch
  <2>6. Opens(SensorSlot)
    BY <2>4, <2>5 DEF Opens
  <2>7. QED
    BY <1>1, <2>6 DEF AnyStep
<1>4. QED
  BY <1>2, <1>3 DEF Reads

LEMMA CanaryIsAnyStep ==
  ASSUME Base, NEW c \in Canaries,
         CanaryStep(c) \/ GivesUp(c) \/ \E spec \in Specs : Launch(c, spec)
  PROVE  AnyStep
<1>1. Sess(c) \in Requests /\ Post(c) \in Requests /\ Ask(c) \in Requests
  BY SlotsAreRequests
<1>2. CASE UNCHANGED req /\ Quiet
  BY <1>2 DEF AnyStep, vars, Quiet
<1>3. CASE PostTruth(c)
  <2>1. EventsOf(c) \in Seq(Truths) \ {<<>>} /\ StartTruth(Post(c), EventsOf(c))
    BY <1>3, PostedEvents DEF PostTruth, Post
  <2>2. Opens(Post(c))
    BY <2>1 DEF Opens
  <2>3. QED
    BY <1>1, <2>2 DEF AnyStep
<1>4. CASE AskForRun(c)
  <2>1. canary[c].marker \in Markers /\ StartCorrelate(Ask(c), canary[c].marker)
    <3>1. canary[c].stage = "wait"
      BY <1>4 DEF AskForRun
    <3>2. QED
      BY <1>4, <3>1 DEF AskForRun, Ask, Base, Marked, After
  <2>2. Opens(Ask(c))
    BY <2>1 DEF Opens
  <2>3. QED
    BY <1>1, <2>2 DEF AnyStep
<1>5. CASE \E spec \in Specs : Launch(c, spec)
  <2>1. PICK spec \in Specs : Launch(c, spec)
    BY <1>5
  <2>2. CASE ToSet(JobArgs(spec).required) \subseteq Dimensions
    <3>1. StartSession(Sess(c), "create", SessionSLO(spec), Cluster)
      BY <2>1, <2>2 DEF Launch, Sess
    <3>2. SessionSLO(spec) \in SLOs /\ Cluster \in Clusters
      BY <2>2, CanaryAssumption
    <3>3. Opens(Sess(c))
      BY <3>1, <3>2 DEF Opens
    <3>4. QED
      BY <1>1, <3>3 DEF AnyStep
  <2>3. CASE ~(ToSet(JobArgs(spec).required) \subseteq Dimensions)
    BY <1>2, <2>1, <2>3 DEF Launch
  <2>4. QED
    BY <2>2, <2>3
<1>6. CASE \/ Allocated(c) \/ Acts(c) \/ Waits(c) \/ Concludes(c) \/ Refused(c) \/ GivesUp(c)
  BY <1>2, <1>6 DEF Allocated, Acts, Waits, Concludes, Refused, GivesUp
<1>7. QED
  BY <1>3, <1>4, <1>5, <1>6 DEF CanaryStep

LEMMA WorldIsAnyStep ==
  ASSUME Base, [WorldNext]_worldVars
  PROVE  AnyStep
<1>1. CASE ServerStep
  <2>1. Others \subseteq Requests
    BY CanaryAssumption
  <2>2. [Next]_vars
    BY <1>1, <2>1 DEF ServerStep, Next
  <2>3. QED
    BY <2>2, NextIsAnyStep
<1>2. CASE \E c \in Canaries : CanaryStep(c) \/ GivesUp(c) \/ \E spec \in Specs : Launch(c, spec)
  BY <1>2, CanaryIsAnyStep
<1>3. CASE \E p \in Processes, d \in KernelDimensions : KernelSees(p, d)
  BY <1>3 DEF KernelSees, Quiet, AnyStep, vars
<1>4. CASE Reads
  BY <1>4, ReadsIsAnyStep
<1>5. CASE Posted \/ Restarts
  <2>1. /\ SensorSlot \in Requests /\ req[SensorSlot].stage \in Final \cup {"new"}
        /\ req' = [req EXCEPT ![SensorSlot] = NewRequest] /\ Quiet
    BY <1>5, SlotsAreRequests DEF Posted, Restarts, Again, At, Final
  <2>2. QED
    BY <2>1 DEF AnyStep, NextRequest
<1>6. CASE SensorEnds \/ UNCHANGED worldVars
  BY <1>6 DEF SensorEnds, worldVars, AnyStep, vars, Quiet
<1>7. QED
  BY <1>1, <1>2, <1>3, <1>4, <1>5, <1>6 DEF WorldNext

----------------------------------------------------------------------------
(* The invariant of the parts is preserved.                                *)

LEMMA FreshOpened ==
  ASSUME ServerInv, Fresh, NEW h \in Requests, Opened(h) \/ Handled(h) \/ req'[h] = NewRequest,
         \A g \in Requests \ {h} : Rests(g)
  PROVE  Fresh'
<1>1. SUFFICES ASSUME NEW g \in Requests
               PROVE  /\ req'[g].stage = "new" => req'[g] = NewRequest
                      /\ req'[g].stage = "create" => req'[g].marker = NoRun
                      /\ req'[g].kind = "none" => req'[g].stage \in {"new", "error"}
  BY DEF Fresh
<1>2. /\ req[g].stage = "new" => req[g] = NewRequest
      /\ req[g].stage = "create" => req[g].marker = NoRun
      /\ req[g].kind = "none" => req[g].stage \in {"new", "error"}
  BY DEF Fresh
<1>3. CASE Handled(g)
  BY <1>2, <1>3, HandledForm DEF Final
<1>4. CASE g = h /\ Opened(h)
  <2>1. /\ req[h].stage = "new" /\ req'[h].stage # "new"
        /\ req'[h].stage = "create" => req'[h].marker = req[h].marker
        /\ req'[h].kind = "none" => req'[h].stage = "error"
    BY <1>4 DEF Opened
  <2>2. req[h].marker = NoRun
    BY <2>1, NewIsUnmarked
  <2>3. QED
    BY <1>4, <2>1, <2>2
<1>5. CASE req'[g] = NewRequest
  <2>1. NewRequest.stage = "new" /\ NewRequest.kind = "none"
    BY DEF NewRequest
  <2>2. QED
    BY <1>5, <2>1
<1>6. QED
  BY <1>3, <1>4, <1>5 DEF Handled

LEMMA FreshServer ==
  ASSUME ServerInv, Fresh, ServerTurns
  PROVE  Fresh'
BY FreshOpened DEF ServerTurns

LEMMA KindsServer ==
  ASSUME ServerInv, Kinds, ServerTurns
  PROVE  Kinds'
<1>1. \A h \in Requests \ Others : req'[h].kind = req[h].kind
  BY ServerTurnsSlots, HandledForm
<1>2. QED
  BY <1>1, SlotsAreRequests DEF Kinds

LEMMA MarkedServer ==
  ASSUME ServerInv, Kinds, ServerTurns, NEW c \in Canaries, Marked(c), UNCHANGED canary
  PROVE  Marked(c)'
<1>1. Sess(c) \in Requests \ Others /\ req \in [Requests -> Request]
  BY SlotsAreRequests DEF ServerInv
<1>2. Rests(Sess(c)) \/ \E m \in Markers : Made(Sess(c), m)
  BY <1>1, ServerTurnsSlots, SessTurns
<1>3. req'[Sess(c)].stage = "replied" => req'[Sess(c)].marker \in Markers
  BY <1>1, <1>2, RestsForm, MadeForm DEF Marked
<1>4. QED
  BY <1>3 DEF Marked

LEMMA BaseServer ==
  ASSUME Base, ServerStep, Apart
  PROVE  Base'
<1>1. ServerTurns
  BY ServerStepTurns DEF Base
<1>2. ServerInv'
  BY WorldIsAnyStep, AnyStepShape, StepKeeps DEF Base, WorldNext
<1>3. Typed'
  BY DEF Base, Typed, Apart
<1>4. QED
  BY <1>1, <1>2, <1>3, FreshServer, KindsServer, MarkedServer DEF Base, Apart

----------------------------------------------------------------------------
(* The steps of a canary.                                                  *)

\* A step of the canary c touches nothing of the others'.
Alone(c) ==
  /\ UNCHANGED <<mem, disk>>
  /\ canary' \in [Canaries -> CanaryRecord]
  /\ probe' \in [Canaries -> ProbeRecord] /\ \A d \in Canaries : Recorded(probe'[d])
  /\ \A d \in Canaries \ {c} : canary'[d] = canary[d] /\ probe'[d] = probe[d]
  /\ \A h \in Requests \ {Sess(c), Post(c), Ask(c)} : req'[h] = req[h]

LEMMA BecomeAlone ==
  ASSUME Base, NEW c \in Canaries, NEW stage \in Started \cup Ended, Become(c, stage)
  PROVE  /\ canary' \in [Canaries -> CanaryRecord]
         /\ canary'[c].stage = stage /\ canary'[c].marker = canary[c].marker
         /\ canary'[c].slo = canary[c].slo
         /\ \A d \in Canaries \ {c} : canary'[d] = canary[d]
<1>1. canary \in [Canaries -> CanaryRecord] /\ canary[c] \in CanaryRecord
  BY DEF Base, Typed
<1>2. [canary[c] EXCEPT !.stage = stage] \in CanaryRecord
  BY <1>1 DEF CanaryRecord
<1>3. canary' = [canary EXCEPT ![c] = [canary[c] EXCEPT !.stage = stage]]
  BY DEF Become
<1>4. QED
  BY <1>1, <1>2, <1>3 DEF CanaryRecord

\* The canary fails: it stops its actions and sends nothing.
LEMMA FailForm ==
  ASSUME Base, NEW c \in Canaries, Refused(c) \/ GivesUp(c)
  PROVE  Alone(c) /\ UNCHANGED req /\ canary'[c].stage = "failed"
<1>1. Become(c, "failed") /\ Stop(c) /\ UNCHANGED req /\ Quiet
  BY DEF Refused, GivesUp
<1>2. "failed" \in Started \cup Ended
  BY DEF Ended
<1>3. /\ canary' \in [Canaries -> CanaryRecord] /\ canary'[c].stage = "failed"
      /\ \A d \in Canaries \ {c} : canary'[d] = canary[d]
  BY <1>1, <1>2, BecomeAlone
<1>4. probe' \in [Canaries -> ProbeRecord] /\ \A d \in Canaries : Recorded(probe'[d])
  BY <1>1, BeginOrStopRecorded DEF Base, Typed
<1>5. \A d \in Canaries \ {c} : probe'[d] = probe[d]
  BY <1>1 DEF Stop, Base, Typed
<1>6. QED
  BY <1>1, <1>3, <1>4, <1>5 DEF Alone, Quiet

LEMMA LaunchForm ==
  ASSUME Base, NEW c \in Canaries, NEW spec \in Specs, Launch(c, spec)
  PROVE  /\ Alone(c) /\ UNCHANGED probe /\ canary[c].stage = "new"
         /\ req'[Post(c)] = req[Post(c)] /\ req'[Ask(c)] = req[Ask(c)]
         /\ \/ canary'[c].stage = "failed" /\ UNCHANGED req
            \/ /\ canary'[c].stage = "session" /\ Opened(Sess(c))
               /\ \/ /\ req'[Sess(c)].stage = "create" /\ req'[Sess(c)].kind = "create"
                     /\ req'[Sess(c)].slo = canary'[c].slo
                  \/ req'[Sess(c)].stage = "error" /\ req'[Sess(c)].kind = "none"
<1>1. /\ canary \in [Canaries -> CanaryRecord] /\ canary[c] \in CanaryRecord
      /\ probe \in [Canaries -> ProbeRecord] /\ \A d \in Canaries : Recorded(probe[d])
      /\ req \in [Requests -> Request] /\ Fresh
  BY DEF Base, Typed, ServerInv
<1>2. canary[c].stage = "new" /\ UNCHANGED probe
  BY DEF Launch
<1>3. Sess(c) \in Requests /\ Post(c) \in Requests \ {Sess(c)} /\ Ask(c) \in Requests \ {Sess(c)}
  BY SlotsAreRequests
<1>4. CASE ToSet(JobArgs(spec).required) \subseteq Dimensions
  <2> DEFINE n == [canary[c] EXCEPT !.stage = "session", !.slo = SessionSLO(spec)]
  <2>1. StartSession(Sess(c), "create", SessionSLO(spec), Cluster)
    BY <1>4 DEF Launch, Sess
  <2>2. SessionSLO(spec) \in SLOs /\ SessionSLO(spec) # NoSLO
    BY <1>4, CanaryAssumption, StoreAssumption
  <2>3. /\ Opened(Sess(c)) /\ \A g \in Requests \ {Sess(c)} : req'[g] = req[g]
        /\ \/ /\ req'[Sess(c)].stage = "create" /\ req'[Sess(c)].kind = "create"
              /\ req'[Sess(c)].slo = SessionSLO(spec)
           \/ req'[Sess(c)].stage = "error" /\ req'[Sess(c)].kind = "none"
    BY <1>1, <1>3, <2>1, <2>2, StartSessionOpens
  <2>4. canary' = [canary EXCEPT ![c] = n]
    BY <1>4 DEF Launch
  <2>5. n \in CanaryRecord /\ n.stage = "session" /\ n.slo = SessionSLO(spec)
    BY <1>1, <2>2 DEF CanaryRecord, Started
  <2> HIDE DEF n
  <2>6. /\ canary' \in [Canaries -> CanaryRecord] /\ canary'[c] = n
        /\ \A d \in Canaries \ {c} : canary'[d] = canary[d]
    BY <1>1, <2>4, <2>5
  <2>7. UNCHANGED <<mem, disk>>
    BY <2>1 DEF StartSession, Quiet
  <2>8. Alone(c)
    BY <1>1, <1>2, <2>3, <2>6, <2>7 DEF Alone
  <2>9. QED
    BY <1>2, <1>3, <2>3, <2>5, <2>6, <2>8
<1>5. CASE ~(ToSet(JobArgs(spec).required) \subseteq Dimensions)
  <2>1. Become(c, "failed") /\ UNCHANGED req /\ Quiet
    BY <1>5 DEF Launch
  <2>2. /\ canary' \in [Canaries -> CanaryRecord] /\ canary'[c].stage = "failed"
        /\ \A d \in Canaries \ {c} : canary'[d] = canary[d]
    BY <2>1, BecomeAlone DEF Ended
  <2>3. QED
    BY <1>1, <1>2, <2>1, <2>2 DEF Alone, Quiet
<1>6. QED
  BY <1>4, <1>5

LEMMA AllocatedForm ==
  ASSUME Base, NEW c \in Canaries, Allocated(c)
  PROVE  /\ Alone(c) /\ UNCHANGED req
         /\ canary[c].stage = "session" /\ req[Sess(c)].stage = "replied"
         /\ canary'[c].stage = "probe" /\ canary'[c].marker = req[Sess(c)].marker
         /\ canary'[c].slo = canary[c].slo
<1>1. /\ canary \in [Canaries -> CanaryRecord] /\ canary[c] \in CanaryRecord
      /\ probe \in [Canaries -> ProbeRecord] /\ \A d \in Canaries : Recorded(probe[d])
  BY DEF Base, Typed
<1>2. /\ canary[c].stage = "session" /\ req[Sess(c)].stage = "replied" /\ UNCHANGED req /\ Quiet
      /\ Begin(c)
  BY DEF Allocated, Answer, Calls, Sess
<1>3. req[Sess(c)].marker \in Markers
  BY <1>2 DEF Base, Marked
<1> DEFINE n == [canary[c] EXCEPT !.stage = "probe", !.marker = req[Sess(c)].marker]
<1>4. canary' = [canary EXCEPT ![c] = n]
  BY DEF Allocated, Sess
<1>5. /\ n \in CanaryRecord /\ n.stage = "probe" /\ n.marker = req[Sess(c)].marker
      /\ n.slo = canary[c].slo
  BY <1>1, <1>3 DEF CanaryRecord, Started
<1> HIDE DEF n
<1>6. probe' \in [Canaries -> ProbeRecord] /\ \A d \in Canaries : Recorded(probe'[d])
  BY <1>1, <1>2, BeginOrStopRecorded
<1>7. \A d \in Canaries \ {c} : probe'[d] = probe[d]
  BY <1>1, <1>2 DEF Begin
<1>8. QED
  BY <1>1, <1>2, <1>4, <1>5, <1>6, <1>7 DEF Alone, Quiet

LEMMA ActsForm ==
  ASSUME Base, NEW c \in Canaries, Acts(c)
  PROVE  Alone(c) /\ UNCHANGED <<req, canary>> /\ canary[c].stage = "probe"
<1>1. /\ canary \in [Canaries -> CanaryRecord] /\ probe \in [Canaries -> ProbeRecord]
      /\ \A d \in Canaries : Recorded(probe[d])
  BY DEF Base, Typed
<1>2. ProbeStep(c) /\ UNCHANGED <<req, canary>> /\ Quiet /\ canary[c].stage = "probe"
  BY DEF Acts
<1>3. probe' \in [Canaries -> ProbeRecord] /\ \A d \in Canaries : Recorded(probe'[d])
  BY <1>1, <1>2, ProbeStepRecorded
<1>4. \E n : probe' = [probe EXCEPT ![c] = n]
  BY <1>2 DEF ProbeStep, Act, Listen, Dial, Write, Accept, Join, Add, Ends
<1>5. QED
  BY <1>1, <1>2, <1>3, <1>4 DEF Alone, Quiet

LEMMA PostTruthForm ==
  ASSUME Base, NEW c \in Canaries, PostTruth(c)
  PROVE  /\ Alone(c) /\ UNCHANGED probe /\ canary[c].stage = "probe"
         /\ req'[Sess(c)] = req[Sess(c)] /\ req'[Ask(c)] = req[Ask(c)]
         /\ canary'[c].stage = "truth" /\ canary'[c].marker = canary[c].marker
         /\ canary'[c].slo = canary[c].slo
         /\ Opened(Post(c)) /\ req'[Post(c)].stage = "truth" /\ req'[Post(c)].kind = "truth"
         /\ req'[Post(c)].todo = EventsOf(c)
<1>1. /\ canary \in [Canaries -> CanaryRecord] /\ probe \in [Canaries -> ProbeRecord]
      /\ \A d \in Canaries : Recorded(probe[d]) /\ req \in [Requests -> Request] /\ Fresh
  BY DEF Base, Typed, ServerInv
<1>2. /\ canary[c].stage = "probe" /\ StartTruth(Post(c), EventsOf(c)) /\ Become(c, "truth")
      /\ UNCHANGED probe
  BY DEF PostTruth, Post
<1>3. Post(c) \in Requests /\ Sess(c) \in Requests \ {Post(c)} /\ Ask(c) \in Requests \ {Post(c)}
  BY SlotsAreRequests
<1>4. /\ req'[Post(c)].stage = "truth" /\ req'[Post(c)].kind = "truth"
      /\ req'[Post(c)].todo = EventsOf(c) /\ req'[Post(c)].marker = NoRun
      /\ \A g \in Requests \ {Post(c)} : req'[g] = req[g]
  BY <1>1, <1>2, <1>3, StartTruthOpens
<1>5. req[Post(c)].stage = "new" /\ UNCHANGED <<mem, disk>>
  BY <1>2 DEF StartTruth, At, Quiet
<1>6. Opened(Post(c))
  BY <1>4, <1>5 DEF Opened
<1>7. /\ canary' \in [Canaries -> CanaryRecord]
      /\ canary'[c].stage = "truth" /\ canary'[c].marker = canary[c].marker
      /\ canary'[c].slo = canary[c].slo
      /\ \A d \in Canaries \ {c} : canary'[d] = canary[d]
  BY <1>2, BecomeAlone DEF Started
<1>8. QED
  BY <1>1, <1>2, <1>3, <1>4, <1>5, <1>6, <1>7 DEF Alone

LEMMA WaitsForm ==
  ASSUME Base, NEW c \in Canaries, Waits(c)
  PROVE  /\ Alone(c) /\ UNCHANGED <<req, probe>>
         /\ canary[c].stage = "truth" /\ req[Post(c)].stage = "replied"
         /\ canary'[c].stage = "wait" /\ canary'[c].marker = canary[c].marker
         /\ canary'[c].slo = canary[c].slo
<1>1. /\ canary[c].stage = "truth" /\ req[Post(c)].stage = "replied" /\ Become(c, "wait")
      /\ UNCHANGED <<req, probe>> /\ Quiet
  BY DEF Waits, Answer, Calls, Post
<1>2. /\ canary' \in [Canaries -> CanaryRecord]
      /\ canary'[c].stage = "wait" /\ canary'[c].marker = canary[c].marker
      /\ canary'[c].slo = canary[c].slo
      /\ \A d \in Canaries \ {c} : canary'[d] = canary[d]
  BY <1>1, BecomeAlone DEF Started
<1>3. QED
  BY <1>1, <1>2 DEF Alone, Quiet, Base, Typed

LEMMA AskForRunForm ==
  ASSUME Base, NEW c \in Canaries, AskForRun(c)
  PROVE  /\ Alone(c) /\ UNCHANGED probe /\ canary[c].stage = "wait"
         /\ req'[Sess(c)] = req[Sess(c)] /\ req'[Post(c)] = req[Post(c)]
         /\ canary'[c].stage = "correlate" /\ canary'[c].marker = canary[c].marker
         /\ canary'[c].slo = canary[c].slo
         /\ Opened(Ask(c)) /\ req'[Ask(c)].stage = "snapshot" /\ req'[Ask(c)].kind = "correlate"
         /\ req'[Ask(c)].marker = canary[c].marker
<1>1. /\ canary[c].stage = "wait" /\ StartCorrelate(Ask(c), canary[c].marker)
      /\ Become(c, "correlate") /\ UNCHANGED probe
  BY DEF AskForRun, Ask
<1>2. Ask(c) \in Requests /\ Sess(c) \in Requests \ {Ask(c)} /\ Post(c) \in Requests \ {Ask(c)}
  BY SlotsAreRequests
<1>3. /\ req[Ask(c)].stage = "new"
      /\ req'[Ask(c)].stage = "snapshot" /\ req'[Ask(c)].kind = "correlate"
      /\ req'[Ask(c)].marker = canary[c].marker
      /\ \A g \in Requests \ {Ask(c)} : req'[g] = req[g]
  BY <1>1, <1>2, StartCorrelateOpens DEF Base, ServerInv
<1>4. canary[c].marker \in Markers
  BY <1>1 DEF Base, Marked, After
<1>5. Opened(Ask(c)) /\ UNCHANGED <<mem, disk>>
  BY <1>1, <1>3, <1>4 DEF Opened, StartCorrelate, Quiet
<1>6. /\ canary' \in [Canaries -> CanaryRecord]
      /\ canary'[c].stage = "correlate" /\ canary'[c].marker = canary[c].marker
      /\ canary'[c].slo = canary[c].slo
      /\ \A d \in Canaries \ {c} : canary'[d] = canary[d]
  BY <1>1, BecomeAlone DEF Started
<1>7. QED
  BY <1>1, <1>2, <1>3, <1>5, <1>6 DEF Alone, Base, Typed

LEMMA ConcludesForm ==
  ASSUME Base, NEW c \in Canaries, Concludes(c)
  PROVE  /\ Alone(c) /\ UNCHANGED <<req, probe>>
         /\ canary[c].stage = "correlate" /\ req[Ask(c)].stage = "replied"
         /\ canary'[c].stage = "failed"
              \/ (canary'[c].stage = "passed" /\ RunOf(c).status = "passing")
         /\ canary'[c].marker = canary[c].marker /\ canary'[c].slo = canary[c].slo
<1>1. /\ canary[c].stage = "correlate" /\ req[Ask(c)].stage = "replied" /\ Become(c, ExitOf(c))
      /\ UNCHANGED <<req, probe>> /\ Quiet
  BY DEF Concludes, Answer, Calls, Ask
<1>2. ExitOf(c) = "failed" \/ (ExitOf(c) = "passed" /\ RunOf(c).status = "passing")
  BY DEF ExitOf
<1>3. ExitOf(c) \in Started \cup Ended
  BY <1>2 DEF Ended
<1>4. /\ canary' \in [Canaries -> CanaryRecord]
      /\ canary'[c].stage = ExitOf(c) /\ canary'[c].marker = canary[c].marker
      /\ canary'[c].slo = canary[c].slo
      /\ \A d \in Canaries \ {c} : canary'[d] = canary[d]
  BY <1>1, <1>3, BecomeAlone
<1>5. QED
  BY <1>1, <1>2, <1>4 DEF Alone, Quiet, Base, Typed

\* Whatever a canary does, its requests begin as they should, and it has a marker when
\* it needs one.
LEMMA CanaryKeepsRequests ==
  ASSUME Base, NEW c \in Canaries,
         CanaryStep(c) \/ GivesUp(c) \/ \E spec \in Specs : Launch(c, spec)
  PROVE  Alone(c) /\ Fresh' /\ Kinds' /\ Marked(c)'
<1>1. /\ ServerInv /\ Fresh /\ Kinds /\ Marked(c) /\ req \in [Requests -> Request]
      /\ {Sess(c), Post(c), Ask(c)} \subseteq Requests \ (Others \cup {SensorSlot})
  BY SlotsAreRequests DEF Base, ServerInv
<1>2. ASSUME UNCHANGED req
      PROVE  Fresh' /\ Kinds'
  BY <1>1, <1>2 DEF Fresh, Kinds
<1>3. ASSUME NEW h \in {Sess(c), Post(c), Ask(c)}, Opened(h), Alone(c),
             \A g \in {Sess(c), Post(c), Ask(c)} \ {h} : req'[g] = req[g]
      PROVE  Fresh'
  <2>1. h \in Requests /\ \A g \in Requests \ {h} : req'[g] = req[g]
    BY <1>1, <1>3 DEF Alone
  <2>2. \A g \in Requests \ {h} : Rests(g)
    BY <2>1 DEF Rests
  <2>3. QED
    BY <1>1, <1>3, <2>1, <2>2, FreshOpened
<1>4. ASSUME Alone(c), req'[Sess(c)].kind \in {"none", "create"},
             req'[Post(c)].kind \in {"none", "truth"}, req'[Ask(c)].kind \in {"none", "correlate"}
      PROVE  Kinds'
  <2>1. ASSUME NEW d \in Canaries
        PROVE  /\ req'[Sess(d)].kind \in {"none", "create"}
               /\ req'[Post(d)].kind \in {"none", "truth"}
               /\ req'[Ask(d)].kind \in {"none", "correlate"}
    <3>1. CASE d = c
      BY <1>4, <3>1
    <3>2. CASE d # c
      <4>1. \A h \in {Sess(d), Post(d), Ask(d)} : req'[h] = req[h]
        BY <1>4, <3>2, SlotsAreRequests DEF Alone
      <4>2. QED
        BY <1>1, <4>1 DEF Kinds
    <3>3. QED
      BY <3>1, <3>2
  <2>2. req'[SensorSlot].kind \in {"none", "truth"}
    BY <1>1, <1>4, SlotsAreRequests DEF Alone, Kinds
  <2>3. QED
    BY <2>1, <2>2 DEF Kinds
<1>5. CASE Refused(c) \/ GivesUp(c)
  BY <1>1, <1>2, <1>5, FailForm DEF Marked, After
<1>6. CASE \E spec \in Specs : Launch(c, spec)
  <2>1. PICK spec \in Specs : Launch(c, spec)
    BY <1>6
  <2>2. /\ Alone(c) /\ req'[Post(c)] = req[Post(c)] /\ req'[Ask(c)] = req[Ask(c)]
        /\ \/ canary'[c].stage = "failed" /\ UNCHANGED req
           \/ /\ canary'[c].stage = "session" /\ Opened(Sess(c))
              /\ \/ req'[Sess(c)].stage = "create" /\ req'[Sess(c)].kind = "create"
                 \/ req'[Sess(c)].stage = "error" /\ req'[Sess(c)].kind = "none"
    BY <2>1, LaunchForm
  <2>3. Fresh'
    BY <1>2, <1>3, <2>2
  <2>4. Kinds'
    BY <1>1, <1>2, <1>4, <2>2 DEF Kinds
  <2>5. Marked(c)'
    BY <1>1, <2>2 DEF Marked, After
  <2>6. QED
    BY <2>2, <2>3, <2>4, <2>5
<1>7. CASE Allocated(c)
  BY <1>1, <1>2, <1>7, AllocatedForm DEF Marked, After
<1>8. CASE Acts(c)
  BY <1>1, <1>2, <1>8, ActsForm DEF Marked
<1>9. CASE PostTruth(c)
  <2>1. /\ Alone(c) /\ Opened(Post(c)) /\ req'[Post(c)].kind = "truth"
        /\ req'[Sess(c)] = req[Sess(c)] /\ req'[Ask(c)] = req[Ask(c)]
        /\ canary[c].stage = "probe" /\ canary'[c].marker = canary[c].marker
    BY <1>9, PostTruthForm
  <2>2. Fresh' /\ Kinds'
    BY <1>1, <1>3, <1>4, <2>1 DEF Kinds
  <2>3. Marked(c)'
    BY <1>1, <2>1 DEF Marked
  <2>4. QED
    BY <2>1, <2>2, <2>3
<1>10. CASE Waits(c)
  BY <1>1, <1>2, <1>10, WaitsForm DEF Marked, After
<1>11. CASE AskForRun(c)
  <2>1. /\ Alone(c) /\ Opened(Ask(c)) /\ req'[Ask(c)].kind = "correlate"
        /\ req'[Sess(c)] = req[Sess(c)] /\ req'[Post(c)] = req[Post(c)]
        /\ canary[c].stage = "wait" /\ canary'[c].marker = canary[c].marker
    BY <1>11, AskForRunForm
  <2>2. Fresh' /\ Kinds'
    BY <1>1, <1>3, <1>4, <2>1 DEF Kinds
  <2>3. Marked(c)'
    BY <1>1, <2>1 DEF Marked, After
  <2>4. QED
    BY <2>1, <2>2, <2>3
<1>12. CASE Concludes(c)
  BY <1>1, <1>2, <1>12, ConcludesForm DEF Marked, After
<1>13. QED
  BY <1>5, <1>6, <1>7, <1>8, <1>9, <1>10, <1>11, <1>12 DEF CanaryStep

LEMMA BaseCanary ==
  ASSUME Base, NEW c \in Canaries,
         CanaryStep(c) \/ GivesUp(c) \/ \E spec \in Specs : Launch(c, spec),
         UNCHANGED sensorVars
  PROVE  Base'
<1>1. ServerInv'
  BY CanaryIsAnyStep, AnyStepShape, StepKeeps DEF Base
<1>2. Alone(c) /\ Fresh' /\ Kinds' /\ Marked(c)'
  BY CanaryKeepsRequests
<1>3. Typed'
  BY <1>2 DEF Base, Typed, Alone, sensorVars
<1>4. ASSUME NEW d \in Canaries \ {c}
      PROVE  Marked(d)'
  <2>1. req'[Sess(d)] = req[Sess(d)] /\ canary'[d] = canary[d]
    BY <1>2, SlotsAreRequests DEF Alone
  <2>2. Marked(d)
    BY DEF Base
  <2>3. QED
    BY <2>1, <2>2 DEF Marked
<1>5. QED
  BY <1>1, <1>2, <1>3, <1>4 DEF Base

----------------------------------------------------------------------------
(* The steps of the kernel and the sensor.                                 *)

LEMMA KernelSeesTyped ==
  ASSUME Typed, NEW p \in Processes, NEW d \in KernelDimensions, KernelSees(p, d)
  PROVE  Typed'
<1> DEFINE e == [pid |-> HostPid[p], by |-> p, dimension |-> d, at |-> seen]
<1>1. MaxKernelEvents \in Nat /\ RingSize \in Nat \ {0}
  BY SensorAssumption
<1>2. seen \in 0..MaxKernelEvents - 1 /\ seen' = seen + 1 /\ seen' \in 0..MaxKernelEvents
  BY <1>1 DEF Typed, KernelSees
<1>3. e \in Traced
  BY <1>2 DEF Traced
<1> HIDE DEF e
<1>4. ring' = ring \/ ring' = Append(ring, e)
  BY DEF KernelSees, e
<1>5. ring' \in Seq(Traced)
  BY <1>3, <1>4 DEF Typed
<1>6. UNCHANGED <<canary, probe, pids>>
  BY DEF KernelSees
<1>7. QED
  BY <1>2, <1>5, <1>6 DEF Typed

\* What becomes of the sensor's request and of the map when an event is read.
LEMMA ReadsForm ==
  ASSUME Base, Reads
  PROVE  /\ UNCHANGED <<mem, disk, canary, probe, seen>> /\ pids' \in Maps
         /\ Typed' /\ \A g \in Requests \ {SensorSlot} : req'[g] = req[g]
         /\ \/ UNCHANGED req
            \/ /\ Opened(SensorSlot) /\ req'[SensorSlot].kind = "truth"
               /\ \E m \in Resolve(pids', Head(ring).pid) :
                    req'[SensorSlot].todo = <<KernelTruth(Head(ring), m)>>
<1>1. PICK map \in Maps :
        /\ pids' = map
        /\ \/ UNCHANGED req /\ Quiet
           \/ \E m \in Resolve(map, Head(ring).pid) :
                StartTruth(SensorSlot, <<KernelTruth(Head(ring), m)>>)
  BY DEF Reads
<1>2. /\ SensorSlot \in Requests /\ req \in [Requests -> Request] /\ Fresh /\ Typed
      /\ ring # <<>> /\ ring' = Tail(ring) /\ UNCHANGED <<canary, probe, seen>>
  BY SlotsAreRequests DEF Base, ServerInv, Reads
<1>3. UNCHANGED <<mem, disk>>
  BY <1>1 DEF StartTruth, Quiet
<1>4. Typed'
  <2>1. \A pid \in DOMAIN pids' : pids'[pid] \in Markers
    BY <1>1, <1>2, MapsForm
  <2>2. Tail(ring) \in Seq(Traced)
    BY <1>2 DEF Typed
  <2>3. QED
    BY <1>2, <2>1, <2>2 DEF Typed
<1>5. CASE UNCHANGED req /\ Quiet
  BY <1>1, <1>2, <1>3, <1>4, <1>5
<1>6. CASE \E m \in Resolve(map, Head(ring).pid) :
             StartTruth(SensorSlot, <<KernelTruth(Head(ring), m)>>)
  <2>1. PICK m \in Resolve(map, Head(ring).pid) :
          StartTruth(SensorSlot, <<KernelTruth(Head(ring), m)>>)
    BY <1>6
  <2>2. /\ req'[SensorSlot].stage = "truth" /\ req'[SensorSlot].kind = "truth"
        /\ req'[SensorSlot].todo = <<KernelTruth(Head(ring), m)>>
        /\ req'[SensorSlot].marker = NoRun
        /\ \A g \in Requests \ {SensorSlot} : req'[g] = req[g]
    BY <1>2, <2>1, StartTruthOpens
  <2>3. req[SensorSlot].stage = "new"
    BY <2>1 DEF StartTruth, At
  <2>4. Opened(SensorSlot)
    BY <2>2, <2>3 DEF Opened
  <2>5. QED
    BY <1>1, <1>2, <1>3, <1>4, <2>2, <2>4
<1>7. QED
  BY <1>1, <1>5, <1>6

\* Of the requests, the kernel and the sensor change the sensor's own only.
LEMMA SensorForm ==
  ASSUME Base, \/ \E p \in Processes, d \in KernelDimensions : KernelSees(p, d)
               \/ Reads \/ Posted \/ SensorEnds \/ Restarts \/ UNCHANGED worldVars
  PROVE  /\ UNCHANGED <<mem, disk, canary, probe, reported>> /\ Typed'
         /\ \A g \in Requests \ {SensorSlot} : req'[g] = req[g]
         /\ \/ req'[SensorSlot] = req[SensorSlot]
            \/ req'[SensorSlot] = NewRequest
            \/ Opened(SensorSlot) /\ req'[SensorSlot].kind = "truth"
         /\ Reads \/ pids' = pids \/ pids' = NoPids
<1>1. SensorSlot \in Requests /\ req \in [Requests -> Request] /\ Typed
  BY SlotsAreRequests DEF Base, ServerInv
<1>2. CASE \E p \in Processes, d \in KernelDimensions : KernelSees(p, d)
  BY <1>1, <1>2, KernelSeesTyped DEF KernelSees, Quiet
<1>3. CASE Reads
  BY <1>3, ReadsForm DEF Reads
<1>4. CASE Posted \/ Restarts
  BY <1>1, <1>4 DEF Posted, Restarts, Again, Quiet, Typed
<1>5. CASE SensorEnds \/ UNCHANGED worldVars
  <2>1. UNCHANGED <<mem, disk, canary, probe, reported, req, seen>>
    BY <1>5 DEF SensorEnds, Quiet, worldVars
  <2>2. (ring' = ring /\ pids' = pids) \/ (ring' = <<>> /\ pids' = NoPids)
    BY <1>5 DEF SensorEnds, worldVars
  <2>3. DOMAIN NoPids = {} /\ <<>> \in Seq(Traced)
    BY DEF NoPids
  <2>4. QED
    BY <1>1, <2>1, <2>2, <2>3 DEF Typed
<1>6. QED
  BY <1>2, <1>3, <1>4, <1>5

LEMMA BaseSensor ==
  ASSUME Base,
         \/ \E p \in Processes, d \in KernelDimensions : KernelSees(p, d)
         \/ Reads \/ Posted \/ SensorEnds \/ Restarts \/ UNCHANGED worldVars
  PROVE  Base'
<1>1. /\ UNCHANGED <<mem, disk, canary, probe>> /\ Typed'
      /\ \A g \in Requests \ {SensorSlot} : req'[g] = req[g]
      /\ \/ req'[SensorSlot] = req[SensorSlot]
         \/ req'[SensorSlot] = NewRequest
         \/ Opened(SensorSlot) /\ req'[SensorSlot].kind = "truth"
  BY SensorForm
<1>2. ServerInv'
  <2>1. [WorldNext]_worldVars
    BY DEF WorldNext
  <2>2. QED
    BY <2>1, WorldIsAnyStep, AnyStepShape, StepKeeps DEF Base
<1>3. SensorSlot \in Requests /\ ServerInv /\ Fresh /\ Kinds
  BY SlotsAreRequests DEF Base
<1>4. Fresh'
  <2>1. \A g \in Requests \ {SensorSlot} : Rests(g)
    BY <1>1 DEF Rests
  <2>2. \/ Handled(SensorSlot) \/ Opened(SensorSlot) \/ req'[SensorSlot] = NewRequest
    BY <1>1 DEF Handled, Rests
  <2>3. QED
    BY <1>3, <2>1, <2>2, FreshOpened
<1>5. NewRequest.kind = "none"
  BY DEF NewRequest
<1>6. Kinds'
  BY <1>1, <1>3, <1>5, SlotsAreRequests DEF Kinds
<1>7. ASSUME NEW c \in Canaries
      PROVE  Marked(c)'
  <2>1. Marked(c) /\ req'[Sess(c)] = req[Sess(c)] /\ canary'[c] = canary[c]
    BY <1>1, SlotsAreRequests DEF Base
  <2>2. QED
    BY <2>1 DEF Marked
<1>8. QED
  BY <1>1, <1>2, <1>4, <1>6, <1>7 DEF Base

LEMMA BasePreserved ==
  ASSUME Base, [WorldNext]_worldVars
  PROVE  Base'
BY BaseServer, BaseCanary, BaseSensor DEF WorldNext

LEMMA BaseInitially == WorldInit => Base
<1>1. SUFFICES ASSUME WorldInit PROVE Base
  OBVIOUS
<1>2. ServerInv
  BY <1>1, InitiallyInv DEF WorldInit, CanaryInit
<1>3. \A h \in Requests : req[h] = NewRequest
  BY <1>1 DEF WorldInit, CanaryInit, Init
<1>4. NewRequest.kind = "none" /\ NewRequest.stage = "new"
  BY DEF NewRequest
<1>5. Fresh /\ Kinds
  BY <1>3, <1>4, SlotsAreRequests DEF Fresh, Kinds
<1>6. NewCanary \in CanaryRecord /\ NewCanary.stage = "new"
  BY DEF NewCanary, CanaryRecord
<1>7. /\ canary \in [Canaries -> CanaryRecord] /\ \A c \in Canaries : canary[c].stage = "new"
      /\ probe \in [Canaries -> ProbeRecord] /\ \A c \in Canaries : Recorded(probe[c])
  BY <1>1, <1>6, NotProbingRecorded DEF WorldInit, CanaryInit, Recorded
<1>8. Typed
  <2>1. DOMAIN NoPids = {} /\ <<>> \in Seq(Traced)
    BY DEF NoPids
  <2>2. 0 \in 0..MaxKernelEvents
    BY SensorAssumption
  <2>3. QED
    BY <1>1, <1>7, <2>1, <2>2 DEF WorldInit, Typed
<1>9. \A c \in Canaries : Marked(c)
  BY <1>3, <1>4, <1>7, SlotsAreRequests DEF Marked, After
<1>10. QED
  BY <1>2, <1>5, <1>8, <1>9 DEF Base

----------------------------------------------------------------------------
(* What is proved of the server holds of it in the world.                  *)

\* The invariant of the parts, and that every step is the store's.
LEMMA WorldInvariant ==
  WorldSpec => StoreInit /\ [][[StoreNext]_storeVars]_worldVars /\ []Base
<1>1. Base /\ [WorldNext]_worldVars => [StoreNext]_storeVars /\ Base'
  BY WorldIsAnyStep, AnyStepShape, BasePreserved DEF Base, StepShape
<1>2. WorldInit => Base /\ StoreInit
  BY BaseInitially DEF WorldInit, CanaryInit, Init
<1>3. QED
  BY <1>1, <1>2, PTL DEF WorldSpec

\* Under canaries, a sensor and other clients, whatever they send, lose or give up on,
\* the server makes on the store only calls that Store allows: Sensor implements Store.
THEOREM WorldUsesStore == WorldSpec => UsesStore
<1>1. UNCHANGED worldVars => UNCHANGED storeVars
  BY DEF worldVars, storeVars
<1>2. QED
  BY <1>1, WorldInvariant, PTL DEF UsesStore, StoreSpec

\* What holds of the server under clients of any kind holds of it under canaries that
\* give up and a sensor with an old map: live runs reflect their sessions, correlations
\* see what was accepted, what was answered is stored, objectives can be met.
THEOREM WorldKeepsServerInvariants ==
  WorldSpec => [](RunReflectsSession /\ CorrelationSeesAccepted /\ AnsweredIsStored /\ SLOsUsable)
<1>1. Base => RunReflectsSession /\ CorrelationSeesAccepted /\ AnsweredIsStored /\ SLOsUsable
  BY InvRunReflectsSession, InvCorrelationSeesAccepted, InvAnsweredIsStored, InvSLOsUsable DEF Base
<1>2. QED
  BY <1>1, WorldInvariant, PTL

\* With canaries and a sensor too, whatever fails and whoever retries, only what a client
\* had been refused is ever lost of what was accepted, and of a truth envelope.
THEOREM WorldKeepsWhatItAccepts ==
  WorldSpec => [](AcceptedMeansAll /\ OnlyRefusedIsLost)
<1>1. Base => AcceptedMeansAll /\ OnlyRefusedIsLost
  <2>1. Base => AcceptedMeansAll
    BY InvAcceptedMeansAll DEF Base
  <2>2. Base => OnlyRefusedIsLost
    BY DEF Base, ServerInv, LostInv, Kept, OnlyRefusedIsLost
  <2>3. QED
    BY <2>1, <2>2
<1>2. QED
  BY <1>1, WorldInvariant, PTL

----------------------------------------------------------------------------
(* What a step leaves of the sessions.                                     *)

LEMMA StepCarries ==
  ASSUME ServerInv, StepShape, NEW m \in Markers
  PROVE  Carries(m, disk, disk')
<1>1. Carries(m, disk, disk)
  BY CarriesSelf DEF ServerInv, StoreTypeOK
<1>2. CASE disk' = disk
  BY <1>1, <1>2
<1>3. CASE \E h \in Requests : \E n, new : Writes(h, n, new)
  <2>1. PICK h \in Requests : \E n, new : Writes(h, n, new)
    BY <1>3
  <2>2. PICK n, new : Writes(h, n, new)
    BY <2>1
  <2>3. Carries(m, disk, new)
    BY <2>2, OperationCarries DEF Writes
  <2>4. disk' = disk \/ disk' = new
    BY <2>2 DEF Writes
  <2>5. QED
    BY <1>1, <2>3, <2>4
<1>4. QED
  BY <1>2, <1>3 DEF StepShape, MovesOn, Dies, vars

\* An event that a session holds keeps its place.
LEMMA EventsLast ==
  ASSUME NEW st \in State, AbsentEmpty(st), NEW new \in State, NEW m \in Markers,
         Carries(m, st, new), NEW i \in DOMAIN st.sessions[m].truth
  PROVE  i \in DOMAIN new.sessions[m].truth /\ new.sessions[m].truth[i] = st.sessions[m].truth[i]
<1>1. Exists(st, m)
  <2>1. DOMAIN <<>> = {}
    OBVIOUS
  <2>2. QED
    BY <2>1 DEF AbsentEmpty
<1>2. PICK k \in 0..Len(new.sessions[m].truth) :
        st.sessions[m].truth = SubSeq(new.sessions[m].truth, 1, k)
  BY <1>1 DEF Carries, Lasts, Began
<1>3. new.sessions[m].truth \in Seq(Truths)
  BY SessionsOfState DEF Session
<1>4. QED
  BY <1>2, <1>3

----------------------------------------------------------------------------
(* The kernel's truth.                                                     *)

\* Kernel truth that is held, on disk or on its way goes to a session that the pid was
\* reported for, and so does what the map says; nobody but the sensor posts kernel truth.
Attributed ==
  /\ \A m \in Markers : \A i \in DOMAIN mem.sessions[m].truth :
       <<m, mem.sessions[m].truth[i].pid>> \in reported
  /\ \A m \in Markers : \A i \in DOMAIN disk.sessions[m].truth :
       <<m, disk.sessions[m].truth[i].pid>> \in reported
  /\ \A pid \in DOMAIN pids : <<pids[pid], pid>> \in reported
  /\ req[SensorSlot].stage = "truth" =>
       \A i \in DOMAIN req[SensorSlot].todo :
         <<req[SensorSlot].todo[i].marker, req[SensorSlot].todo[i].pid>> \in reported
  /\ \A h \in Requests \ {SensorSlot} : req[h].stage = "truth" =>
       \A i \in DOMAIN req[h].todo : ~FromKernel(req[h].todo[i])

\* The rest of a list of events.
LEMMA RestOfEvents ==
  ASSUME NEW events \in Seq(Truths), events # <<>>, NEW i \in DOMAIN Tail(events)
  PROVE  \E j \in DOMAIN events : Tail(events)[i] = events[j]
<1>1. i + 1 \in DOMAIN events /\ Tail(events)[i] = events[i + 1]
  OBVIOUS
<1>2. QED
  BY <1>1

\* What memory holds after a step of the server.
LEMMA TruthAttributed ==
  ASSUME Base, Attributed, ServerTurns, Remember,
         NEW m \in Markers, NEW i \in DOMAIN mem'.sessions[m].truth
  PROVE  <<m, mem'.sessions[m].truth[i].pid>> \in reported'
<1> DEFINE e == mem'.sessions[m].truth[i]
<1>1. PICK h \in Requests : TruthTurns(h, m)
  BY DEF ServerTurns
<1>2. mem.sessions[m].truth \in Seq(Truths) /\ Staged(req[h])
  BY SessionsOfState DEF Base, ServerInv, StoreTypeOK, Session, Good
<1>3. reported \subseteq reported'
  BY DEF Remember
<1>4. CASE ~FromKernel(e)
  <2>1. e \in {f \in ToSet(mem'.sessions[m].truth) : ~FromKernel(f)}
    BY <1>4 DEF ToSet
  <2>2. <<m, e.pid>> \in PidsReported(mem')
    BY <2>1 DEF PidsReported
  <2>3. QED
    BY <2>2 DEF Remember
<1>5. CASE mem'.sessions[m].truth \in {mem.sessions[m].truth, disk.sessions[m].truth}
  BY <1>3, <1>5 DEF Attributed
<1>6. CASE /\ FromKernel(e) /\ req[h].stage = "truth" /\ Head(req[h].todo).marker = m
           /\ mem'.sessions[m].truth = Append(mem.sessions[m].truth, Head(req[h].todo))
  <2>1. req[h].todo \in Seq(Truths) /\ req[h].todo # <<>>
    BY <1>2, <1>6 DEF Staged
  <2>2. 1 \in DOMAIN req[h].todo /\ Head(req[h].todo) = req[h].todo[1]
    BY <2>1
  <2>3. CASE i \in DOMAIN mem.sessions[m].truth
    <3>1. e = mem.sessions[m].truth[i]
      BY <1>2, <1>6, <2>3
    <3>2. QED
      BY <1>3, <2>3, <3>1 DEF Attributed
  <2>4. CASE i \notin DOMAIN mem.sessions[m].truth
    <3>1. e = req[h].todo[1]
      BY <1>2, <1>6, <2>1, <2>2, <2>4
    <3>2. h = SensorSlot
      BY <1>6, <2>2, <3>1 DEF Attributed
    <3>3. QED
      BY <1>3, <1>6, <2>2, <3>1, <3>2 DEF Attributed
  <2>5. QED
    BY <2>3, <2>4
<1>7. QED
  BY <1>1, <1>4, <1>5, <1>6 DEF TruthTurns

LEMMA AttributedServer ==
  ASSUME Base, Attributed, ServerStep, Apart
  PROVE  Attributed'
<1>1. ServerTurns /\ [WorldNext]_worldVars /\ ServerInv /\ Kinds /\ req \in [Requests -> Request]
  BY ServerStepTurns DEF Base, ServerInv, WorldNext
<1>0. reported \subseteq reported' /\ Remember
  BY DEF Apart, Remember
<1>2. \A pid \in DOMAIN pids' : <<pids'[pid], pid>> \in reported'
  BY <1>0 DEF Attributed, Apart
<1>3. ASSUME req'[SensorSlot].stage = "truth", NEW i \in DOMAIN req'[SensorSlot].todo
      PROVE  <<req'[SensorSlot].todo[i].marker, req'[SensorSlot].todo[i].pid>> \in reported'
  <2> DEFINE e == req'[SensorSlot].todo[i]
  <2>1. SensorSlot \in Requests \ Others
    BY SlotsAreRequests
  <2>2. Rests(SensorSlot) \/ Took(SensorSlot)
    BY <1>1, <2>1, ServerTurnsSlots, PostTurns
  <2>3. /\ req[SensorSlot].stage = "truth"
        /\ \/ req'[SensorSlot].todo = req[SensorSlot].todo
           \/ req'[SensorSlot].todo = Tail(req[SensorSlot].todo)
    BY <1>1, <1>3, <2>1, <2>2, RestsForm, TookForm DEF Took
  <2>4. req[SensorSlot].todo \in Seq(Truths) /\ req[SensorSlot].todo # <<>>
    BY <1>1, <2>1, <2>3 DEF ServerInv, Good, Staged
  <2> DEFINE todo == req[SensorSlot].todo
  <2>5. \E j \in DOMAIN todo : e = todo[j]
    <3>1. CASE req'[SensorSlot].todo = todo
      BY <1>3, <3>1
    <3>2. CASE req'[SensorSlot].todo = Tail(todo)
      <4>1. i \in DOMAIN Tail(todo) /\ e = Tail(todo)[i]
        BY <1>3, <3>2
      <4>2. QED
        BY <2>4, <4>1, RestOfEvents
    <3>3. QED
      BY <2>3, <3>1, <3>2
  <2>6. PICK j \in DOMAIN todo : e = todo[j]
    BY <2>5
  <2>7. QED
    BY <1>0, <1>3, <2>3, <2>6 DEF Attributed
<1>4. ASSUME NEW h \in Requests \ {SensorSlot}, req'[h].stage = "truth",
             NEW i \in DOMAIN req'[h].todo
      PROVE  ~FromKernel(req'[h].todo[i])
  <2>1. \A events \in ProbeResults \cup TruthBatches : \A j \in DOMAIN events :
          ~FromKernel(events[j])
    BY SensorAssumption
  <2>2. CASE Rests(h)
    BY <1>1, <1>4, <2>2, RestsForm DEF Attributed
  <2>3. CASE Took(h)
    <3>1. /\ req[h].stage = "truth" /\ req'[h].todo = Tail(req[h].todo)
          /\ req[h].todo \in Seq(Truths) /\ req[h].todo # <<>>
      BY <1>1, <2>3, TookForm DEF Took
    <3>2. PICK j \in DOMAIN req[h].todo : req'[h].todo[i] = req[h].todo[j]
      BY <1>4, <3>1, RestOfEvents
    <3>3. QED
      BY <3>1, <3>2 DEF Attributed
  <2>4. CASE Probed(h)
    BY <1>1, <1>4, <2>1, <2>4, ProbedForm
  <2>5. CASE (\E m \in Markers : Made(h, m)) \/ Went(h)
    BY <1>1, <1>4, <2>5, MadeForm DEF Went
  <2>6. CASE Opened(h) /\ Batched(h)
    BY <1>4, <2>1, <2>6 DEF Batched
  <2>7. QED
    BY <1>1, <2>2, <2>3, <2>4, <2>5, <2>6 DEF ServerTurns, Handled
<1>5. \A m \in Markers : \A i \in DOMAIN mem'.sessions[m].truth :
        <<m, mem'.sessions[m].truth[i].pid>> \in reported'
  BY <1>0, <1>1, TruthAttributed
<1>6. \A m \in Markers : \A i \in DOMAIN disk'.sessions[m].truth :
        <<m, disk'.sessions[m].truth[i].pid>> \in reported'
  <2>1. disk' = disk \/ disk' = mem'
    BY <1>1, StepForm, WorldIsAnyStep, AnyStepShape DEF StepShape, Base
  <2>2. QED
    BY <1>0, <1>5, <2>1 DEF Attributed
<1>7. QED
  BY <1>2, <1>3, <1>4, <1>5, <1>6 DEF Attributed

LEMMA EventsNotKernel ==
  ASSUME Base, NEW c \in Canaries, PostTruth(c), NEW i \in DOMAIN EventsOf(c)
  PROVE  ~FromKernel(EventsOf(c)[i])
<1>1. canary[c].marker \in Markers /\ Len(probe[c].done) = Len(Actions) /\ Typed
  BY PostedEvents DEF Base
<1>2. /\ EventsOf(c) \in Seq(Truths) /\ Len(EventsOf(c)) = Len(Actions)
      /\ \A j \in 1..Len(Actions) : EventsOf(c)[j].id = <<canary[c].marker, Actions[j]>>
  BY <1>1, EventsForm
<1>3. EventsOf(c)[i].id = <<canary[c].marker, Actions[i]>>
  BY <1>2
<1>4. QED
  BY <1>3 DEF FromKernel

LEMMA AttributedCanary ==
  ASSUME Base, Attributed, NEW c \in Canaries,
         CanaryStep(c) \/ GivesUp(c) \/ \E spec \in Specs : Launch(c, spec),
         UNCHANGED sensorVars
  PROVE  Attributed'
<1>1. mem' = mem /\ disk' = disk /\ pids' = pids /\ reported' = reported /\ Alone(c)
  BY CanaryKeepsRequests DEF Alone, sensorVars
<1>2. req'[SensorSlot] = req[SensorSlot]
  BY <1>1, SlotsAreRequests DEF Alone
<1>3. ASSUME NEW h \in Requests \ {SensorSlot}, req'[h].stage = "truth",
             NEW i \in DOMAIN req'[h].todo
      PROVE  ~FromKernel(req'[h].todo[i])
  <2>1. CASE req'[h] = req[h]
    BY <1>3, <2>1 DEF Attributed
  <2>2. CASE req'[h] # req[h]
    <3>1. h \in {Sess(c), Post(c), Ask(c)}
      BY <1>1, <2>2 DEF Alone
    <3>2. CASE PostTruth(c)
      BY <1>3, <2>2, <3>1, <3>2, PostTruthForm, EventsNotKernel
    <3>3. CASE \E spec \in Specs : Launch(c, spec)
      BY <1>3, <2>2, <3>1, <3>3, LaunchForm
    <3>4. CASE AskForRun(c)
      BY <1>3, <2>2, <3>1, <3>4, AskForRunForm
    <3>5. CASE \/ Allocated(c) \/ Acts(c) \/ Waits(c) \/ Concludes(c) \/ Refused(c) \/ GivesUp(c)
      BY <2>2, <3>5 DEF Allocated, Acts, Waits, Concludes, Refused, GivesUp
    <3>6. QED
      BY <3>2, <3>3, <3>4, <3>5 DEF CanaryStep
  <2>3. QED
    BY <2>1, <2>2
<1>4. QED
  BY <1>1, <1>2, <1>3 DEF Attributed

\* A pid that the map knows was reported, however the map came about.
LEMMA MapsAttributed ==
  ASSUME Typed, Attributed, NEW map \in Maps, NEW pid \in DOMAIN map
  PROVE  <<map[pid], pid>> \in reported
<1> DEFINE told == {q \in {OwnPid[p] : p \in Processes} : \E m \in Markers : Reports(m, q)}
<1>1. CASE map = pids
  BY <1>1 DEF Attributed
<1>2. CASE map = NoPids
  BY <1>2 DEF NoPids
<1>3. CASE map \in {f \in [told -> Markers] : \A q \in told : Reports(f[q], q)}
  <2>1. Reports(map[pid], pid) /\ map[pid] \in Markers
    BY <1>3
  <2>2. PICK e \in ToSet(mem.sessions[map[pid]].truth) : e.pid = pid
    BY <2>1 DEF Reports
  <2>3. PICK i \in DOMAIN mem.sessions[map[pid]].truth : e = mem.sessions[map[pid]].truth[i]
    BY <2>2 DEF ToSet
  <2>4. QED
    BY <2>1, <2>2, <2>3 DEF Attributed
<1>4. QED
  BY <1>1, <1>2, <1>3 DEF Maps

LEMMA AttributedSensor ==
  ASSUME Base, Attributed,
         \/ \E p \in Processes, d \in KernelDimensions : KernelSees(p, d)
         \/ Reads \/ Posted \/ SensorEnds \/ Restarts \/ UNCHANGED worldVars
  PROVE  Attributed'
<1>1. /\ mem' = mem /\ disk' = disk /\ reported' = reported
      /\ \A g \in Requests \ {SensorSlot} : req'[g] = req[g]
      /\ Reads \/ pids' = pids \/ pids' = NoPids
  BY SensorForm
<1>2. ASSUME NEW pid \in DOMAIN pids'
      PROVE  <<pids'[pid], pid>> \in reported
  <2>1. CASE Reads
    BY <1>2, <2>1, ReadsForm, MapsAttributed DEF Base
  <2>2. CASE pids' = pids
    BY <1>2, <2>2 DEF Attributed
  <2>3. CASE pids' = NoPids
    BY <1>2, <2>3 DEF NoPids
  <2>4. QED
    BY <1>1, <2>1, <2>2, <2>3
<1>3. ASSUME req'[SensorSlot].stage = "truth", NEW i \in DOMAIN req'[SensorSlot].todo
      PROVE  <<req'[SensorSlot].todo[i].marker, req'[SensorSlot].todo[i].pid>> \in reported
  <2>1. CASE req'[SensorSlot] = req[SensorSlot]
    BY <1>3, <2>1 DEF Attributed
  <2>2. CASE Reads /\ req'[SensorSlot] # req[SensorSlot]
    <3>1. PICK m \in Resolve(pids', Head(ring).pid) :
            req'[SensorSlot].todo = <<KernelTruth(Head(ring), m)>>
      BY <2>2, ReadsForm
    <3>2. Head(ring).pid \in DOMAIN pids' /\ m = pids'[Head(ring).pid]
      BY <3>1 DEF Resolve
    <3>3. /\ KernelTruth(Head(ring), m).marker = m
          /\ KernelTruth(Head(ring), m).pid = Head(ring).pid
      BY DEF KernelTruth
    <3>4. req'[SensorSlot].todo[i] = KernelTruth(Head(ring), m)
      BY <1>3, <3>1
    <3>5. QED
      BY <1>2, <3>2, <3>3, <3>4
  <2>3. CASE ~Reads
    <3>1. req'[SensorSlot] \in {req[SensorSlot], NewRequest}
      BY <2>3, SlotsAreRequests DEF KernelSees, Posted, SensorEnds, Restarts, Again, worldVars,
        Base, ServerInv
    <3>2. NewRequest.stage = "new"
      BY DEF NewRequest
    <3>3. QED
      BY <1>3, <2>1, <3>1, <3>2
  <2>4. QED
    BY <2>1, <2>2, <2>3
<1>4. QED
  BY <1>1, <1>2, <1>3 DEF Attributed

LEMMA AttributedPreserved ==
  ASSUME Base, Attributed, [WorldNext]_worldVars
  PROVE  Attributed'
BY AttributedServer, AttributedCanary, AttributedSensor DEF WorldNext

LEMMA AttributedInitially == WorldInit => Attributed
<1>1. SUFFICES ASSUME WorldInit PROVE Attributed
  OBVIOUS
<1>2. \A m \in Markers : mem.sessions[m].truth = <<>> /\ disk.sessions[m].truth = <<>>
  BY <1>1 DEF WorldInit, CanaryInit, Init, StoreInit, InitState, NoSession
<1>3. \A h \in Requests : req[h].stage = "new"
  <2>1. NewRequest.stage = "new"
    BY DEF NewRequest
  <2>2. QED
    BY <1>1, <2>1 DEF WorldInit, CanaryInit, Init
<1>4. DOMAIN <<>> = {} /\ DOMAIN NoPids = {} /\ pids = NoPids
  BY <1>1 DEF NoPids, WorldInit
<1>5. QED
  BY <1>2, <1>3, <1>4, SlotsAreRequests DEF Attributed

\* Kernel truth of a session, in memory or on disk, carries a pid that truth from elsewhere
\* had reported for that very session: however old the sensor's map is and whatever it
\* missed, whichever saves fail, and whichever sessions, canaries, sensor or server ended
\* in between.  (Whose pid it is, is another matter: see the run sensor_pids.)
THEOREM KernelTruthAlwaysReported == WorldSpec => []KernelTruthIsReported
<1>1. Attributed => KernelTruthIsReported
  BY DEF Attributed, KernelTruthIsReported, Both, ToSet
<1>2. Base /\ Attributed /\ [WorldNext]_worldVars => Attributed'
  BY AttributedPreserved
<1>3. WorldInit => Attributed
  BY AttributedInitially
<1>4. QED
  BY <1>1, <1>2, <1>3, WorldInvariant, PTL DEF WorldSpec

----------------------------------------------------------------------------
(* Who owns a session, and what is on its way to it.                       *)

\* The request has created the session of its marker.
Owns(h) == req[h].kind \in {"live", "create"} /\ req[h].marker \in Markers

Owned ==
  /\ \A h \in Requests : Owns(h) => Exists(disk, req[h].marker)
  /\ \A g, h \in Requests : Owns(g) /\ Owns(h) /\ req[g].marker = req[h].marker => g = h

\* An event whose id no canary gives.
Foreign(e) == \A m \in Markers, d \in ToSet(Actions) : e.id # <<m, d>>

\* Truth that carries a canary's ids is posted by the canary whose session it is for:
\* a live run posts for its own session, and others do not know the ids.
Carried ==
  \A h \in Requests : req[h].stage = "truth" =>
    \A i \in DOMAIN req[h].todo :
      /\ req[h].kind = "live" => req[h].todo[i].marker = req[h].marker
      /\ req[h].kind = "truth" /\ h \in Others \cup {SensorSlot} => Foreign(req[h].todo[i])
      /\ \A c \in Canaries : h = Post(c) =>
           req[Sess(c)].stage = "replied" /\ req[h].todo[i].marker = req[Sess(c)].marker

LEMMA NoRunIsNoMarker == NoRun \notin Markers
<1>1. SUFFICES ASSUME NoRun \in Markers PROVE FALSE
  OBVIOUS
<1>2. InitSLO \in SLOs /\ <<>> \in Seq(Truths) /\ <<>> \in Seq(Observations)
  BY StoreAssumption
<1> DEFINE run == LiveRun(NoRun, InitSLO, <<>>, <<>>)
<1>3. run \in Runs
  BY <1>1, <1>2, LiveRunsAreRuns
<1>4. run.id = NoRun
  BY DEF LiveRun
<1>5. QED
  BY <1>3, <1>4, StoreAssumption DEF RunIds

\* A created session is its canary's.
LEMMA SessionIsOwned ==
  ASSUME Base, NEW c \in Canaries, req[Sess(c)].stage = "replied"
  PROVE  Owns(Sess(c)) /\ req[Sess(c)].kind = "create"
<1>1. Sess(c) \in Requests /\ req[Sess(c)].marker \in Markers /\ Marked(c) /\ Fresh /\ Kinds
  BY SlotsAreRequests DEF Base, Marked
<1>2. req[Sess(c)].kind # "none"
  BY <1>1 DEF Fresh
<1>3. QED
  BY <1>1, <1>2 DEF Kinds, Owns

\* A request that owns a session now did so before, or has just created it.
LEMMA OwnsLater ==
  ASSUME Base, NEW h \in Requests, Handled(h) \/ Opened(h),
         req'[h].kind \in {"live", "create"}, req'[h].marker \in Markers
  PROVE  \/ Owns(h) /\ req'[h].marker = req[h].marker
         \/ Made(h, req'[h].marker)
<1>1. ServerInv /\ req \in [Requests -> Request] /\ Fresh
  BY DEF Base, ServerInv
<1>2. CASE Handled(h)
  <2>1. req[h].kind = req'[h].kind
    BY <1>1, <1>2, HandledForm
  <2>2. CASE req'[h].marker = req[h].marker
    BY <2>1, <2>2 DEF Owns
  <2>3. CASE \E m \in Markers : Made(h, m)
    BY <1>1, <2>3, MadeForm
  <2>4. QED
    BY <1>1, <1>2, <2>2, <2>3, HandledForm
<1>3. CASE Opened(h)
  <2>1. req[h].marker = NoRun /\ req'[h].marker = req[h].marker
    BY <1>1, <1>3, NewIsUnmarked DEF Opened
  <2>2. QED
    BY <2>1, NoRunIsNoMarker
<1>4. QED
  BY <1>2, <1>3

LEMMA OwnedServer ==
  ASSUME Base, Owned, ServerTurns, StepShape
  PROVE  Owned'
<1>1. /\ ServerInv /\ req \in [Requests -> Request] /\ mem \in State /\ disk \in State
      /\ \A m \in Markers : Carries(m, disk, mem) /\ Carries(m, disk, disk')
  BY StepCarries DEF Base, ServerInv, StoreTypeOK, Ahead
<1>2. \A h \in Requests : Handled(h) \/ Opened(h)
  BY DEF ServerTurns, Handled
<1>3. ASSUME NEW h \in Requests, NEW m \in Markers, Made(h, m)
      PROVE  Exists(disk', m) /\ ~Exists(disk, m)
  <2>1. ~Exists(mem, m) /\ \E cluster \in Clusters, slo \in SLOs :
          disk' = CreateSession(mem, m, cluster, slo)
    BY <1>3 DEF Made
  <2>2. Exists(disk', m)
    BY <1>1, <2>1, CreateSessionForm DEF Exists
  <2>3. ~Exists(disk, m)
    BY <1>1, <2>1 DEF Carries, Lasts
  <2>4. QED
    BY <2>2, <2>3
<1>4. ASSUME NEW h \in Requests, Owns(h)'
      PROVE  Exists(disk', req'[h].marker)
  <2>1. req'[h].kind \in {"live", "create"} /\ req'[h].marker \in Markers
    BY <1>4 DEF Owns
  <2>2. CASE Made(h, req'[h].marker)
    BY <1>3, <2>1, <2>2
  <2>3. CASE Owns(h) /\ req'[h].marker = req[h].marker
    BY <1>1, <2>1, <2>3 DEF Owned, Carries, Lasts
  <2>4. QED
    BY <1>2, <2>1, <2>2, <2>3, OwnsLater
<1>5. ASSUME NEW g \in Requests, NEW h \in Requests, Owns(g)', Owns(h)',
             req'[g].marker = req'[h].marker, g # h
      PROVE  FALSE
  <2>1. /\ req'[g].kind \in {"live", "create"} /\ req'[g].marker \in Markers
        /\ req'[h].kind \in {"live", "create"} /\ req'[h].marker \in Markers
    BY <1>5 DEF Owns
  <2>2. /\ (Owns(g) /\ req'[g].marker = req[g].marker) \/ Made(g, req'[g].marker)
        /\ (Owns(h) /\ req'[h].marker = req[h].marker) \/ Made(h, req'[h].marker)
    BY <1>2, <2>1, OwnsLater
  <2>3. ASSUME NEW f \in Requests, Rests(f), NEW m \in Markers, Made(f, m)
        PROVE  FALSE
    <3>1. req[f].stage = "create" /\ req'[f].stage \in {"probe", "replied"}
      BY <1>1, <2>3, MadeForm DEF Made
    <3>2. \/ req'[f].stage = req[f].stage
          \/ req'[f].stage \in {"error", "cancelled", "killed", "stuck"}
      BY <1>1, <2>3, RestsForm
    <3>3. QED
      BY <3>1, <3>2
  <2>4. Rests(g) \/ Rests(h)
    BY <1>5 DEF ServerTurns
  <2>5. QED
    BY <1>3, <1>5, <2>1, <2>2, <2>3, <2>4 DEF Owned
<1>6. QED
  BY <1>4, <1>5 DEF Owned

LEMMA CarriedServer ==
  ASSUME Base, Carried, ServerTurns
  PROVE  Carried'
<1>1. ServerInv /\ Kinds /\ Fresh /\ req \in [Requests -> Request]
  BY DEF Base, ServerInv
<1>2. SUFFICES ASSUME NEW h \in Requests, req'[h].stage = "truth", NEW i \in DOMAIN req'[h].todo
               PROVE  LET e == req'[h].todo[i]
                      IN  /\ req'[h].kind = "live" => e.marker = req'[h].marker
                          /\ req'[h].kind = "truth" /\ h \in Others \cup {SensorSlot} => Foreign(e)
                          /\ \A c \in Canaries : h = Post(c) =>
                               /\ req'[Sess(c)].stage = "replied"
                               /\ e.marker = req'[Sess(c)].marker
  BY DEF Carried
<1> DEFINE e == req'[h].todo[i]
<1>3. \A c \in Canaries : req[Sess(c)].stage = "replied" => req'[Sess(c)] = req[Sess(c)]
  <2>1. ASSUME NEW c \in Canaries
        PROVE  Handled(Sess(c)) /\ Sess(c) \in Requests
    BY <1>1, SlotsAreRequests, ServerTurnsSlots
  <2>2. QED
    BY <1>1, <2>1, HandledForm DEF Final
<1>4. ASSUME req[h].stage = "truth", req'[h].kind = req[h].kind, req'[h].marker = req[h].marker,
             NEW j \in DOMAIN req[h].todo, e = req[h].todo[j]
      PROVE  /\ req'[h].kind = "live" => e.marker = req'[h].marker
             /\ req'[h].kind = "truth" /\ h \in Others \cup {SensorSlot} => Foreign(e)
             /\ \A c \in Canaries : h = Post(c) =>
                  req'[Sess(c)].stage = "replied" /\ e.marker = req'[Sess(c)].marker
  <2> HIDE DEF e
  <2>1. QED
    BY <1>3, <1>4 DEF Carried
<1>5. CASE Rests(h)
  BY <1>1, <1>2, <1>4, <1>5, RestsForm
<1>6. CASE Took(h)
  <2>1. /\ req[h].stage = "truth" /\ req'[h].todo = Tail(req[h].todo)
        /\ req[h].todo \in Seq(Truths) /\ req[h].todo # <<>>
        /\ req'[h].kind = req[h].kind /\ req'[h].marker = req[h].marker
    BY <1>1, <1>6, TookForm DEF Took
  <2>2. PICK j \in DOMAIN req[h].todo : e = req[h].todo[j]
    BY <1>2, <2>1, RestOfEvents
  <2> HIDE DEF e
  <2>3. QED
    BY <1>4, <2>1, <2>2 DEF e
<1>7. CASE Probed(h)
  <2>1. req'[h].kind = "live" /\ e.marker = req'[h].marker
    BY <1>1, <1>2, <1>7, ProbedForm
  <2>2. \A c \in Canaries : h # Post(c)
    BY <1>1, <1>7 DEF Probed, Kinds
  <2>3. QED
    BY <2>1, <2>2
<1>8. CASE (\E m \in Markers : Made(h, m)) \/ Went(h)
  BY <1>1, <1>2, <1>8, MadeForm DEF Went
<1>9. CASE h \in Others /\ Opened(h) /\ Batched(h)
  <2>1. req'[h].kind = "truth" /\ req'[h].todo \in TruthBatches
    BY <1>2, <1>9 DEF Opened, Batched
  <2>2. Foreign(e)
    BY <1>2, <2>1, CanaryAssumption DEF Foreign
  <2>3. \A c \in Canaries : h # Post(c)
    BY <1>9, SlotsAreRequests
  <2>4. QED
    BY <2>1, <2>2, <2>3
<1>10. QED
  BY <1>5, <1>6, <1>7, <1>8, <1>9 DEF ServerTurns, Handled

\* A request that begins owns nothing yet.
LEMMA OwnedQuiet ==
  ASSUME Base, Owned, disk' = disk,
         \A h \in Requests : req'[h] = req[h] \/ req'[h] = NewRequest \/ Opened(h)
  PROVE  Owned'
<1>1. NewRequest.kind = "none" /\ Fresh
  BY DEF NewRequest, Base
<1>2. ASSUME NEW h \in Requests, Owns(h)'
      PROVE  req'[h] = req[h]
  <2>1. req'[h].kind \in {"live", "create"} /\ req'[h].marker \in Markers
    BY <1>2 DEF Owns
  <2>2. CASE Opened(h)
    <3>1. req[h].stage = "new" /\ req'[h].marker = req[h].marker
      BY <2>1, <2>2 DEF Opened
    <3>2. QED
      BY <1>1, <2>1, <3>1, NewIsUnmarked, NoRunIsNoMarker
  <2>3. CASE req'[h] = NewRequest
    BY <1>1, <2>1, <2>3
  <2>4. QED
    BY <2>2, <2>3
<1>3. \A h \in Requests : Owns(h)' => Owns(h) /\ req'[h] = req[h]
  BY <1>2 DEF Owns
<1>4. QED
  BY <1>3 DEF Owned

\* Of a step of the server, only what a canary posts brings an id of its own to its
\* session.
LEMMA ForeignTurn ==
  ASSUME Base, Owned, Carried, ServerTurns, NEW c \in Canaries,
         req[Sess(c)].stage = "replied", NEW d \in ToSet(Actions),
         HasId(mem'.sessions[req[Sess(c)].marker].truth, <<req[Sess(c)].marker, d>>)
  PROVE  \/ HasId(mem.sessions[req[Sess(c)].marker].truth, <<req[Sess(c)].marker, d>>)
         \/ /\ req[Post(c)].stage = "truth" /\ (Took(Post(c)) \/ Drops(Post(c)))
            /\ Head(req[Post(c)].todo).id = <<req[Sess(c)].marker, d>>
<1> DEFINE m == req[Sess(c)].marker
<1>1. /\ Owns(Sess(c)) /\ req[Sess(c)].kind = "create" /\ m \in Markers
      /\ ServerInv /\ Kinds /\ mem \in State /\ disk \in State /\ Sess(c) \in Requests
      /\ AbsentEmpty(disk) /\ Carries(m, disk, mem)
  BY SessionIsOwned, SlotsAreRequests
     DEF Owns, Base, ServerInv, StoreTypeOK, Fine, Ahead
<1>2. PICK h \in Requests : TruthTurns(h, m)
  BY <1>1 DEF ServerTurns
<1>3. PICK i \in DOMAIN mem'.sessions[m].truth : mem'.sessions[m].truth[i].id = <<m, d>>
  BY DEF HasId
<1>4. CASE mem'.sessions[m].truth = mem.sessions[m].truth
  BY <1>4
<1>5. CASE mem'.sessions[m].truth = disk.sessions[m].truth
  <2> HIDE DEF m
  <2>0. i \in DOMAIN disk.sessions[m].truth
    BY <1>3, <1>5
  <2>1. /\ i \in DOMAIN mem.sessions[m].truth
        /\ mem.sessions[m].truth[i] = disk.sessions[m].truth[i]
    BY <1>1, <2>0, EventsLast
  <2>2. QED
    BY <1>3, <1>5, <2>1 DEF HasId, m
<1>6. CASE /\ req[h].stage = "truth" /\ Head(req[h].todo).marker = m /\ (Took(h) \/ Drops(h))
           /\ mem'.sessions[m].truth = Append(mem.sessions[m].truth, Head(req[h].todo))
  <2> DEFINE e == Head(req[h].todo)
             truth == mem.sessions[m].truth
  <2>1. truth \in Seq(Truths) /\ Staged(req[h])
    BY <1>1, SessionsOfState DEF Session, ServerInv, Good
  <2> HIDE DEF m
  <2>2. /\ req[h].todo \in Seq(Truths) /\ req[h].todo # <<>>
        /\ req[h].kind = "truth" \/ (req[h].kind = "live" /\ req[h].marker \in Markers)
    BY <1>6, <2>1 DEF Staged
  <2>3. 1 \in DOMAIN req[h].todo /\ e = req[h].todo[1]
    BY <2>2
  <2>4. CASE i \in DOMAIN truth
    <3>1. truth[i] = mem'.sessions[m].truth[i]
      <4>1. Append(truth, e)[i] = truth[i]
        BY <2>1, <2>4
      <4>2. QED
        BY <1>6, <4>1
    <3>2. QED
      BY <1>3, <2>4, <3>1 DEF HasId, m
  <2>5. CASE i \notin DOMAIN truth
    <3>1. e.id = <<m, d>> /\ e.marker = m
      <4>1. i \in DOMAIN Append(truth, e)
        BY <1>3, <1>6
      <4>2. Append(truth, e)[i] = e
        BY <2>1, <2>5, <4>1
      <4>3. QED
        BY <1>3, <1>6, <4>2
    <3>2. ~Foreign(e)
      BY <1>1, <3>1 DEF Foreign
    <3>3. /\ req[h].kind = "live" => e.marker = req[h].marker
          /\ req[h].kind = "truth" /\ h \in Others \cup {SensorSlot} => Foreign(e)
          /\ \A b \in Canaries : h = Post(b) =>
               req[Sess(b)].stage = "replied" /\ e.marker = req[Sess(b)].marker
      <4>1. req[h].stage = "truth"
        BY <1>6
      <4> HIDE DEF e
      <4>2. QED
        BY <2>3, <4>1 DEF Carried
    <3>4. req[h].kind # "live"
      <4>1. ASSUME req[h].kind = "live"
            PROVE  Owns(h) /\ req[h].marker = m
        BY <1>1, <3>1, <3>3, <4>1 DEF Owns
      <4>2. QED
        BY <1>1, <4>1 DEF Owned, m
    <3>5. PICK b \in Canaries : h \in {Sess(b), Post(b), Ask(b)}
      BY <2>2, <3>2, <3>3, <3>4, SlotsAreRequests
    <3>6. h = Post(b)
      BY <1>1, <2>2, <3>4, <3>5 DEF Kinds
    <3>7. Owns(Sess(b)) /\ req[Sess(b)].marker = m /\ Sess(b) \in Requests
      BY <3>1, <3>3, <3>6, SessionIsOwned, SlotsAreRequests
    <3>8. b = c
      BY <1>1, <3>7, SlotsAreRequests DEF Owned, m
    <3>9. QED
      BY <1>6, <3>1, <3>6, <3>8 DEF m
  <2>6. QED
    BY <2>4, <2>5
<1>7. QED
  BY <1>2, <1>4, <1>5, <1>6 DEF TruthTurns

----------------------------------------------------------------------------
(* What a canary and its requests know of each other.                      *)

Told(file, m, e) == \E i \in DOMAIN file.sessions[m].truth : file.sessions[m].truth[i] = e

Untold(st, m, id) == ~HasId(st.sessions[m].truth, id)

\* A post of events to the session of m has put those before the k-th on disk, and those
\* from the k-th on are not even in memory.
Delivered(r, events, m, st, file) ==
  \E k \in 1..Len(events) + 1 :
    /\ r.stage = IF k <= Len(events) THEN "truth" ELSE "replied"
    /\ k <= Len(events) => r.todo = SubSeq(events, k, Len(events))
    /\ \A i \in 1..k - 1 : Told(file, m, events[i])
    /\ \A i \in k..Len(events) : Untold(st, m, events[i].id)

\* How far a canary's requests are at each stage of it.
Lined(c) ==
  /\ canary[c].stage \in {"new", "session", "probe"} => req[Post(c)].stage = "new"
  /\ canary[c].stage = "session" =>
       req[Sess(c)].stage = "error" \/ req[Sess(c)].slo = canary[c].slo
  /\ canary[c].stage \in {"probe"} \cup After =>
       /\ req[Sess(c)].stage = "replied"
       /\ canary[c].marker = req[Sess(c)].marker /\ canary[c].slo = req[Sess(c)].slo
  /\ canary[c].stage \in After => Len(probe[c].done) = Len(Actions)
  /\ canary[c].stage \in {"wait", "correlate", "passed"} => req[Post(c)].stage = "replied"
  /\ canary[c].stage \in {"correlate", "passed"} =>
       req[Ask(c)].kind = "correlate" /\ req[Ask(c)].marker = canary[c].marker
  /\ canary[c].stage = "passed" =>
       req[Ask(c)].stage = "replied" /\ RunOf(c).status = "passing"

\* The session stays under the objective it was created with.
SessionKept(c) ==
  req[Sess(c)].stage = "replied" =>
    disk.sessions[req[Sess(c)].marker].slo = req[Sess(c)].slo

\* What the canary is going to post, nobody has posted before.
Unposted(c) ==
  canary[c].stage \in {"session", "probe"} /\ req[Sess(c)].stage = "replied" =>
    \A d \in ToSet(Actions) : Untold(mem, req[Sess(c)].marker, <<req[Sess(c)].marker, d>>)

Delivering(c) ==
  canary[c].stage \in After /\ req[Post(c)].stage \in {"truth", "replied"} =>
    Delivered(req[Post(c)], EventsOf(c), canary[c].marker, mem, disk)

Sound(c) == Lined(c) /\ SessionKept(c) /\ Unposted(c) /\ Delivering(c)

Honest == Base /\ Owned /\ Carried /\ \A c \in Canaries : Sound(c)

\* Steps that are not the canary's, of its requests or of the store leave it alone.
LEMMA SoundElsewhere ==
  ASSUME NEW c \in Canaries, Sound(c), UNCHANGED <<mem, disk>>,
         canary'[c] = canary[c], probe'[c] = probe[c],
         \A h \in {Sess(c), Post(c), Ask(c)} : req'[h] = req[h]
  PROVE  Sound(c)'
<1>1. EventsOf(c)' = EventsOf(c) /\ RunOf(c)' = RunOf(c)
  BY DEF EventsOf, RunOf, Ask
<1>2. Lined(c)'
  BY <1>1 DEF Sound, Lined
<1>3. SessionKept(c)' /\ Unposted(c)'
  BY DEF Sound, SessionKept, Unposted
<1>4. Delivering(c)'
  BY <1>1 DEF Sound, Delivering
<1>5. QED
  BY <1>2, <1>3, <1>4 DEF Sound

LEMMA LinedServer ==
  ASSUME Base, ServerTurns, NEW c \in Canaries, Lined(c),
         UNCHANGED <<canary, probe>>
  PROVE  Lined(c)'
<1>1. /\ ServerInv /\ Kinds /\ req \in [Requests -> Request]
      /\ {Sess(c), Post(c), Ask(c)} \subseteq Requests \ Others
  BY SlotsAreRequests DEF Base, ServerInv
<1>2. /\ Handled(Sess(c)) /\ Handled(Post(c)) /\ Handled(Ask(c))
  BY <1>1, ServerTurnsSlots
<1>3. \A h \in {Sess(c), Post(c), Ask(c)} :
        req[h].stage \in {"new", "error", "replied"} => req'[h] = req[h]
  BY <1>1, <1>2, HandledForm DEF Final
<1>4. req'[Sess(c)].slo = req[Sess(c)].slo
  BY <1>1, <1>2, SessTurns, RestsForm, MadeForm
<1>5. req'[Ask(c)].kind = req[Ask(c)].kind /\ req'[Ask(c)].marker = req[Ask(c)].marker
  BY <1>1, <1>2, AskTurns, RestsForm DEF Went
<1>6. req'[Ask(c)] = req[Ask(c)] => RunOf(c)' = RunOf(c)
  BY DEF RunOf, Ask
<1>7. QED
  BY <1>3, <1>4, <1>5, <1>6 DEF Lined

\* The session of the request has just been created.
LEMMA CreatedForm ==
  ASSUME Base, ServerTurns, NEW h \in Requests, NEW m \in Markers, Made(h, m)
  PROVE  /\ disk'.sessions[m].slo = req[h].slo
         /\ mem'.sessions[m].truth = <<>>
<1>1. /\ ServerInv /\ mem \in State /\ disk \in State /\ AbsentEmpty(mem) /\ AbsentEmpty(disk)
      /\ Carries(m, disk, mem) /\ req \in [Requests -> Request]
  BY DEF Base, ServerInv, StoreTypeOK, Fine, Ahead
<1>2. /\ ~Exists(mem, m) /\ req[h].slo \in SLOs /\ req[h].cluster \in Clusters
      /\ disk' = CreateSession(mem, m, req[h].cluster, req[h].slo) /\ req[h].stage = "create"
  BY DEF Made
<1>3. disk'.sessions[m].slo = req[h].slo
  BY <1>1, <1>2, CreateSessionForm
<1>4. mem.sessions[m].truth = <<>> /\ disk.sessions[m].truth = <<>>
  BY <1>1, <1>2 DEF AbsentEmpty, Carries, Lasts
<1>5. PICK g \in Requests : (\A f \in Requests \ {g} : Rests(f)) /\ TruthTurns(g, m)
  BY DEF ServerTurns
<1>6. ~Rests(h)
  <2>1. req'[h].stage \in {"probe", "replied"}
    BY <1>1, MadeForm
  <2>2. QED
    BY <1>1, <1>2, <2>1, RestsForm
<1>7. g = h
  BY <1>5, <1>6
<1>8. QED
  BY <1>2, <1>3, <1>4, <1>5, <1>7 DEF TruthTurns

LEMMA SessionKeptServer ==
  ASSUME Base, StepShape, ServerTurns, NEW c \in Canaries, SessionKept(c), Owned
  PROVE  SessionKept(c)'
<1>1. /\ ServerInv /\ Kinds /\ req \in [Requests -> Request] /\ Sess(c) \in Requests \ Others
  BY SlotsAreRequests DEF Base, ServerInv
<1>2. Rests(Sess(c)) \/ \E m \in Markers : Made(Sess(c), m)
  BY <1>1, ServerTurnsSlots, SessTurns
<1>3. CASE Rests(Sess(c))
  <2>1. SUFFICES ASSUME req'[Sess(c)].stage = "replied"
                 PROVE  disk'.sessions[req'[Sess(c)].marker].slo = req'[Sess(c)].slo
    BY DEF SessionKept
  <2>2. /\ req[Sess(c)].stage = "replied" /\ req'[Sess(c)].marker = req[Sess(c)].marker
        /\ req'[Sess(c)].slo = req[Sess(c)].slo
    BY <1>1, <1>3, <2>1, RestsForm
  <2> DEFINE m == req[Sess(c)].marker
  <2>3. m \in Markers /\ Exists(disk, m)
    BY <1>1, <2>2, SessionIsOwned DEF Owned, Owns
  <2>4. disk'.sessions[m].slo = disk.sessions[m].slo
    BY <1>1, <2>3, StepCarries DEF Carries, Lasts
  <2>5. QED
    BY <2>2, <2>4 DEF SessionKept
<1>4. CASE \E m \in Markers : Made(Sess(c), m)
  <2>1. PICK m \in Markers : Made(Sess(c), m)
    BY <1>4
  <2>2. req'[Sess(c)].marker = m /\ req'[Sess(c)].slo = req[Sess(c)].slo
    BY <1>1, <2>1, MadeForm
  <2>3. disk'.sessions[m].slo = req[Sess(c)].slo
    BY <1>1, <2>1, CreatedForm
  <2>4. QED
    BY <2>2, <2>3 DEF SessionKept
<1>5. QED
  BY <1>2, <1>3, <1>4

LEMMA UnpostedServer ==
  ASSUME Base, Owned, Carried, ServerTurns, NEW c \in Canaries, Lined(c), Unposted(c),
         UNCHANGED canary
  PROVE  Unposted(c)'
<1>1. /\ ServerInv /\ Kinds /\ req \in [Requests -> Request] /\ Sess(c) \in Requests \ Others
  BY SlotsAreRequests DEF Base, ServerInv
<1>2. Rests(Sess(c)) \/ \E m \in Markers : Made(Sess(c), m)
  BY <1>1, ServerTurnsSlots, SessTurns
<1>3. SUFFICES ASSUME canary[c].stage \in {"session", "probe"}, req'[Sess(c)].stage = "replied",
                      NEW d \in ToSet(Actions)
               PROVE  Untold(mem', req'[Sess(c)].marker, <<req'[Sess(c)].marker, d>>)
  BY DEF Unposted
<1>4. CASE Rests(Sess(c))
  <2>1. req[Sess(c)].stage = "replied" /\ req'[Sess(c)].marker = req[Sess(c)].marker
    BY <1>1, <1>3, <1>4, RestsForm
  <2>2. req[Post(c)].stage = "new"
    BY <1>3 DEF Lined
  <2>3. Untold(mem, req[Sess(c)].marker, <<req[Sess(c)].marker, d>>)
    BY <1>3, <2>1 DEF Unposted
  <2>4. ~HasId(mem'.sessions[req[Sess(c)].marker].truth, <<req[Sess(c)].marker, d>>)
    BY <1>3, <2>1, <2>2, <2>3, ForeignTurn DEF Untold
  <2>5. QED
    BY <2>1, <2>4 DEF Untold
<1>5. CASE \E m \in Markers : Made(Sess(c), m)
  <2>1. PICK m \in Markers : Made(Sess(c), m)
    BY <1>5
  <2>2. req'[Sess(c)].marker = m /\ mem'.sessions[m].truth = <<>>
    BY <1>1, <2>1, MadeForm, CreatedForm
  <2>3. DOMAIN <<>> = {}
    OBVIOUS
  <2>4. QED
    BY <2>2, <2>3 DEF Untold, HasId
<1>6. QED
  BY <1>2, <1>4, <1>5

\* What is on disk stays on disk.
LEMMA ToldLater ==
  ASSUME Base, StepShape, NEW m \in Markers, NEW e, Told(disk, m, e)
  PROVE  Told(disk', m, e)
<1>1. /\ ServerInv /\ ServerInv' /\ disk \in State /\ disk' \in State /\ AbsentEmpty(disk)
  BY StepKeeps DEF Base, ServerInv, StoreTypeOK, Fine
<1>2. Carries(m, disk, disk')
  BY <1>1, StepCarries
<1>3. QED
  BY <1>1, <1>2, EventsLast DEF Told

LEMMA TailIsShorter ==
  ASSUME NEW S, NEW s \in Seq(S), s # <<>>
  PROVE  Tail(s) # s
<1> DEFINE t == Tail(s)
<1>1. Len(t) = Len(s) - 1 /\ Len(s) \in Nat
  BY HeadTailProperties
<1> HIDE DEF t
<1>2. t # s
  BY <1>1
<1>3. QED
  BY <1>2 DEF t

\* An event of the post reaches the disk, and the ids of those that follow are nowhere.
LEMMA DeliveringServer ==
  ASSUME Base, Owned, Carried, StepShape, ServerTurns, NEW c \in Canaries,
         Lined(c), Delivering(c), UNCHANGED <<canary, probe>>
  PROVE  Delivering(c)'
<1> DEFINE m == canary[c].marker
           E == EventsOf(c)
           N == Len(E)
           r == req[Post(c)]
<1>1. /\ ServerInv /\ Kinds /\ req \in [Requests -> Request] /\ Post(c) \in Requests \ Others
      /\ mem \in State /\ disk \in State
  BY SlotsAreRequests DEF Base, ServerInv, StoreTypeOK
<1>2. EventsOf(c)' = E
  BY DEF EventsOf
<1>3. SUFFICES ASSUME canary[c].stage \in After, req'[Post(c)].stage \in {"truth", "replied"}
               PROVE  Delivered(req'[Post(c)], E, m, mem', disk')
  BY <1>2 DEF Delivering
<1>4. /\ req[Sess(c)].stage = "replied" /\ m = req[Sess(c)].marker /\ m \in Markers
      /\ Len(probe[c].done) = Len(Actions)
  BY <1>3 DEF Lined, Base, Marked
<1>5. /\ E \in Seq(Truths) /\ N = Len(Actions) /\ N \in Nat \ {0}
      /\ \A i \in 1..N : E[i].id = <<m, Actions[i]>> /\ E[i].marker = m
  BY <1>4, EventsForm DEF Base
<1>6. /\ \A i \in 1..N : Actions[i] \in ToSet(Actions)
      /\ \A i, j \in 1..N : Actions[i] = Actions[j] => i = j
  <2>1. DOMAIN Actions = 1..N /\ IsInjective(Actions)
    BY <1>5, CanaryAssumption
  <2> HIDE DEF N
  <2>2. \A i \in 1..N : Actions[i] \in ToSet(Actions)
    BY <2>1 DEF ToSet
  <2>3. \A i, j \in 1..N : Actions[i] = Actions[j] => i = j
    BY <2>1 DEF IsInjective
  <2>4. QED
    BY <2>2, <2>3
<1> HIDE DEF E, m
<1>7. Rests(Post(c)) \/ Took(Post(c))
  BY <1>1, ServerTurnsSlots, PostTurns
<1>8. r.stage \in {"truth", "replied"}
  BY <1>1, <1>3, <1>7, RestsForm DEF Took
<1>9. PICK k \in 1..N + 1 :
        /\ r.stage = IF k <= N THEN "truth" ELSE "replied"
        /\ k <= N => r.todo = SubSeq(E, k, N)
        /\ \A i \in 1..k - 1 : Told(disk, m, E[i])
        /\ \A i \in k..N : Untold(mem, m, E[i].id)
  BY <1>3, <1>8 DEF Delivering, Delivered, E, m
<1>10. \A i \in 1..k - 1 : Told(disk', m, E[i])
  BY <1>4, <1>9, ToldLater
<1>11. ASSUME NEW i \in k..N, HasId(mem'.sessions[m].truth, E[i].id)
       PROVE  r.stage = "truth" /\ (Took(Post(c)) \/ Drops(Post(c))) /\ Head(r.todo).id = E[i].id
  <2>0. i \in 1..N
    BY <1>5
  <2>1. i \in 1..N /\ E[i].id = <<m, Actions[i]>> /\ Actions[i] \in ToSet(Actions)
    BY <2>0, <1>5, <1>6
  <2>2. ~HasId(mem.sessions[m].truth, E[i].id)
    BY <1>9 DEF Untold
  <2>3. QED
    BY <1>4, <1>11, <2>1, <2>2, ForeignTurn
<1>12. CASE Rests(Post(c))
  <2>1. req'[Post(c)].stage = r.stage /\ req'[Post(c)].todo = r.todo
    BY <1>1, <1>3, <1>12, RestsForm
  <2>2. ~Took(Post(c))
    <3>1. SUFFICES ASSUME Took(Post(c)) PROVE FALSE
      OBVIOUS
    <3>2. r.todo \in Seq(Truths) /\ r.todo # <<>> /\ Tail(r.todo) = r.todo
      BY <1>1, <2>1, <3>1, TookForm
    <3>3. QED
      BY <3>2, TailIsShorter
  <2>3. ~Drops(Post(c)) \/ r.stage # "truth"
    <3>1. SUFFICES ASSUME Drops(Post(c)), r.stage = "truth" PROVE FALSE
      OBVIOUS
    <3>2. req'[Post(c)].stage \in {"error", "cancelled", "killed", "stuck"}
      BY <1>1, <3>1 DEF Drops, Request
    <3>3. QED
      BY <1>3, <3>2
  <2>4. \A i \in k..N : Untold(mem', m, E[i].id)
    BY <1>11, <2>2, <2>3 DEF Untold
  <2>5. QED
    BY <1>9, <1>10, <2>1, <2>4 DEF Delivered
<1>13. CASE Took(Post(c))
  <2>1. /\ r.stage = "truth" /\ r.kind = "truth"
        /\ req'[Post(c)].todo = Tail(r.todo)
        /\ req'[Post(c)].stage = IF Len(r.todo) > 1 THEN "truth" ELSE "replied"
        /\ KnownTruth(mem, Head(r.todo)) \/ disk' = AddTruth(mem, Head(r.todo))
    <3>1. r.stage = "truth" /\ (KnownTruth(mem, Head(r.todo)) \/ disk' = AddTruth(mem, Head(r.todo)))
      BY <1>13 DEF Took
    <3>2. r.kind # "live"
      BY <1>1 DEF Kinds
    <3>3. QED
      BY <1>1, <1>13, <3>1, <3>2, TookForm
  <2>2. k \in 1..N /\ r.todo = SubSeq(E, k, N)
    BY <1>9, <2>1
  <2>3. /\ Len(r.todo) = N - k + 1 /\ Head(r.todo) = E[k]
        /\ Tail(r.todo) = SubSeq(E, k + 1, N)
    <3>1. k \in 1..N /\ N \in k..N /\ E \in Seq(Truths)
      BY <1>5, <2>2
    <3>2. Len(SubSeq(E, k, N)) = N - k + 1
      BY <3>1
    <3>3. QED
      BY <2>2, <3>1, <3>2, HeadTailOfSubSeq
  <2>4. E[k] \in Truths /\ E[k].marker = m
    BY <1>5, <2>2
  <2>5. disk' = AddTruth(mem, E[k])
    <3>1. ~KnownTruth(mem, E[k])
      BY <1>9, <2>2, <2>4 DEF KnownTruth, Untold
    <3>2. QED
      BY <2>1, <2>3, <3>1
  <2>6. Told(disk', m, E[k])
    <3>1. disk'.sessions[m].truth = Append(mem.sessions[m].truth, E[k])
      <4>1. \A n \in Markers :
              disk'.sessions[n].truth = IF n = E[k].marker THEN Append(mem.sessions[n].truth, E[k])
                                        ELSE mem.sessions[n].truth
        BY <1>1, <2>4, <2>5, AddTruthForm
      <4>2. QED
        BY <1>4, <2>4, <4>1
    <3>2. mem.sessions[m].truth \in Seq(Truths)
      BY <1>1, <1>4, SessionsOfState DEF Session
    <3> DEFINE truth == mem.sessions[m].truth
               e == E[k]
    <3>3. Len(truth) + 1 \in DOMAIN Append(truth, e) /\ Append(truth, e)[Len(truth) + 1] = e
      <4>1. truth \in Seq(Truths) /\ e \in Truths
        BY <2>4, <3>2
      <4> HIDE DEF truth, e
      <4>2. QED
        BY <4>1
    <3>4. QED
      BY <3>1, <3>3 DEF Told
  <2>7. \A i \in 1..k : Told(disk', m, E[i])
    BY <1>10, <2>2, <2>6
  <2>8. \A i \in k + 1..N : Untold(mem', m, E[i].id)
    <3>1. SUFFICES ASSUME NEW i \in k + 1..N, HasId(mem'.sessions[m].truth, E[i].id)
                   PROVE  FALSE
      BY DEF Untold
    <3>2. i \in k..N /\ i \in 1..N /\ i # k
      BY <2>2
    <3>3. E[k].id = E[i].id
      BY <1>11, <2>3, <3>1, <3>2
    <3>4. E[k].id = <<m, Actions[k]>> /\ E[i].id = <<m, Actions[i]>>
      BY <1>5, <2>2, <3>2
    <3>5. Actions[k] = Actions[i]
      <4>1. <<m, Actions[k]>> = <<m, Actions[i]>>
        BY <3>3, <3>4
      <4>2. QED
        BY <4>1
    <3>6. QED
      BY <1>6, <2>2, <3>2, <3>5
  <2>9. /\ k + 1 \in 1..N + 1
        /\ req'[Post(c)].stage = IF k + 1 <= N THEN "truth" ELSE "replied"
        /\ k + 1 <= N => req'[Post(c)].todo = SubSeq(E, k + 1, N)
        /\ 1..(k + 1) - 1 = 1..k
    <3>1. Len(r.todo) > 1 <=> k + 1 <= N
      BY <1>5, <2>2, <2>3
    <3>2. k + 1 \in 1..N + 1 /\ (k + 1) - 1 = k 
      BY <1>5, <2>2
    <3>3. QED
      BY <2>1, <2>3, <3>1, <3>2
  <2>10. QED
    BY <2>7, <2>8, <2>9 DEF Delivered
<1>14. QED
  BY <1>7, <1>12, <1>13

LEMMA SoundServer ==
  ASSUME Honest, ServerStep, Apart
  PROVE  Owned' /\ Carried' /\ \A c \in Canaries : Sound(c)'
<1>1. ServerTurns /\ StepShape
  BY ServerStepTurns, WorldIsAnyStep, AnyStepShape DEF Honest, Base, WorldNext
<1>2. Base /\ Owned /\ Carried /\ \A c \in Canaries : Sound(c)
  BY DEF Honest
<1>3. Owned' /\ Carried'
  BY <1>1, <1>2, OwnedServer, CarriedServer
<1>4. \A c \in Canaries : Sound(c)'
  BY <1>1, <1>2, LinedServer, SessionKeptServer, UnpostedServer, DeliveringServer DEF Sound, Apart
<1>5. QED
  BY <1>3, <1>4

----------------------------------------------------------------------------
(* The steps of a canary keep it honest.                                   *)

\* What a canary sends is a new request, and truth only when it posts what it did.
LEMMA CanarySends ==
  ASSUME Base, NEW c \in Canaries,
         CanaryStep(c) \/ GivesUp(c) \/ \E spec \in Specs : Launch(c, spec)
  PROVE  /\ Alone(c)
         /\ \A h \in Requests :
              \/ req'[h] = req[h]
              \/ Opened(h) /\ (req'[h].stage = "truth" => h = Post(c) /\ PostTruth(c))
<1>1. Alone(c)
  BY CanaryKeepsRequests
<1>2. ASSUME NEW h \in Requests, req'[h] # req[h]
      PROVE  Opened(h) /\ (req'[h].stage = "truth" => h = Post(c) /\ PostTruth(c))
  <2>1. h \in {Sess(c), Post(c), Ask(c)}
    BY <1>1, <1>2 DEF Alone
  <2>2. CASE PostTruth(c)
    BY <1>2, <2>1, <2>2, PostTruthForm
  <2>3. CASE \E spec \in Specs : Launch(c, spec)
    BY <1>2, <2>1, <2>3, LaunchForm
  <2>4. CASE AskForRun(c)
    BY <1>2, <2>1, <2>4, AskForRunForm
  <2>5. CASE \/ Allocated(c) \/ Acts(c) \/ Waits(c) \/ Concludes(c) \/ Refused(c) \/ GivesUp(c)
    BY <1>2, <2>5 DEF Allocated, Acts, Waits, Concludes, Refused, GivesUp
  <2>6. QED
    BY <2>2, <2>3, <2>4, <2>5 DEF CanaryStep
<1>3. QED
  BY <1>1, <1>2

LEMMA CarriedCanary ==
  ASSUME Honest, NEW c \in Canaries,
         CanaryStep(c) \/ GivesUp(c) \/ \E spec \in Specs : Launch(c, spec)
  PROVE  Carried'
<1>1. Base /\ Carried /\ Lined(c) /\ Typed
  BY DEF Honest, Sound, Base
<1>2. \A h \in Requests :
        \/ req'[h] = req[h]
        \/ Opened(h) /\ (req'[h].stage = "truth" => h = Post(c) /\ PostTruth(c))
  BY <1>1, CanarySends
<1>3. \A d \in Canaries : req[Sess(d)].stage = "replied" => req'[Sess(d)] = req[Sess(d)]
  BY <1>2, SlotsAreRequests DEF Opened
<1>4. SUFFICES ASSUME NEW h \in Requests, req'[h].stage = "truth", NEW i \in DOMAIN req'[h].todo
               PROVE  LET e == req'[h].todo[i]
                      IN  /\ req'[h].kind = "live" => e.marker = req'[h].marker
                          /\ req'[h].kind = "truth" /\ h \in Others \cup {SensorSlot} => Foreign(e)
                          /\ \A d \in Canaries : h = Post(d) =>
                               /\ req'[Sess(d)].stage = "replied"
                               /\ e.marker = req'[Sess(d)].marker
  BY DEF Carried
<1>5. CASE req'[h] = req[h]
  BY <1>1, <1>3, <1>4, <1>5 DEF Carried
<1>6. CASE req'[h] # req[h]
  <2>1. h = Post(c) /\ PostTruth(c)
    BY <1>2, <1>4, <1>6
  <2>2. /\ req'[h].kind = "truth" /\ req'[h].todo = EventsOf(c) /\ canary[c].stage = "probe"
        /\ canary[c].marker \in Markers /\ Len(probe[c].done) = Len(Actions)
    BY <1>1, <2>1, PostTruthForm, PostedEvents
  <2>3. req[Sess(c)].stage = "replied" /\ canary[c].marker = req[Sess(c)].marker
    BY <1>1, <2>2 DEF Lined
  <2>4. EventsOf(c)[i].marker = canary[c].marker
    <3>1. /\ EventsOf(c) \in Seq(Truths) /\ Len(EventsOf(c)) = Len(Actions)
          /\ \A j \in 1..Len(Actions) : EventsOf(c)[j].marker = canary[c].marker
      BY <1>1, <2>2, EventsForm
    <3>2. i \in 1..Len(Actions)
      BY <1>4, <2>2, <3>1
    <3>3. QED
      BY <3>1, <3>2
  <2>5. h \notin Others \cup {SensorSlot} /\ \A d \in Canaries : h = Post(d) => d = c
    BY <2>1, SlotsAreRequests
  <2>6. QED
    BY <1>3, <2>2, <2>3, <2>4, <2>5
<1>7. QED
  BY <1>5, <1>6

\* The canary has gone on to a stage in which nothing is left to promise of its events.
LEMMA SoundLaunched ==
  ASSUME Base, NEW c \in Canaries, Sound(c), NEW spec \in Specs, Launch(c, spec)
  PROVE  Sound(c)'
<1>1. /\ UNCHANGED <<mem, disk, probe>> /\ canary[c].stage = "new"
      /\ req'[Post(c)] = req[Post(c)]
      /\ \/ canary'[c].stage = "failed" /\ UNCHANGED req
         \/ /\ canary'[c].stage = "session"
            /\ \/ req'[Sess(c)].stage = "create" /\ req'[Sess(c)].slo = canary'[c].slo
               \/ req'[Sess(c)].stage = "error"
  BY LaunchForm DEF Alone
<1>2. Lined(c)'
  BY <1>1 DEF Sound, Lined, After
<1>3. SessionKept(c)' /\ Unposted(c)'
  BY <1>1 DEF Sound, SessionKept, Unposted
<1>4. Delivering(c)'
  BY <1>1 DEF Delivering, After
<1>5. QED
  BY <1>2, <1>3, <1>4 DEF Sound

LEMMA SoundAllocated ==
  ASSUME Base, NEW c \in Canaries, Sound(c), Allocated(c)
  PROVE  Sound(c)'
<1>1. /\ UNCHANGED <<mem, disk, req>> /\ canary[c].stage = "session"
      /\ req[Sess(c)].stage = "replied"
      /\ canary'[c].stage = "probe" /\ canary'[c].marker = req[Sess(c)].marker
      /\ canary'[c].slo = canary[c].slo
  BY AllocatedForm DEF Alone
<1>2. Lined(c)'
  BY <1>1 DEF Sound, Lined, After
<1>3. SessionKept(c)' /\ Unposted(c)'
  BY <1>1 DEF Sound, SessionKept, Unposted
<1>4. Delivering(c)'
  BY <1>1 DEF Delivering, After
<1>5. QED
  BY <1>2, <1>3, <1>4 DEF Sound

LEMMA SoundActing ==
  ASSUME Base, NEW c \in Canaries, Sound(c), Acts(c)
  PROVE  Sound(c)'
<1>1. UNCHANGED <<mem, disk, req, canary>> /\ canary[c].stage = "probe"
  BY ActsForm DEF Alone
<1>2. Lined(c)'
  BY <1>1 DEF Sound, Lined, After
<1>3. SessionKept(c)' /\ Unposted(c)'
  BY <1>1 DEF Sound, SessionKept, Unposted
<1>4. Delivering(c)'
  BY <1>1 DEF Delivering, After
<1>5. QED
  BY <1>2, <1>3, <1>4 DEF Sound

LEMMA SoundPosting ==
  ASSUME Base, NEW c \in Canaries, Sound(c), PostTruth(c)
  PROVE  Sound(c)'
<1>1. /\ UNCHANGED <<mem, disk, probe>> /\ canary[c].stage = "probe"
      /\ req'[Sess(c)] = req[Sess(c)]
      /\ canary'[c].stage = "truth" /\ canary'[c].marker = canary[c].marker
      /\ canary'[c].slo = canary[c].slo
      /\ req'[Post(c)].stage = "truth" /\ req'[Post(c)].todo = EventsOf(c)
  BY PostTruthForm DEF Alone
<1>2. /\ canary[c].marker \in Markers /\ Len(probe[c].done) = Len(Actions)
  BY PostedEvents
<1>3. /\ req[Sess(c)].stage = "replied"
      /\ canary[c].marker = req[Sess(c)].marker /\ canary[c].slo = req[Sess(c)].slo
      /\ \A d \in ToSet(Actions) : Untold(mem, canary[c].marker, <<canary[c].marker, d>>)
  BY <1>1 DEF Sound, Lined, Unposted
<1>4. Lined(c)'
  BY <1>1, <1>2, <1>3 DEF Lined, After
<1>5. SessionKept(c)' /\ Unposted(c)'
  BY <1>1 DEF Sound, SessionKept, Unposted
<1>6. Delivering(c)'
  <2> DEFINE E == EventsOf(c)
             m == canary[c].marker
  <2>1. EventsOf(c)' = E
    BY <1>1 DEF EventsOf
  <2>2. /\ E \in Seq(Truths) /\ Len(E) = Len(Actions) /\ Len(E) \in Nat \ {0}
        /\ \A i \in 1..Len(E) : E[i].id = <<m, Actions[i]>>
    BY <1>2, EventsForm DEF Base
  <2>3. \A i \in 1..Len(E) : Actions[i] \in ToSet(Actions)
    BY <2>2, CanaryAssumption DEF ToSet
  <2> HIDE DEF E
  <2>4. \A i \in 1..Len(E) : Untold(mem, m, E[i].id)
    BY <1>3, <2>2, <2>3
  <2>5. SubSeq(E, 1, Len(E)) = E
    BY <2>2, SubSeqFull
  <2>6. Delivered(req'[Post(c)], E, m, mem, disk)
    <3>1. /\ 1 \in 1..Len(E) + 1 /\ 1 <= Len(E) /\ 1..1 - 1 = {}
      BY <2>2
    <3>2. req'[Post(c)].todo = SubSeq(E, 1, Len(E)) /\ req'[Post(c)].stage = "truth"
      BY <1>1, <2>5 DEF E
    <3>3. QED
      BY <2>4, <3>1, <3>2 DEF Delivered
  <2>7. QED
    BY <1>1, <2>1, <2>6 DEF Delivering
<1>7. QED
  BY <1>4, <1>5, <1>6 DEF Sound

\* The canary goes on and leaves its post alone.
LEMMA SoundLater ==
  ASSUME Base, NEW c \in Canaries, Sound(c), UNCHANGED <<mem, disk, probe>>,
         canary[c].stage \in After, canary'[c].stage \in After,
         canary'[c].marker = canary[c].marker, canary'[c].slo = canary[c].slo,
         req'[Sess(c)] = req[Sess(c)], req'[Post(c)] = req[Post(c)],
         Lined(c)'
  PROVE  Sound(c)'
<1>1. EventsOf(c)' = EventsOf(c)
  BY DEF EventsOf
<1>2. Delivering(c)'
  BY <1>1 DEF Sound, Delivering
<1>3. SessionKept(c)' /\ Unposted(c)'
  BY DEF Sound, SessionKept, Unposted, After
<1>4. QED
  BY <1>2, <1>3 DEF Sound

LEMMA SoundWaiting ==
  ASSUME Base, NEW c \in Canaries, Sound(c), Waits(c)
  PROVE  Sound(c)'
<1>1. /\ UNCHANGED <<mem, disk, req, probe>>
      /\ canary[c].stage = "truth" /\ req[Post(c)].stage = "replied"
      /\ canary'[c].stage = "wait" /\ canary'[c].marker = canary[c].marker
      /\ canary'[c].slo = canary[c].slo
  BY WaitsForm DEF Alone
<1>2. Lined(c)'
  BY <1>1 DEF Sound, Lined, After
<1>3. canary[c].stage \in After /\ canary'[c].stage \in After
  BY <1>1 DEF After
<1>4. QED
  BY <1>1, <1>2, <1>3, SoundLater

LEMMA SoundAsking ==
  ASSUME Base, NEW c \in Canaries, Sound(c), AskForRun(c)
  PROVE  Sound(c)'
<1>1. /\ UNCHANGED <<mem, disk, probe>> /\ canary[c].stage = "wait"
      /\ req'[Sess(c)] = req[Sess(c)] /\ req'[Post(c)] = req[Post(c)]
      /\ canary'[c].stage = "correlate" /\ canary'[c].marker = canary[c].marker
      /\ canary'[c].slo = canary[c].slo
      /\ req'[Ask(c)].kind = "correlate" /\ req'[Ask(c)].marker = canary[c].marker
  BY AskForRunForm DEF Alone
<1>2. Lined(c)'
  BY <1>1 DEF Sound, Lined, After
<1>3. canary[c].stage \in After /\ canary'[c].stage \in After
  BY <1>1 DEF After
<1>4. QED
  BY <1>1, <1>2, <1>3, SoundLater

LEMMA SoundFailed ==
  ASSUME NEW c \in Canaries, Sound(c), UNCHANGED <<mem, disk, req>>,
         canary'[c].stage = "failed"
  PROVE  Sound(c)'
<1>1. Lined(c)'
  BY DEF Lined, After
<1>2. SessionKept(c)' /\ Unposted(c)' /\ Delivering(c)'
  BY DEF Sound, SessionKept, Unposted, Delivering, After
<1>3. QED
  BY <1>1, <1>2 DEF Sound

LEMMA SoundConcluding ==
  ASSUME Base, NEW c \in Canaries, Sound(c), Concludes(c)
  PROVE  Sound(c)'
<1>1. /\ UNCHANGED <<mem, disk, req, probe>>
      /\ canary[c].stage = "correlate" /\ req[Ask(c)].stage = "replied"
      /\ canary'[c].stage = "failed"
           \/ (canary'[c].stage = "passed" /\ RunOf(c).status = "passing")
      /\ canary'[c].marker = canary[c].marker /\ canary'[c].slo = canary[c].slo
  BY ConcludesForm DEF Alone
<1>2. CASE canary'[c].stage = "failed"
  BY <1>1, <1>2, SoundFailed
<1>3. CASE canary'[c].stage = "passed" /\ RunOf(c).status = "passing"
  <2>1. RunOf(c)' = RunOf(c)
    BY <1>1 DEF RunOf
  <2>2. Lined(c)'
    BY <1>1, <1>3, <2>1 DEF Sound, Lined, After
  <2>3. canary[c].stage \in After /\ canary'[c].stage \in After
    BY <1>1, <1>3 DEF After
  <2>4. QED
    BY <1>1, <2>2, <2>3, SoundLater
<1>4. QED
  BY <1>1, <1>2, <1>3

LEMMA HonestCanary ==
  ASSUME Honest, NEW c \in Canaries,
         CanaryStep(c) \/ GivesUp(c) \/ \E spec \in Specs : Launch(c, spec)
  PROVE  Owned' /\ Carried' /\ \A d \in Canaries : Sound(d)'
<1>1. Base /\ Owned /\ \A d \in Canaries : Sound(d)
  BY DEF Honest
<1>2. /\ Alone(c) /\ \A h \in Requests : req'[h] = req[h] \/ Opened(h)
  BY <1>1, CanarySends
<1>3. Owned'
  BY <1>1, <1>2, OwnedQuiet DEF Alone
<1>4. Carried'
  BY CarriedCanary
<1>5. ASSUME NEW d \in Canaries \ {c}
      PROVE  Sound(d)'
  <2>1. {Sess(d), Post(d), Ask(d)} \subseteq Requests \ {Sess(c), Post(c), Ask(c)}
    BY SlotsAreRequests
  <2>2. \A h \in {Sess(d), Post(d), Ask(d)} : req'[h] = req[h]
    BY <1>2, <2>1 DEF Alone
  <2>3. QED
    BY <1>1, <1>2, <2>2, SoundElsewhere DEF Alone
<1>6. Sound(c)'
  <2>1. CASE Refused(c) \/ GivesUp(c)
    BY <1>1, <2>1, FailForm, SoundFailed DEF Alone
  <2>2. QED
    BY <1>1, <2>1, SoundLaunched, SoundAllocated, SoundActing, SoundPosting, SoundWaiting,
       SoundAsking, SoundConcluding DEF CanaryStep
<1>7. QED
  BY <1>3, <1>4, <1>5, <1>6

----------------------------------------------------------------------------
(* A passed canary tells the truth.                                        *)

LEMMA HonestSensor ==
  ASSUME Honest,
         \/ \E p \in Processes, d \in KernelDimensions : KernelSees(p, d)
         \/ Reads \/ Posted \/ SensorEnds \/ Restarts \/ UNCHANGED worldVars
  PROVE  Owned' /\ Carried' /\ \A c \in Canaries : Sound(c)'
<1>1. Base /\ Owned /\ Carried /\ Typed /\ \A c \in Canaries : Sound(c)
  BY DEF Honest, Base
<1>2. /\ UNCHANGED <<mem, disk, canary, probe>>
      /\ \A g \in Requests \ {SensorSlot} : req'[g] = req[g]
      /\ \/ req'[SensorSlot] = req[SensorSlot]
         \/ req'[SensorSlot] = NewRequest
         \/ Opened(SensorSlot) /\ req'[SensorSlot].kind = "truth"
  BY <1>1, SensorForm
<1>3. Owned'
  BY <1>1, <1>2, OwnedQuiet
<1>4. \A c \in Canaries : \A h \in {Sess(c), Post(c), Ask(c)} :
        h # SensorSlot /\ req'[h] = req[h]
  BY <1>2, SlotsAreRequests
<1>5. \A c \in Canaries : Sound(c)'
  BY <1>1, <1>2, <1>4, SoundElsewhere
<1>6. ASSUME req'[SensorSlot].stage = "truth", NEW i \in DOMAIN req'[SensorSlot].todo,
             req'[SensorSlot] # req[SensorSlot]
      PROVE  req'[SensorSlot].kind = "truth" /\ Foreign(req'[SensorSlot].todo[i])
  <2>1. NewRequest.stage = "new"
    BY DEF NewRequest
  <2>2. Opened(SensorSlot) /\ req'[SensorSlot].kind = "truth"
    BY <1>2, <1>6, <2>1
  <2>3. Reads
    <3>1. SUFFICES ASSUME ~Reads PROVE FALSE
      OBVIOUS
    <3>2. req'[SensorSlot] \in {req[SensorSlot], NewRequest}
      BY <1>1, <3>1, SlotsAreRequests DEF KernelSees, Posted, SensorEnds, Restarts, Again,
        worldVars, Base, ServerInv
    <3>3. QED
      BY <1>6, <2>1, <3>2
  <2>4. PICK m \in Resolve(pids', Head(ring).pid) :
          req'[SensorSlot].todo = <<KernelTruth(Head(ring), m)>>
    BY <1>1, <1>6, <2>3, ReadsForm
  <2>5. req'[SensorSlot].todo[i] = KernelTruth(Head(ring), m)
    BY <1>6, <2>4
  <2>6. Foreign(KernelTruth(Head(ring), m))
    <3>1. KernelTruth(Head(ring), m).id = <<m, "kernel", Head(ring).at>>
      BY DEF KernelTruth
    <3>2. \A n \in Markers, d \in ToSet(Actions) : <<m, "kernel", Head(ring).at>> # <<n, d>>
      OBVIOUS
    <3>3. QED
      BY <3>1, <3>2 DEF Foreign
  <2>7. QED
    BY <2>2, <2>5, <2>6
<1>7. Carried'
  <2>1. SUFFICES ASSUME NEW h \in Requests, req'[h].stage = "truth", NEW i \in DOMAIN req'[h].todo
                 PROVE  LET e == req'[h].todo[i]
                        IN  /\ req'[h].kind = "live" => e.marker = req'[h].marker
                            /\ req'[h].kind = "truth" /\ h \in Others \cup {SensorSlot} => Foreign(e)
                            /\ \A c \in Canaries : h = Post(c) =>
                                 /\ req'[Sess(c)].stage = "replied"
                                 /\ e.marker = req'[Sess(c)].marker
    BY DEF Carried
  <2>2. CASE req'[h] = req[h]
    BY <1>1, <1>4, <2>1, <2>2 DEF Carried
  <2>3. CASE req'[h] # req[h]
    <3>1. h = SensorSlot
      BY <1>2, <2>3
    <3>2. \A c \in Canaries : h # Post(c)
      BY <1>4, <3>1
    <3>3. QED
      BY <1>6, <2>1, <2>3, <3>1, <3>2
  <2>4. QED
    BY <2>2, <2>3
<1>8. QED
  BY <1>3, <1>5, <1>7

LEMMA HonestPreserved ==
  ASSUME Honest, [WorldNext]_worldVars
  PROVE  Honest'
<1>1. Base'
  BY BasePreserved DEF Honest
<1>2. Owned' /\ Carried' /\ \A c \in Canaries : Sound(c)'
  BY SoundServer, HonestCanary, HonestSensor DEF WorldNext
<1>3. QED
  BY <1>1, <1>2 DEF Honest

LEMMA HonestInitially == WorldInit => Honest
<1>1. SUFFICES ASSUME WorldInit PROVE Honest
  OBVIOUS
<1>2. \A h \in Requests : req[h].kind = "none" /\ req[h].stage = "new"
  <2>1. NewRequest.kind = "none" /\ NewRequest.stage = "new"
    BY DEF NewRequest
  <2>2. QED
    BY <1>1, <2>1 DEF WorldInit, CanaryInit, Init
<1>3. \A c \in Canaries : canary[c].stage = "new"
  <2>1. NewCanary.stage = "new"
    BY DEF NewCanary
  <2>2. QED
    BY <1>1, <2>1 DEF WorldInit, CanaryInit
<1>4. Owned /\ Carried
  BY <1>2 DEF Owned, Owns, Carried
<1>5. ASSUME NEW c \in Canaries
      PROVE  Sound(c)
  <2>1. req[Sess(c)].stage = "new" /\ req[Post(c)].stage = "new" /\ canary[c].stage = "new"
    BY <1>2, <1>3, SlotsAreRequests
  <2>2. QED
    BY <2>1 DEF Sound, Lined, SessionKept, Unposted, Delivering, After
<1>6. QED
  BY <1>1, <1>4, <1>5, BaseInitially DEF Honest

\* When every event of the canary has been delivered, all are on disk.
LEMMA AllTold ==
  ASSUME NEW r, NEW events \in Seq(Truths), NEW m, NEW st, NEW file,
         Delivered(r, events, m, st, file), r.stage = "replied"
  PROVE  \A i \in 1..Len(events) : Told(file, m, events[i])
<1>1. PICK k \in 1..Len(events) + 1 :
        /\ r.stage = IF k <= Len(events) THEN "truth" ELSE "replied"
        /\ \A i \in 1..k - 1 : Told(file, m, events[i])
  BY DEF Delivered
<1>2. Len(events) \in Nat /\ ~(k <= Len(events))
  BY <1>1
<1>3. k - 1 = Len(events)
  BY <1>2
<1>4. QED
  BY <1>1, <1>3

LEMMA HonestTells ==
  ASSUME Honest, NEW c \in Canaries, canary[c].stage = "passed"
  PROVE  LET m == canary[c].marker
             session == disk.sessions[m]
         IN  /\ session.status = "completed" /\ session.slo = canary[c].slo
             /\ \A o \in ToSet(probe[c].done) :
                  \E e \in ToSet(session.truth) :
                    e.by = c /\ e.dimension = o.dimension /\ e.success = o.success
             /\ Len(probe[c].done) = Len(Actions)
             /\ \E i \in 0..Len(session.truth), j \in 0..Len(session.observations) :
                  LiveRun(m, session.slo, SubSeq(session.truth, 1, i),
                          SubSeq(session.observations, 1, j)).status = "passing"
<1> DEFINE m == canary[c].marker
           session == disk.sessions[m]
           r == req[Ask(c)]
           E == EventsOf(c)
           done == probe[c].done
<1>1. Base /\ ServerInv /\ Typed /\ Sound(c) /\ Ask(c) \in Requests
  BY SlotsAreRequests DEF Honest, Base
<1>2. canary[c].stage \in After /\ canary[c].stage # "session"
  BY DEF After
<1>3. /\ req[Sess(c)].stage = "replied" /\ m = req[Sess(c)].marker
      /\ canary[c].slo = req[Sess(c)].slo
      /\ Len(done) = Len(Actions) /\ req[Post(c)].stage = "replied"
      /\ r.kind = "correlate" /\ r.marker = m /\ r.stage = "replied"
      /\ RunOf(c).status = "passing"
  BY <1>1, <1>2 DEF Sound, Lined
<1>4. m \in Markers
  BY <1>1, <1>3 DEF Base, Marked
<1>5. session.slo = canary[c].slo
  BY <1>1, <1>3 DEF Sound, SessionKept
<1>6. /\ session.status = "completed" /\ r.slo = session.slo
      /\ Began(r.truth, session.truth) /\ Began(r.observations, session.observations)
  <2>1. Stored(r, disk)
    BY <1>1 DEF ServerInv, Good
  <2>2. QED
    BY <1>3, <2>1 DEF Stored
<1>7. \E i \in 0..Len(session.truth), j \in 0..Len(session.observations) :
        LiveRun(m, session.slo, SubSeq(session.truth, 1, i),
                SubSeq(session.observations, 1, j)).status = "passing"
  <2>1. PICK i \in 0..Len(session.truth) : r.truth = SubSeq(session.truth, 1, i)
    BY <1>6 DEF Began
  <2>2. PICK j \in 0..Len(session.observations) :
          r.observations = SubSeq(session.observations, 1, j)
    BY <1>6 DEF Began
  <2>3. RunOf(c) = LiveRun(m, session.slo, r.truth, r.observations)
    BY <1>3, <1>6 DEF RunOf, Ask
  <2>4. QED
    BY <1>3, <2>1, <2>2, <2>3
<1>8. /\ E \in Seq(Truths) /\ Len(E) = Len(Actions) /\ Len(Actions) \in Nat
      /\ \A i \in 1..Len(Actions) : E[i] = TruthEvent(m, c, Actions[i], done[i].success)
  BY <1>1, <1>3, <1>4, EventsForm
<1>9. \A i \in 1..Len(E) : Told(disk, m, E[i])
  <2>1. Delivered(req[Post(c)], E, m, mem, disk)
    BY <1>1, <1>2, <1>3 DEF Sound, Delivering
  <2>2. QED
    BY <1>3, <1>8, <2>1, AllTold
<1>10. ASSUME NEW o \in ToSet(done)
       PROVE  \E e \in ToSet(session.truth) :
                e.by = c /\ e.dimension = o.dimension /\ e.success = o.success
  <2>1. done \in Seq(Outcome) /\ \A i \in 1..Len(done) : done[i].dimension = Actions[i]
    BY <1>1 DEF Typed, Recorded, ProbeRecord
  <2>2. PICK i \in 1..Len(Actions) : o = done[i]
    BY <1>3, <2>1 DEF ToSet
  <2>3. PICK k \in DOMAIN session.truth : session.truth[k] = E[i]
    BY <1>8, <1>9, <2>2 DEF Told
  <2>4. E[i].by = c /\ E[i].dimension = Actions[i] /\ E[i].success = done[i].success
    <3> DEFINE e == TruthEvent(m, c, Actions[i], done[i].success)
    <3>1. e.by = c /\ e.dimension = Actions[i] /\ e.success = done[i].success
      BY DEF TruthEvent
    <3>2. E[i] = e
      BY <1>8, <2>2
    <3> HIDE DEF e, E, done
    <3>3. QED
      BY <3>1, <3>2
  <2>5. o.dimension = Actions[i]
    BY <1>3, <1>8, <2>1, <2>2
  <2>6. session.truth[k] \in ToSet(session.truth)
    BY <2>3 DEF ToSet
  <2>7. QED
    BY <2>2, <2>3, <2>4, <2>5, <2>6
<1>11. QED
  BY <1>3, <1>5, <1>6, <1>7, <1>10

\* A canary that reports success tells the truth, for any number of canaries and of other
\* clients, even if saves return errors: its session is completed on disk under the
\* objective its spec asked for, holds an event for each of its actions, as it went, and
\* passes on the evidence it holds, or did when it was scored; whatever answers were lost,
\* whatever other clients sent in between, however often server and sensor died.
THEOREM PassedIsAlwaysTrue == WorldSpec => []PassedIsTrue
<1>1. Honest => PassedIsTrue
  BY HonestTells DEF PassedIsTrue
<1>2. Honest /\ [WorldNext]_worldVars => Honest'
  BY HonestPreserved
<1>3. QED
  BY <1>1, <1>2, HonestInitially, PTL DEF WorldSpec
=============================================================================
