------------------------------- MODULE Canary -------------------------------
(***************************************************************************)
(* The canary of a validation Job: internal/canary/client.go, configured   *)
(* by createJob of the operator and by runCanary of the command line.  It  *)
(* has a session created, acts (Probe), posts what it did, waits for the   *)
(* telemetry and asks for the correlation, over HTTP (Server).  It tries   *)
(* nothing twice: an answer that is late, lost or no success ends it, while*)
(* the server goes on with the request.                                    *)
(***************************************************************************)
EXTENDS Server, Probe

CONSTANTS
  Canaries,
  Others,      \* the requests that are not the canaries' own, or the sensor's
  Specs,       \* specs of SecurityContextSLO resources
  Unparsable,  \* a latency that is no duration
  Cluster,     \* the cluster flag
  OwnPid       \* the pid a process knows itself by

\* Stage, marker and spec of each canary.
VARIABLE canary

Calls == {"session", "truth", "correlate"}
Slot(c, call) == <<c, call>>

Started == {"session", "probe", "truth", "wait", "correlate"}
Ended   == {"passed", "failed"}

NewCanary == [stage |-> "new", marker |-> NoRun, slo |-> NoSLO]

Become(c, stage) == canary' = [canary EXCEPT ![c].stage = stage]

----------------------------------------------------------------------------
(* Configuration.                                                          *)

\* createJob's arguments: its defaults for what it cannot use.
JobArgs(spec) ==
  [target |-> IF spec.target \in 1..1000 THEN spec.target ELSE 995,
   latencyP95 |-> IF spec.latencyP95 = Unparsable THEN 10000 ELSE spec.latencyP95,
   required |-> IF spec.required = <<>> THEN DimensionOrder ELSE spec.required]

\* parseDimensions keeps the first mention of each.
ParseDimensions(ds) ==
  FoldLeft(LAMBDA kept, d : IF d \in ToSet(kept) THEN kept ELSE Append(kept, d), <<>>, ds)

SessionSLO(spec) == [JobArgs(spec) EXCEPT !.required = ParseDimensions(@)]

----------------------------------------------------------------------------
(* The run of a canary.                                                    *)

Launch(c, spec) ==
  /\ canary[c].stage = "new"
  /\ IF ToSet(JobArgs(spec).required) \subseteq Dimensions
     THEN /\ StartSession(Slot(c, "session"), "create", SessionSLO(spec), Cluster)
          /\ canary' = [canary EXCEPT ![c].stage = "session", ![c].slo = SessionSLO(spec)]
     ELSE Become(c, "failed") /\ UNCHANGED req /\ Quiet
  /\ UNCHANGED probe

Answer(c) == IF canary[c].stage \in Calls THEN req[Slot(c, canary[c].stage)].stage ELSE "none"

Allocated(c) ==
  /\ canary[c].stage = "session" /\ Answer(c) = "replied"
  /\ canary' = [canary EXCEPT ![c].stage = "probe",
                              ![c].marker = req[Slot(c, "session")].marker]
  /\ Begin(c) /\ UNCHANGED req /\ Quiet

TruthEvent(m, p, d, ok) ==
  [id |-> <<m, d>>, marker |-> m, cluster |-> Cluster, dimension |-> d, success |-> ok,
   occurredAt |-> 0, pid |-> OwnPid[p], by |-> p]

EventsOf(c) ==
  LET done == probe[c].done
  IN  [i \in DOMAIN done |->
         TruthEvent(canary[c].marker, c, done[i].dimension, done[i].success)]

PostTruth(c) ==
  /\ canary[c].stage = "probe" /\ Finished(c)
  /\ StartTruth(Slot(c, "truth"), EventsOf(c))
  /\ Become(c, "truth") /\ UNCHANGED probe

Waits(c) ==
  /\ canary[c].stage = "truth" /\ Answer(c) = "replied"
  /\ Become(c, "wait") /\ UNCHANGED <<req, probe>> /\ Quiet

AskForRun(c) ==
  /\ canary[c].stage = "wait"
  /\ StartCorrelate(Slot(c, "correlate"), canary[c].marker)
  /\ Become(c, "correlate") /\ UNCHANGED probe

\* The run that the answer to the correlation carries.
RunOf(c) ==
  LET r == req[Slot(c, "correlate")]
  IN  LiveRun(r.marker, r.slo, r.truth, r.observations)

\* Mutant: any answer is a success.
AnyVerdict(c) == "passed"

ExitOf(c) == IF RunOf(c).status = "passing" THEN "passed" ELSE "failed"

Concludes(c) ==
  /\ canary[c].stage = "correlate" /\ Answer(c) = "replied"
  /\ Become(c, ExitOf(c)) /\ UNCHANGED <<req, probe>> /\ Quiet

\* Mutant: only an error that the server answers ends the canary.
RefusedByAnswer(c) ==
  /\ Answer(c) = "error"
  /\ Become(c, "failed") /\ Stop(c) /\ UNCHANGED req /\ Quiet

\* The server answers with an error, or dies with the request.
Refused(c) ==
  /\ Answer(c) \in {"error", "killed"}
  /\ Become(c, "failed") /\ Stop(c) /\ UNCHANGED req /\ Quiet

\* The request or its answer is lost or late, or the Job's pod is stopped.
GivesUp(c) ==
  /\ canary[c].stage \in Started
  /\ Become(c, "failed") /\ Stop(c) /\ UNCHANGED req /\ Quiet

Acts(c) == canary[c].stage = "probe" /\ ProbeStep(c) /\ UNCHANGED <<req, canary>> /\ Quiet

CanaryStep(c) ==
  \/ Allocated(c) \/ Acts(c) \/ PostTruth(c) \/ Waits(c) \/ AskForRun(c)
  \/ Concludes(c) \/ Refused(c)

----------------------------------------------------------------------------
(* The constants.  The requests are those of the canaries and those of     *)
(* others, each a client's own.  Nobody else takes the ids that a canary's *)
(* events will have, its marker and a dimension (runner.go:39); the server *)
(* gives other ids to events without one (server.go:313).                  *)

Slots == {Slot(c, call) : c \in Canaries, call \in Calls}

ASSUME CanaryAssumption ==
  /\ Slots \cup Others \subseteq Requests /\ Slots \cap Others = {}
  /\ \A spec \in Specs :
       ToSet(JobArgs(spec).required) \subseteq Dimensions => SessionSLO(spec) \in SLOs
  /\ Cluster \in Clusters
  /\ Actions \in Seq(Dimensions) /\ Actions # <<>> /\ IsInjective(Actions)
  /\ \A m \in Markers, c \in Canaries, d \in ToSet(Actions), ok \in BOOLEAN :
       TruthEvent(m, c, d, ok) \in Truths
  /\ \A events \in TruthBatches : \A i \in DOMAIN events :
       \A m \in Markers, d \in ToSet(Actions) : events[i].id # <<m, d>>

----------------------------------------------------------------------------
CanaryInit == /\ Init /\ canary = [c \in Canaries |-> NewCanary]
              /\ probe = [c \in Canaries |-> NotProbing]

ServerStep ==
  \/ \E h \in Others : Start(h)
  \/ \E h \in Requests : Proceed(h) \/ ProbeHangs(h) \/ Cancelled(h)
  \/ Crash

----------------------------------------------------------------------------
(* Properties.                                                             *)

\* A canary that reports success tells the truth, whatever answers were lost and
\* whatever else the server did or forgot: its session is completed on disk under
\* the SLO its spec asked for, holds an event for each of its actions, as it went,
\* and passes on the evidence it holds, or did when it was scored.
\* client.go:28-66, main.go:147-156, operator.go:190-206.
PassedIsTrue ==
  \A c \in Canaries : canary[c].stage = "passed" =>
    LET m == canary[c].marker
        session == disk.sessions[m]
    IN  /\ session.status = "completed" /\ session.slo = canary[c].slo
        /\ \A o \in ToSet(probe[c].done) :
             \E e \in ToSet(session.truth) :
               e.by = c /\ e.dimension = o.dimension /\ e.success = o.success
        /\ Len(probe[c].done) = Len(Actions)
        /\ \E i \in 0..Len(session.truth), j \in 0..Len(session.observations) :
             LiveRun(m, session.slo, SubSeq(session.truth, 1, i),
                     SubSeq(session.observations, 1, j)).status = "passing"

\* A live run always ends, answered, failed, cancelled or killed by a crash,
\* unless its own probe hangs.  server.go:196-232.
LiveRunsEnd ==
  \A h \in Others : req[h].kind = "live" ~> req[h].stage \in Final \cup {"stuck"}

\* A canary that was started ends, answered or not, unless its own loopback
\* connection could not be dialled: then it waits for ever.  client.go:24-67,
\* runner.go:95.
CanaryEnds ==
  \A c \in Canaries :
    canary[c].stage \in Started ~> canary[c].stage \in Ended \/ Hung(c)
=============================================================================
