-------------------------------- MODULE Store --------------------------------
(***************************************************************************)
(* The state of the server, internal/store/store.go, and the operations    *)
(* that change it.  Every operation runs under the store's write lock and  *)
(* ends in saveLocked, so it is one step; how a save ends is the caller's  *)
(* business: acknowledged, refused with an error that leaves memory ahead  *)
(* of the file, or cut short by a crash that leaves the file either way.   *)
(* StateFile.tla shows that saveLocked has no other outcome.               *)
(*                                                                         *)
(* The operations are operators from states to states, so that Server.tla  *)
(* can make them from request handlers.  Time stamps, ids of sessions (one *)
(* per marker) and the version are left out.  The id of a live run is a    *)
(* function of its marker ("run-" + marker, correlate.go:72), so the marker*)
(* stands for it.                                                          *)
(***************************************************************************)
EXTENDS Integers, Sequences, FiniteSets

CONSTANTS
  Markers,       \* canary markers
  Clusters,      \* cluster names as requests carry them, "" when missing
  SLOs,          \* objectives
  Truths,        \* ground-truth events: [id, marker, cluster, ...]
  Observations,  \* telemetry: [id, marker, cluster, ...]
  Runs,          \* validation runs: [id, ...]
  InitSLO,       \* the default objective
  SeedRuns,      \* the runs of a first start
  MaxRuns,       \* how many runs the history keeps, 500 in the code
  MaxWindow,     \* how many observations deduplication sees, 10000 in the code
  NoSLO, NoRun,  \* the zero values of a session's SLO and run id
  SaveMayFail    \* saveLocked may return an error

RunIds == {run.id : run \in Runs}
RunsOf(m) == {run \in Runs : run.id = m}
DemoRuns  == {run \in Runs : run.id \notin Markers}

\* touchClusterLocked's name for a missing name.
Named(cluster) == IF cluster = "" THEN "unknown" ELSE cluster
Rows == {Named(cluster) : cluster \in Clusters}

HasId(events, id) == \E i \in DOMAIN events : events[i].id = id

DistinctIds(events) ==
  \A i, j \in DOMAIN events : events[i].id = events[j].id => i = j

ASSUME StoreAssumption ==
  /\ IsFiniteSet(Markers) /\ Clusters # {}
  /\ \A e \in Truths : e.marker \in Markers /\ e.cluster \in Clusters
  /\ \A e \in Observations : e.marker \in Markers /\ e.cluster \in Clusters
  /\ InitSLO \in SLOs /\ NoSLO \notin SLOs
  /\ SeedRuns \in Seq(DemoRuns) /\ Len(SeedRuns) <= MaxRuns
  /\ DistinctIds(SeedRuns)
  /\ NoRun \notin RunIds
  /\ MaxRuns \in Nat \ {0} /\ MaxWindow \in Nat \ {0}
  /\ SaveMayFail \in BOOLEAN

Session == [status : {"absent", "collecting", "completed"},
            cluster : Clusters, slo : SLOs \cup {NoSLO},
            truth : Seq(Truths), observations : Seq(Observations),
            runId : RunIds \cup {NoRun}]
Row     == [truth : Nat, observations : Nat, active : Nat]
State   == [slo : SLOs, runs : Seq(Runs), sessions : [Markers -> Session],
            window : Seq(Observations), clusters : [Rows -> Row]]

NoSession == [status |-> "absent", cluster |-> CHOOSE c \in Clusters : TRUE,
              slo |-> NoSLO, truth |-> <<>>, observations |-> <<>>, runId |-> NoRun]

InitState ==
  [slo |-> InitSLO, runs |-> SeedRuns, sessions |-> [m \in Markers |-> NoSession],
   window |-> <<>>,
   clusters |-> [r \in Rows |-> [truth |-> 0, observations |-> 0, active |-> 0]]]

Exists(st, m) == st.sessions[m].status # "absent"

----------------------------------------------------------------------------
(* The operations.                                                         *)

UpdateSLO(st, slo) == [st EXCEPT !.slo = slo]

\* Mutant: a run correlated again is prepended again.
AlwaysPrepended(runs, run) ==
  IF Len(runs) < MaxRuns THEN <<run>> \o runs ELSE SubSeq(<<run>> \o runs, 1, MaxRuns)

\* addRunLocked: replace the run of that id in place, or prepend and trim.
WithRun(runs, run) ==
  IF HasId(runs, run.id)
  THEN [runs EXCEPT ![CHOOSE i \in DOMAIN runs : runs[i].id = run.id] = run]
  ELSE LET longer == <<run>> \o runs
       IN  IF Len(longer) > MaxRuns THEN SubSeq(longer, 1, MaxRuns) ELSE longer

AddRun(st, run) == [st EXCEPT !.runs = WithRun(@, run)]

\* Most operations change one session and, through touchClusterLocked, the
\* counters of one cluster.
Change(st, m, session, cluster, row) ==
  [st EXCEPT !.sessions = [@ EXCEPT ![m] = session],
             !.clusters = [@ EXCEPT ![Named(cluster)] = row]]

RowOf(st, cluster) == st.clusters[Named(cluster)]

\* The session must not exist.
CreateSession(st, m, cluster, slo) ==
  Change(st, m,
         [status |-> "collecting", cluster |-> cluster, slo |-> slo,
          truth |-> <<>>, observations |-> <<>>, runId |-> NoRun],
         cluster, [RowOf(st, cluster) EXCEPT !.active = @ + 1])

\* Mutant: only the latest event is compared with.
KnownLatestTruth(st, e) ==
  LET truth == st.sessions[e.marker].truth
  IN  truth # <<>> /\ truth[Len(truth)].id = e.id

KnownTruth(st, e) == HasId(st.sessions[e.marker].truth, e.id)

\* Mutant: the event is counted for the cluster of its session.
AddTruthToSessionCluster(st, e) ==
  LET session == st.sessions[e.marker]
  IN  Change(st, e.marker, [session EXCEPT !.truth = Append(@, e)],
             session.cluster, [RowOf(st, session.cluster) EXCEPT !.truth = @ + 1])

\* The session must exist and not hold an event of that id.
AddTruth(st, e) ==
  Change(st, e.marker, [st.sessions[e.marker] EXCEPT !.truth = Append(@, e)],
         e.cluster, [RowOf(st, e.cluster) EXCEPT !.truth = @ + 1])

KnownObservation(st, e) == HasId(st.window, e.id)

Newest(events, n) ==
  IF Len(events) > n THEN SubSeq(events, Len(events) - n + 1, Len(events)) ELSE events

Attach(session, e) ==
  IF session.status = "absent" THEN session
  ELSE [session EXCEPT !.observations = Append(@, e)]

\* The window must not hold an observation of that id.  An observation that
\* no session waits for enters the window all the same.
AddObservation(st, e) ==
  [Change(st, e.marker, Attach(st.sessions[e.marker], e),
          e.cluster, [RowOf(st, e.cluster) EXCEPT !.observations = @ + 1])
   EXCEPT !.window = Newest(Append(@, e), MaxWindow)]

\* Mutants: a session completed again gives up its place once more; and the
\* count may then go below zero.
DecrementAgain(session, row) == [row EXCEPT !.active = IF @ > 0 THEN @ - 1 ELSE @]
DecrementBelowZero(session, row) == [row EXCEPT !.active = @ - 1]

\* A session that is completed again gives up its place in the active count
\* only the first time.
WithoutActive(session, row) ==
  IF session.status # "completed" /\ row.active > 0
  THEN [row EXCEPT !.active = @ - 1] ELSE row

\* The session must exist.
CompleteSession(st, m, run) ==
  LET session == st.sessions[m]
  IN  [Change(st, m, [session EXCEPT !.status = "completed", !.runId = run.id],
              session.cluster, WithoutActive(session, RowOf(st, session.cluster)))
       EXCEPT !.runs = WithRun(@, run)]

----------------------------------------------------------------------------
(* Memory, file, and what clients have been told.                          *)

VARIABLES
  mem,    \* s.state
  disk,   \* what a restart reads back
  acked,  \* ghost: the facts clients were told were accepted
  refused \* ghost: the facts whose save returned an error, until they are on disk

storeVars == <<mem, disk, acked, refused>>

TruthFact(e)       == <<"truth", e.marker, e.id>>
ObservationFact(e) == <<"observation", e.marker, e.id>>

\* What a state knows of its sessions.
Facts(st) ==
  {<<"session", m>> : m \in {n \in Markers : Exists(st, n)}}
    \cup {<<"completed", m>> : m \in {n \in Markers : st.sessions[n].status = "completed"}}
    \cup {TruthFact(e) : e \in {t \in Truths : KnownTruth(st, t)}}
    \cup {ObservationFact(e) :
            e \in {o \in Observations : HasId(st.sessions[o.marker].observations, o.id)}}

\* Success was reported for facts that the state in memory holds.
Acknowledge(facts) == acked' = acked \cup (facts \cap Facts(mem'))

\* An error was returned for facts; what reaches the file is refused no longer.
Refuse(facts) == refused' = (refused \cup facts) \ Facts(disk')

\* Mutant: success is reported for what only memory holds.
SavedInMemory(new, facts) ==
  mem' = new /\ UNCHANGED disk /\ Acknowledge(facts) /\ Refuse({})

Saved(new, facts) == mem' = new /\ disk' = new /\ Acknowledge(facts) /\ Refuse({})

\* Memory is not rolled back.
SaveFails(new, facts) ==
  SaveMayFail /\ mem' = new /\ UNCHANGED <<disk, acked>> /\ Refuse(facts)

\* The operation finds nothing to do and reports success without saving.
Duplicate(facts) == UNCHANGED <<mem, disk, refused>> /\ Acknowledge(facts)

\* The process dies inside a save, before or after the rename, and restarts.
DiesSaving(new) ==
  /\ \E found \in {disk, new} : mem' = found /\ disk' = found
  /\ UNCHANGED acked /\ Refuse({})

\* The process dies between saves and restarts.
Dies == mem' = disk /\ UNCHANGED <<disk, acked, refused>>

Save(new, facts) == Saved(new, facts) \/ SaveFails(new, facts) \/ DiesSaving(new)

----------------------------------------------------------------------------
(* The store under any sequence of calls.                                  *)

DoUpdateSLO(slo) == Save(UpdateSLO(mem, slo), {})

DoAddRun(run) == Save(AddRun(mem, run), {})

DoCreateSession(m, cluster, slo) ==
  /\ ~Exists(mem, m)
  /\ Save(CreateSession(mem, m, cluster, slo), {<<"session", m>>})

DoAddTruth(e) ==
  /\ Exists(mem, e.marker)
  /\ \/ KnownTruth(mem, e) /\ Duplicate({TruthFact(e)})
     \/ ~KnownTruth(mem, e) /\ Save(AddTruth(mem, e), {TruthFact(e)})

DoAddObservation(e) ==
  \/ KnownObservation(mem, e) /\ Duplicate({ObservationFact(e)})
  \/ ~KnownObservation(mem, e) /\ Save(AddObservation(mem, e), {ObservationFact(e)})

DoCompleteSession(m, run) ==
  /\ Exists(mem, m)
  /\ Save(CompleteSession(mem, m, run), {<<"completed", m>>})

StoreInit == mem = InitState /\ disk = InitState /\ acked = {} /\ refused = {}

StoreNext ==
  \/ \E slo \in SLOs : DoUpdateSLO(slo)
  \/ \E run \in DemoRuns : DoAddRun(run)
  \/ \E m \in Markers, cluster \in Clusters, slo \in SLOs : DoCreateSession(m, cluster, slo)
  \/ \E e \in Truths : DoAddTruth(e)
  \/ \E e \in Observations : DoAddObservation(e)
  \/ \E m \in Markers : \E run \in RunsOf(m) : DoCompleteSession(m, run)
  \/ Dies

StoreSpec == StoreInit /\ [][StoreNext]_storeVars

----------------------------------------------------------------------------
(* Properties.  A state in memory and the one on disk satisfy the same ones.*)

StoreTypeOK == mem \in State /\ disk \in State

Both == {mem, disk}

Collecting(st, r) ==
  {m \in Markers : /\ st.sessions[m].status = "collecting"
                   /\ Named(st.sessions[m].cluster) = r}

\* The active-session gauge of each cluster is the number of its sessions that
\* are still collecting, however often and in whatever order sessions are
\* created, correlated again, refused a save or cut short by a crash: no
\* double decrement, no drift.  store.go:124, 191-197.
ActiveSessionsMatch ==
  \A st \in Both, r \in Rows :
    st.clusters[r].active = Cardinality(Collecting(st, r))

\* Where the sessions hold the truth events of a cluster.
TruthPlaces(st, r) ==
  {p \in UNION {{<<m, i>> : i \in DOMAIN st.sessions[m].truth} : m \in Markers} :
     Named(st.sessions[p[1]].truth[p[2]].cluster) = r}

\* The truth counter of a cluster counts each accepted event exactly once,
\* duplicates, refused saves and crashes notwithstanding.  store.go:155-163.
TruthCounted ==
  \A st \in Both, r \in Rows :
    st.clusters[r].truth = Cardinality(TruthPlaces(st, r))

\* A completed session has its run in the history unless the history is full
\* and may have dropped it; a collecting one has none; runs are distinct and
\* no more than MaxRuns.  store.go:75-86, 198-203.
HistoryMatchesSessions ==
  \A st \in Both :
    /\ DistinctIds(st.runs) /\ Len(st.runs) <= MaxRuns
    /\ \A m \in Markers :
         IF st.sessions[m].status = "completed"
         THEN st.sessions[m].runId = m /\ (HasId(st.runs, m) \/ Len(st.runs) = MaxRuns)
         ELSE st.sessions[m].runId = NoRun /\ ~HasId(st.runs, m)

\* Delivering evidence again adds nothing: a session holds a truth event once,
\* and an observation once as long as the deduplication window has never been
\* full, since until then the window knows every observation that a session
\* holds.  store.go:155-159, 168-180.
EvidenceHeldOnce ==
  \A st \in Both :
    /\ DistinctIds(st.window) /\ Len(st.window) <= MaxWindow
    /\ \A m \in Markers :
         /\ DistinctIds(st.sessions[m].truth)
         /\ Len(st.window) < MaxWindow =>
              /\ DistinctIds(st.sessions[m].observations)
              /\ \A i \in DOMAIN st.sessions[m].observations :
                   HasId(st.window, st.sessions[m].observations[i].id)

\* What a client was told was accepted is on disk, whenever the process dies and
\* whichever saves fail, but for what a save had been refused for and none has
\* brought to disk since: an event is acknowledged without being saved only if it
\* is the retry of a refused one.  store.go:155-163, 168-182, 251-286.
OnlyRefusedIsLost == acked \subseteq Facts(disk) \cup refused

\* docs/architecture.md:13 calls a session "durable": whatever a client was told
\* was accepted is on disk.  (The retry of an event whose save failed is answered
\* as a duplicate, store.go:156-163.)
AckedDurable == acked \subseteq Facts(disk)
=============================================================================
