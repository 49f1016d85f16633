---------------------------- MODULE Correlation ----------------------------
(***************************************************************************)
(* One session from its evidence to its verdict: truth events and vendors' *)
(* payloads arrive one at a time, in any order; payloads are decoded       *)
(* (Adapters) and stored as far as they are new; after each the session    *)
(* may be correlated under its objective (Engine).                         *)
(***************************************************************************)
EXTENDS Engine, Adapters

CONSTANTS
  Marker,                     \* the session's
  SLOs,                       \* the objectives it may have been created with
  TruthEvents,                \* what its canary may report
  Deliveries,                 \* <<adapter, payload, time>>: what may arrive
  MaxTruth, MaxObservations   \* bounds on the evidence

VARIABLES
  slo, truth,    \* the session's objective and truth
  observations,  \* its observations
  window,        \* the observations accepted, for whichever session
  delivered      \* ghost: the records delivered, as <<adapter, record>>
vars == <<slo, truth, observations, window, delivered>>

\* The default objective requires every dimension (main.go:195); one that is set
\* requires some, once each (server.go:385-401).
SLOType ==
  [required : {ds \in Seq(Dimensions) : ds # <<>> /\ IsInjective(ds)},
   target : 1..1000, latencyP95 : Nat \ {0}]
ObservationType ==
  [id : Seq(Texts \cup Sources \cup Dimensions), marker : Texts, cluster : Texts, source : Sources,
   dimension : Dimensions, attributed : BOOLEAN, receivedAt : Int]

ASSUME CorrelationAssumption ==
  /\ SLOs \subseteq SLOType
  /\ TruthEvents \subseteq [dimension : Dimensions, success : BOOLEAN, occurredAt : Int]
  /\ Deliveries \subseteq Sources \X Payload \X Int
  /\ NoEvidence \notin TruthEvents /\ NoEvidence \notin ObservationType
  /\ Marker \in Texts \ {""} /\ MaxTruth \in Nat /\ MaxObservations \in Nat

----------------------------------------------------------------------------
Init ==
  /\ slo \in SLOs /\ truth = <<>> /\ observations = <<>>
  /\ window = <<>> /\ delivered = {}

TruthArrives(e) ==
  /\ Len(truth) < MaxTruth
  /\ truth' = Append(truth, e) /\ UNCHANGED <<slo, observations, window, delivered>>

\* An observation of a known id is a duplicate; a new one enters the window, and
\* the session if it is marked for it.
Take(held, o) ==
  IF \E j \in DOMAIN held.window : held.window[j].id = o.id THEN held
  ELSE [window  |-> Append(held.window, o),
        session |-> IF o.marker = Marker THEN Append(held.session, o) ELSE held.session]

\* What is held once a payload's observations were stored one after the other.
Stored(batch) ==
  LET held[i \in 0..Len(batch)] ==
        IF i = 0 THEN [window |-> window, session |-> observations]
        ELSE Take(held[i - 1], batch[i])
  IN  held[Len(batch)]

\* A payload is decoded and stored, as far as it is new.
PayloadArrives(adapter, payload, receivedAt) ==
  /\ Len(window) < MaxObservations
  /\ \E batch \in Decode(adapter, payload, receivedAt) :
       /\ batch # <<>>
       /\ window' = Stored(batch).window
       /\ observations' = Stored(batch).session
  /\ delivered' = delivered \cup {<<adapter, r>> : r \in ToSet(RecordsFor(payload))}
  /\ UNCHANGED <<slo, truth>>

Next == \/ \E e \in TruthEvents : TruthArrives(e)
        \/ \E d \in Deliveries : PayloadArrives(d[1], d[2], d[3])

Spec == Init /\ [][Next]_vars

----------------------------------------------------------------------------
Run      == Correlate(slo, truth, observations, 1000)
Required == ToSet(slo.required)

Seen(d)    == {i \in DOMAIN observations : observations[i].dimension = d}
Credited(d) == {i \in Seen(d) : observations[i].attributed}
Earliest(I) == CHOOSE i \in I : \A j \in I : i <= j
Told(d)    == {i \in DOMAIN truth : truth[i].dimension = d}

\* The delay a dimension is charged with: from its first truth event to its
\* first attributed observation, or its first one when none is attributed.
Delay(d) ==
  LET o == observations[Earliest(IF Credited(d) # {} THEN Credited(d) ELSE Seen(d))]
  IN  IF Told(d) = {} \/ o.receivedAt < truth[Earliest(Told(d))].occurredAt
      THEN 0 ELSE o.receivedAt - truth[Earliest(Told(d))].occurredAt

\* The incremental scoring agrees with its definition: the score is the mean
\* of 45 points per required dimension observed and 55 per one attributed, to
\* the nearest tenth, in whatever order the evidence came; and the run passes
\* exactly when the score meets the target and no observed dimension exceeds
\* the latency objective (with 8 dimensions p95 is the maximum).
\* engine.go:81-119, 166-178 and correlate.go:53-57, 75-94.
VerdictMatchesReference ==
  LET n == Cardinality(Required)
      total == 45 * Cardinality({d \in Required : Seen(d) # {}})
             + 55 * Cardinality({d \in Required : Credited(d) # {}})
      verdict == Run.verdict
      score == verdict.score
  IN  /\ 2 * n * score <= 20 * total + n /\ 20 * total + n < 2 * n * (score + 1)
      /\ verdict.status = "passing" <=>
           /\ score >= slo.target
           /\ \A d \in Required : Seen(d) # {} => Delay(d) <= slo.latencyP95

\* Under a target such as the default 99.5 a passing run has an attributed
\* observation for every required dimension: neither a missing dimension nor
\* one that nothing is ever heard of shrinks the denominator (README.md:81).
PassingMeansAttributed ==
  slo.target > 990 /\ Run.verdict.status = "passing"
    => \A d \in Required : Credited(d) # {}

\* The parts of a report agree: a score below 100 comes with a break naming a
\* dimension that lost points, each of the five edges is drawn intact exactly
\* when its dimensions are required and no break names one of them, and the
\* error budget is exhausted exactly when the score misses the target.
\* correlate.go:39-67, 103-110.
ReportIsConsistent ==
  LET run   == Run
      score == run.verdict.score
      broken == {b[1] : b \in run.breaks}
  IN  /\ score < 1000 => \E d \in broken : Credited(d) = {}
      /\ \A edge \in DOMAIN EdgeNeeds :
           edge \in run.edges <=> EdgeNeeds[edge] \subseteq Required \ broken
      /\ run.verdict.budget.exhausted <=> score < slo.target

\* More evidence never costs points: neither a late truth event nor another
\* observation of any kind lowers the score.  correlate.go:83-94.
EvidenceNeverLowersScore ==
  [][Score(ChecksOf(slo, truth, observations)')
       >= Score(ChecksOf(slo, truth, observations))]_vars

\* The upstream id of a record that was delivered, and the sessions it may be meant
\* for: those its marker fields name or, without these, any it mentions.
UpstreamId(d) == First(d[2], <<<<"eventID">>, <<"event_id">>, <<"id">>, <<"spanId">>>>)
EventOf(d)   == <<d[1], UpstreamId(d)>>
Identified(d) == \E id \in UpstreamId(d) \ {""} : UpstreamId(d) = {id}
Addressed(d) == {f.marker : f \in {g \in d[2] : "marker" \in ToSet(g.path)}} \ {""}
Meant(d) == IF Addressed(d) # {} THEN Addressed(d) ELSE {f.marker : f \in d[2]} \ {""}

\* The upstream systems identify their events: a record has one id of its own, and
\* one with the id of an event of this session is meant for no other.
EventsIdentified ==
  /\ \A d \in delivered : Identified(d)
  /\ \A d, e \in delivered : Marker \in Meant(d) /\ EventOf(d) = EventOf(e) => Meant(e) \subseteq {Marker}

\* As long as the upstream systems identify their events, each event of the
\* session is counted once: redelivery, alone or in a batch, adds nothing, and
\* no two events are taken for one.  adapters.go:174-181, store.go:168-180.
EventsCountOnce ==
  EventsIdentified =>
    Len(observations) = Cardinality({EventOf(d) : d \in {e \in delivered : Marker \in Meant(e)}})

\* An observation that a record may have been decoded to: of its adapter, for a session
\* it is meant for, and under an id of its own or, without one, a hash of the session's.
MayYield(d, o) ==
  /\ o.source = d[1] /\ o.marker \in Meant(d)
  /\ \/ \E id \in UpstreamId(d) \ {""} : o.id = <<d[1], id>>
     \/ "" \in UpstreamId(d) /\ Len(o.id) = 4 /\ o.id[2] = o.marker

\* Evidence reaches the session it was marked for and no other: an accepted
\* observation is for a session that the very record whose id it has is meant for, by
\* its marker fields before anything else it mentions, so neither the order of a search
\* nor the other records of a batch mix markers up; and the session holds exactly
\* those that are its own.  adapters.go:29-41, 101-115, store.go:173-180.
EachToItsSession ==
  /\ \A o \in ToSet(window) : \E d \in delivered : MayYield(d, o)
  /\ ToSet(observations) = {o \in ToSet(window) : o.marker = Marker}

\* README.md:96: adapters "assign an idempotent event ID, and attach evidence to
\* an active session": no marked event of the vendors' is taken for another one.
EveryEventCounts == Len(window) >= Cardinality({d \in delivered : MarkersIn(d[2]) # {}})
=============================================================================
