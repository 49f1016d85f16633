----------------------------- MODULE MC_Canary -----------------------------
(***************************************************************************)
(* A canary, one request of someone else's (a live run of the server's own *)
(* or telemetry for the canary), the sensor and a process of the machine   *)
(* that belongs to no session.                                             *)
(***************************************************************************)
EXTENDS Sensor

CONSTANTS m1, m2, c1, r1, server, init

SpecOf(latency, required) == [target |-> 1000, latencyP95 |-> latency, required |-> required]
SmallSpecs ==
  {SpecOf(10, <<"network", "filesystem", "network">>),
   SpecOf(0, <<"network">>), SpecOf(10, <<"process", "newtork">>)}
ActiveSLO == [required |-> <<"network">>, target |-> 400, latencyP95 |-> 10]
\* A PUT may only make it harder to pass.
StrictSLO == [ActiveSLO EXCEPT !.target = 1000]
SmallPutSLOs == {StrictSLO}
SmallSLOs == {ActiveSLO, StrictSLO} \cup {SessionSLO(spec) : spec \in SmallSpecs}

SmallActions == <<"process", "filesystem", "network">>
OneAction == <<"network">>
SmallRequests == {r1, SensorSlot} \cup {Slot(c1, call) : call \in Calls}

Process == {c1, server, init}
KernelEvents == {KernelTruth([pid |-> HostPid[p], by |-> p, dimension |-> d, at |-> n], m) :
                   p \in Process, d \in KernelDimensions, n \in 0..MaxKernelEvents - 1,
                   m \in Markers}
SmallTruths == KernelEvents \cup {TruthEvent(m, p, d, ok) : m \in Markers, p \in {c1, server},
                                    d \in ToSet(Actions), ok \in BOOLEAN}

SmallProbeResults == {<<TruthEvent(m, server, "network", TRUE)>> : m \in Markers}

Telemetry(d) == [id |-> <<"falco", d>>, marker |-> m1, cluster |-> "prod", dimension |-> d,
                 attributed |-> TRUE, receivedAt |-> 3]
SmallObservations == {Telemetry("network"), Telemetry("filesystem")}
SmallObservationBatches == {<<Telemetry("network"), Telemetry("filesystem")>>}

SmallRuns == [id : Markers, score : Scores, status : {"passing", "failing"}]
        \cup [id : {"demo"}, score : {806, 931, 1000}, status : {"passing", "failing"}]
OneOther == {r1}
None == {}
NoSeeds == <<>>

\* On one machine without pid namespaces; and in a container of its own, where
\* the canary is the first process.
HostPids    == [p \in Process |-> CASE p = init -> 1 [] p = server -> 7 [] p = c1 -> 9]
InContainer == [HostPids EXCEPT ![c1] = 1]

\* The bounds of the safety run: the kernel's events begin once the canary has posted its
\* truth and are of the other processes, the second comes when the sensor has a map, the
\* sensor does not end before the first, and none is combined with telemetry, an SLO that
\* is PUT, a demo or a correlation that somebody else asks for.
Bounds ==
  /\ seen' > 0 => req'[r1].kind \in {"none", "live"}
  /\ seen' # seen => /\ canary[c1].stage \in {"wait", "correlate", "passed"}
                     /\ pids # NoPids \/ seen = 0
  /\ seen' = 0 => sensor' # "down"
  /\ \A i \in DOMAIN ring' : ring'[i].by # c1

MCSpec == WorldInit /\ [][WorldNext]_worldVars

\* Neither what these requests do nor the properties of the safety run depend on the facts
\* acknowledged, refused and claimed, on how a request ended whose answer nobody waits for,
\* on a canary that failed, or on a sensor that no event is left for.
Over == seen = MaxKernelEvents /\ ring = <<>>

Essential(h) ==
  CASE /\ h = SensorSlot /\ Over /\ req[h].stage \in Final \cup {"new"} -> <<>>
    [] /\ h # SensorSlot /\ req[h].stage \in Final
       /\ \A c \in Canaries : h # Slot(c, canary[c].stage) -> <<req[h].kind>>
    [] OTHER -> [req[h] EXCEPT !.claim = {}]

WithoutHistory ==
  <<mem, disk, order, [h \in Requests |-> Essential(h)],
    [c \in Canaries |-> IF canary[c].stage = "failed" THEN <<>> ELSE <<canary[c], probe[c]>>],
    ring, seen, IF Over THEN <<>> ELSE <<sensor, pids>>, reported>>
=============================================================================
