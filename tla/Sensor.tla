------------------------------- MODULE Sensor -------------------------------
(***************************************************************************)
(* The kernel truth sensor, cmd/contextslo-sensor and internal/truthsensor.*)
(* The kernel program puts an event of every exec, open, connect and send  *)
(* into a ring buffer; the sensor reads one at a time, looks its pid up    *)
(* among the pids that the collecting sessions' truth events carry, and    *)
(* posts it as truth of that session.  The look-up uses a map that it      *)
(* fetches again when it is 3 s old.                                       *)
(*                                                                         *)
(* A pid stands for one process; that the kernel may use it again later is *)
(* left out.                                                               *)
(***************************************************************************)
EXTENDS Canary

CONSTANTS
  Processes,        \* all processes of the machine, the canaries among them
  HostPid,          \* the pid the kernel knows a process by
  KernelDimensions, \* of the four in the code
  RingSize,         \* events the ring buffer holds, 16 MB in the code
  MaxKernelEvents   \* bound on the events

VARIABLES ring, pids, sensor, seen

\* Ghost: the pids that truth of each session, the sensor's own apart, has reported
\* while memory held it.
VARIABLE reported

sensorVars == <<ring, pids, sensor, seen, reported>>
worldVars  == <<mem, disk, acked, refused, req, order, canary, probe, ring, pids, sensor, seen,
                reported>>

\* The request by which the sensor posts; it is used again and again.
SensorSlot == <<"sensor">>

NoPids == [pid \in {} |-> NoRun]

Alive(p) == p \in Canaries => canary[p].stage \in Started

\* A process does what the kernel program traces; the buffer may be full.
KernelSees(p, d) ==
  /\ seen < MaxKernelEvents /\ Alive(p)
  /\ seen' = seen + 1
  /\ ring' = IF Len(ring) = RingSize \/ sensor = "down" THEN ring
             ELSE Append(ring, [pid |-> HostPid[p], by |-> p, dimension |-> d, at |-> seen])
  /\ UNCHANGED <<req, canary, probe, pids, sensor, reported>> /\ Quiet

Reports(m, pid) == /\ mem.sessions[m].status = "collecting"
                   /\ \E e \in ToSet(mem.sessions[m].truth) : e.pid = pid

\* The map a look-up may use: the one at hand, if it is not old or the fetch
\* fails; an empty one, if the answer is cut off; or that of the sessions now.
\* (Of several sessions that report one pid the oldest wins; here, any.)
Maps ==
  LET told == {pid \in {OwnPid[p] : p \in Processes} : \E m \in Markers : Reports(m, pid)}
  IN  {pids, NoPids} \cup {f \in [told -> Markers] : \A pid \in told : Reports(f[pid], pid)}

KernelTruth(e, m) ==
  [id |-> <<m, "kernel", e.at>>, marker |-> m, cluster |-> Cluster, dimension |-> e.dimension,
   success |-> TRUE, occurredAt |-> 0, pid |-> e.pid, by |-> e.by]

\* Mutant: an unknown pid goes to some collecting session.
ResolveAny(map, pid) ==
  IF pid \in DOMAIN map THEN {map[pid]}
  ELSE {m \in Markers : mem.sessions[m].status = "collecting"}

Resolve(map, pid) == IF pid \in DOMAIN map THEN {map[pid]} ELSE {}

Reads ==
  /\ sensor = "reading" /\ ring # <<>>
  /\ ring' = Tail(ring)
  /\ \E map \in Maps :
       /\ pids' = map
       /\ \/ /\ Resolve(map, Head(ring).pid) = {}
             /\ UNCHANGED <<sensor, req>> /\ Quiet
          \/ \E m \in Resolve(map, Head(ring).pid) :
               /\ StartTruth(SensorSlot, <<KernelTruth(Head(ring), m)>>)
               /\ sensor' = "posting"
  /\ UNCHANGED <<canary, probe, seen, reported>>

Again == req' = [req EXCEPT ![SensorSlot] = NewRequest] /\ Quiet

Posted ==
  /\ sensor = "posting" /\ At(SensorSlot, "replied")
  /\ sensor' = "reading" /\ Again
  /\ UNCHANGED <<canary, probe, ring, pids, seen, reported>>

\* A post is answered with an error or not at all, or the pod is stopped: the
\* sensor ends, with map and buffer.
SensorEnds ==
  /\ sensor # "down"
  /\ sensor' = "down" /\ pids' = NoPids /\ ring' = <<>>
  /\ UNCHANGED <<req, canary, probe, seen, reported>> /\ Quiet

Restarts ==
  /\ sensor = "down" /\ req[SensorSlot].stage \in Final \cup {"new"}
  /\ sensor' = "reading" /\ Again
  /\ UNCHANGED <<canary, probe, ring, pids, seen, reported>>

\* Only the sensor gives ids of this form.
FromKernel(e) == Len(e.id) = 3

PidsReported(st) ==
  UNION {{<<m, e.pid>> : e \in {f \in ToSet(st.sessions[m].truth) : ~FromKernel(f)}} :
           m \in Markers}

Remember == reported' = reported \cup PidsReported(mem')

\* The server acts, and nothing else does.
Apart == UNCHANGED <<canary, probe, ring, pids, sensor, seen>> /\ Remember

----------------------------------------------------------------------------
(* The constants.  A truth event is of some process, under the pid it      *)
(* knows itself by or the one the kernel knows; only the sensor posts the  *)
(* kernel's.                                                               *)

ASSUME SensorAssumption ==
  /\ Requests = Others \cup Slots \cup {SensorSlot} /\ SensorSlot \notin Others \cup Slots
  /\ \A p \in Processes, d \in KernelDimensions, n \in 0..MaxKernelEvents - 1, m \in Markers :
       KernelTruth([pid |-> HostPid[p], by |-> p, dimension |-> d, at |-> n], m) \in Truths
  /\ \A e \in Truths : e.by \in Processes /\ e.pid \in {OwnPid[e.by], HostPid[e.by]}
  /\ \A events \in ProbeResults \cup TruthBatches : \A i \in DOMAIN events :
       ~FromKernel(events[i])
  /\ MaxKernelEvents \in Nat /\ RingSize \in Nat \ {0}

----------------------------------------------------------------------------
WorldInit == /\ CanaryInit /\ ring = <<>> /\ pids = NoPids
             /\ sensor = "reading" /\ seen = 0 /\ reported = {}

WorldNext ==
  \/ ServerStep /\ Apart
  \/ /\ \E c \in Canaries : CanaryStep(c) \/ GivesUp(c) \/ \E spec \in Specs : Launch(c, spec)
     /\ UNCHANGED sensorVars
  \/ \E p \in Processes, d \in KernelDimensions : KernelSees(p, d)
  \/ Reads \/ Posted \/ SensorEnds \/ Restarts

\* As in Server; a canary that neither hangs nor is stopped goes on.
WorldSpec ==
  /\ WorldInit /\ [][WorldNext]_worldVars
  /\ \A h \in Requests : WF_worldVars(Proceed(h) /\ Apart)
  /\ \A c \in Canaries : WF_worldVars(UNCHANGED sensorVars /\ CanaryStep(c))

----------------------------------------------------------------------------
(* Properties.                                                             *)

\* Kernel truth of a session carries a pid that truth from elsewhere had reported for
\* that very session: however old, lost or cut off the sensor's map, whichever
\* sessions end or begin, saves fail and processes die meanwhile, no event of the
\* kernel goes to a session that never named its pid.
\* contextslo-sensor/main.go:36-88.
KernelTruthIsReported ==
  \A st \in Both, m \in Markers : \A e \in ToSet(st.sessions[m].truth) :
    FromKernel(e) => <<m, e.pid>> \in reported

\* README.md:129: the sensor "associates kernel PIDs with active canary
\* sessions": kernel truth of a session was caused by a process that reported
\* truth for that session itself.  contextslo-sensor/main.go:73-82.
KernelTruthIsReporters ==
  \A m \in Markers : \A e \in ToSet(mem.sessions[m].truth) :
    FromKernel(e) => \E f \in ToSet(mem.sessions[m].truth) : ~FromKernel(f) /\ f.by = e.by
=============================================================================
