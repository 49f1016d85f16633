------------------------------ MODULE MC_Store ------------------------------
(***************************************************************************)
(* Two sessions, a history of two runs, a window of two observations: small*)
(* enough to fill and overflow.  The number of observations accepted, which*)
(* nothing in the store bounds, is capped by MaxAccepted in the guard.     *)
(***************************************************************************)
EXTENDS Store

CONSTANTS m1, m2, MaxAccepted

SmallClusters == {"", "prod"}

SmallTruths ==
  {[id |-> 1, marker |-> m1, cluster |-> "prod"],
   [id |-> 2, marker |-> m1, cluster |-> ""]}

\* The ids of observations are shared by all sessions.
SmallObservations ==
  {[id |-> 1, marker |-> m1, cluster |-> "prod"],
   [id |-> 1, marker |-> m2, cluster |-> "prod"],
   [id |-> 2, marker |-> m1, cluster |-> ""],
   [id |-> 3, marker |-> m2, cluster |-> ""]}

SmallRuns == {[id |-> m1], [id |-> m2], [id |-> "demo"]}

OneSeed == <<[id |-> "demo"]>>

Accepted(st) == st.clusters["prod"].observations + st.clusters["unknown"].observations

\* The calls, each with the outcomes its save may have.
BoundedAddObservation(e) == Accepted(mem) < MaxAccepted /\ DoAddObservation(e)

\* The first session is in either cluster, the second in the one without a name.
BoundedCreateSession(m, cluster, slo) ==
  (m = m2 => cluster = "") /\ DoCreateSession(m, cluster, slo)

MCNext ==
  \/ \E slo \in SLOs : DoUpdateSLO(slo)
  \/ \E run \in DemoRuns : DoAddRun(run)
  \/ \E m \in Markers, cluster \in Clusters, slo \in SLOs : BoundedCreateSession(m, cluster, slo)
  \/ \E e \in Truths : DoAddTruth(e)
  \/ \E e \in Observations : BoundedAddObservation(e)
  \/ \E m \in Markers : \E run \in RunsOf(m) : DoCompleteSession(m, run)
  \/ Dies

\* Nothing the store does, nor a property of this run, depends on acked and refused.
StatesOnly == <<mem, disk>>

MCSpec == StoreInit /\ [][MCNext]_storeVars
=============================================================================
