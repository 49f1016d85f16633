------------------------------ MODULE Operator ------------------------------
(***************************************************************************)
(* The controller of internal/operator/operator.go.  One loop lists the    *)
(* SecurityContextSLOs and, for each, reports the state of its latest      *)
(* canary Job and creates a new Job when the SLO's interval has passed.    *)
(* When it did so last it remembers in memory only.                        *)
(*                                                                         *)
(* Time passes in ticks, and only ages are kept: a tick is the second that *)
(* a Job's name carries.  The cluster runs the Jobs, removes the finished  *)
(* ones and answers the calls; a call may fail, or take effect although    *)
(* its answer is lost.  What a Job runs, and the fields of a status that   *)
(* only repeat the spec or the clock, are left out.                        *)
(***************************************************************************)
EXTENDS Integers, Sequences, FiniteSets, Functions

CONSTANTS
  Items,      \* the SLOs in the order in which the cluster lists them
  BaseName,   \* what the name of an SLO's Jobs begins with, the same for
              \* SLOs of one name in several namespaces
  CutNames,   \* the base names so long that the name keeps nothing of the second
  Interval,   \* what parseDuration makes of each SLO's annotation
  TTL,        \* ttlSecondsAfterFinished
  JobTime,    \* bound: a Job ends within this time of its creation
  CallTime,   \* the time-out of the client's calls
  MaxFaults   \* bound: restarts, and calls that fail or whose answer is lost

SLOs == Range(Items)

ASSUME OperatorAssumption ==
  /\ Items \in Seq(SLOs) /\ IsInjective(Items)
  /\ SLOs \subseteq DOMAIN BaseName
  /\ Interval \in [SLOs -> Nat \ {0}]
  /\ TTL \in Nat \ {0} /\ JobTime \in Nat \ {0} /\ CallTime \in Nat /\ MaxFaults \in Nat

VARIABLES
  since,   \* time since c.last, no more than the interval
  jobs,    \* the Jobs in the cluster
  status,  \* the status of each SLO
  ctl,     \* the loop: where it is, the SLOs still to do, what it has in hand
  faults   \* how many faults may still happen

vars == <<since, jobs, status, ctl, faults>>

Phases == {"Scheduled", "Running", "Succeeded", "Failed"}
Ended  == {"Succeeded", "Failed"}

Ages == 0..CallTime + JobTime + TTL

\* A Job is known by its stamp, the time since the second of its name; its age
\* counts from its creation.  mine: created since the controller started.
Job == [slo : SLOs, stamp : Ages, age : Ages, phase : Phases, rest : 0..TTL,
        mine : BOOLEAN]

\* A status names the stamps of its Jobs; NoJob stands for those that are gone.
NoJob  == -1
Status == [phase : Phases \cup {"none"}, lastJob : Ages \cup {NoJob},
           completed : Ages \cup {NoJob}]

NoStatus == [phase |-> "none", lastJob |-> NoJob, completed |-> NoJob]
Idle     == [pc |-> "idle", todo |-> <<>>, found |-> NoStatus, stamp |-> 0]

\* No time in c.last is long ago.
Init ==
  /\ since = Interval
  /\ jobs = {}
  /\ status = [s \in SLOs |-> NoStatus]
  /\ ctl = Idle
  /\ faults = MaxFaults

This == Head(ctl.todo)

NextItem == [ctl EXCEPT !.todo = Tail(@), !.stamp = 0,
                        !.pc = IF Len(ctl.todo) > 1 THEN "refresh" ELSE "idle"]

----------------------------------------------------------------------------
(* The loop.                                                               *)

\* Nothing comes of a list without SLOs.
List ==
  /\ ctl.pc = "idle" /\ Items # <<>>
  /\ ctl' = [ctl EXCEPT !.pc = "refresh", !.todo = Items]
  /\ UNCHANGED <<since, jobs, status, faults>>

\* Mutant: no phase for a Job whose pod has not started.
PhaseOrEmpty(job) == IF job.phase = "Scheduled" THEN "" ELSE job.phase

\* The phase that the counters of a Job's status stand for.
PhaseOf(job) == job.phase

OfSLO(all, s) == {job \in all : job.slo = s}
JobsOf(s) == OfSLO(jobs, s)

\* The Jobs of which none was created later; the list's order decides.
LatestOf(found) == {job \in found : \A other \in found : job.age <= other.age}

\* Mutant: every ended Job has a completion time.
ReportOfEnded(old, job) ==
  [phase |-> PhaseOf(job), lastJob |-> job.stamp,
   completed |-> IF job.phase \in Ended THEN job.stamp ELSE old.completed]

\* A merge patch: only a Job that succeeded has a completion time, and what the
\* patch does not name stays.
Report(old, job) ==
  [phase |-> PhaseOf(job), lastJob |-> job.stamp,
   completed |-> IF job.phase = "Succeeded" THEN job.stamp ELSE old.completed]

\* refreshStatus reads the Jobs; the patch follows in a call of its own.
Refresh ==
  /\ ctl.pc = "refresh"
  /\ IF JobsOf(This) = {}
     THEN ctl' = [ctl EXCEPT !.pc = "due"]
     ELSE \E job \in LatestOf(JobsOf(This)) :
            ctl' = [ctl EXCEPT !.pc = "report", !.found = Report(status[This], job)]
  /\ UNCHANGED <<since, jobs, status, faults>>

PatchReport ==
  /\ ctl.pc = "report"
  /\ status' = [status EXCEPT ![This] = ctl.found]
  /\ ctl' = [ctl EXCEPT !.pc = "due", !.found = NoStatus]
  /\ UNCHANGED <<since, jobs, faults>>

\* Mutant: c.last is set whether the SLO is due or not.
DueSetAlways ==
  /\ ctl.pc = "due"
  /\ ctl' = IF since[This] >= Interval[This]
            THEN [ctl EXCEPT !.pc = "create", !.stamp = 0] ELSE NextItem
  /\ since' = [since EXCEPT ![This] = 0]
  /\ UNCHANGED <<jobs, status, faults>>

\* Mutant: c.last is left to be set when the Job was created.
DueUnset ==
  /\ ctl.pc = "due"
  /\ ctl' = IF since[This] >= Interval[This]
            THEN [ctl EXCEPT !.pc = "create", !.stamp = 0] ELSE NextItem
  /\ UNCHANGED <<since, jobs, status, faults>>

\* An SLO that is due has c.last set before its Job is created.
Due ==
  /\ ctl.pc = "due"
  /\ IF since[This] >= Interval[This]
     THEN /\ since' = [since EXCEPT ![This] = 0]
          /\ ctl' = [ctl EXCEPT !.pc = "create", !.stamp = 0]
     ELSE ctl' = NextItem /\ UNCHANGED since
  /\ UNCHANGED <<jobs, status, faults>>

\* Names begin with the SLO's name and end with the second, unless cut off.
SameName(job) ==
  /\ BaseName[job.slo] = BaseName[This]
  /\ BaseName[This] \in CutNames \/ job.stamp = ctl.stamp

NameTaken == \E job \in jobs : SameName(job)

NewJob == [slo |-> This, stamp |-> ctl.stamp, age |-> 0, phase |-> "Scheduled",
           rest |-> 0, mine |-> TRUE]

\* createJob: the cluster refuses a name that is taken.
Create ==
  /\ ctl.pc = "create"
  /\ IF NameTaken
     THEN ctl' = NextItem /\ UNCHANGED jobs
     ELSE jobs' = jobs \cup {NewJob} /\ ctl' = [ctl EXCEPT !.pc = "patch", !.stamp = 0]
  /\ UNCHANGED <<since, status, faults>>

PatchScheduled ==
  /\ ctl.pc = "patch"
  /\ status' = [status EXCEPT ![This].phase = "Scheduled"]
  /\ ctl' = NextItem
  /\ UNCHANGED <<since, jobs, faults>>

----------------------------------------------------------------------------
(* Faults.                                                                 *)

Fault == faults > 0 /\ faults' = faults - 1

\* What the loop does after a call that returned an error.
AfterError ==
  CASE ctl.pc = "idle" -> ctl
    [] ctl.pc \in {"refresh", "report"} -> [ctl EXCEPT !.pc = "due", !.found = NoStatus]
    [] ctl.pc \in {"create", "patch"} -> NextItem

CallFails ==
  /\ Fault /\ ctl.pc # "due"
  /\ ctl' = AfterError
  /\ UNCHANGED <<since, jobs, status>>

\* The Job was created, but the answer did not arrive in time.  Lost answers to
\* patches make no difference.
CreateAnswerLost ==
  /\ Fault /\ ctl.pc = "create" /\ ~NameTaken
  /\ jobs' = jobs \cup {NewJob}
  /\ ctl' = AfterError
  /\ UNCHANGED <<since, status>>

Restart ==
  /\ Fault
  /\ since' = Interval
  /\ ctl' = Idle
  /\ jobs' = {[job EXCEPT !.mine = FALSE] : job \in jobs}
  /\ UNCHANGED status

----------------------------------------------------------------------------
(* The cluster.                                                            *)

Become(job, phase) ==
  /\ jobs' = (jobs \ {job}) \cup {[job EXCEPT !.phase = phase]}
  /\ UNCHANGED <<since, status, ctl, faults>>

JobStarts == \E job \in jobs : job.phase = "Scheduled" /\ Become(job, "Running")

JobEnds == \E job \in jobs, phase \in Ended : job.phase \notin Ended /\ Become(job, phase)

\* Finished Jobs are removed when their time to live has passed.
Aged(job) == [job EXCEPT !.stamp = @ + 1, !.age = @ + 1,
                         !.rest = IF job.phase \in Ended THEN @ + 1 ELSE @]

\* The names in a status, against the Jobs that remain.
AgedStatus(st, left) ==
  LET Later(name) == IF \E job \in left : job.stamp = name + 1 THEN name + 1 ELSE NoJob
  IN  [st EXCEPT !.lastJob = Later(@), !.completed = Later(@)]

Tick ==
  /\ \A job \in jobs : job.phase \in Ended \/ job.age < JobTime
  /\ ctl.pc = "create" => ctl.stamp < CallTime
  /\ since' = [s \in SLOs |-> IF since[s] < Interval[s] THEN since[s] + 1 ELSE since[s]]
  /\ jobs' = {Aged(job) : job \in {j \in jobs : j.phase \in Ended => j.rest < TTL}}
  /\ status' = [s \in SLOs |-> AgedStatus(status[s], OfSLO(jobs', s))]
  /\ ctl' = [ctl EXCEPT !.found = IF ctl.pc = "report" THEN AgedStatus(@, OfSLO(jobs', This)) ELSE @,
                        !.stamp = IF ctl.pc = "create" THEN @ + 1 ELSE @]
  /\ UNCHANGED faults

----------------------------------------------------------------------------
Loop == List \/ Refresh \/ PatchReport \/ Due \/ Create \/ PatchScheduled

Next == Loop \/ CallFails \/ CreateAnswerLost \/ Restart \/ JobStarts \/ JobEnds \/ Tick

\* The loop goes on, time passes, and Jobs end: calls have a time-out, and so has
\* everything a canary does.
Spec == Init /\ [][Next]_vars /\ WF_vars(Loop) /\ WF_vars(Tick) /\ WF_vars(JobEnds)

----------------------------------------------------------------------------
(* Properties.                                                             *)

OperatorTypeOK ==
  /\ since \in [SLOs -> Nat] /\ \A s \in SLOs : since[s] <= Interval[s]
  /\ jobs \subseteq Job
  /\ status \in [SLOs -> Status]
  /\ ctl \in [pc : {"idle", "refresh", "report", "due", "create", "patch"},
              todo : {SubSeq(Items, i, Len(Items)) : i \in 1..Len(Items) + 1},
              found : Status, stamp : 0..CallTime]
  /\ faults \in 0..MaxFaults

\* Lost answers, failed calls and refused names never double a validation: the
\* Jobs that one run of the controller creates for an SLO are an interval apart.
\* After a restart the first one may come at any time.  operator.go:134-147.
JobsSpaced ==
  \A job, other \in jobs :
    job.slo = other.slo /\ job.mine /\ other.mine /\ job # other =>
      job.stamp - other.stamp \notin -Interval[job.slo] + 1 .. Interval[job.slo] - 1

\* What an SLO's status says of its last Job is what became of that Job, although
\* it is written in a later call than the Job was read in, another call changes
\* only a part of it, and either may fail.  operator.go:148-150, 165-184.
StatusMatchesJob ==
  \A s \in SLOs :
    LET st == status[s]
    IN  /\ st.phase = "Succeeded" => st.completed = st.lastJob
        /\ st.phase = "Failed" /\ st.lastJob # NoJob => st.completed # st.lastJob
        /\ \A job \in JobsOf(s) :
             /\ st.lastJob = job.stamp /\ st.phase \in Ended => job.phase = st.phase
             /\ st.completed = job.stamp => job.phase = "Succeeded"

\* Once faults have ceased, every SLO is validated again and again.
\* docs/demo.md:31: "the operator automates allocation, Job execution, collection,
\* and correlation from each `SecurityContextSLO` resource."  It holds as long as
\* no two SLOs have one BaseName: one name in two namespaces, or long names that
\* begin alike.
ValidatedForever == \A s \in SLOs : []<>(\E job \in JobsOf(s) : job.age = 0)
=============================================================================
