--------------------------- MODULE OperatorProofs ---------------------------
(***************************************************************************)
(* Theorems of Operator.tla, for every list of SLOs, all names, intervals, *)
(* times and numbers of faults.                                            *)
(***************************************************************************)
EXTENDS Operator, SequenceTheorems, TLAPS

----------------------------------------------------------------------------
(* Types.  The bounds on ages and stamps follow from the bounds on the     *)
(* times: a Job that has not ended is young, and one that has is removed.  *)

Bounded(job) ==
  /\ job.stamp <= CallTime + job.age /\ job.age <= JobTime + job.rest
  /\ job.phase \notin Ended => job.rest = 0

Control == [pc : {"idle", "refresh", "report", "due", "create", "patch"},
            todo : {SubSeq(Items, i, Len(Items)) : i \in 1..Len(Items) + 1},
            found : Status, stamp : 0..CallTime]

TypeInv ==
  /\ OperatorTypeOK
  /\ \A job \in jobs : Bounded(job)
  /\ ctl.pc # "idle" => ctl.todo # <<>>

\* What is still to do, and what is left of it after one item.
LEMMA TodoForm ==
  ASSUME NEW todo \in {SubSeq(Items, i, Len(Items)) : i \in 1..Len(Items) + 1},
         todo # <<>>
  PROVE  /\ Head(todo) \in SLOs
         /\ Tail(todo) \in {SubSeq(Items, i, Len(Items)) : i \in 1..Len(Items) + 1}
         /\ Len(todo) > 1 => Tail(todo) # <<>>
<1>1. Items \in Seq(SLOs) /\ Len(Items) \in Nat
  BY OperatorAssumption
<1>2. PICK i \in 1..Len(Items) + 1 : todo = SubSeq(Items, i, Len(Items))
  OBVIOUS
<1>3. i <= Len(Items)
  BY <1>1, <1>2, SubSeqEmpty
<1>4. todo \in Seq(SLOs) /\ Len(todo) = Len(Items) - i + 1
  BY <1>1, <1>2, <1>3
<1>5. Head(todo) \in SLOs
  BY <1>4
<1>9. Len(todo) > 1 => Tail(todo) # <<>>
  <2>1. Len(Tail(todo)) = Len(todo) - 1
    BY <1>4
  <2>2. Len(todo) > 1 => Len(Tail(todo)) # 0
    BY <2>1, <1>4, <1>1
  <2>3. QED
    BY <2>2
<1>6. Tail(todo) = SubSeq(Items, i + 1, Len(Items))
  BY <1>1, <1>2, <1>3
<1>7. i + 1 \in 1..Len(Items) + 1
  BY <1>1, <1>3
<1>8. QED
  BY <1>5, <1>6, <1>7, <1>9

LEMMA ItemsAreTodo ==
  Items \in {SubSeq(Items, i, Len(Items)) : i \in 1..Len(Items) + 1}
<1>1. Items \in Seq(SLOs) /\ Len(Items) \in Nat
  BY OperatorAssumption
<1>2. Items = SubSeq(Items, 1, Len(Items)) /\ 1 \in 1..Len(Items) + 1
  BY <1>1, SubSeqFull
<1>3. QED
  BY <1>2

LEMMA NothingIsTodo ==
  <<>> \in {SubSeq(Items, i, Len(Items)) : i \in 1..Len(Items) + 1}
<1>1. Items \in Seq(SLOs) /\ Len(Items) \in Nat
  BY OperatorAssumption
<1>2. <<>> = SubSeq(Items, Len(Items) + 1, Len(Items)) /\ Len(Items) + 1 \in 1..Len(Items) + 1
  BY <1>1, SubSeqEmpty
<1>3. QED
  BY <1>2

LEMMA NumbersType ==
  /\ CallTime \in Nat /\ JobTime \in Nat /\ TTL \in Nat /\ MaxFaults \in Nat
  /\ \A s \in SLOs : Interval[s] \in Nat \ {0}
BY OperatorAssumption

LEMMA NextItemForm ==
  ASSUME ctl \in Control, ctl.todo # <<>>
  PROVE  /\ NextItem \in Control
         /\ NextItem.pc \in {"idle", "refresh"} /\ NextItem.found = ctl.found
         /\ NextItem.pc # "idle" => NextItem.todo # <<>>
<1> DEFINE rest == Tail(ctl.todo)
           pc == IF Len(ctl.todo) > 1 THEN "refresh" ELSE "idle"
<1>1. /\ rest \in {SubSeq(Items, i, Len(Items)) : i \in 1..Len(Items) + 1}
      /\ Len(ctl.todo) > 1 => rest # <<>>
  BY TodoForm DEF Control
<1>2. NextItem = [ctl EXCEPT !.todo = rest, !.stamp = 0, !.pc = pc]
  BY DEF NextItem, Control
<1>3. pc \in {"idle", "refresh"} /\ (pc # "idle" => rest # <<>>)
  BY <1>1
<1>4. 0 \in 0..CallTime
  BY NumbersType
<1> HIDE DEF rest, pc
<1>5. /\ NextItem \in Control /\ NextItem.pc = pc /\ NextItem.todo = rest
      /\ NextItem.found = ctl.found
  BY <1>1, <1>2, <1>3, <1>4 DEF Control
<1>6. QED
  BY <1>3, <1>5

\* A Job as it is created.
LEMMA NewJobForm ==
  ASSUME TypeInv, ctl.pc = "create"
  PROVE  /\ This \in SLOs /\ NewJob \in Job /\ Bounded(NewJob)
         /\ NewJob.slo = This /\ NewJob.stamp = ctl.stamp /\ NewJob.mine
         /\ NewJob.phase = "Scheduled"
<1>1. This \in SLOs
  BY TodoForm DEF TypeInv, OperatorTypeOK, This
<1>2. ctl.stamp \in 0..CallTime
  BY DEF TypeInv, OperatorTypeOK
<1>3. ctl.stamp \in Ages /\ 0 \in Ages /\ 0 \in 0..TTL
  BY <1>2, NumbersType DEF Ages
<1>4. NewJob \in Job
  BY <1>1, <1>3 DEF NewJob, Job, Phases
<1>5. Bounded(NewJob)
  BY <1>2, NumbersType DEF Bounded, NewJob
<1>6. QED
  BY <1>1, <1>4, <1>5 DEF NewJob

\* A Job that starts or ends.
LEMMA BecomeForm ==
  ASSUME NEW job \in Job, Bounded(job), job.phase \notin Ended,
         NEW phase \in Phases, NEW new, new = [job EXCEPT !.phase = phase]
  PROVE  /\ new \in Job /\ Bounded(new)
         /\ new.slo = job.slo /\ new.stamp = job.stamp /\ new.mine = job.mine
         /\ new.phase = phase
BY DEF Job, Bounded

LEMMA RestartedForm ==
  ASSUME NEW job \in Job, Bounded(job), NEW new, new = [job EXCEPT !.mine = FALSE]
  PROVE  /\ new \in Job /\ Bounded(new)
         /\ new.slo = job.slo /\ new.stamp = job.stamp /\ new.mine = FALSE
         /\ new.phase = job.phase
BY DEF Job, Bounded

\* A Job that a tick leaves.
LEMMA AgedForm ==
  ASSUME NEW job \in Job, Bounded(job),
         job.phase \in Ended \/ job.age < JobTime, job.phase \in Ended => job.rest < TTL,
         NEW new, new = Aged(job)
  PROVE  /\ new \in Job /\ Bounded(new)
         /\ new.slo = job.slo /\ new.stamp = job.stamp + 1 /\ new.mine = job.mine
         /\ new.phase = job.phase
<1> DEFINE rest == IF job.phase \in Ended THEN job.rest + 1 ELSE job.rest
<1>1. new = [job EXCEPT !.stamp = job.stamp + 1, !.age = job.age + 1, !.rest = rest]
  BY DEF Aged, Job
<1>2. /\ job.stamp \in Nat /\ job.age \in Nat /\ job.rest \in Nat
      /\ job.stamp <= CallTime + job.age /\ job.age <= JobTime + job.rest
      /\ job.rest <= TTL /\ (job.phase \notin Ended => job.rest = 0)
  BY NumbersType DEF Job, Ages, Bounded
<1>3. /\ rest \in 0..TTL /\ job.age + 1 <= JobTime + rest
      /\ (job.phase \notin Ended => rest = 0)
  BY <1>2, NumbersType
<1>4. job.stamp + 1 \in Ages /\ job.age + 1 \in Ages
  BY <1>2, <1>3, NumbersType DEF Ages
<1>5. job.stamp + 1 <= CallTime + (job.age + 1)
  BY <1>2, NumbersType
<1> HIDE DEF rest
<1>6. /\ new \in Job /\ new.slo = job.slo /\ new.stamp = job.stamp + 1
      /\ new.age = job.age + 1 /\ new.rest = rest /\ new.mine = job.mine
      /\ new.phase = job.phase
  BY <1>1, <1>3, <1>4 DEF Job
<1>7. QED
  BY <1>3, <1>5, <1>6 DEF Bounded

\* What a name in a status is after a tick.
Later(name, left) == IF \E job \in left : job.stamp = name + 1 THEN name + 1 ELSE NoJob

LEMMA AgedStatusForm ==
  ASSUME NEW st \in Status, NEW left \in SUBSET Job, NEW new, new = AgedStatus(st, left)
  PROVE  /\ new \in Status /\ new.phase = st.phase
         /\ new.lastJob = Later(st.lastJob, left)
         /\ new.completed = Later(st.completed, left)
<1> DEFINE last == Later(st.lastJob, left)
           done == Later(st.completed, left)
<1>1. new = [st EXCEPT !.lastJob = last, !.completed = done]
  BY DEF AgedStatus, Later, Status
<1>2. last \in Ages \cup {NoJob} /\ done \in Ages \cup {NoJob}
  BY DEF Later, Job
<1> HIDE DEF last, done
<1>3. /\ new \in Status /\ new.phase = st.phase
      /\ new.lastJob = last /\ new.completed = done
  BY <1>1, <1>2 DEF Status
<1>4. QED
  BY <1>3 DEF last, done

LEMMA ReportForm ==
  ASSUME NEW old \in Status, NEW job \in Job, NEW new, new = Report(old, job)
  PROVE  /\ new \in Status /\ new.phase = job.phase /\ new.lastJob = job.stamp
         /\ new.completed = IF job.phase = "Succeeded" THEN job.stamp ELSE old.completed
<1> DEFINE done == IF job.phase = "Succeeded" THEN job.stamp ELSE old.completed
<1>1. new = [phase |-> job.phase, lastJob |-> job.stamp, completed |-> done]
  BY DEF Report, PhaseOf
<1>2. done \in Ages \cup {NoJob} /\ job.phase \in Phases /\ job.stamp \in Ages
  BY DEF Job, Status
<1> HIDE DEF done
<1>3. /\ new \in Status /\ new.phase = job.phase /\ new.lastJob = job.stamp
      /\ new.completed = done
  BY <1>1, <1>2 DEF Status
<1>4. QED
  BY <1>3 DEF done

LEMMA NoStatusType == NoStatus \in Status
BY DEF NoStatus, Status

LEMMA IdleType == Idle \in Control
<1>1. 0 \in 0..CallTime
  BY NumbersType
<1>2. QED
  BY <1>1, NothingIsTodo, NoStatusType DEF Idle, Control

\* The parts of the type invariant.
LEMMA TypeFacts ==
  ASSUME TypeInv
  PROVE  /\ since \in [SLOs -> Nat] /\ \A s \in SLOs : since[s] <= Interval[s]
         /\ jobs \in SUBSET Job /\ \A job \in jobs : job \in Job /\ Bounded(job)
         /\ status \in [SLOs -> Status] /\ ctl \in Control /\ ctl.found \in Status
         /\ ctl.stamp \in 0..CallTime
         /\ ctl.pc # "idle" => ctl.todo # <<>> /\ This \in SLOs
<1>1. /\ since \in [SLOs -> Nat] /\ \A s \in SLOs : since[s] <= Interval[s]
      /\ jobs \in SUBSET Job /\ \A job \in jobs : job \in Job /\ Bounded(job)
      /\ status \in [SLOs -> Status] /\ ctl \in Control
      /\ ctl.pc # "idle" => ctl.todo # <<>>
  BY DEF TypeInv, OperatorTypeOK, Control
<1>2. ctl.found \in Status /\ ctl.stamp \in 0..CallTime
  BY <1>1 DEF Control
<1>3. ctl.pc # "idle" => This \in SLOs
  BY <1>1, TodoForm DEF Control, This
<1>4. QED
  BY <1>1, <1>2, <1>3

\* The loop after a call that failed.
LEMMA AfterErrorForm ==
  ASSUME TypeInv, ctl.pc # "due"
  PROVE  /\ AfterError \in Control
         /\ AfterError.pc # "idle" => AfterError.todo # <<>>
         /\ AfterError.pc \in {"idle", "refresh", "due"}
<1>1. ctl \in Control /\ (ctl.pc # "idle" => ctl.todo # <<>>)
  BY TypeFacts
<1>2. CASE ctl.pc = "idle"
  BY <1>1, <1>2 DEF AfterError
<1>3. CASE ctl.pc \in {"refresh", "report"}
  <2>1. AfterError = [ctl EXCEPT !.pc = "due", !.found = NoStatus]
    BY <1>3 DEF AfterError
  <2>2. QED
    BY <1>1, <1>3, <2>1, NoStatusType DEF Control
<1>4. CASE ctl.pc \in {"create", "patch"}
  <2>1. AfterError = NextItem
    BY <1>4 DEF AfterError
  <2>2. QED
    BY <1>1, <1>4, <2>1, NextItemForm
<1>5. ctl.pc \in {"idle", "refresh", "report", "due", "create", "patch"}
  BY <1>1 DEF Control
<1>6. QED
  BY <1>2, <1>3, <1>4, <1>5

\* A step keeps the types when each of its parts does.
LEMMA TypeFromParts ==
  ASSUME since' \in [SLOs -> Nat], \A s \in SLOs : since'[s] <= Interval[s],
         \A job \in jobs' : job \in Job /\ Bounded(job),
         status' \in [SLOs -> Status], ctl' \in Control,
         ctl'.pc # "idle" => ctl'.todo # <<>>, faults' \in 0..MaxFaults
  PROVE  TypeInv'
<1>1. OperatorTypeOK'
  BY DEF OperatorTypeOK, Control
<1>2. (\A job \in jobs : Bounded(job))'
  BY DEF Bounded
<1>3. QED
  BY <1>1, <1>2 DEF TypeInv

\* What a step does to the Jobs.
LEMMA CreatedJobs ==
  ASSUME TypeInv, ctl.pc = "create", jobs' = jobs \cup {NewJob}
  PROVE  \A job \in jobs' : job \in Job /\ Bounded(job)
BY TypeFacts, NewJobForm

LEMMA BecomeJobs ==
  ASSUME TypeInv, NEW job \in jobs, job.phase \notin Ended, NEW phase \in Phases,
         Become(job, phase)
  PROVE  \A new \in jobs' :
           /\ new \in Job /\ Bounded(new)
           /\ \/ new \in jobs /\ new # job
              \/ /\ new = [job EXCEPT !.phase = phase] /\ new.phase = phase
                 /\ new.slo = job.slo /\ new.stamp = job.stamp /\ new.mine = job.mine
<1>1. TAKE new \in jobs'
<1>2. CASE new \in jobs \ {job}
  BY <1>2, TypeFacts
<1>3. CASE new = [job EXCEPT !.phase = phase]
  BY <1>3, BecomeForm, TypeFacts
<1>4. QED
  BY <1>2, <1>3 DEF Become

LEMMA RestartJobs ==
  ASSUME TypeInv, Restart
  PROVE  \A new \in jobs' :
           /\ new \in Job /\ Bounded(new) /\ new.mine = FALSE
           /\ \E job \in jobs : /\ new = [job EXCEPT !.mine = FALSE]
                                /\ new.slo = job.slo /\ new.stamp = job.stamp
                                /\ new.phase = job.phase
<1>1. TAKE new \in jobs'
<1>2. PICK job \in jobs : new = [job EXCEPT !.mine = FALSE]
  BY DEF Restart
<1>3. job \in Job /\ Bounded(job)
  BY TypeFacts
<1>4. QED
  BY <1>2, <1>3, RestartedForm

LEMMA TickJobs ==
  ASSUME TypeInv, Tick
  PROVE  \A new \in jobs' :
           /\ new \in Job /\ Bounded(new)
           /\ \E job \in jobs : /\ new = Aged(job) /\ new.phase = job.phase
                                /\ new.slo = job.slo /\ new.stamp = job.stamp + 1
                                /\ new.mine = job.mine
<1>1. TAKE new \in jobs'
<1>2. PICK job \in jobs : new = Aged(job) /\ (job.phase \in Ended => job.rest < TTL)
  BY DEF Tick
<1>3. /\ job \in Job /\ Bounded(job)
      /\ job.phase \in Ended \/ job.age < JobTime
  BY TypeFacts DEF Tick
<1>4. QED
  BY <1>2, <1>3, AgedForm

LEMMA TickControl ==
  ASSUME TypeInv, Tick
  PROVE  /\ ctl' \in Control /\ ctl'.pc = ctl.pc /\ ctl'.todo = ctl.todo
         /\ ctl'.stamp = IF ctl.pc = "create" THEN ctl.stamp + 1 ELSE ctl.stamp
         /\ ctl'.found = IF ctl.pc = "report" THEN AgedStatus(ctl.found, OfSLO(jobs', This))
                         ELSE ctl.found
<1> DEFINE found == IF ctl.pc = "report" THEN AgedStatus(ctl.found, OfSLO(jobs', This))
                    ELSE ctl.found
           stamp == IF ctl.pc = "create" THEN ctl.stamp + 1 ELSE ctl.stamp
<1>1. ctl \in Control /\ ctl.found \in Status /\ ctl.stamp \in 0..CallTime
  BY TypeFacts
<1>2. ctl' = [ctl EXCEPT !.found = found, !.stamp = stamp]
  BY <1>1 DEF Tick, Control
<1>3. OfSLO(jobs', This) \in SUBSET Job
  BY TickJobs DEF OfSLO
<1>4. found \in Status
  BY <1>1, <1>3, AgedStatusForm
<1>5. stamp \in 0..CallTime
  BY <1>1, NumbersType DEF Tick
<1> HIDE DEF found, stamp
<1>6. /\ ctl' \in Control /\ ctl'.pc = ctl.pc /\ ctl'.todo = ctl.todo
      /\ ctl'.stamp = stamp /\ ctl'.found = found
  BY <1>1, <1>2, <1>4, <1>5 DEF Control
<1>7. QED
  BY <1>6 DEF found, stamp

LEMMA TickStatus ==
  ASSUME TypeInv, Tick
  PROVE  /\ status' \in [SLOs -> Status]
         /\ \A s \in SLOs : /\ status'[s] = AgedStatus(status[s], OfSLO(jobs', s))
                            /\ OfSLO(jobs', s) \in SUBSET Job
<1>1. \A s \in SLOs : OfSLO(jobs', s) \in SUBSET Job
  BY TickJobs DEF OfSLO
<1>2. \A s \in SLOs : AgedStatus(status[s], OfSLO(jobs', s)) \in Status
  <2>1. TAKE s \in SLOs
  <2>2. status[s] \in Status
    BY TypeFacts
  <2>3. QED
    BY <1>1, <2>2, AgedStatusForm
<1>3. status' = [s \in SLOs |-> AgedStatus(status[s], OfSLO(jobs', s))]
  BY DEF Tick
<1>4. QED
  BY <1>1, <1>2, <1>3

LEMMA InitialTypes ==
  ASSUME Init
  PROVE  TypeInv
<1>1. since \in [SLOs -> Nat] /\ \A s \in SLOs : since[s] <= Interval[s]
  BY OperatorAssumption DEF Init
<1>2. status \in [SLOs -> Status]
  BY NoStatusType DEF Init
<1>3. ctl \in Control /\ ctl.pc = "idle"
  BY IdleType DEF Init, Idle
<1>4. faults \in 0..MaxFaults
  BY NumbersType DEF Init
<1>5. QED
  BY <1>1, <1>2, <1>3, <1>4 DEF Init, TypeInv, OperatorTypeOK, Control

LEMMA TypesKept ==
  ASSUME TypeInv, [Next]_vars
  PROVE  TypeInv'
<1> USE DEF Loop
<1>1. /\ since \in [SLOs -> Nat] /\ \A s \in SLOs : since[s] <= Interval[s]
      /\ \A job \in jobs : job \in Job /\ Bounded(job)
      /\ status \in [SLOs -> Status] /\ ctl \in Control /\ ctl.found \in Status
      /\ ctl.pc # "idle" => ctl.todo # <<>> /\ This \in SLOs
  BY TypeFacts
<1>2. 0 \in 0..CallTime /\ faults \in 0..MaxFaults /\ (Fault => faults' \in 0..MaxFaults)
  BY NumbersType DEF TypeInv, OperatorTypeOK, Fault
<1>3. CASE List
  <2>1. ctl' \in Control /\ ctl'.todo # <<>>
    BY <1>1, <1>3, ItemsAreTodo DEF List, Control
  <2>2. QED
    BY <1>1, <1>2, <1>3, <2>1, TypeFromParts DEF List
<1>4. CASE Refresh
  <2>1. ctl' \in Control /\ ctl'.todo # <<>>
    <3>1. CASE ctl' = [ctl EXCEPT !.pc = "due"]
      BY <1>1, <1>4, <3>1 DEF Refresh, Control
    <3>2. ASSUME NEW job \in LatestOf(JobsOf(This)),
                 ctl' = [ctl EXCEPT !.pc = "report", !.found = Report(status[This], job)]
          PROVE  ctl' \in Control /\ ctl'.todo # <<>>
      <4>1. job \in Job /\ status[This] \in Status /\ ctl.todo # <<>>
        BY <1>1, <1>4 DEF LatestOf, JobsOf, OfSLO, Refresh
      <4>2. Report(status[This], job) \in Status
        BY <4>1, ReportForm
      <4>3. QED
        BY <1>1, <3>2, <4>1, <4>2 DEF Control
    <3>3. QED
      BY <1>4, <3>1, <3>2 DEF Refresh
  <2>2. QED
    BY <1>1, <1>2, <1>4, <2>1, TypeFromParts DEF Refresh
<1>5. CASE PatchReport
  <2>1. ctl' \in Control /\ ctl'.todo # <<>>
    BY <1>1, <1>5, NoStatusType DEF PatchReport, Control
  <2>2. status' \in [SLOs -> Status]
    BY <1>1, <1>5 DEF PatchReport
  <2>3. QED
    BY <1>1, <1>2, <1>5, <2>1, <2>2, TypeFromParts DEF PatchReport
<1>6. CASE Due
  <2>1. CASE since[This] >= Interval[This]
    <3>1. ctl' \in Control /\ ctl'.todo # <<>>
      BY <1>1, <1>2, <1>6, <2>1 DEF Due, Control
    <3>2. since' \in [SLOs -> Nat] /\ \A s \in SLOs : since'[s] <= Interval[s]
      BY <1>1, <1>6, <2>1, NumbersType DEF Due
    <3>3. QED
      BY <1>1, <1>2, <1>6, <3>1, <3>2, TypeFromParts DEF Due
  <2>2. CASE ~(since[This] >= Interval[This])
    <3>1. ctl' = NextItem /\ ctl.todo # <<>>
      BY <1>1, <1>6, <2>2 DEF Due
    <3>2. ctl' \in Control /\ (ctl'.pc # "idle" => ctl'.todo # <<>>)
      BY <1>1, <3>1, NextItemForm
    <3>3. QED
      BY <1>1, <1>2, <1>6, <2>2, <3>2, TypeFromParts DEF Due
  <2>3. QED
    BY <2>1, <2>2
<1>7. CASE Create
  <2>1. CASE NameTaken
    <3>1. ctl' \in Control /\ (ctl'.pc # "idle" => ctl'.todo # <<>>)
      BY <1>1, <1>7, <2>1, NextItemForm DEF Create
    <3>2. QED
      BY <1>1, <1>2, <1>7, <2>1, <3>1, TypeFromParts DEF Create
  <2>2. CASE ~NameTaken
    <3>1. ctl' \in Control /\ ctl'.todo # <<>>
      BY <1>1, <1>2, <1>7, <2>2 DEF Create, Control
    <3>2. \A job \in jobs' : job \in Job /\ Bounded(job)
      BY <1>7, <2>2, CreatedJobs DEF Create
    <3>3. QED
      BY <1>1, <1>2, <1>7, <3>1, <3>2, TypeFromParts DEF Create
  <2>3. QED
    BY <2>1, <2>2
<1>8. CASE PatchScheduled
  <2>1. ctl' \in Control /\ (ctl'.pc # "idle" => ctl'.todo # <<>>)
    BY <1>1, <1>8, NextItemForm DEF PatchScheduled
  <2>2. status' \in [SLOs -> Status]
    <3>1. [status[This] EXCEPT !.phase = "Scheduled"] \in Status
      BY <1>1, <1>8 DEF PatchScheduled, Status, Phases
    <3>2. status' = [status EXCEPT ![This] = [status[This] EXCEPT !.phase = "Scheduled"]]
      BY <1>1, <1>8 DEF PatchScheduled
    <3>3. QED
      BY <1>1, <3>1, <3>2
  <2>3. QED
    BY <1>1, <1>2, <1>8, <2>1, <2>2, TypeFromParts DEF PatchScheduled
<1>9. CASE CallFails
  BY <1>1, <1>2, <1>9, AfterErrorForm, TypeFromParts DEF CallFails
<1>10. CASE CreateAnswerLost
  <2>1. \A job \in jobs' : job \in Job /\ Bounded(job)
    BY <1>10, CreatedJobs DEF CreateAnswerLost
  <2>2. QED
    BY <1>1, <1>2, <1>10, <2>1, AfterErrorForm, TypeFromParts DEF CreateAnswerLost
<1>11. CASE Restart
  <2>1. since' \in [SLOs -> Nat] /\ \A s \in SLOs : since'[s] <= Interval[s]
    BY <1>11, OperatorAssumption DEF Restart
  <2>2. ctl' \in Control /\ ctl'.pc = "idle"
    BY <1>11, IdleType DEF Restart, Idle
  <2>3. QED
    BY <1>1, <1>2, <1>11, <2>1, <2>2, RestartJobs, TypeFromParts DEF Restart
<1>12. CASE JobStarts \/ JobEnds
  <2>1. PICK job \in jobs, phase \in Phases : job.phase \notin Ended /\ Become(job, phase)
    BY <1>12 DEF JobStarts, JobEnds, Phases, Ended
  <2>2. \A new \in jobs' : new \in Job /\ Bounded(new)
    BY <2>1, BecomeJobs
  <2>3. QED
    BY <1>1, <1>2, <2>1, <2>2, TypeFromParts DEF Become
<1>13. CASE Tick
  <2>1. since' \in [SLOs -> Nat] /\ \A s \in SLOs : since'[s] <= Interval[s]
    BY <1>1, <1>13, NumbersType DEF Tick
  <2>2. faults' \in 0..MaxFaults
    BY <1>2, <1>13 DEF Tick
  <2>3. ctl' \in Control /\ (ctl'.pc # "idle" => ctl'.todo # <<>>)
    BY <1>1, <1>13, TickControl
  <2>4. QED
    BY <1>13, <2>1, <2>2, <2>3, TickJobs, TickStatus, TypeFromParts
<1>14. CASE UNCHANGED vars
  BY <1>1, <1>2, <1>14, TypeFromParts DEF vars
<1>15. QED
  BY <1>3, <1>4, <1>5, <1>6, <1>7, <1>8, <1>9, <1>10, <1>11, <1>12, <1>13, <1>14 DEF Next

LEMMA AlwaysTyped == Spec => []TypeInv
<1>1. Init => TypeInv
  BY InitialTypes
<1>2. TypeInv /\ [Next]_vars => TypeInv'
  BY TypesKept
<1>3. QED
  BY <1>1, <1>2, PTL DEF Spec

\* Types, with the bounds on how long a Job can be seen: by the bounds on calls
\* and canaries, no Job is older than all of them and its time to live, and what
\* the loop has still to do is a rest of the list.  operator.go:124-185.
THEOREM OperatorTypeCorrect == Spec => []OperatorTypeOK
<1>1. TypeInv => OperatorTypeOK
  BY DEF TypeInv
<1>2. QED
  BY <1>1, AlwaysTyped, PTL

----------------------------------------------------------------------------
(* Jobs are spaced.  Every Job of this run of the controller is at least   *)
(* as old as c.last, for c.last is set before the Job is created; and when *)
(* a Job is about to be created, those of its SLO are an interval older.   *)

Spaced ==
  /\ JobsSpaced
  /\ \A job \in jobs : job.mine => since[job.slo] <= job.stamp
  /\ ctl.pc = "create" =>
       /\ since[This] <= ctl.stamp
       /\ \A job \in jobs : job.slo = This /\ job.mine => ctl.stamp + Interval[This] <= job.stamp

LEMMA InitiallySpaced ==
  ASSUME Init
  PROVE  Spaced
BY DEF Init, Idle, Spaced, JobsSpaced

\* What the spacing needs to know of numbers.
LEMMA SpacedFacts ==
  ASSUME TypeInv
  PROVE  /\ \A s \in SLOs : since[s] \in Nat /\ Interval[s] \in Nat /\ since[s] <= Interval[s]
         /\ \A job \in jobs : job.slo \in SLOs /\ job.stamp \in Nat
         /\ ctl.stamp \in Nat /\ (ctl.pc # "idle" => This \in SLOs)
<1>1. \A s \in SLOs : since[s] \in Nat /\ Interval[s] \in Nat /\ since[s] <= Interval[s]
  BY TypeFacts, NumbersType
<1>2. \A job \in jobs : job.slo \in SLOs /\ job.stamp \in Nat
  BY TypeFacts, NumbersType DEF Job, Ages
<1>3. ctl.stamp \in Nat /\ (ctl.pc # "idle" => This \in SLOs)
  BY TypeFacts, NumbersType
<1>4. QED
  BY <1>1, <1>2, <1>3

\* A Job is created.
LEMMA CreationSpaced ==
  ASSUME TypeInv, Spaced, ctl.pc = "create", jobs' = jobs \cup {NewJob}, since' = since,
         ctl'.pc # "create"
  PROVE  Spaced'
<1>1. /\ This \in SLOs /\ NewJob.slo = This /\ NewJob.stamp = ctl.stamp
  BY NewJobForm
<1>2. /\ \A s \in SLOs : since[s] \in Nat /\ Interval[s] \in Nat
      /\ \A job \in jobs : job.slo \in SLOs /\ job.stamp \in Nat
      /\ ctl.stamp \in Nat
  BY SpacedFacts
<1>3. /\ since[This] <= ctl.stamp
      /\ \A job \in jobs : job.slo = This /\ job.mine => ctl.stamp + Interval[This] <= job.stamp
  BY DEF Spaced
<1>4. JobsSpaced'
  <2>1. SUFFICES ASSUME NEW job \in jobs', NEW other \in jobs', job.slo = other.slo,
                        job.mine, other.mine, job # other
                 PROVE  job.stamp - other.stamp \notin -Interval[job.slo] + 1 .. Interval[job.slo] - 1
    BY DEF JobsSpaced
  <2>2. CASE job \in jobs /\ other \in jobs
    BY <2>1, <2>2 DEF Spaced, JobsSpaced
  <2>3. CASE job \in jobs /\ other = NewJob
    <3>1. ctl.stamp + Interval[This] <= job.stamp
      BY <1>1, <1>3, <2>1, <2>3
    <3>2. QED
      BY <1>1, <1>2, <2>1, <2>3, <3>1
  <2>4. CASE job = NewJob /\ other \in jobs
    <3>1. ctl.stamp + Interval[This] <= other.stamp
      BY <1>1, <1>3, <2>1, <2>4
    <3>2. QED
      BY <1>1, <1>2, <2>1, <2>4, <3>1
  <2>5. QED
    BY <2>1, <2>2, <2>3, <2>4
<1>5. \A job \in jobs' : job.mine => since[job.slo] <= job.stamp
  BY <1>1, <1>3 DEF Spaced
<1>6. QED
  BY <1>4, <1>5 DEF Spaced

\* Nothing is created, and the loop is not about to create.
LEMMA StillSpaced ==
  ASSUME Spaced, UNCHANGED <<jobs, since>>, ctl'.pc # "create"
  PROVE  Spaced'
BY DEF Spaced, JobsSpaced

LEMMA SpacedKept ==
  ASSUME TypeInv, Spaced, [Next]_vars
  PROVE  Spaced'
<1> USE DEF Loop
<1>1. /\ \A s \in SLOs : since[s] \in Nat /\ Interval[s] \in Nat /\ since[s] <= Interval[s]
      /\ \A job \in jobs : job.slo \in SLOs /\ job.stamp \in Nat
      /\ ctl.stamp \in Nat /\ (ctl.pc # "idle" => This \in SLOs)
  BY SpacedFacts
<1>2. ctl \in Control /\ (ctl.pc # "idle" => ctl.todo # <<>>) /\ since \in [SLOs -> Nat]
  BY TypeFacts
<1>3. CASE List
  BY <1>2, <1>3, StillSpaced DEF List, Control
<1>4. CASE Refresh
  BY <1>2, <1>4, StillSpaced DEF Refresh, Control
<1>5. CASE PatchReport
  BY <1>2, <1>5, StillSpaced DEF PatchReport, Control
<1>6. CASE Due
  <2>1. CASE since[This] >= Interval[This]
    <3>1. This \in SLOs
      BY <1>1, <1>6 DEF Due
    <3>2. /\ since' = [since EXCEPT ![This] = 0] /\ jobs' = jobs
          /\ ctl'.stamp = 0 /\ ctl'.todo = ctl.todo
      BY <1>2, <1>6, <2>1 DEF Due, Control
    <3>3. /\ since'[This] = 0 /\ This' = This
          /\ \A s \in SLOs : since'[s] \in Nat /\ since'[s] <= since[s]
      BY <1>1, <1>2, <3>1, <3>2 DEF This
    <3>4. JobsSpaced'
      BY <3>2 DEF Spaced, JobsSpaced
    <3>5. \A job \in jobs' : job.mine => since'[job.slo] <= job.stamp
      <4>1. TAKE job \in jobs'
      <4>2. HAVE job.mine
      <4>3. since[job.slo] <= job.stamp /\ since'[job.slo] <= since[job.slo]
        BY <1>1, <3>2, <3>3, <4>2 DEF Spaced
      <4>4. QED
        BY <1>1, <3>2, <3>3, <4>3
    <3>6. \A job \in jobs : job.slo = This /\ job.mine => 0 + Interval[This] <= job.stamp
      BY <1>1, <2>1, <3>1 DEF Spaced
    <3>7. QED
      BY <3>2, <3>3, <3>4, <3>5, <3>6 DEF Spaced
  <2>2. CASE ~(since[This] >= Interval[This])
    <3>1. ctl' = NextItem /\ ctl.todo # <<>> /\ UNCHANGED <<since, jobs>>
      BY <1>2, <1>6, <2>2 DEF Due
    <3>2. QED
      BY <1>2, <3>1, NextItemForm, StillSpaced
  <2>3. QED
    BY <2>1, <2>2
<1>7. CASE Create
  <2>1. CASE NameTaken
    <3>1. ctl' = NextItem /\ ctl.todo # <<>> /\ UNCHANGED <<since, jobs>>
      BY <1>2, <1>7, <2>1 DEF Create
    <3>2. QED
      BY <1>2, <3>1, NextItemForm, StillSpaced
  <2>2. CASE ~NameTaken
    BY <1>2, <1>7, <2>2, CreationSpaced DEF Create, Control
  <2>3. QED
    BY <2>1, <2>2
<1>8. CASE PatchScheduled
  BY <1>2, <1>8, NextItemForm, StillSpaced DEF PatchScheduled
<1>9. CASE CallFails
  BY <1>9, AfterErrorForm, StillSpaced DEF CallFails
<1>10. CASE CreateAnswerLost
  BY <1>10, AfterErrorForm, CreationSpaced DEF CreateAnswerLost
<1>11. CASE Restart
  BY <1>11, RestartJobs DEF Restart, Idle, Spaced, JobsSpaced
<1>12. CASE JobStarts \/ JobEnds
  <2>1. PICK job \in jobs, phase \in Phases : job.phase \notin Ended /\ Become(job, phase)
    BY <1>12 DEF JobStarts, JobEnds, Phases, Ended
  <2>2. \A new \in jobs' :
          \/ new \in jobs /\ new # job
          \/ /\ new = [job EXCEPT !.phase = phase]
             /\ new.slo = job.slo /\ new.stamp = job.stamp /\ new.mine = job.mine
    BY <2>1, BecomeJobs
  <2>3. since' = since /\ ctl' = ctl /\ This' = This
    BY <2>1 DEF Become, This
  <2>4. JobsSpaced'
    <3>1. SUFFICES ASSUME NEW a \in jobs', NEW b \in jobs', a.slo = b.slo,
                          a.mine, b.mine, a # b
                   PROVE  a.stamp - b.stamp \notin -Interval[a.slo] + 1 .. Interval[a.slo] - 1
      BY DEF JobsSpaced
    <3>2. PICK c \in jobs, d \in jobs :
            /\ c.slo = a.slo /\ c.stamp = a.stamp /\ c.mine = a.mine
            /\ d.slo = b.slo /\ d.stamp = b.stamp /\ d.mine = b.mine /\ c # d
      BY <2>2, <3>1
    <3>3. QED
      BY <3>1, <3>2 DEF Spaced, JobsSpaced
  <2>5. QED
    BY <2>2, <2>3, <2>4 DEF Spaced
<1>13. CASE Tick
  <2>1. \A new \in jobs' :
          \E job \in jobs : /\ new = Aged(job) /\ new.slo = job.slo
                            /\ new.stamp = job.stamp + 1 /\ new.mine = job.mine
    BY <1>13, TickJobs
  <2>2. \A s \in SLOs : since'[s] \in Nat /\ since'[s] <= since[s] + 1
    BY <1>1, <1>13 DEF Tick
  <2>3. /\ ctl'.pc = ctl.pc /\ This' = This
        /\ ctl.pc = "create" => ctl'.stamp = ctl.stamp + 1
    BY <1>13, TickControl DEF This
  <2>4. JobsSpaced'
    <3>1. SUFFICES ASSUME NEW a \in jobs', NEW b \in jobs', a.slo = b.slo,
                          a.mine, b.mine, a # b
                   PROVE  a.stamp - b.stamp \notin -Interval[a.slo] + 1 .. Interval[a.slo] - 1
      BY DEF JobsSpaced
    <3>2. PICK c \in jobs : /\ a = Aged(c) /\ a.slo = c.slo
                            /\ a.stamp = c.stamp + 1 /\ a.mine = c.mine
      BY <2>1
    <3>6. PICK d \in jobs : /\ b = Aged(d) /\ b.slo = d.slo
                            /\ b.stamp = d.stamp + 1 /\ b.mine = d.mine
      BY <2>1
    <3>3. c.stamp - d.stamp \notin -Interval[a.slo] + 1 .. Interval[a.slo] - 1
      BY <3>1, <3>2, <3>6 DEF Spaced, JobsSpaced
    <3>4. a.stamp - b.stamp = c.stamp - d.stamp
      BY <1>1, <3>2, <3>6
    <3>5. QED
      BY <3>3, <3>4
  <2>5. \A new \in jobs' : new.mine => since'[new.slo] <= new.stamp
    <3>1. TAKE new \in jobs'
    <3>2. HAVE new.mine
    <3>3. PICK job \in jobs : /\ new.slo = job.slo /\ new.stamp = job.stamp + 1
                              /\ new.mine = job.mine
      BY <2>1
    <3>4. since[job.slo] <= job.stamp /\ since'[job.slo] <= since[job.slo] + 1
      BY <1>1, <2>2, <3>2, <3>3 DEF Spaced
    <3>5. QED
      BY <1>1, <2>2, <3>3, <3>4
  <2>6. ASSUME ctl.pc = "create"
        PROVE  /\ since'[This] <= ctl.stamp + 1
               /\ \A new \in jobs' : new.slo = This /\ new.mine =>
                    ctl.stamp + 1 + Interval[This] <= new.stamp
    <3>1. This \in SLOs /\ since[This] <= ctl.stamp
      BY <1>1, <2>6 DEF Spaced
    <3>2. since'[This] <= ctl.stamp + 1
      BY <1>1, <2>2, <3>1
    <3>3. ASSUME NEW new \in jobs', new.slo = This, new.mine
          PROVE  ctl.stamp + 1 + Interval[This] <= new.stamp
      <4>1. PICK job \in jobs : /\ new.slo = job.slo /\ new.stamp = job.stamp + 1
                                /\ new.mine = job.mine
        BY <2>1, <3>3
      <4>2. ctl.stamp + Interval[This] <= job.stamp
        BY <2>6, <3>3, <4>1 DEF Spaced
      <4>3. QED
        BY <1>1, <3>1, <4>1, <4>2
    <3>4. QED
      BY <3>2, <3>3
  <2>7. QED
    BY <2>3, <2>4, <2>5, <2>6 DEF Spaced
<1>14. CASE UNCHANGED vars
  BY <1>14 DEF vars, Spaced, JobsSpaced, This
<1>15. QED
  BY <1>3, <1>4, <1>5, <1>6, <1>7, <1>8, <1>9, <1>10, <1>11, <1>12, <1>13, <1>14 DEF Next

\* However calls fail, answers are lost and names are refused, the Jobs that one
\* run of the controller creates for an SLO are an interval apart: c.last is set
\* before the Job is created and whatever becomes of it.  operator.go:134-147.
THEOREM JobsAlwaysSpaced == Spec => []JobsSpaced
<1>1. Init => Spaced
  BY InitiallySpaced
<1>2. TypeInv /\ Spaced /\ [Next]_vars => Spaced'
  BY SpacedKept
<1>3. Spaced => JobsSpaced
  BY DEF Spaced
<1>4. QED
  BY <1>1, <1>2, <1>3, AlwaysTyped, PTL DEF Spec

----------------------------------------------------------------------------
(* A status tells the truth.  It names Jobs that exist, a name stands for  *)
(* one Job of an SLO, and no outcome that a status gives to a Job it names *)
(* is taken back: neither in the status nor in what the loop has in hand.  *)

Distinct == \A job, other \in jobs : job.slo = other.slo /\ job.stamp = other.stamp => job = other

\* What holds of a status, said of these Jobs.
Says(st, found) ==
  /\ st.phase = "Succeeded" => st.completed = st.lastJob
  /\ st.lastJob # NoJob => \E job \in found : job.stamp = st.lastJob
  /\ st.completed # NoJob => \E job \in found : job.stamp = st.completed
  /\ \A job \in found :
       /\ st.lastJob = job.stamp /\ st.phase \in Ended => job.phase = st.phase
       /\ st.completed = job.stamp => job.phase = "Succeeded"

Reported ==
  /\ Distinct
  /\ \A s \in SLOs : Says(status[s], OfSLO(jobs, s))
  /\ ctl.pc = "report" => Says(ctl.found, OfSLO(jobs, This))

LEMMA NothingSaid ==
  ASSUME NEW found, found \subseteq Job
  PROVE  Says(NoStatus, found)
<1>1. \A job \in found : job.stamp # NoJob
  BY NumbersType DEF Job, Ages, NoJob
<1>2. QED
  BY <1>1 DEF Says, NoStatus, Ended

\* What is said of Jobs stays true when a Job joins them under a name of its own.
LEMMA SaidOfMore ==
  ASSUME NEW st, NEW found, Says(st, found), NEW new, new.stamp # NoJob,
         \A job \in found : job.stamp # new.stamp
  PROVE  Says(st, found \cup {new})
BY DEF Says

\* It stays true when the same names stand for Jobs that ended the same.
LEMMA SaidOfLater ==
  ASSUME NEW st, NEW found, Says(st, found), NEW left,
         \A job \in found : \E new \in left : new.stamp = job.stamp,
         \A new \in left : \E job \in found :
           new.stamp = job.stamp /\ (job.phase \in Ended => new.phase = job.phase)
  PROVE  Says(st, left)
BY DEF Says, Ended

\* It stays true as the Jobs grow older and some of them are removed.
LEMMA SaidOfAged ==
  ASSUME NEW st \in Status, NEW found \in SUBSET Job, Says(st, found),
         NEW left \in SUBSET Job,
         \A new \in left : \E job \in found :
           new.stamp = job.stamp + 1 /\ new.phase = job.phase
  PROVE  Says(AgedStatus(st, left), left)
<1> DEFINE new == AgedStatus(st, left)
<1>1. /\ new.phase = st.phase
      /\ new.lastJob = Later(st.lastJob, left) /\ new.completed = Later(st.completed, left)
  BY AgedStatusForm
<1> HIDE DEF new
<1>2. \A job \in found \cup left : job.stamp \in Nat
  BY NumbersType DEF Job, Ages
<1>3. st.lastJob \in Int /\ st.completed \in Int
  BY NumbersType DEF Status, Ages, NoJob
<1>4. new.phase = "Succeeded" => new.completed = new.lastJob
  BY <1>1 DEF Says
<1>5. /\ new.lastJob # NoJob => \E job \in left : job.stamp = new.lastJob
      /\ new.completed # NoJob => \E job \in left : job.stamp = new.completed
  BY <1>1 DEF Later
<1>6. ASSUME NEW job \in left
      PROVE  /\ new.lastJob = job.stamp /\ new.phase \in Ended => job.phase = new.phase
             /\ new.completed = job.stamp => job.phase = "Succeeded"
  <2>1. PICK old \in found : job.stamp = old.stamp + 1 /\ job.phase = old.phase
    OBVIOUS
  <2>2. old.stamp \in Nat
    BY <1>2
  <2>3. new.lastJob = job.stamp => st.lastJob = old.stamp
    BY <1>1, <1>3, <2>1, <2>2 DEF Later, NoJob
  <2>4. new.completed = job.stamp => st.completed = old.stamp
    BY <1>1, <1>3, <2>1, <2>2 DEF Later, NoJob
  <2>5. QED
    BY <1>1, <2>1, <2>3, <2>4 DEF Says
<1>7. Says(new, left)
  BY <1>4, <1>5, <1>6 DEF Says
<1>8. QED
  BY <1>7 DEF new

\* What a report says is true when it is made.
LEMMA ReportSaysTrue ==
  ASSUME NEW old \in Status, NEW found \in SUBSET Job, Says(old, found),
         NEW job \in found,
         \A a, b \in found : a.stamp = b.stamp => a = b
  PROVE  Says(Report(old, job), found)
<1> DEFINE new == Report(old, job)
<1>1. /\ new.phase = job.phase /\ new.lastJob = job.stamp
      /\ new.completed = IF job.phase = "Succeeded" THEN job.stamp ELSE old.completed
  BY ReportForm
<1> HIDE DEF new
<1>2. Says(new, found)
  BY <1>1 DEF Says
<1>3. QED
  BY <1>2 DEF new

LEMMA ReportedFacts ==
  ASSUME TypeInv, Reported
  PROVE  /\ \A s : OfSLO(jobs, s) \in SUBSET Job
         /\ \A s : \A a, b \in OfSLO(jobs, s) : a.stamp = b.stamp => a = b
         /\ \A job \in jobs : job.stamp # NoJob
<1>1. jobs \in SUBSET Job
  BY TypeFacts
<1>2. \A job \in jobs : job.stamp # NoJob
  BY <1>1, NumbersType DEF Job, Ages, NoJob
<1>3. QED
  BY <1>1, <1>2 DEF OfSLO, Reported, Distinct

\* A Job of a name that was free.
LEMMA CreationReported ==
  ASSUME TypeInv, Reported, ctl.pc = "create", ~NameTaken, jobs' = jobs \cup {NewJob},
         status' = status, ctl'.pc # "report"
  PROVE  Reported'
<1>1. /\ This \in SLOs /\ NewJob \in Job /\ NewJob.slo = This /\ NewJob.stamp = ctl.stamp
  BY NewJobForm
<1>2. NewJob.stamp # NoJob
  BY <1>1, NumbersType DEF Job, Ages, NoJob
<1>3. \A job \in jobs : job.slo = This => job.stamp # NewJob.stamp
  BY <1>1 DEF NameTaken, SameName
<1>4. Distinct'
  BY <1>1, <1>3 DEF Reported, Distinct
<1>5. ASSUME NEW s \in SLOs
      PROVE  Says(status[s], OfSLO(jobs', s))
  <2>1. Says(status[s], OfSLO(jobs, s))
    BY DEF Reported
  <2>2. CASE s = This
    <3>1. OfSLO(jobs', s) = OfSLO(jobs, s) \cup {NewJob}
      BY <1>1, <2>2 DEF OfSLO
    <3>2. \A job \in OfSLO(jobs, s) : job.stamp # NewJob.stamp
      BY <1>3, <2>2 DEF OfSLO
    <3>3. Says(status[s], OfSLO(jobs, s) \cup {NewJob})
      BY <1>2, <2>1, <3>2, SaidOfMore
    <3>4. QED
      BY <3>1, <3>3
  <2>3. CASE s # This
    <3>1. OfSLO(jobs', s) = OfSLO(jobs, s)
      BY <1>1, <2>3 DEF OfSLO
    <3>2. QED
      BY <2>1, <3>1
  <2>4. QED
    BY <2>2, <2>3
<1>6. QED
  BY <1>4, <1>5 DEF Reported

\* The Jobs stay, and the loop has no report in hand.
LEMMA StillReported ==
  ASSUME Reported, UNCHANGED <<jobs, status>>, ctl'.pc # "report"
  PROVE  Reported'
BY DEF Reported, Distinct

LEMMA InitiallyReported ==
  ASSUME Init
  PROVE  Reported
<1>1. \A s \in SLOs : Says(status[s], OfSLO(jobs, s))
  <2>1. TAKE s \in SLOs
  <2>2. status[s] = NoStatus /\ OfSLO(jobs, s) \subseteq Job
    BY DEF Init, OfSLO
  <2>3. QED
    BY <2>2, NothingSaid
<1>2. QED
  BY <1>1 DEF Init, Idle, Reported, Distinct

LEMMA ReportedKept ==
  ASSUME TypeInv, Reported, [Next]_vars
  PROVE  Reported'
<1> USE DEF Loop
<1>1. /\ ctl \in Control /\ (ctl.pc # "idle" => ctl.todo # <<>> /\ This \in SLOs)
      /\ status \in [SLOs -> Status] /\ ctl.found \in Status
  BY TypeFacts
<1>2. /\ \A s : OfSLO(jobs, s) \in SUBSET Job
      /\ \A s : \A a, b \in OfSLO(jobs, s) : a.stamp = b.stamp => a = b
  BY ReportedFacts
<1>3. CASE List
  BY <1>1, <1>3, StillReported DEF List, Control
<1>4. CASE Refresh
  <2>1. CASE ctl' = [ctl EXCEPT !.pc = "due"]
    BY <1>1, <1>4, <2>1, StillReported DEF Refresh, Control
  <2>2. ASSUME NEW job \in LatestOf(JobsOf(This)),
               ctl' = [ctl EXCEPT !.pc = "report", !.found = Report(status[This], job)]
        PROVE  Reported'
    <3>1. job \in OfSLO(jobs, This) /\ This \in SLOs
      BY <1>1, <1>4 DEF LatestOf, JobsOf, Refresh
    <3>2. Says(Report(status[This], job), OfSLO(jobs, This))
      BY <1>1, <1>2, <3>1, ReportSaysTrue DEF Reported
    <3>3. ctl'.found = Report(status[This], job) /\ ctl'.todo = ctl.todo
      BY <1>1, <2>2 DEF Control
    <3>4. This' = This /\ jobs' = jobs /\ status' = status
      BY <1>4, <3>3 DEF This, Refresh
    <3>5. QED
      BY <3>2, <3>3, <3>4 DEF Reported, Distinct
  <2>3. QED
    BY <1>4, <2>1, <2>2 DEF Refresh
<1>5. CASE PatchReport
  <2>1. /\ status' = [status EXCEPT ![This] = ctl.found] /\ jobs' = jobs
        /\ ctl'.pc = "due" /\ This \in SLOs
    BY <1>1, <1>5 DEF PatchReport, Control
  <2>2. Says(ctl.found, OfSLO(jobs, This))
    BY <1>5 DEF Reported, PatchReport
  <2>3. \A s \in SLOs : Says(status'[s], OfSLO(jobs, s))
    BY <1>1, <2>1, <2>2 DEF Reported
  <2>4. QED
    BY <2>1, <2>3 DEF Reported, Distinct
<1>6. CASE Due
  <2>1. CASE since[This] >= Interval[This]
    BY <1>1, <1>6, <2>1, StillReported DEF Due, Control
  <2>2. CASE ~(since[This] >= Interval[This])
    BY <1>1, <1>6, <2>2, NextItemForm, StillReported DEF Due
  <2>3. QED
    BY <2>1, <2>2
<1>7. CASE Create
  <2>1. CASE NameTaken
    BY <1>1, <1>7, <2>1, NextItemForm, StillReported DEF Create
  <2>2. CASE ~NameTaken
    BY <1>1, <1>7, <2>2, CreationReported DEF Create, Control
  <2>3. QED
    BY <2>1, <2>2
<1>8. CASE PatchScheduled
  <2>1. ctl'.pc # "report" /\ jobs' = jobs /\ This \in SLOs
    BY <1>1, <1>8, NextItemForm DEF PatchScheduled
  <2>2. status' = [status EXCEPT ![This] = [status[This] EXCEPT !.phase = "Scheduled"]]
    BY <1>1, <1>8, <2>1 DEF PatchScheduled
  <2>3. ASSUME NEW s \in SLOs
        PROVE  Says(status'[s], OfSLO(jobs, s))
    <3>1. status[s] \in Status /\ Says(status[s], OfSLO(jobs, s))
      BY <1>1 DEF Reported
    <3>2. CASE s = This
      <4>1. /\ status'[s].phase = "Scheduled" /\ status'[s].lastJob = status[s].lastJob
            /\ status'[s].completed = status[s].completed
        BY <1>1, <2>1, <2>2, <3>1, <3>2 DEF Status
      <4>2. QED
        BY <3>1, <4>1 DEF Says, Ended
    <3>3. CASE s # This
      <4>1. status'[s] = status[s]
        BY <1>1, <2>2, <3>3
      <4>2. QED
        BY <3>1, <4>1
    <3>4. QED
      BY <3>2, <3>3
  <2>4. QED
    BY <2>1, <2>3 DEF Reported, Distinct
<1>9. CASE CallFails
  BY <1>9, AfterErrorForm, StillReported DEF CallFails
<1>10. CASE CreateAnswerLost
  BY <1>10, AfterErrorForm, CreationReported DEF CreateAnswerLost
<1>11. CASE Restart
  <2>1. \A new \in jobs' :
          \E job \in jobs : /\ new = [job EXCEPT !.mine = FALSE] /\ new.phase = job.phase
                            /\ new.slo = job.slo /\ new.stamp = job.stamp
    BY <1>11, RestartJobs
  <2>2. \A job \in jobs : \E new \in jobs' :
          new = [job EXCEPT !.mine = FALSE] /\ new.slo = job.slo /\ new.stamp = job.stamp
    <3>1. TAKE job \in jobs
    <3>2. [job EXCEPT !.mine = FALSE] \in jobs'
      BY <1>11 DEF Restart
    <3>3. job \in Job /\ Bounded(job)
      BY TypeFacts
    <3>4. QED
      BY <3>2, <3>3, RestartedForm
  <2>3. Distinct'
    <3>1. SUFFICES ASSUME NEW a \in jobs', NEW b \in jobs', a.slo = b.slo, a.stamp = b.stamp
                   PROVE  a = b
      BY DEF Distinct
    <3>2. PICK c \in jobs : /\ a = [c EXCEPT !.mine = FALSE]
                            /\ a.slo = c.slo /\ a.stamp = c.stamp
      BY <2>1
    <3>3. PICK d \in jobs : /\ b = [d EXCEPT !.mine = FALSE]
                            /\ b.slo = d.slo /\ b.stamp = d.stamp
      BY <2>1
    <3>4. c = d
      BY <3>1, <3>2, <3>3 DEF Reported, Distinct
    <3>5. QED
      BY <3>2, <3>3, <3>4
  <2>4. ASSUME NEW s \in SLOs
        PROVE  Says(status'[s], OfSLO(jobs', s))
    <3>1. Says(status[s], OfSLO(jobs, s)) /\ status' = status
      BY <1>11 DEF Reported, Restart
    <3>2. /\ \A job \in OfSLO(jobs, s) : \E new \in OfSLO(jobs', s) : new.stamp = job.stamp
          /\ \A new \in OfSLO(jobs', s) : \E job \in OfSLO(jobs, s) :
               new.stamp = job.stamp /\ (job.phase \in Ended => new.phase = job.phase)
      BY <2>1, <2>2 DEF OfSLO
    <3>3. QED
      BY <3>1, <3>2, SaidOfLater
  <2>5. QED
    BY <1>11, <2>3, <2>4 DEF Reported, Restart, Idle
<1>12. CASE JobStarts \/ JobEnds
  <2>1. PICK job \in jobs, phase \in Phases : job.phase \notin Ended /\ Become(job, phase)
    BY <1>12 DEF JobStarts, JobEnds, Phases, Ended
  <2>2. \A new \in jobs' :
          \/ new \in jobs /\ new # job
          \/ /\ new = [job EXCEPT !.phase = phase]
             /\ new.slo = job.slo /\ new.stamp = job.stamp
    BY <2>1, BecomeJobs
  <2>3. PICK became \in jobs' : became.slo = job.slo /\ became.stamp = job.stamp
    <3>1. [job EXCEPT !.phase = phase] \in jobs'
      BY <2>1 DEF Become
    <3>2. job \in Job /\ Bounded(job)
      BY TypeFacts
    <3>3. QED
      BY <2>1, <3>1, <3>2, BecomeForm
  <2>4. Distinct'
    BY <2>2 DEF Reported, Distinct
  <2>5. ASSUME NEW s, NEW st, Says(st, OfSLO(jobs, s))
        PROVE  Says(st, OfSLO(jobs', s))
    <3>1. \A old \in OfSLO(jobs, s) : \E new \in OfSLO(jobs', s) : new.stamp = old.stamp
      BY <2>1, <2>3 DEF OfSLO, Become
    <3>2. \A new \in OfSLO(jobs', s) : \E old \in OfSLO(jobs, s) :
            new.stamp = old.stamp /\ (old.phase \in Ended => new.phase = old.phase)
      BY <2>1, <2>2 DEF OfSLO
    <3>3. QED
      BY <2>5, <3>1, <3>2, SaidOfLater
  <2>6. status' = status /\ ctl' = ctl /\ This' = This
    BY <2>1 DEF Become, This
  <2>7. QED
    BY <2>4, <2>5, <2>6 DEF Reported
<1>13. CASE Tick
  <2>1. \A new \in jobs' :
          /\ new \in Job
          /\ \E job \in jobs : /\ new = Aged(job) /\ new.phase = job.phase
                               /\ new.slo = job.slo /\ new.stamp = job.stamp + 1
    BY <1>13, TickJobs
  <2>2. Distinct'
    <3>1. SUFFICES ASSUME NEW a \in jobs', NEW b \in jobs', a.slo = b.slo, a.stamp = b.stamp
                   PROVE  a = b
      BY DEF Distinct
    <3>2. PICK c \in jobs : a = Aged(c) /\ a.slo = c.slo /\ a.stamp = c.stamp + 1
      BY <2>1
    <3>3. PICK d \in jobs : b = Aged(d) /\ b.slo = d.slo /\ b.stamp = d.stamp + 1
      BY <2>1
    <3>4. c.stamp \in Nat /\ d.stamp \in Nat
      BY SpacedFacts
    <3>5. c = d
      BY <3>1, <3>2, <3>3, <3>4 DEF Reported, Distinct
    <3>6. QED
      BY <3>2, <3>3, <3>5
  <2>3. ASSUME NEW s, NEW st \in Status, Says(st, OfSLO(jobs, s))
        PROVE  Says(AgedStatus(st, OfSLO(jobs', s)), OfSLO(jobs', s))
    <3>1. /\ OfSLO(jobs', s) \in SUBSET Job
          /\ \A new \in OfSLO(jobs', s) : \E job \in OfSLO(jobs, s) :
               new.stamp = job.stamp + 1 /\ new.phase = job.phase
      BY <2>1 DEF OfSLO
    <3>2. QED
      BY <1>2, <2>3, <3>1, SaidOfAged
  <2>4. \A s \in SLOs : Says(status'[s], OfSLO(jobs', s))
    BY <1>1, <1>13, <2>3, TickStatus DEF Reported
  <2>5. /\ ctl'.pc = ctl.pc /\ This' = This
        /\ ctl.pc = "report" => ctl'.found = AgedStatus(ctl.found, OfSLO(jobs', This))
    BY <1>13, TickControl DEF This
  <2>6. ctl.pc = "report" => Says(ctl'.found, OfSLO(jobs', This))
    BY <1>1, <2>3, <2>5 DEF Reported
  <2>7. QED
    BY <2>2, <2>4, <2>5, <2>6 DEF Reported
<1>14. CASE UNCHANGED vars
  BY <1>14 DEF vars, Reported, Distinct, This
<1>15. QED
  BY <1>3, <1>4, <1>5, <1>6, <1>7, <1>8, <1>9, <1>10, <1>11, <1>12, <1>13, <1>14 DEF Next

\* What a status says of its last Job is what became of that Job, whatever calls
\* came between reading the Jobs and writing the status, whichever of them failed,
\* and although the Job may be removed and new ones created: a Job of the SLO has
\* a name of its own, and an outcome is final.  operator.go:148-150, 165-184.
THEOREM StatusAlwaysMatchesJob == Spec => []StatusMatchesJob
<1>1. Init => Reported
  BY InitiallyReported
<1>2. TypeInv /\ Reported /\ [Next]_vars => Reported'
  BY ReportedKept
<1>3. Reported => StatusMatchesJob
  <2>1. SUFFICES ASSUME Reported, NEW s \in SLOs
                 PROVE  LET st == status[s]
                        IN  /\ st.phase = "Succeeded" => st.completed = st.lastJob
                            /\ st.phase = "Failed" /\ st.lastJob # NoJob =>
                                 st.completed # st.lastJob
                            /\ \A job \in JobsOf(s) :
                                 /\ st.lastJob = job.stamp /\ st.phase \in Ended =>
                                      job.phase = st.phase
                                 /\ st.completed = job.stamp => job.phase = "Succeeded"
    BY DEF StatusMatchesJob
  <2>2. Says(status[s], JobsOf(s))
    BY <2>1 DEF Reported, JobsOf
  <2>3. QED
    BY <2>2 DEF Says, Ended
<1>4. QED
  BY <1>1, <1>2, <1>3, AlwaysTyped, PTL DEF Spec
=============================================================================
