------------------------------- MODULE Probe -------------------------------
(***************************************************************************)
(* The canary's actions, internal/probe/runner.go: Run carries them out    *)
(* one after the other and reports each as one event, whatever became of   *)
(* it.  All are one step but the network action, a loopback connection     *)
(* between Run and a goroutine of its own that accepts it; Run waits for   *)
(* that goroutine whether or not there is a connection to accept.          *)
(***************************************************************************)
EXTENDS Integers, Sequences

CONSTANTS
  Probers,
  Actions,    \* the dimensions acted on, in order; eight in the code
  MayFail,    \* those whose action may fail
  NeverWorks  \* those that have no endpoint configured

\* at: the current action, 0 before Run and past the last one after; done: the
\* outcomes so far; dial and peer: the two ends of the loopback connection.
VARIABLE probe

NotProbing == [at |-> 0, done |-> <<>>, dial |-> "none", peer |-> "none"]

Probing(p)  == probe[p].at \in DOMAIN Actions
Finished(p) == probe[p].at > Len(Actions)
Begin(p)    == probe' = [probe EXCEPT ![p] = [NotProbing EXCEPT !.at = 1]]
Stop(p)     == probe' = [probe EXCEPT ![p] = NotProbing]

\* add: the outcome of the current action is recorded and the next one begins.
Add(p, ok) ==
  probe' = [probe EXCEPT ![p] =
              [NotProbing EXCEPT !.at = probe[p].at + 1,
                 !.done = Append(probe[p].done,
                            [dimension |-> Actions[probe[p].at], success |-> ok])]]

Fails(d) == d \in MayFail

\* An action whose endpoint is not configured is reported as failed.
Callable(d) == d \notin NeverWorks

Outcomes(d) == {ok \in BOOLEAN : IF ok THEN Callable(d) ELSE Fails(d) \/ ~Callable(d)}

Act(p) ==
  /\ Probing(p) /\ Actions[probe[p].at] # "network"
  /\ \E ok \in Outcomes(Actions[probe[p].at]) : Add(p, ok)

----------------------------------------------------------------------------
(* The network action.                                                     *)

Connecting(p, dial) ==
  Probing(p) /\ Actions[probe[p].at] = "network" /\ probe[p].dial = dial

Ends(p, dial, peer) == probe' = [probe EXCEPT ![p].dial = dial, ![p].peer = peer]

Listen(p) ==
  /\ Connecting(p, "none")
  /\ \/ Ends(p, "dialing", "accepting")
     \/ Fails("network") /\ Add(p, FALSE)

\* A dial that fails may have reached the listener or not.
Dial(p) ==
  /\ Connecting(p, "dialing")
  /\ \/ Ends(p, "dialled", "connected")
     \/ Fails("network") /\ \E peer \in {"accepting", "connected"} : Ends(p, "failed", peer)

\* Run writes the marker and closes its end.
Write(p) ==
  /\ Connecting(p, "dialled")
  /\ \/ Ends(p, "written", probe[p].peer)
     \/ Fails("network") /\ Ends(p, "failed", probe[p].peer)

\* The goroutine reads until the other end is closed.
Accept(p) ==
  /\ Connecting(p, "written") \/ Connecting(p, "failed")
  /\ probe[p].peer = "connected"
  /\ \/ Ends(p, probe[p].dial, "read")
     \/ Fails("network") /\ Ends(p, probe[p].dial, "broken")

Join(p) ==
  /\ Probing(p) /\ probe[p].peer \in {"read", "broken"}
  /\ Add(p, probe[p].dial = "written" /\ probe[p].peer = "read")

\* Nothing will ever arrive at the listener, which is closed after the join.
Hung(p) == Probing(p) /\ probe[p].dial = "failed" /\ probe[p].peer = "accepting"

ProbeStep(p) == Act(p) \/ Listen(p) \/ Dial(p) \/ Write(p) \/ Accept(p) \/ Join(p)
=============================================================================
