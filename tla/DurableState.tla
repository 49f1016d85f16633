---------------------------- MODULE DurableState ----------------------------
(***************************************************************************)
(* What the persistence layer promises to everything above it.  A caller   *)
(* hands over a new state; the change becomes visible in memory when the   *)
(* call returns; a call that returns success has made the new state the    *)
(* only one any crash can bring back; a call that returns an error has not *)
(* touched the file; and a crash during a call brings back either the old  *)
(* or the new state, whole.                                                *)
(*                                                                         *)
(* StateFile.tla, the write/sync/rename protocol of saveLocked, implements *)
(* this module.                                                            *)
(***************************************************************************)
CONSTANTS Values,     \* the states the store may be in
          InitValue,  \* the state a first start writes
          NoCall      \* not a state

VARIABLES mem,      \* what readers see
          disk,     \* what a restart of the process finds
          durable,  \* what a loss of power may leave
          pending,  \* the state being saved, or NoCall
          landed    \* it has become what a restart finds

vars == <<mem, disk, durable, pending, landed>>

Init ==
  /\ mem = InitValue /\ disk = InitValue /\ durable = {InitValue}
  /\ pending = NoCall /\ landed = FALSE

NoLongerPending == pending' = NoCall /\ landed' = FALSE

Call(v) ==
  /\ pending = NoCall
  /\ pending' = v /\ landed' = FALSE
  /\ UNCHANGED <<mem, disk, durable>>

Land ==
  /\ pending # NoCall /\ ~landed
  /\ disk' = pending /\ durable' = durable \cup {pending} /\ landed' = TRUE
  /\ UNCHANGED <<mem, pending>>

ReplyOk ==
  /\ pending # NoCall /\ landed
  /\ mem' = pending /\ durable' = {disk} /\ NoLongerPending
  /\ UNCHANGED disk

ReplyError ==
  /\ pending # NoCall /\ ~landed
  /\ mem' = pending /\ NoLongerPending
  /\ UNCHANGED <<disk, durable>>

\* The process dies and comes back.
Kill ==
  /\ mem' = disk /\ NoLongerPending
  /\ UNCHANGED <<disk, durable>>

\* The machine dies and comes back.
PowerLoss ==
  /\ disk' \in durable /\ durable' = {disk'} /\ mem' = disk'
  /\ NoLongerPending

Next ==
  \/ \E v \in Values : Call(v)
  \/ Land \/ ReplyOk \/ ReplyError \/ Kill \/ PowerLoss

Spec == Init /\ [][Next]_vars
============================================================================
