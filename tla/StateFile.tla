----------------------------- MODULE StateFile -----------------------------
(***************************************************************************)
(* The save protocol of internal/store/store.go: saveLocked writes the     *)
(* whole state to a temporary file, syncs and closes it, renames it over   *)
(* the state file and syncs the directory; Open reads the file back when   *)
(* the process starts.  Every system call is a step of its own, so that it *)
(* may fail and so that the process or the machine may die around it.      *)
(*                                                                         *)
(* One save runs at a time: every caller holds the store's write lock.     *)
(***************************************************************************)
CONSTANTS Values,         \* the states the store may be in
          InitValue,      \* the state built from the default SLO and the seed runs
          Torn, Absent,   \* file contents: undecodable; no file at all
          NoCall,         \* no save in progress, see DurableState
          DirSyncResults  \* whether opening and syncing the directory works

ASSUME ValuesAssumption ==
  /\ InitValue \in Values
  /\ Torn \notin Values /\ Absent \notin Values /\ Torn # Absent
  /\ NoCall \notin Values
  /\ DirSyncResults \subseteq BOOLEAN /\ TRUE \in DirSyncResults

VARIABLES
  mem,        \* s.state
  before,     \* what readers last saw: s.state when the write lock was taken
  cur,        \* state.json as the running system sees it
  survivors,  \* what state.json may hold after a loss of power
  tmp,        \* state.json.tmp
  failed,     \* saveLocked's err, between the write and the close
  starting,   \* this save is the one Open makes when there is no file
  pc,         \* the next system call, "idle" between saves, "down"
  owed        \* ghost: the last acknowledged state and those tried since

memory == <<mem, before>>
files  == <<cur, survivors, tmp>>
vars   == <<memory, files, failed, starting, pc, owed>>

Contents == Values \cup {Torn, Absent}
File     == [data : Contents, synced : BOOLEAN]
NoFile   == [data |-> Absent, synced |-> TRUE]
Saving   == {"open", "write", "sync", "close", "rename", "dirsync"}

\* What a file may hold once power has been lost: unsynced data may be torn.
AfterPowerLoss(file) ==
  IF file.synced THEN {file.data} ELSE {file.data, Torn}

\* What Open makes of the contents of the state file.
Decoded(data) == IF data = Absent THEN InitValue ELSE data

TypeOK ==
  /\ mem \in Values /\ before \in Values
  /\ cur \in File /\ tmp \in File /\ survivors \in SUBSET Contents
  /\ failed \in BOOLEAN /\ starting \in BOOLEAN
  /\ pc \in Saving \cup {"idle", "down"}
  /\ owed \in SUBSET Values

Init ==
  /\ mem = InitValue /\ before = InitValue
  /\ cur = NoFile /\ tmp = NoFile /\ survivors = {Absent}
  /\ failed = FALSE /\ starting = FALSE /\ pc = "down"
  /\ owed = {InitValue}

----------------------------------------------------------------------------
(* Starting the process.                                                   *)

\* Open: no file, so the initial state is saved before Open returns.
OpenFresh ==
  /\ pc = "down" /\ cur.data = Absent
  /\ mem' = InitValue /\ before' = InitValue
  /\ failed' = FALSE /\ starting' = TRUE /\ pc' = "open"
  /\ UNCHANGED <<files, owed>>

\* Mutant: a missing file is decoded like any other.
OpenUnchecked ==
  /\ pc = "down"
  /\ mem' = cur.data /\ before' = cur.data /\ pc' = "idle"
  /\ UNCHANGED <<files, failed, starting, owed>>

\* Open: the file decodes and becomes the state.  A file that does not decode
\* is an error of Open: the process exits and stays down.
OpenExisting ==
  /\ pc = "down" /\ cur.data \in Values
  /\ mem' = cur.data /\ before' = cur.data /\ pc' = "idle"
  /\ UNCHANGED <<files, failed, starting, owed>>

----------------------------------------------------------------------------
(* One save.                                                               *)

\* An operation takes the write lock, changes the state and calls saveLocked.
Begin(v) ==
  /\ pc = "idle"
  /\ before' = mem /\ mem' = v
  /\ failed' = FALSE /\ pc' = "open"
  /\ owed' = owed \cup {v}
  /\ UNCHANGED <<files, starting>>

\* saveLocked returns an error: the state stays changed, Open gives up.
ReturnError ==
  /\ pc' = IF starting THEN "down" ELSE "idle"
  /\ starting' = FALSE

\* saveLocked returns nil: the operation is acknowledged, or Open succeeds.
ReturnNil ==
  /\ pc' = "idle" /\ starting' = FALSE
  /\ owed' = {mem}

\* MkdirAll, MarshalIndent and OpenFile (O_CREATE|O_TRUNC) of the temporary.
OpenTmp ==
  /\ pc = "open"
  /\ \/ /\ tmp' = [data |-> Torn, synced |-> FALSE]
        /\ pc' = "write" /\ UNCHANGED starting
     \/ ReturnError /\ UNCHANGED tmp
  /\ UNCHANGED <<memory, cur, survivors, failed, owed>>

\* A failed or short write leaves the temporary torn; Sync is then skipped.
Write ==
  /\ pc = "write"
  /\ \/ /\ tmp' = [data |-> mem, synced |-> FALSE]
        /\ pc' = "sync" /\ UNCHANGED failed
     \/ failed' = TRUE /\ pc' = "close" /\ UNCHANGED tmp
  /\ UNCHANGED <<memory, cur, survivors, starting, owed>>

\* Mutant: the file is closed without being synced.
SyncSkipped ==
  /\ pc = "sync" /\ pc' = "close"
  /\ UNCHANGED <<memory, files, failed, starting, owed>>

Sync ==
  /\ pc = "sync" /\ pc' = "close"
  /\ \/ tmp' = [tmp EXCEPT !.synced = TRUE] /\ UNCHANGED failed
     \/ failed' = TRUE /\ UNCHANGED tmp
  /\ UNCHANGED <<memory, cur, survivors, starting, owed>>

\* Mutant: an error of the write or of the sync is forgotten.
CloseForgetsError ==
  /\ pc = "close"
  /\ \/ pc' = "rename" /\ UNCHANGED starting
     \/ ReturnError
  /\ UNCHANGED <<memory, files, failed, owed>>

\* Close always happens; an earlier error or its own ends the save.
Close ==
  /\ pc = "close"
  /\ \/ ~failed /\ pc' = "rename" /\ UNCHANGED starting
     \/ ReturnError
  /\ UNCHANGED <<memory, files, failed, owed>>

\* Until the directory is synced a loss of power may undo the rename.
Rename ==
  /\ pc = "rename"
  /\ \/ /\ cur' = tmp /\ tmp' = NoFile
        /\ survivors' = survivors \cup AfterPowerLoss(tmp)
        /\ pc' = "dirsync" /\ UNCHANGED starting
     \/ ReturnError /\ UNCHANGED files
  /\ UNCHANGED <<memory, failed, owed>>

\* Mutant: success is reported without syncing the directory.
DirSyncSkipped ==
  /\ pc = "dirsync" /\ ReturnNil
  /\ UNCHANGED <<memory, files, failed>>

\* The results of opening and of syncing the directory are discarded.
DirSync ==
  /\ pc = "dirsync" /\ ReturnNil
  /\ \E synced \in DirSyncResults :
       survivors' = IF synced THEN AfterPowerLoss(cur) ELSE survivors
  /\ UNCHANGED <<memory, cur, tmp, failed>>

----------------------------------------------------------------------------
(* Failures.                                                               *)

\* The process dies; the files stay as the system sees them.
Kill ==
  /\ pc \in Saving \cup {"idle"}
  /\ pc' = "down" /\ starting' = FALSE
  /\ UNCHANGED <<memory, files, failed, owed>>

\* The machine dies; each file is found as one of the things it may hold.
PowerLoss ==
  /\ \E data \in survivors :
       cur' = [data |-> data, synced |-> TRUE] /\ survivors' = {data}
  /\ \E data \in AfterPowerLoss(tmp) \cup {Absent} :
       tmp' = [data |-> data, synced |-> TRUE]
  /\ pc' = "down" /\ starting' = FALSE
  /\ UNCHANGED <<memory, failed, owed>>

Next ==
  \/ OpenFresh \/ OpenExisting
  \/ \E v \in Values : Begin(v)
  \/ OpenTmp \/ Write \/ Sync \/ Close \/ Rename \/ DirSync
  \/ Kill \/ PowerLoss

Spec == Init /\ [][Next]_vars

----------------------------------------------------------------------------
(* Properties.                                                             *)

\* However a save is cut short, by an error, a kill or a loss of power, the
\* file a restart reads is complete: never one that Open cannot decode, which
\* would keep the server down for good.  store.go:38-41, 263-282.
AlwaysDecodable == cur.data # Torn /\ Torn \notin survivors

\* Whatever happens, what a restart finds is the last state whose save was
\* acknowledged or one that an operation tried to save after it: an
\* acknowledged change is never lost.  store.go:251-286 with 37-51.
AcknowledgedSurvives ==
  \A data \in survivors \cup {cur.data} : Decoded(data) \in owed

\* What readers and restarts can tell of the detailed state: nobody reads the
\* memory of a process that is saving or down.
AbsDisk    == Decoded(cur.data)
AbsMem     == CASE pc = "idle" -> mem
                [] pc \in Saving -> before
                [] OTHER -> AbsDisk
AbsDurable == {Decoded(data) : data \in survivors}
AbsPending == IF pc \in Saving /\ ~starting THEN mem ELSE NoCall
AbsLanded  == pc = "dirsync" /\ ~starting

Durable == INSTANCE DurableState
  WITH mem <- AbsMem, disk <- AbsDisk, durable <- AbsDurable,
       pending <- AbsPending, landed <- AbsLanded

\* saveLocked with its failures, and Open after a crash, are one call of
\* DurableState: success has made the new state the only one a crash brings
\* back, an error has left the file alone, a crash leaves one of the two.
ImplementsDurableState == Durable!Spec
============================================================================
