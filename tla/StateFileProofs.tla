-------------------------- MODULE StateFileProofs --------------------------
(***************************************************************************)
(* The save protocol keeps its promises, for any set of states: the state  *)
(* file can always be decoded, an acknowledged state is never lost and     *)
(* StateFile implements DurableState, the last two as long as the          *)
(* directory can be synced.                                                *)
(***************************************************************************)
EXTENDS StateFile, TLAPS

----------------------------------------------------------------------------
(* The inductive invariant.                                                *)

Complete == Values \cup {Absent}

\* A save renames a complete, synced copy of memory, or nothing.
TmpReady ==
  /\ pc = "sync" => tmp.data = mem
  /\ pc = "rename" \/ (pc = "close" /\ ~failed) => tmp.data = mem /\ tmp.synced

\* Whatever the state file holds or may hold is complete.
FilesComplete ==
  /\ cur.data \in Complete /\ cur.synced
  /\ survivors \subseteq Complete /\ cur.data \in survivors
  /\ pc = "dirsync" => cur.data = mem

\* The first save of all saves the state that a missing file stands for.
FirstSave ==
  /\ cur.data = Absent => survivors = {Absent}
  /\ starting => /\ pc \in Saving /\ mem = InitValue /\ before = InitValue
                 /\ \A data \in survivors : Decoded(data) = InitValue

FileInv == TypeOK /\ TmpReady /\ FilesComplete /\ FirstSave

\* Memory is a state that is owed, too: it may be renamed into place.
Owing == AcknowledgedSurvives /\ (pc \in Saving \cup {"idle"} => mem \in owed)

----------------------------------------------------------------------------
(* The state file is always complete.                                      *)

LEMMA FileInvInit == Init => FileInv
<1> SUFFICES ASSUME Init PROVE FileInv
  OBVIOUS
<1> USE ValuesAssumption DEF Init, NoFile
<1>1. TypeOK
  BY DEF TypeOK, File, Contents, Saving
<1>2. TmpReady /\ FilesComplete /\ FirstSave
  BY DEF TmpReady, FilesComplete, FirstSave, Complete
<1> QED
  BY <1>1, <1>2 DEF FileInv

\* A record of contents and a flag is a file.
LEMMA FileRecord ==
  ASSUME NEW data \in Contents, NEW synced \in BOOLEAN
  PROVE  [data |-> data, synced |-> synced] \in File
BY DEF File

LEMMA FileInvStep == FileInv /\ [Next]_vars => FileInv'
<1> SUFFICES ASSUME FileInv, [Next]_vars PROVE FileInv'
  OBVIOUS
<1> USE ValuesAssumption DEF FileInv, TypeOK, memory, files
<1>a. InitValue \in Values /\ Torn \in Contents /\ Values \subseteq Contents
  BY DEF Contents
<1>1. CASE OpenFresh
  BY <1>1 DEF OpenFresh, TmpReady, FilesComplete, FirstSave, Decoded, Saving
<1>2. CASE OpenExisting
  BY <1>2 DEF OpenExisting, TmpReady, FilesComplete, FirstSave, Saving
<1>3. CASE \E v \in Values : Begin(v)
  <2>1. PICK v \in Values : Begin(v)
    BY <1>3
  <2>2. ~starting
    BY <2>1 DEF Begin, FirstSave, Saving
  <2>3. TypeOK' /\ TmpReady'
    BY <2>1 DEF Begin, TmpReady, Saving
  <2>4. FilesComplete' /\ FirstSave'
    BY <2>1, <2>2 DEF Begin, FilesComplete, FirstSave
  <2> QED
    BY <2>3, <2>4
<1>4. CASE OpenTmp
  <2>1. tmp' = [data |-> Torn, synced |-> FALSE] \/ tmp' = tmp
    BY <1>4 DEF OpenTmp
  <2>2. tmp' \in File
    BY <1>a, <2>1, FileRecord
  <2>3. \/ pc' = "write" /\ starting' = starting
        \/ pc' \in {"idle", "down"} /\ starting' = FALSE
    BY <1>4 DEF OpenTmp, ReturnError
  <2>4. TypeOK' /\ TmpReady'
    BY <1>4, <2>2, <2>3 DEF OpenTmp, TmpReady, Saving
  <2>5. FilesComplete' /\ FirstSave'
    BY <1>4, <2>3 DEF OpenTmp, FilesComplete, FirstSave, Saving
  <2> QED
    BY <2>4, <2>5
<1>5. CASE Write
  <2>1. \/ tmp' = [data |-> mem, synced |-> FALSE] /\ pc' = "sync"
        \/ tmp' = tmp /\ pc' = "close" /\ failed'
    BY <1>5 DEF Write
  <2>2. tmp' \in File
    BY <1>a, <2>1, FileRecord
  <2>3. pc' = "sync" => tmp'.data = mem
    BY <2>1
  <2>4. TypeOK' /\ TmpReady'
    BY <1>5, <2>1, <2>2, <2>3 DEF Write, TmpReady, Saving
  <2>5. FilesComplete' /\ FirstSave'
    BY <1>5, <2>1 DEF Write, FilesComplete, FirstSave, Saving
  <2> QED
    BY <2>4, <2>5
<1>6. CASE Sync
  <2>1. tmp' \in File
    BY <1>6 DEF Sync, File
  <2>2. ~failed' => tmp'.data = mem /\ tmp'.synced
    BY <1>6 DEF Sync, TmpReady, File
  <2>3. TypeOK' /\ TmpReady'
    BY <1>6, <2>1, <2>2 DEF Sync, TmpReady, Saving
  <2>4. FilesComplete' /\ FirstSave'
    BY <1>6 DEF Sync, FilesComplete, FirstSave, Saving
  <2> QED
    BY <2>3, <2>4
<1>7. CASE Close
  <2>1. \/ ~failed /\ pc' = "rename" /\ starting' = starting
        \/ pc' \in {"idle", "down"} /\ starting' = FALSE
    BY <1>7 DEF Close, ReturnError
  <2>2. TypeOK' /\ TmpReady'
    BY <1>7, <2>1 DEF Close, TmpReady, Saving
  <2>3. FilesComplete' /\ FirstSave'
    BY <1>7, <2>1 DEF Close, FilesComplete, FirstSave, Saving
  <2> QED
    BY <2>2, <2>3
<1>8. CASE Rename
  <2>1. CASE ReturnError /\ UNCHANGED files
    <3>1. pc' \in {"idle", "down"} /\ starting' = FALSE
      BY <2>1 DEF ReturnError
    <3> QED
      BY <1>8, <2>1, <3>1 DEF Rename, TmpReady, FilesComplete, FirstSave, Saving
  <2>2. CASE /\ cur' = tmp /\ tmp' = NoFile
             /\ survivors' = survivors \cup AfterPowerLoss(tmp)
             /\ pc' = "dirsync" /\ UNCHANGED starting
    <3>1. /\ tmp.data = mem /\ tmp.synced /\ AfterPowerLoss(tmp) = {mem}
          /\ UNCHANGED <<memory, failed, owed>>
      BY <1>8 DEF Rename, TmpReady, AfterPowerLoss
    <3>2. NoFile \in File
      BY FileRecord DEF NoFile, Contents
    <3>3. TypeOK' /\ TmpReady'
      BY <1>a, <2>2, <3>1, <3>2 DEF TmpReady, Saving
    <3>4. FilesComplete'
      BY <2>2, <3>1 DEF FilesComplete, Complete
    <3>5. FirstSave'
      BY <2>2, <3>1 DEF FirstSave, Saving, Decoded
    <3> QED
      BY <3>3, <3>4, <3>5
  <2> QED
    BY <1>8, <2>1, <2>2 DEF Rename
<1>9. CASE DirSync
  <2>1. survivors' \in {survivors, {mem}} /\ pc' = "idle" /\ ~starting' /\ cur.data = mem
    BY <1>9 DEF DirSync, ReturnNil, FilesComplete, AfterPowerLoss
  <2> QED
    BY <1>9, <2>1
    DEF DirSync, ReturnNil, TmpReady, FilesComplete, FirstSave, Contents, Complete, Saving
<1>10. CASE Kill
  BY <1>10 DEF Kill, TmpReady, FilesComplete, FirstSave, Saving
<1>11. CASE PowerLoss
  <2>1. PICK data \in survivors :
          cur' = [data |-> data, synced |-> TRUE] /\ survivors' = {data}
    BY <1>11 DEF PowerLoss
  <2>2. cur' \in File /\ cur'.data = data /\ cur'.synced /\ data \in Complete
    BY <2>1, FileRecord DEF FilesComplete
  <2>3. tmp.data \in Contents
    BY DEF File
  <2>4. tmp' \in File
    BY <1>11, <1>a, <2>3, FileRecord DEF PowerLoss, AfterPowerLoss, Contents
  <2> QED
    BY <1>11, <2>1, <2>2, <2>4
    DEF PowerLoss, TmpReady, FilesComplete, FirstSave, Saving, Contents, Complete
<1>12. CASE UNCHANGED vars
  BY <1>12 DEF vars, TmpReady, FilesComplete, FirstSave
<1> QED
  BY <1>1, <1>2, <1>3, <1>4, <1>5, <1>6, <1>7, <1>8, <1>9, <1>10, <1>11, <1>12 DEF Next

LEMMA FileInvAlways == Spec => []FileInv
BY FileInvInit, FileInvStep, PTL DEF Spec

\* The variables of StateFile keep their types.
THEOREM StateFileTypeCorrect == Spec => []TypeOK
<1>1. FileInv => TypeOK
  BY DEF FileInv
<1> QED
  BY <1>1, FileInvAlways, PTL

\* However saves fail and processes and machines die, Open can decode what it
\* finds: saveLocked and Open of store.go, for any set of states.
THEOREM FileAlwaysDecodable == Spec => []AlwaysDecodable
<1>1. FileInv => AlwaysDecodable
  BY ValuesAssumption DEF FileInv, FilesComplete, AlwaysDecodable, Complete
<1> QED
  BY <1>1, FileInvAlways, PTL

----------------------------------------------------------------------------
(* An acknowledged state survives.                                         *)

LEMMA OwingInit == Init => Owing
BY DEF Init, Owing, AcknowledgedSurvives, Decoded, NoFile, Saving

LEMMA OwingStep ==
  ASSUME DirSyncResults = {TRUE}, FileInv, Owing, [Next]_vars
  PROVE  Owing'
<1> USE ValuesAssumption DEF Owing, AcknowledgedSurvives, Saving, memory, files
<1>1. CASE OpenFresh
  BY <1>1 DEF OpenFresh, Decoded
<1>2. CASE OpenExisting
  BY <1>2 DEF OpenExisting, Decoded
<1>3. CASE \E v \in Values : Begin(v)
  BY <1>3 DEF Begin, Decoded
<1>4. CASE OpenTmp
  BY <1>4 DEF OpenTmp, ReturnError, Decoded
<1>5. CASE Write \/ Sync \/ Kill
  BY <1>5 DEF Write, Sync, Kill, Decoded
<1>6. CASE Close
  BY <1>6 DEF Close, ReturnError, Decoded
<1>7. CASE Rename
  <2>1. CASE ReturnError /\ UNCHANGED files
    BY <1>7, <2>1 DEF Rename, ReturnError, Decoded
  <2>2. CASE /\ cur' = tmp /\ tmp' = NoFile
             /\ survivors' = survivors \cup AfterPowerLoss(tmp)
             /\ pc' = "dirsync" /\ UNCHANGED starting
    <3>1. /\ cur'.data = mem /\ survivors' \subseteq survivors \cup {mem}
          /\ mem \in owed /\ owed' = owed /\ mem' = mem /\ mem \in Values
      BY <1>7, <2>2
      DEF Rename, FileInv, TypeOK, TmpReady, AfterPowerLoss
    <3> QED
      BY <3>1 DEF Decoded
  <2> QED
    BY <1>7, <2>1, <2>2 DEF Rename
<1>8. CASE DirSync
  <2>1. /\ survivors' = {mem} /\ cur'.data = mem /\ owed' = {mem} /\ mem' = mem
        /\ mem \in Values
    BY <1>8
    DEF DirSync, ReturnNil, FileInv, TypeOK, FilesComplete, AfterPowerLoss
  <2> QED
    BY <2>1 DEF Decoded
<1>9. CASE PowerLoss
  BY <1>9 DEF PowerLoss, Decoded
<1>10. CASE UNCHANGED vars
  BY <1>10 DEF vars, Decoded
<1> QED
  BY <1>1, <1>2, <1>3, <1>4, <1>5, <1>6, <1>7, <1>8, <1>9, <1>10 DEF Next

\* An acknowledged state is never lost, if the directory can be synced: saveLocked
\* returns nil only when no loss of power can undo the rename.
THEOREM AcknowledgedAlwaysSurvives ==
  ASSUME DirSyncResults = {TRUE}
  PROVE  Spec => []AcknowledgedSurvives
<1>1. Owing => AcknowledgedSurvives
  BY DEF Owing
<1>2. FileInv /\ Owing /\ [Next]_vars => Owing'
  BY OwingStep
<1> QED
  BY <1>1, <1>2, OwingInit, FileInvAlways, PTL DEF Spec
----------------------------------------------------------------------------
(* StateFile implements DurableState.                                      *)

\* No call is in progress.
Idle == AbsPending = NoCall /\ ~AbsLanded

\* What the abstract state is made of between saves, while the process is down,
\* during a save and during the first save of all.
Views ==
  /\ pc = "idle" => AbsMem = mem /\ Idle
  /\ pc = "down" => AbsMem = AbsDisk /\ Idle
  /\ pc \in Saving => AbsMem = before
  /\ pc \in Saving /\ ~starting =>
       AbsPending = mem /\ AbsPending # NoCall /\ AbsLanded = (pc = "dirsync")
  /\ starting => Idle /\ AbsMem = InitValue /\ AbsDisk = InitValue /\ AbsDurable = {InitValue}

LEMMA ViewsHold == FileInv => Views
<1> SUFFICES ASSUME FileInv PROVE Views
  OBVIOUS
<1> USE DEF FileInv, TypeOK, Idle
<1>1. pc = "idle" => AbsMem = mem /\ Idle
  BY DEF AbsMem, AbsPending, AbsLanded, Saving
<1>2. pc = "down" => AbsMem = AbsDisk /\ Idle
  BY DEF AbsMem, AbsPending, AbsLanded, Saving
<1>3. pc \in Saving => AbsMem = before
  BY DEF AbsMem, Saving
<1>4. pc \in Saving /\ ~starting =>
        AbsPending = mem /\ AbsPending # NoCall /\ AbsLanded = (pc = "dirsync")
  BY ValuesAssumption DEF AbsPending, AbsLanded
<1>5. ASSUME starting
      PROVE  Idle /\ AbsMem = InitValue /\ AbsDisk = InitValue /\ AbsDurable = {InitValue}
  <2>1. Idle /\ AbsMem = InitValue
    BY <1>3, <1>5 DEF FirstSave, AbsPending, AbsLanded
  <2>2. AbsDisk = InitValue /\ AbsDurable = {InitValue}
    BY <1>5 DEF FirstSave, FilesComplete, AbsDisk, AbsDurable
  <2> QED
    BY <2>1, <2>2
<1> QED
  BY <1>1, <1>2, <1>3, <1>4, <1>5 DEF Views

LEMMA DurableInit == Init => Durable!Init
<1> SUFFICES ASSUME Init PROVE Durable!Init
  OBVIOUS
<1>1. AbsDisk = InitValue /\ AbsDurable = {InitValue}
  BY DEF Init, NoFile, AbsDisk, AbsDurable, Decoded
<1>2. AbsMem = InitValue /\ AbsPending = NoCall /\ AbsLanded = FALSE
  BY <1>1 DEF Init, AbsMem, AbsPending, AbsLanded, Saving
<1> QED
  BY <1>1, <1>2 DEF Durable!Init

\* An error ends the call, or the first save, without touching the file.
LEMMA ErrorReplies ==
  ASSUME FileInv, Views, Views', pc \in Saving \ {"dirsync"},
         ReturnError, UNCHANGED <<memory, cur, survivors>>
  PROVE  Durable!ReplyError \/ UNCHANGED Durable!vars
<1>1. AbsDisk' = AbsDisk /\ AbsDurable' = AbsDurable
  BY DEF AbsDisk, AbsDurable
<1>2. CASE starting
  <2>1. pc' = "down"
    BY <1>2 DEF ReturnError
  <2>2. AbsMem' = AbsDisk' /\ Idle'
    BY <2>1 DEF Views
  <2>3. Idle /\ AbsMem = AbsDisk
    BY <1>2 DEF Views
  <2> QED
    BY <1>1, <2>2, <2>3 DEF Durable!vars, Idle, AbsLanded
<1>3. CASE ~starting
  <2>1. pc' = "idle" /\ mem' = mem
    BY <1>3 DEF ReturnError, memory
  <2>2. AbsMem' = mem /\ AbsPending' = NoCall /\ AbsLanded' = FALSE
    BY <2>1 DEF Views, Idle, AbsLanded
  <2>3. AbsPending = mem /\ AbsPending # NoCall /\ ~AbsLanded
    BY <1>3 DEF Views
  <2> QED
    BY <1>1, <2>2, <2>3 DEF Durable!ReplyError, Durable!NoLongerPending
<1> QED
  BY <1>2, <1>3

\* A step of a save that leaves the file alone is not seen from outside.
LEMMA HiddenSteps ==
  ASSUME FileInv, UNCHANGED <<memory, cur, survivors, starting>>,
         pc \in Saving \ {"dirsync"}, pc' \in Saving \ {"dirsync"}
  PROVE  UNCHANGED Durable!vars
<1>1. AbsDisk' = AbsDisk /\ AbsDurable' = AbsDurable
  BY DEF AbsDisk, AbsDurable
<1>2. AbsMem' = AbsMem /\ AbsPending' = AbsPending /\ AbsLanded' = AbsLanded
  BY DEF AbsMem, AbsPending, AbsLanded, memory, Saving
<1> QED
  BY <1>1, <1>2 DEF Durable!vars

\* Every step of StateFile is a step or a stutter of DurableState.
LEMMA DurableStep ==
  ASSUME DirSyncResults = {TRUE}, FileInv, Views, Views', [Next]_vars
  PROVE  [Durable!Next]_(Durable!vars)
<1> USE DEF memory, files
<1>a. ReturnError /\ UNCHANGED <<memory, cur, survivors>> /\ pc \in Saving \ {"dirsync"}
        => Durable!ReplyError \/ UNCHANGED Durable!vars
  BY ErrorReplies
<1>b. UNCHANGED <<cur, survivors>> => AbsDisk' = AbsDisk /\ AbsDurable' = AbsDurable
  BY DEF AbsDisk, AbsDurable
<1>1. CASE OpenFresh
  <2>1. pc = "down" /\ starting' /\ AbsDisk = InitValue
    BY <1>1 DEF OpenFresh, AbsDisk, Decoded
  <2>2. AbsMem' = AbsMem /\ Idle /\ Idle' /\ UNCHANGED <<cur, survivors>>
    BY <1>1, <2>1 DEF OpenFresh, Views
  <2> QED
    BY <1>b, <2>2 DEF Durable!vars, Idle, AbsLanded
<1>2. CASE OpenExisting
  <2>1. pc = "down" /\ pc' = "idle" /\ mem' = AbsDisk /\ UNCHANGED <<cur, survivors>>
    BY <1>2, ValuesAssumption DEF OpenExisting, AbsDisk, Decoded
  <2>2. AbsMem' = AbsMem /\ Idle /\ Idle'
    BY <2>1 DEF Views
  <2> QED
    BY <1>b, <2>1, <2>2 DEF Durable!vars, Idle, AbsLanded
<1>3. CASE \E v \in Values : Begin(v)
  <2>1. PICK v \in Values : Begin(v)
    BY <1>3
  <2>2. /\ pc = "idle" /\ pc' = "open" /\ ~starting' /\ UNCHANGED <<cur, survivors>>
        /\ before' = mem /\ mem' = v
    BY <2>1 DEF Begin, FileInv, FirstSave, Saving
  <2>3. AbsMem' = AbsMem /\ AbsPending = NoCall /\ AbsPending' = v /\ AbsLanded' = FALSE
    BY <2>2 DEF Views, Idle, Saving, AbsLanded
  <2>4. Durable!Call(v)
    BY <1>b, <2>2, <2>3 DEF Durable!Call
  <2> QED
    BY <2>4 DEF Durable!Next
<1>4. CASE OpenTmp
  BY <1>4, <1>a, HiddenSteps DEF OpenTmp, Saving, Durable!Next
<1>5. CASE Write
  BY <1>5, HiddenSteps DEF Write, Saving
<1>6. CASE Sync
  BY <1>6, HiddenSteps DEF Sync, Saving
<1>7. CASE Close
  BY <1>7, <1>a, HiddenSteps DEF Close, Saving, Durable!Next
<1>8. CASE Rename
  <2>1. CASE ReturnError /\ UNCHANGED files
    BY <1>8, <1>a, <2>1 DEF Rename, Saving, Durable!Next
  <2>2. CASE /\ cur' = tmp /\ tmp' = NoFile
             /\ survivors' = survivors \cup AfterPowerLoss(tmp)
             /\ pc' = "dirsync" /\ UNCHANGED starting
    <3>1. /\ cur'.data = mem /\ survivors' = survivors \cup {mem} /\ mem \in Values
          /\ UNCHANGED memory /\ pc = "rename"
      BY <1>8, <2>2 DEF Rename, FileInv, TypeOK, TmpReady, AfterPowerLoss
    <3>2. AbsDisk' = mem /\ AbsDurable' = AbsDurable \cup {mem}
      BY <3>1, ValuesAssumption DEF AbsDisk, AbsDurable, Decoded
    <3>3. CASE starting
      BY <2>2, <3>3 DEF Views, Idle, AbsLanded, Durable!vars
    <3>4. CASE ~starting
      <4>1. AbsMem' = AbsMem /\ AbsPending = mem /\ AbsPending # NoCall /\ ~AbsLanded
        BY <2>2, <3>1, <3>4 DEF Views, Saving
      <4>2. AbsPending' = mem /\ AbsLanded' = TRUE
        BY <2>2, <3>1, <3>4 DEF Views, Saving, AbsLanded
      <4>3. Durable!Land
        BY <3>2, <4>1, <4>2 DEF Durable!Land
      <4> QED
        BY <4>3 DEF Durable!Next
    <3> QED
      BY <3>3, <3>4
  <2> QED
    BY <1>8, <2>1, <2>2 DEF Rename
<1>9. CASE DirSync
  <2>1. /\ survivors' = {mem} /\ cur.data = mem /\ cur' = cur /\ mem' = mem /\ mem \in Values
        /\ pc = "dirsync" /\ pc' = "idle" /\ ~starting'
    BY <1>9
    DEF DirSync, ReturnNil, FileInv, TypeOK, FilesComplete, AfterPowerLoss
  <2>2. AbsDisk = mem /\ AbsDisk' = mem /\ AbsDurable' = {mem}
    BY <2>1, ValuesAssumption DEF AbsDisk, AbsDurable, Decoded
  <2>3. AbsMem' = mem /\ AbsPending' = NoCall /\ AbsLanded' = FALSE
    BY <2>1 DEF Views, Idle, AbsLanded
  <2>4. CASE starting
    BY <2>2, <2>3, <2>4 DEF Views, Idle, AbsLanded, Durable!vars
  <2>5. CASE ~starting
    <3>1. AbsPending = mem /\ AbsPending # NoCall /\ AbsLanded
      BY <2>1, <2>5 DEF Views, Saving
    <3>2. Durable!ReplyOk
      BY <2>2, <2>3, <3>1 DEF Durable!ReplyOk, Durable!NoLongerPending
    <3> QED
      BY <3>2 DEF Durable!Next
  <2> QED
    BY <2>4, <2>5
<1>10. CASE Kill
  <2>1. pc' = "down" /\ UNCHANGED <<cur, survivors>>
    BY <1>10 DEF Kill
  <2>2. AbsMem' = AbsDisk /\ AbsPending' = NoCall /\ AbsLanded' = FALSE
    BY <1>b, <2>1 DEF Views, Idle, AbsLanded
  <2>3. Durable!Kill
    BY <1>b, <2>1, <2>2 DEF Durable!Kill, Durable!NoLongerPending
  <2> QED
    BY <2>3 DEF Durable!Next
<1>11. CASE PowerLoss
  <2>1. PICK data \in survivors : cur'.data = data /\ survivors' = {data} /\ pc' = "down"
    BY <1>11 DEF PowerLoss
  <2>2. AbsDisk' \in AbsDurable /\ AbsDurable' = {AbsDisk'}
    BY <2>1 DEF AbsDisk, AbsDurable
  <2>3. AbsMem' = AbsDisk' /\ AbsPending' = NoCall /\ AbsLanded' = FALSE
    BY <2>1 DEF Views, Idle, AbsLanded
  <2>4. Durable!PowerLoss
    BY <2>2, <2>3 DEF Durable!PowerLoss, Durable!NoLongerPending
  <2> QED
    BY <2>4 DEF Durable!Next
<1>12. CASE UNCHANGED vars
  BY <1>12
  DEF vars, AbsMem, AbsDisk, AbsDurable, AbsPending, AbsLanded, Durable!vars
<1> QED
  BY <1>1, <1>2, <1>3, <1>4, <1>5, <1>6, <1>7, <1>8, <1>9, <1>10, <1>11, <1>12 DEF Next

\* saveLocked with its failures, Open and crashes together are the one atomic
\* call of DurableState, if the directory can be synced: every step of a save
\* is invisible or is the step that lands, acknowledges or fails the call.
THEOREM StateFileImplementsDurableState ==
  ASSUME DirSyncResults = {TRUE}
  PROVE  Spec => ImplementsDurableState
<1>1. FileInv /\ Views /\ Views' /\ [Next]_vars => [Durable!Next]_(Durable!vars)
  BY DurableStep
<1> QED
  BY <1>1, DurableInit, FileInvAlways, ViewsHold, PTL DEF Spec, ImplementsDurableState, Durable!Spec
=============================================================================
