--------------------------- MODULE CorrelationProofs ---------------------------
(***************************************************************************)
(* Theorems of Correlation.tla, for every objective, every set of vendors' *)
(* payloads and evidence of any length.  What a payload decodes to and     *)
(* what is stored of it is shown by induction over its records and over    *)
(* the observations of the batch; then each property follows from what the *)
(* engine's operators compute (EngineProofs).                              *)
(***************************************************************************)
EXTENDS Correlation, EngineProofs

----------------------------------------------------------------------------
(* Decoding.                                                               *)

Flat == SUBSET Field

LEMMA ObjectsType ==
  ASSUME NEW list \in Seq(Flat)
  PROVE  Objects(list) \in Seq(Flat)
<1> DEFINE n == Len(list)
           S == Seq(Flat)
           Next1(r, kept) == IF r = NotAnObject THEN kept ELSE Append(kept, r)
           Keeps(f) == f = [i \in 0..n |-> IF i = 0 THEN <<>> ELSE Next1(list[i], f[i - 1])]
           kept == CHOOSE f : Keeps(f)
           step == [p \in (1..n) \X S |-> Next1(list[p[1]], p[2])]
<1>1. n \in Nat /\ <<>> \in S /\ \A i \in 1..n : list[i] \in Flat
  OBVIOUS
<1>2. Steps(n, S, step)
  <2>1. \A p \in (1..n) \X S : Next1(list[p[1]], p[2]) \in S
    <3>1. TAKE p \in (1..n) \X S
    <3>2. list[p[1]] \in Flat /\ p[2] \in S
      BY <1>1
    <3> HIDE DEF Flat
    <3>3. QED
      BY <3>2
  <2> HIDE DEF S, Next1, n
  <2>2. QED
    BY <2>1 DEF Steps
<1>3. PICK f : Iteration(f, n, S, <<>>, step)
  <2> HIDE DEF step, n, S
  <2>1. QED
    BY <1>1, <1>2, Iterates
<1>4. f \in [0..n -> S] /\ f[0] = <<>>
  BY <1>3 DEF Iteration
<1>5. \A i \in 1..n : f[i] = Next1(list[i], f[i - 1])
  <2>1. TAKE i \in 1..n
  <2>2. <<i, f[i - 1]>> \in (1..n) \X S
    <3> HIDE DEF S
    <3>1. QED
      BY <1>1, <1>4
  <2>3. f[i] = step[<<i, f[i - 1]>>]
    BY <1>3 DEF Iteration
  <2> HIDE DEF S, Next1
  <2>4. QED
    BY <2>2, <2>3
<1>6. Keeps(f)
  <2> HIDE DEF S, Next1
  <2>1. QED
    BY <1>1, <1>4, <1>5
<1>7. Keeps(kept)
  BY <1>6, Zenon
<1>8. Objects(list) = kept[n]
  BY Zenon DEF Objects
<1> HIDE DEF kept
<1>9. kept[0] = <<>> /\ \A i \in 1..n : kept[i] = Next1(list[i], kept[i - 1])
  <2> HIDE DEF Next1
  <2>1. QED
    BY <1>1, <1>7
<1> DEFINE T == {k \in 0..n : kept[k] \in S}
<1>10. 0 \in T
  <2> HIDE DEF S, Next1
  <2>1. QED
    BY <1>1, <1>9
<1>11. ASSUME NEW k \in 1..n, k - 1 \in T PROVE k \in T
  <2>1. kept[k - 1] \in S /\ list[k] \in Flat
    BY <1>1, <1>11
  <2>2. Next1(list[k], kept[k - 1]) \in S
    <3> HIDE DEF Flat
    <3>1. QED
      BY <2>1
  <2> HIDE DEF Next1, S
  <2>3. QED
    BY <1>9, <2>2
<1>12. n \in T
  <2> HIDE DEF T, n
  <2>1. 0..n \subseteq T
    BY <1>1, <1>10, <1>11, Induction
  <2>2. QED
    BY <1>1, <2>1
<1>13. QED
  BY <1>8, <1>12

LEMMA RecordsType ==
  ASSUME NEW payload \in Payload
  PROVE  RecordsFor(payload) \in Seq(Flat)
<1> DEFINE full == {i \in DOMAIN payload.lists : Objects(payload.lists[i]) # <<>>}
<1>1. payload.self \in Flat /\ payload.lists \in Seq(Seq(Flat))
  BY DEF Payload, Flat
<1>2. full # {} => Objects(payload.lists[Min(full)]) \in Seq(Flat)
  <2>1. SUFFICES ASSUME full # {} PROVE Objects(payload.lists[Min(full)]) \in Seq(Flat)
    OBVIOUS
  <2>2. full \subseteq DOMAIN payload.lists /\ DOMAIN payload.lists = 1..Len(payload.lists)
    BY <1>1
  <2>3. full \in SUBSET Nat
    BY <2>2
  <2>4. Min(full) \in full
    <3> HIDE DEF full
    <3>1. QED
      BY <2>1, <2>3, LeastIsMin DEF Least
  <2>5. payload.lists[Min(full)] \in Seq(Flat)
    <3> HIDE DEF full, Flat
    <3>1. QED
      BY <1>1, <2>2, <2>4
  <2>6. QED
    BY <2>5, ObjectsType
<1>3. <<payload.self>> \in Seq(Flat) /\ <<>> \in Seq(Flat)
  <2> HIDE DEF Flat
  <2>1. QED
    BY <1>1
<1> HIDE DEF Flat
<1>4. QED
  BY <1>2, <1>3 DEF RecordsFor

LEMMA FirstType ==
  ASSUME NEW flat \in Flat, NEW keys, DOMAIN keys \subseteq Nat
  PROVE  First(flat, keys) \subseteq Texts
<1> DEFINE hit == {i \in DOMAIN keys : Hits(flat, keys[i]) # {}}
<1>1. \A key : Hits(flat, key) \subseteq Texts
  <2>1. \A f \in flat : f.text \in Texts
    BY DEF Flat, Field
  <2>2. QED
    BY <2>1 DEF Hits
<1>2. {""} \subseteq Texts
  BY DEF Texts
<1>3. QED
  BY <1>1, <1>2 DEF First

LEMMA FindMarkerType ==
  ASSUME NEW flat \in Flat
  PROVE  FindMarker(flat) \subseteq Texts
<1>1. \A f \in flat : f.marker \in Texts
  BY DEF Flat, Field
<1>2. MarkersIn(flat) \subseteq Texts
  BY <1>1 DEF MarkersIn
<1>3. MarkersIn({f \in flat : "marker" \in ToSet(f.path)}) \subseteq Texts
  BY <1>1 DEF MarkersIn
<1>4. {""} \subseteq Texts
  BY DEF Texts
<1>5. QED
  BY <1>2, <1>3, <1>4 DEF FindMarker

LEMMA EvidenceType ==
  ASSUME NEW flat \in Flat
  PROVE  Evidence(flat) \subseteq Texts
<1> DEFINE Found(i) == First(flat, <<EvidenceKeys[i]>>)
<1>1. \A key : DOMAIN <<key>> \subseteq Nat
  OBVIOUS
<1>2. \A i : Found(i) \subseteq Texts
  BY <1>1, FirstType
<1> DEFINE evidences == UNION {Found(i) \ {""} :
                          i \in {k \in DOMAIN EvidenceKeys : \A j \in 1..k - 1 : "" \in Found(j)}}
           none == IF \A j \in 1..Len(EvidenceKeys) : "" \in Found(j) THEN {""} ELSE {}
<1>3. Evidence(flat) = evidences \cup none
  <2> HIDE DEF Found
  <2>1. QED
    BY Zenon DEF Evidence, Found
<1>4. evidences \subseteq Texts
  <2> HIDE DEF Found
  <2>1. QED
    BY <1>2
<1>5. none \subseteq Texts
  <2>1. none \subseteq {""}
    <3> HIDE DEF Found
    <3>1. QED
      OBVIOUS
  <2>2. {""} \subseteq Texts
    BY DEF Texts
  <2>3. QED
    BY <2>1, <2>2
<1> HIDE DEF evidences, none
<1>6. QED
  BY <1>3, <1>4, <1>5

LEMMA ReadingType ==
  ASSUME NEW flat \in Flat, NEW reading \in Readings(flat)
  PROVE  /\ reading.marker \in FindMarker(flat) /\ reading.marker \in Texts
         /\ reading.cluster \in Texts /\ reading.explicit \in Texts
         /\ reading.evidence \in Texts
<1>1. /\ reading.marker \in FindMarker(flat)
      /\ reading.cluster \in First(flat, <<<<"cluster">>, <<"cluster_name">>,
                               <<"resource", "attributes", "k8s", "cluster", "name">>,
                               <<"k8s", "cluster", "name">>>>)
      /\ reading.explicit \in First(flat, <<<<"eventID">>, <<"event_id">>, <<"id">>, <<"spanId">>>>)
      /\ reading.evidence \in Evidence(flat)
  BY DEF Readings
<1>2. \A a, b, c, d : DOMAIN <<a, b, c, d>> \subseteq Nat
  OBVIOUS
<1>3. \A a, b, c, d : First(flat, <<a, b, c, d>>) \subseteq Texts
  BY <1>2, FirstType
<1>4. QED
  BY <1>1, <1>3, FindMarkerType, EvidenceType

LEMMA DimensionType ==
  ASSUME NEW adapter, NEW flat, NEW reading
  PROVE  InferDimension(adapter, flat, reading) \in Dimensions
<1> DEFINE Applies(rule) == \/ rule[1] = "mcp" /\ adapter = "mcp"
                            \/ /\ Mentions(flat, rule[2])
                               /\ ~(rule[1] = "kubernetes" /\ adapter = "tetragon")
           applying == {i \in DOMAIN Rules : Applies(Rules[i])}
<1>1. /\ "cloudIdentity" \in Dimensions /\ "process" \in Dimensions /\ "mcp" \in Dimensions
      /\ "dns" \in Dimensions /\ "filesystem" \in Dimensions /\ "network" \in Dimensions
      /\ "api" \in Dimensions /\ "kubernetes" \in Dimensions
  <2>1. DOMAIN DimensionOrder = 1..8
    BY DEF DimensionOrder
  <2>2. \A i \in 1..8 : DimensionOrder[i] \in Dimensions
    BY <2>1 DEF Dimensions, ToSet
  <2>3. /\ DimensionOrder[1] = "process" /\ DimensionOrder[2] = "filesystem"
        /\ DimensionOrder[3] = "network" /\ DimensionOrder[4] = "dns"
        /\ DimensionOrder[5] = "kubernetes" /\ DimensionOrder[6] = "cloudIdentity"
        /\ DimensionOrder[7] = "api" /\ DimensionOrder[8] = "mcp"
    BY DEF DimensionOrder
  <2>4. 1 \in 1..8 /\ 2 \in 1..8 /\ 3 \in 1..8 /\ 4 \in 1..8 /\ 5 \in 1..8 /\ 6 \in 1..8
        /\ 7 \in 1..8 /\ 8 \in 1..8
    OBVIOUS
  <2>5. QED
    BY <2>2, <2>3, <2>4
<1>2. DOMAIN Rules = 1..7 /\ \A i \in 1..7 : Rules[i][1] \in Dimensions
  <2>1. DOMAIN Rules = 1..7
    BY DEF Rules
  <2>2. /\ Rules[1][1] = "mcp" /\ Rules[2][1] = "dns" /\ Rules[3][1] = "filesystem"
        /\ Rules[4][1] = "network" /\ Rules[5][1] = "api" /\ Rules[6][1] = "process"
        /\ Rules[7][1] = "kubernetes"
    BY DEF Rules
  <2>3. \A i \in 1..7 : i = 1 \/ i = 2 \/ i = 3 \/ i = 4 \/ i = 5 \/ i = 6 \/ i = 7
    OBVIOUS
  <2>4. QED
    BY <1>1, <2>1, <2>2, <2>3
<1>3. applying # {} => Rules[Min(applying)][1] \in Dimensions
  <2>1. applying \subseteq 1..7 /\ applying \in SUBSET Nat
    BY <1>2
  <2> HIDE DEF applying
  <2>2. QED
    BY <1>2, <2>1, LeastIsMin DEF Least
<1>4. InferDimension(adapter, flat, reading) =
        IF adapter = "cloudtrail" \/ reading.source # "" THEN "cloudIdentity"
        ELSE IF applying = {} THEN "process" ELSE Rules[Min(applying)][1]
  BY Zenon DEF InferDimension
<1> HIDE DEF applying
<1>5. QED
  BY <1>1, <1>3, <1>4

LEMMA AttributionType ==
  ASSUME NEW dimension, NEW reading
  PROVE  InferAttribution(dimension, reading) \in BOOLEAN
BY DEF InferAttribution

LEMMA ObservationHasType ==
  ASSUME NEW adapter \in Sources, NEW flat \in Flat, NEW reading \in Readings(flat),
         NEW receivedAt \in Int
  PROVE  /\ Observation(adapter, flat, reading, receivedAt) \in ObservationType
         /\ Observation(adapter, flat, reading, receivedAt).source = adapter
         /\ Observation(adapter, flat, reading, receivedAt).marker = reading.marker
<1> DEFINE dimension == InferDimension(adapter, flat, reading)
           id == EventID(adapter, dimension, reading)
           attributed == InferAttribution(dimension, reading)
<1>1. dimension \in Dimensions /\ attributed \in BOOLEAN
  BY DimensionType, AttributionType
<1>3. reading.marker \in Texts /\ reading.cluster \in Texts
  BY ReadingType
<1>4. id \in Seq(Texts \cup Sources \cup Dimensions)
  <2>1. reading.explicit \in Texts /\ reading.evidence \in Texts
    BY ReadingType
  <2> DEFINE U == Texts \cup Sources \cup Dimensions
  <2>2. /\ adapter \in U /\ dimension \in U /\ reading.marker \in U
        /\ reading.explicit \in U /\ reading.evidence \in U
    BY <1>1, <1>3, <2>1
  <2> HIDE DEF dimension, U
  <2>3. /\ <<adapter, reading.explicit>> \in Seq(U)
        /\ <<adapter, reading.marker, dimension, reading.evidence>> \in Seq(U)
    BY <2>2
  <2>4. id \in Seq(U)
    BY <2>3, Zenon DEF EventID
  <2>5. QED
    BY <2>4 DEF U
<1>5. Observation(adapter, flat, reading, receivedAt) =
        [id |-> id, marker |-> reading.marker,
         cluster |-> reading.cluster, source |-> adapter, dimension |-> dimension,
         attributed |-> attributed, receivedAt |-> receivedAt]
  BY DEF Observation
<1> HIDE DEF id, dimension, attributed
<1>6. QED
  BY <1>1, <1>3, <1>4, <1>5 DEF ObservationType

\* The observation has an id of the record, if the record has one.
HasIdOf(o, d) ==
  \/ \E id \in UpstreamId(d) \ {""} : o.id = <<d[1], id>>
  \/ "" \in UpstreamId(d) /\ Len(o.id) = 4 /\ o.id[2] = o.marker

\* The observations that a record of a list can give.
Of(adapter, records) ==
  {o \in ObservationType :
     /\ o.source = adapter
     /\ \E r \in ToSet(records) :
          FindMarker(r) # {""} /\ o.marker \in FindMarker(r) /\ HasIdOf(o, <<adapter, r>>)}

\* A record that is marked has given one of the observations.
Covers(batch, adapter, r) ==
  FindMarker(r) # {""} => \E i \in DOMAIN batch : HasIdOf(batch[i], <<adapter, r>>)

LEMMA ObservationHasId ==
  ASSUME NEW adapter, NEW flat, NEW reading \in Readings(flat), NEW receivedAt
  PROVE  HasIdOf(Observation(adapter, flat, reading, receivedAt), <<adapter, flat>>)
<1> DEFINE d == <<adapter, flat>>
           o == Observation(adapter, flat, reading, receivedAt)
<1>1. reading.explicit \in UpstreamId(d) /\ d[1] = adapter
  BY DEF Readings, UpstreamId
<1>2. /\ o.id = EventID(adapter, InferDimension(adapter, flat, reading), reading)
      /\ o.marker = reading.marker
  BY DEF Observation
<1> HIDE DEF d, o
<1>3. ASSUME reading.explicit # "" PROVE HasIdOf(o, d)
  BY <1>1, <1>2, <1>3 DEF EventID, HasIdOf
<1>4. ASSUME reading.explicit = "" PROVE HasIdOf(o, d)
  <2>1. o.id = <<adapter, o.marker, InferDimension(adapter, flat, reading), reading.evidence>>
    BY <1>2, <1>4 DEF EventID
  <2>2. Len(o.id) = 4 /\ o.id[2] = o.marker
    BY <2>1
  <2>3. QED
    BY <1>1, <1>4, <2>2 DEF HasIdOf
<1>5. QED
  BY <1>3, <1>4 DEF d, o

LEMMA OfRecordType ==
  ASSUME NEW adapter \in Sources, NEW records \in Seq(Flat), NEW i \in 1..Len(records),
         NEW receivedAt \in Int, NEW now \in OfRecord(adapter, records[i], receivedAt)
  PROVE  now \in Seq(Of(adapter, records)) /\ Covers(now, adapter, records[i])
<1> DEFINE flat == records[i]
<1>1. flat \in Flat /\ flat \in ToSet(records)
  <2> HIDE DEF Flat
  <2>1. QED
    BY DEF ToSet
<1> HIDE DEF flat
<1>2. CASE FindMarker(flat) = {""}
  <2>1. now = <<>>
    BY <1>2 DEF OfRecord, flat
  <2>2. Covers(now, adapter, records[i])
    BY <1>2 DEF Covers, flat
  <2> DEFINE X == Of(adapter, records)
  <2> HIDE DEF X
  <2>3. now \in Seq(X)
    BY <2>1
  <2>4. QED
    BY <2>2, <2>3 DEF X
<1>3. CASE FindMarker(flat) # {""}
  <2>1. PICK reading \in Readings(flat) : now = <<Observation(adapter, flat, reading, receivedAt)>>
    BY <1>3 DEF OfRecord, flat
  <2> DEFINE o == Observation(adapter, flat, reading, receivedAt)
  <2>2. o \in ObservationType /\ o.source = adapter /\ o.marker = reading.marker
    BY <1>1, ObservationHasType
  <2>3. reading.marker \in FindMarker(flat)
    BY <1>1, ReadingType
  <2>4. HasIdOf(o, <<adapter, flat>>)
    BY ObservationHasId
  <2> HIDE DEF o
  <2>5. o \in Of(adapter, records)
    BY <1>1, <1>3, <2>2, <2>3, <2>4 DEF Of
  <2>6. now = <<o>>
    BY <2>1 DEF o
  <2>7. 1 \in DOMAIN now /\ now[1] = o
    BY <2>6
  <2>8. Covers(now, adapter, flat)
    BY <2>4, <2>7 DEF Covers
  <2>9. QED
    BY <2>5, <2>6, <2>8 DEF flat
<1>4. QED
  BY <1>2, <1>3

\* What the first records can give, one record after the other.
LEMMA DecodeForm ==
  ASSUME NEW adapter \in Sources, NEW payload \in Payload, NEW receivedAt \in Int
  PROVE  LET records == RecordsFor(payload)
             n == Len(records)
         IN  \E upTo \in [0..n -> SUBSET Seq(Of(adapter, records))] :
               /\ upTo[0] = {<<>>}
               /\ \A i \in 1..n :
                    upTo[i] = {p[1] \o p[2] :
                                 p \in upTo[i - 1] \X OfRecord(adapter, records[i], receivedAt)}
               /\ Decode(adapter, payload, receivedAt) = upTo[n]
<1> DEFINE records == RecordsFor(payload)
           n == Len(records)
           F == Seq(Of(adapter, records))
           S == SUBSET F
           Next1(i, up) == {p[1] \o p[2] : p \in up \X OfRecord(adapter, records[i], receivedAt)}
           Ups(f) == f = [i \in 0..n |-> IF i = 0 THEN {<<>>} ELSE Next1(i, f[i - 1])]
           upTo == CHOOSE f : Ups(f)
           step == [p \in (1..n) \X S |-> Next1(p[1], p[2])]
<1>1. records \in Seq(Flat)
  BY RecordsType
<1>2. n \in Nat /\ {<<>>} \in S
  <2> HIDE DEF records, Flat
  <2>1. QED
    BY <1>1
<1>3. ASSUME NEW i \in 1..n, NEW up \in S PROVE Next1(i, up) \in S
  <2>1. ASSUME NEW before \in up, NEW now \in OfRecord(adapter, records[i], receivedAt)
        PROVE  before \o now \in F
    <3>1. now \in F
      <4> HIDE DEF records
      <4>1. QED
        BY <1>1, OfRecordType
    <3>2. before \in F
      BY <2>1
    <3> DEFINE X == Of(adapter, records)
    <3>3. before \in Seq(X) /\ now \in Seq(X)
      BY <3>1, <3>2
    <3> HIDE DEF X
    <3>4. before \o now \in Seq(X)
      BY <3>3
    <3>5. QED
      BY <3>4 DEF X
  <2>2. Next1(i, up) \subseteq F
    <3> HIDE DEF F, S, n, records
    <3>1. QED
      BY <2>1
  <2>3. QED
    <3> HIDE DEF F, n, Next1
    <3>1. QED
      BY <2>2
<1>4. Steps(n, S, step)
  <2> HIDE DEF S, Next1, n
  <2>1. QED
    BY <1>3 DEF Steps
<1>5. PICK f : Iteration(f, n, S, {<<>>}, step)
  <2> HIDE DEF step, n, S
  <2>1. QED
    BY <1>2, <1>4, Iterates
<1>6. f \in [0..n -> S] /\ f[0] = {<<>>}
  BY <1>5 DEF Iteration
<1>7. \A i \in 1..n : f[i] = Next1(i, f[i - 1])
  <2> HIDE DEF S, Next1, n
  <2>1. TAKE i \in 1..n
  <2>2. <<i, f[i - 1]>> \in (1..n) \X S
    BY <1>2, <1>6
  <2>3. f[i] = step[<<i, f[i - 1]>>]
    BY <1>5 DEF Iteration
  <2>4. QED
    BY <2>2, <2>3
<1>8. Ups(f)
  <2> HIDE DEF S, Next1, n
  <2>1. QED
    BY <1>2, <1>6, <1>7
<1>9. Ups(upTo)
  <2> HIDE DEF Ups
  <2>1. QED
    BY <1>8, Zenon
<1>10. Decode(adapter, payload, receivedAt) = upTo[n]
  BY DEF Decode
<1> HIDE DEF upTo
<1>11. upTo[0] = {<<>>} /\ \A i \in 1..n : upTo[i] = Next1(i, upTo[i - 1])
  <2> DEFINE start == {<<>>}
  <2>1. upTo = [i \in 0..n |-> IF i = 0 THEN start ELSE Next1(i, upTo[i - 1])]
    <3> HIDE DEF Next1, n
    <3>1. QED
      BY <1>9
  <2> HIDE DEF Next1, n, start
  <2>2. upTo[0] = start /\ \A i \in 1..n : upTo[i] = Next1(i, upTo[i - 1])
    BY <1>2, <2>1
  <2>3. QED
    BY <2>2 DEF start
<1> DEFINE T == {k \in 0..n : upTo[k] \in S}
<1>12. 0 \in T
  <2>1. upTo[0] \in S
    <3> HIDE DEF S, Next1, n
    <3>1. QED
      BY <1>2, <1>11, Zenon
  <2> HIDE DEF S, n
  <2>2. QED
    BY <1>2, <2>1
<1>13. ASSUME NEW k \in 1..n, k - 1 \in T PROVE k \in T
  <2> HIDE DEF Next1, S, n
  <2>1. QED
    BY <1>2, <1>3, <1>11, <1>13
<1>14. 0..n \subseteq T
  <2> HIDE DEF T, n
  <2>1. QED
    BY <1>2, <1>12, <1>13, Induction
<1>15. upTo \in [0..n -> S]
  <2>1. upTo = [i \in 0..n |-> IF i = 0 THEN {<<>>} ELSE Next1(i, upTo[i - 1])]
    BY <1>9
  <2>2. \A i \in 0..n : upTo[i] \in S
    <3> HIDE DEF S, n
    <3>1. QED
      BY <1>14
  <2> HIDE DEF S, n, Next1
  <2>3. QED
    BY <2>1, <2>2
<1>16. QED
  BY <1>10, <1>11, <1>15

\* A payload is decoded into observations of its records, and each record that is
\* marked gives one.
LEMMA DecodeType ==
  ASSUME NEW adapter \in Sources, NEW payload \in Payload, NEW receivedAt \in Int,
         NEW batch \in Decode(adapter, payload, receivedAt)
  PROVE  /\ batch \in Seq(Of(adapter, RecordsFor(payload)))
         /\ \A r \in ToSet(RecordsFor(payload)) : Covers(batch, adapter, r)
<1> DEFINE records == RecordsFor(payload)
           n == Len(records)
           X == Of(adapter, records)
           Now(i) == OfRecord(adapter, records[i], receivedAt)
           Covered(b, k) == \A i \in 1..k : Covers(b, adapter, records[i])
<1>1. records \in Seq(Flat)
  BY RecordsType
<1>2. n \in Nat /\ ToSet(records) = {records[i] : i \in 1..n}
  <2> HIDE DEF records, Flat
  <2>1. QED
    BY <1>1 DEF ToSet
<1>3. PICK upTo \in [0..n -> SUBSET Seq(X)] :
        /\ upTo[0] = {<<>>}
        /\ \A i \in 1..n : upTo[i] = {p[1] \o p[2] : p \in upTo[i - 1] \X Now(i)}
        /\ Decode(adapter, payload, receivedAt) = upTo[n]
  BY DecodeForm
<1>4. \A i \in 1..n : \A now \in Now(i) : now \in Seq(X) /\ Covers(now, adapter, records[i])
  <2> HIDE DEF records, Flat
  <2>1. QED
    BY <1>1, OfRecordType
<1> HIDE DEF records, n, X, Now
<1> DEFINE T == {k \in 0..n : \A b \in upTo[k] : Covered(b, k)}
<1>5. 0 \in T
  BY <1>2
<1>6. ASSUME NEW k \in 1..n, k - 1 \in T PROVE k \in T
  <2>1. SUFFICES ASSUME NEW b \in upTo[k], NEW i \in 1..k PROVE Covers(b, adapter, records[i])
    BY <1>2
  <2>2. PICK p \in upTo[k - 1] \X Now(k) : b = p[1] \o p[2]
    <3>1. upTo[k] = {p[1] \o p[2] : p \in upTo[k - 1] \X Now(k)}
      BY <1>3
    <3>2. b \in {p[1] \o p[2] : p \in upTo[k - 1] \X Now(k)}
      BY <3>1
    <3>3. QED
      BY <3>2
  <2> DEFINE before == p[1]
             now == p[2]
  <2>3. /\ before \in upTo[k - 1] /\ now \in Now(k) /\ b = before \o now
        /\ before \in Seq(X) /\ now \in Seq(X)
    BY <1>2, <1>3, <1>4, <2>2
  <2> HIDE DEF before, now
  <2>4. /\ \A j \in DOMAIN before : j \in DOMAIN b /\ b[j] = before[j]
        /\ \A j \in DOMAIN now : Len(before) + j \in DOMAIN b /\ b[Len(before) + j] = now[j]
    BY <2>3
  <2>5. CASE i = k
    <3>1. Covers(now, adapter, records[i])
      BY <1>4, <2>3, <2>5
    <3>2. QED
      BY <2>4, <3>1 DEF Covers
  <2>6. CASE i # k
    <3>1. i \in 1..(k - 1)
      BY <1>2, <2>6
    <3>2. Covers(before, adapter, records[i])
      BY <1>6, <2>3, <3>1
    <3>3. QED
      BY <2>4, <3>2 DEF Covers
  <2>7. QED
    BY <2>5, <2>6
<1>7. 0..n \subseteq T
  <2> HIDE DEF T
  <2>1. QED
    BY <1>2, <1>5, <1>6, Induction
<1>8. batch \in upTo[n] /\ n \in 0..n
  BY <1>2, <1>3
<1>9. batch \in Seq(X)
  BY <1>3, <1>8
<1>10. Covered(batch, n)
  BY <1>7, <1>8
<1>11. QED
  BY <1>2, <1>9, <1>10 DEF X, records

----------------------------------------------------------------------------
(* Storing.                                                                *)

LEMMA Places ==
  ASSUME NEW X, NEW s \in Seq(X)
  PROVE  Len(s) \in Nat /\ DOMAIN s = 1..Len(s)
OBVIOUS

\* t began as s.
Grew(s, t) == Len(s) <= Len(t) /\ \A i \in 1..Len(s) : t[i] = s[i]

\* What may be held, if B are the observations of a batch and A those held before.
Holdings(A, B) ==
  {held \in [window : Seq(A \cup B), session : Seq(ObservationType)] : Grew(observations, held.session)}

LEMMA TakeKeeps ==
  ASSUME NEW A, NEW B \in SUBSET ObservationType, observations \in Seq(ObservationType),
         NEW held \in Holdings(A, B), NEW o \in B
  PROVE  Take(held, o) \in Holdings(A, B)
<1> DEFINE O == ObservationType
           U == A \cup B
           w == held.window
           s == held.session
<1>1. w \in Seq(U) /\ s \in Seq(O) /\ Grew(observations, s) /\ held = [window |-> w, session |-> s]
  BY DEF Holdings
<1>2. o \in O /\ o \in U
  OBVIOUS
<1> HIDE DEF O, U, w, s
<1>3. Append(w, o) \in Seq(U) /\ Append(s, o) \in Seq(O)
  BY <1>1, <1>2
<1>4. Grew(observations, Append(s, o))
  <2>1. /\ Len(observations) \in Nat /\ Len(s) \in Nat /\ Len(Append(s, o)) = Len(s) + 1
        /\ \A i \in 1..Len(s) : Append(s, o)[i] = s[i]
    BY <1>1, <1>2 DEF O
  <2>2. QED
    BY <1>1, <2>1 DEF Grew
<1>5. \/ Take(held, o) = held
      \/ Take(held, o) = [window |-> Append(w, o), session |-> s]
      \/ Take(held, o) = [window |-> Append(w, o), session |-> Append(s, o)]
  BY DEF Take, w, s
<1>6. /\ [window |-> Append(w, o), session |-> s] \in Holdings(A, B)
      /\ [window |-> Append(w, o), session |-> Append(s, o)] \in Holdings(A, B)
  BY <1>1, <1>3, <1>4 DEF Holdings, O, U
<1>7. QED
  BY <1>5, <1>6

\* What is held after each observation of the batch.
LEMMA StoredForm ==
  ASSUME NEW A, NEW B \in SUBSET ObservationType, NEW batch \in Seq(B),
         window \in Seq(A), observations \in Seq(ObservationType)
  PROVE  \E held \in [0..Len(batch) -> Holdings(A, B)] :
           /\ held[0] = [window |-> window, session |-> observations]
           /\ \A i \in 1..Len(batch) : held[i] = Take(held[i - 1], batch[i])
           /\ Stored(batch) = held[Len(batch)]
<1> DEFINE n == Len(batch)
           S == Holdings(A, B)
           start == [window |-> window, session |-> observations]
           Holds(f) == f = [i \in 0..n |-> IF i = 0 THEN start ELSE Take(f[i - 1], batch[i])]
           held == CHOOSE f : Holds(f)
           step == [p \in (1..n) \X S |-> Take(p[2], batch[p[1]])]
<1>1. n \in Nat /\ \A i \in 1..n : batch[i] \in B
  OBVIOUS
<1>2. start \in S
  <2> DEFINE U == A \cup B
  <2>1. window \in Seq(U)
    OBVIOUS
  <2>2. Grew(observations, observations)
    BY DEF Grew
  <2> HIDE DEF U
  <2>3. start \in [window : Seq(U), session : Seq(ObservationType)]
    BY <2>1
  <2>4. QED
    BY <2>2, <2>3 DEF Holdings, U
<1>3. \A i \in 1..n, h \in S : Take(h, batch[i]) \in S
  BY <1>1, TakeKeeps
<1> HIDE DEF S
<1>4. Steps(n, S, step)
  <2> HIDE DEF n
  <2>1. QED
    BY <1>3 DEF Steps
<1>5. PICK f : Iteration(f, n, S, start, step)
  <2> HIDE DEF step, n, start
  <2>1. QED
    BY <1>1, <1>2, <1>4, Iterates
<1>6. f \in [0..n -> S] /\ f[0] = start
  BY <1>5 DEF Iteration
<1>7. \A i \in 1..n : f[i] = Take(f[i - 1], batch[i])
  <2>1. TAKE i \in 1..n
  <2> HIDE DEF n
  <2>2. <<i, f[i - 1]>> \in (1..n) \X S
    BY <1>1, <1>6
  <2>3. f[i] = step[<<i, f[i - 1]>>]
    BY <1>5 DEF Iteration
  <2>4. QED
    BY <2>2, <2>3
<1>8. Holds(f)
  <2> HIDE DEF n, start
  <2>1. QED
    BY <1>1, <1>6, <1>7
<1>9. Holds(held)
  BY <1>8, Zenon
<1>10. Stored(batch) = held[n]
  BY Zenon DEF Stored
<1> HIDE DEF held
<1>11. held[0] = start /\ \A i \in 1..n : held[i] = Take(held[i - 1], batch[i])
  <2> HIDE DEF n, start
  <2>1. QED
    BY <1>1, <1>9
<1> DEFINE T == {k \in 0..n : held[k] \in S}
<1>12. 0 \in T
  <2> HIDE DEF n, start
  <2>1. QED
    BY <1>1, <1>2, <1>11
<1>13. ASSUME NEW k \in 1..n, k - 1 \in T PROVE k \in T
  <2> HIDE DEF n
  <2>1. k \in 0..n /\ held[k - 1] \in S
    BY <1>1, <1>13
  <2>2. held[k] = Take(held[k - 1], batch[k])
    BY <1>11
  <2>3. held[k] \in S
    BY <1>3, <2>1, <2>2
  <2>4. QED
    BY <2>1, <2>3
<1>14. 0..n \subseteq T
  <2> HIDE DEF T, n
  <2>1. QED
    BY <1>1, <1>12, <1>13, Induction
<1>15. held \in [0..n -> S]
  <2>1. held = [i \in 0..n |-> IF i = 0 THEN start ELSE Take(held[i - 1], batch[i])]
    BY <1>9
  <2>2. \A i \in 0..n : held[i] \in S
    <3> HIDE DEF n
    <3>1. QED
      BY <1>14
  <2> HIDE DEF start, n
  <2>3. QED
    BY <2>1, <2>2
<1>16. QED
  BY <1>10, <1>11, <1>15 DEF S

\* Ids of the window and of the session are distinct, and the session holds what the
\* window has for it.
Counted(w, s) ==
  /\ \A i, j \in DOMAIN w : w[i].id = w[j].id => i = j
  /\ \A i, j \in DOMAIN s : s[i].id = s[j].id => i = j
  /\ \A i \in DOMAIN s : s[i].marker = Marker /\ \E j \in DOMAIN w : w[j] = s[i]
  /\ \A i \in DOMAIN w : w[i].marker = Marker => \E j \in DOMAIN s : s[j] = w[i]

KnownId(w, id) == \E i \in DOMAIN w : w[i].id = id

LEMMA KnownLater ==
  ASSUME NEW X, NEW Y, NEW w \in Seq(X), NEW t \in Seq(Y), Grew(w, t), NEW id, KnownId(w, id)
  PROVE  KnownId(t, id)
<1>1. PICK i \in 1..Len(w) : w[i].id = id
  BY DEF KnownId
<1>2. i \in DOMAIN t /\ t[i] = w[i]
  BY DEF Grew
<1>3. QED
  BY <1>1, <1>2 DEF KnownId

LEMMA TakeCounts ==
  ASSUME NEW A, NEW B \in SUBSET ObservationType,
         NEW held \in Holdings(A, B), NEW o \in B, Counted(held.window, held.session)
  PROVE  /\ Counted(Take(held, o).window, Take(held, o).session)
         /\ Grew(held.window, Take(held, o).window) /\ KnownId(Take(held, o).window, o.id)
<1> DEFINE O == ObservationType
           U == A \cup B
           w == held.window
           s == held.session
           w1 == Append(w, o)
           s1 == Append(s, o)
<1>1. w \in Seq(U) /\ s \in Seq(O)
  BY DEF Holdings
<1>2. o \in O /\ o \in U
  OBVIOUS
<1> HIDE DEF O, U
<1>3. CASE KnownId(w, o.id)
  <2>1. Take(held, o) = held
    BY <1>3 DEF Take, KnownId
  <2>2. QED
    BY <1>1, <1>3, <2>1 DEF Grew
<1>4. CASE ~KnownId(w, o.id)
  <2>1. /\ Take(held, o).window = w1
        /\ Take(held, o).session = IF o.marker = Marker THEN s1 ELSE s
    BY <1>4 DEF Take, KnownId
  <2> HIDE DEF w, s
  <2>2. /\ Len(w) \in Nat /\ DOMAIN w = 1..Len(w) /\ DOMAIN w1 = 1..(Len(w) + 1)
        /\ w1[Len(w) + 1] = o /\ \A i \in 1..Len(w) : w1[i] = w[i]
    BY <1>1, <1>2
  <2>3. /\ Len(s) \in Nat /\ DOMAIN s = 1..Len(s) /\ DOMAIN s1 = 1..(Len(s) + 1)
        /\ s1[Len(s) + 1] = o /\ \A i \in 1..Len(s) : s1[i] = s[i]
    BY <1>1, <1>2
  <2>4. Counted(w, s)
    BY DEF w, s
  <2>5. Len(w1) = Len(w) + 1
    BY <1>1, <1>2
  <2>6. \A i \in DOMAIN w : w[i].id # o.id
    BY <1>4 DEF KnownId
  <2> HIDE DEF w1, s1
  <2>7. \A i, j \in DOMAIN w1 : w1[i].id = w1[j].id => i = j
    <3>1. SUFFICES ASSUME NEW i \in DOMAIN w1, NEW j \in DOMAIN w1, w1[i].id = w1[j].id PROVE i = j
      OBVIOUS
    <3>2. /\ i \in DOMAIN w \/ i = Len(w) + 1
          /\ j \in DOMAIN w \/ j = Len(w) + 1
      BY <2>2
    <3>3. QED
      BY <2>2, <2>4, <2>6, <3>1, <3>2 DEF Counted
  <2>8. \A i \in DOMAIN s : s[i].id # o.id
    BY <2>4, <2>6 DEF Counted
  <2>9. \A i, j \in DOMAIN s1 : s1[i].id = s1[j].id => i = j
    <3>1. SUFFICES ASSUME NEW i \in DOMAIN s1, NEW j \in DOMAIN s1, s1[i].id = s1[j].id PROVE i = j
      OBVIOUS
    <3>2. /\ i \in DOMAIN s \/ i = Len(s) + 1
          /\ j \in DOMAIN s \/ j = Len(s) + 1
      BY <2>3
    <3>3. QED
      BY <2>3, <2>4, <2>8, <3>1, <3>2 DEF Counted
  <2>10. /\ \A i \in DOMAIN w : i \in DOMAIN w1 /\ w1[i] = w[i]
         /\ \A i \in DOMAIN s : i \in DOMAIN s1 /\ s1[i] = s[i]
         /\ Len(w) + 1 \in DOMAIN w1 /\ Len(s) + 1 \in DOMAIN s1
    BY <2>2, <2>3
  <2>11. \A i \in DOMAIN w1 : i \in DOMAIN w \/ w1[i] = o
    BY <2>2
  <2>12. \A i \in DOMAIN s1 : i \in DOMAIN s \/ s1[i] = o
    BY <2>3
  <2>13. CASE o.marker = Marker
    <3>1. /\ \A i \in DOMAIN s1 : s1[i].marker = Marker /\ \E j \in DOMAIN w1 : w1[j] = s1[i]
          /\ \A i \in DOMAIN w1 : w1[i].marker = Marker => \E j \in DOMAIN s1 : s1[j] = w1[i]
      <4>1. ASSUME NEW i \in DOMAIN s1
            PROVE  s1[i].marker = Marker /\ \E j \in DOMAIN w1 : w1[j] = s1[i]
        <5>1. CASE i \in DOMAIN s
          BY <2>4, <2>10, <5>1 DEF Counted
        <5>2. CASE s1[i] = o
          BY <2>2, <2>10, <2>13, <5>2
        <5>3. QED
          BY <2>12, <5>1, <5>2
      <4>2. ASSUME NEW i \in DOMAIN w1, w1[i].marker = Marker
            PROVE  \E j \in DOMAIN s1 : s1[j] = w1[i]
        <5>1. CASE i \in DOMAIN w
          BY <2>4, <2>10, <4>2, <5>1 DEF Counted
        <5>2. CASE w1[i] = o
          BY <2>3, <2>10, <5>2
        <5>3. QED
          BY <2>11, <5>1, <5>2
      <4>3. QED
        BY <4>1, <4>2
    <3>2. Counted(w1, s1)
      BY <2>7, <2>9, <3>1 DEF Counted
    <3>3. Grew(w, w1) /\ KnownId(w1, o.id)
      BY <2>2, <2>5, <2>10 DEF KnownId, Grew
    <3>4. QED
      BY <2>1, <2>13, <3>2, <3>3 DEF w
  <2>14. CASE o.marker # Marker
    <3>1. /\ \A i \in DOMAIN s : s[i].marker = Marker /\ \E j \in DOMAIN w1 : w1[j] = s[i]
          /\ \A i \in DOMAIN w1 : w1[i].marker = Marker => \E j \in DOMAIN s : s[j] = w1[i]
      <4>1. ASSUME NEW i \in DOMAIN w1, w1[i].marker = Marker
            PROVE  \E j \in DOMAIN s : s[j] = w1[i]
        BY <2>4, <2>10, <2>11, <2>14, <4>1 DEF Counted
      <4>2. QED
        BY <2>4, <2>10, <4>1 DEF Counted
    <3>2. Counted(w1, s)
      BY <2>4, <2>7, <3>1 DEF Counted
    <3>3. Grew(w, w1) /\ KnownId(w1, o.id)
      BY <2>2, <2>5, <2>10 DEF KnownId, Grew
    <3>4. QED
      BY <2>1, <2>14, <3>2, <3>3 DEF w
  <2>15. QED
    BY <2>13, <2>14
<1>5. QED
  BY <1>3, <1>4

\* What a batch leaves in the window and in the session.
LEMMA StoredHolds ==
  ASSUME NEW A, NEW B \in SUBSET ObservationType, NEW batch \in Seq(B),
         window \in Seq(A), observations \in Seq(ObservationType), Counted(window, observations)
  PROVE  /\ Stored(batch) \in Holdings(A, B)
         /\ Counted(Stored(batch).window, Stored(batch).session)
         /\ Grew(window, Stored(batch).window)
         /\ \A i \in 1..Len(batch) : KnownId(Stored(batch).window, batch[i].id)
<1> DEFINE n == Len(batch)
           S == Holdings(A, B)
<1>1. n \in Nat /\ \A i \in 1..n : batch[i] \in B
  OBVIOUS
<1>2. PICK held \in [0..n -> S] :
        /\ held[0] = [window |-> window, session |-> observations]
        /\ \A i \in 1..n : held[i] = Take(held[i - 1], batch[i])
        /\ Stored(batch) = held[n]
  BY StoredForm
<1> DEFINE Holds(k) ==
             /\ Counted(held[k].window, held[k].session) /\ Grew(window, held[k].window)
             /\ \A i \in 1..k : KnownId(held[k].window, batch[i].id)
           T == {k \in 0..n : Holds(k)}
<1>3. \A h \in S : Len(h.window) \in Nat /\ DOMAIN h.window = 1..Len(h.window)
  <2>1. SUFFICES ASSUME NEW h \in S PROVE Len(h.window) \in Nat /\ DOMAIN h.window = 1..Len(h.window)
    OBVIOUS
  <2>2. h.window \in Seq(A \cup B)
    BY DEF Holdings
  <2>3. QED
    BY <2>2
<1>4. \A h \in S, i \in 1..n :
        Counted(h.window, h.session) =>
          /\ Counted(Take(h, batch[i]).window, Take(h, batch[i]).session)
          /\ Grew(h.window, Take(h, batch[i]).window) /\ KnownId(Take(h, batch[i]).window, batch[i].id)
  BY <1>1, TakeCounts
<1> HIDE DEF n, S
<1>5. 0 \in T
  <2>1. held[0].window = window /\ held[0].session = observations
    BY <1>2
  <2>2. Grew(window, window)
    BY DEF Grew
  <2>3. QED
    BY <1>1, <2>1, <2>2
<1>6. ASSUME NEW k \in 1..n, k - 1 \in T PROVE k \in T
  <2>1. held[k - 1] \in S /\ held[k] \in S /\ held[k] = Take(held[k - 1], batch[k]) /\ Holds(k - 1)
    BY <1>1, <1>2, <1>6
  <2> DEFINE w == held[k - 1].window
             w1 == held[k].window
  <2>2. /\ Counted(w1, held[k].session) /\ Grew(w, w1) /\ KnownId(w1, batch[k].id)
        /\ Grew(window, w)
    BY <1>4, <2>1
  <2>3. /\ Len(w) \in Nat /\ DOMAIN w = 1..Len(w) /\ Len(w1) \in Nat /\ DOMAIN w1 = 1..Len(w1)
    BY <1>3, <2>1
  <2>4. \A i \in 1..(k - 1) : KnownId(w, batch[i].id)
    BY <2>1
  <2> HIDE DEF w, w1
  <2>5. Len(window) \in Nat
    OBVIOUS
  <2>6. Grew(window, w1)
    BY <2>2, <2>3, <2>5 DEF Grew
  <2>7. ASSUME NEW i \in 1..k PROVE KnownId(w1, batch[i].id)
    <3>1. CASE i = k
      BY <2>2, <3>1
    <3>2. CASE i # k
      <4>1. i \in 1..(k - 1)
        BY <1>1, <3>2
      <4>2. QED
        BY <2>2, <2>3, <2>4, <4>1 DEF KnownId, Grew
    <3>3. QED
      BY <3>1, <3>2
  <2>8. QED
    BY <1>1, <2>2, <2>6, <2>7 DEF w1
<1>7. 0..n \subseteq T
  <2> HIDE DEF T
  <2>1. QED
    BY <1>1, <1>5, <1>6, Induction
<1>8. n \in T /\ held[n] \in S
  BY <1>1, <1>2, <1>7
<1>9. Holds(n)
  BY <1>8
<1>10. QED
  BY <1>2, <1>8, <1>9 DEF n, S

----------------------------------------------------------------------------
(* The invariant.                                                          *)

\* A delivered record may have yielded the observation.
Backed(o) == \E d \in delivered : d[1] = o.source /\ o.marker \in Meant(d) /\ HasIdOf(o, d)

Accepted == {o \in ObservationType : Backed(o)}

\* The window knows the id of each record that was delivered, marked and has one.
AllRecalled ==
  \A d \in delivered : \A id \in UpstreamId(d) \ {""} :
    UpstreamId(d) = {id} /\ Meant(d) # {} => KnownId(window, <<d[1], id>>)

CorrelationInv ==
  /\ slo \in SLOs /\ truth \in Seq(TruthEvents) /\ observations \in Seq(ObservationType)
  /\ window \in Seq(Accepted)
  /\ Counted(window, observations) /\ AllRecalled

LEMMA MarkerIsMeant ==
  ASSUME NEW adapter, NEW r
  PROVE  LET d == <<adapter, r>>
         IN  /\ FindMarker(r) # {""} <=> Meant(d) # {}
             /\ FindMarker(r) # {""} => FindMarker(r) = Meant(d)
<1> DEFINE d == <<adapter, r>>
           named == {f \in r : "marker" \in ToSet(f.path)}
<1>1. d[1] = adapter /\ d[2] = r
  OBVIOUS
<1>2. Meant(d) = IF MarkersIn(named) # {} THEN MarkersIn(named) ELSE MarkersIn(r)
  BY <1>1 DEF Addressed, Meant, MarkersIn
<1>3. FindMarker(r) = IF MarkersIn(r) = {} THEN {""}
                      ELSE IF MarkersIn(named) # {} THEN MarkersIn(named) ELSE MarkersIn(r)
  BY DEF FindMarker
<1>4. MarkersIn(named) \subseteq MarkersIn(r) /\ "" \notin MarkersIn(r) /\ "" \notin MarkersIn(named)
  BY DEF MarkersIn
<1> HIDE DEF named, d
<1>5. QED
  BY <1>2, <1>3, <1>4 DEF d

LEMMA InvInitially == Init => CorrelationInv
<1>1. SUFFICES ASSUME Init PROVE CorrelationInv
  OBVIOUS
<1>2. \A S : <<>> \in Seq(S)
  OBVIOUS
<1>3. Counted(<<>>, <<>>)
  BY DEF Counted
<1>4. AllRecalled
  BY <1>1 DEF Init, AllRecalled
<1>5. QED
  BY <1>1, <1>2, <1>3, <1>4 DEF Init, CorrelationInv

LEMMA PayloadKeeps ==
  ASSUME CorrelationInv, NEW adapter \in Sources, NEW payload \in Payload,
         NEW receivedAt \in Int, PayloadArrives(adapter, payload, receivedAt)
  PROVE  CorrelationInv' /\ Grew(observations, observations')
<1> DEFINE records == RecordsFor(payload)
           A == Accepted
           B == Of(adapter, records)
<1>1. PICK batch \in Decode(adapter, payload, receivedAt) :
        window' = Stored(batch).window /\ observations' = Stored(batch).session
  BY DEF PayloadArrives
<1>2. /\ batch \in Seq(B) /\ B \in SUBSET ObservationType
      /\ \A r \in ToSet(records) : Covers(batch, adapter, r)
  BY DecodeType DEF Of
<1>3. window \in Seq(A) /\ observations \in Seq(ObservationType) /\ Counted(window, observations)
  BY DEF CorrelationInv
<1>4. /\ Stored(batch) \in Holdings(A, B)
      /\ Counted(Stored(batch).window, Stored(batch).session)
      /\ Grew(window, Stored(batch).window)
      /\ \A i \in 1..Len(batch) : KnownId(Stored(batch).window, batch[i].id)
  <2> HIDE DEF A, B
  <2>1. QED
    BY <1>2, <1>3, StoredHolds
<1>5. /\ window' \in Seq(A \cup B) /\ observations' \in Seq(ObservationType)
      /\ Grew(observations, observations')
  <2> HIDE DEF A, B
  <2>1. QED
    BY <1>1, <1>4 DEF Holdings
<1>6. A \subseteq Accepted' /\ B \subseteq Accepted'
  <2>1. delivered' = delivered \cup {<<adapter, r>> : r \in ToSet(records)}
    BY DEF PayloadArrives
  <2>2. A \subseteq Accepted'
    BY <2>1 DEF Accepted, Backed
  <2>3. ASSUME NEW o \in B PROVE o \in Accepted'
    <3>1. PICK r \in ToSet(records) :
            FindMarker(r) # {""} /\ o.marker \in FindMarker(r) /\ HasIdOf(o, <<adapter, r>>)
      BY DEF Of
    <3> DEFINE d == <<adapter, r>>
    <3>2. d \in delivered'
      BY <2>1
    <3>3. d[1] = o.source /\ o.marker \in Meant(d) /\ HasIdOf(o, d)
      BY <3>1, MarkerIsMeant DEF Of
    <3> HIDE DEF d, records
    <3>4. QED
      BY <1>2, <3>2, <3>3 DEF Accepted, Backed
  <2>4. QED
    BY <2>2, <2>3
<1>7. window' \in Seq(Accepted')
  <2> DEFINE C == Accepted'
  <2> HIDE DEF A, B, C
  <2>1. A \cup B \subseteq C
    BY <1>6 DEF C
  <2>2. window' \in Seq(C)
    BY <1>5, <2>1
  <2>3. QED
    BY <2>2 DEF C
<1>8. slo' \in SLOs /\ truth' \in Seq(TruthEvents)
  BY DEF CorrelationInv, PayloadArrives
<1>9. AllRecalled'
  <2>1. SUFFICES ASSUME NEW d \in delivered', NEW id \in UpstreamId(d) \ {""},
                        UpstreamId(d) = {id}, Meant(d) # {}
                 PROVE  KnownId(window', <<d[1], id>>)
    BY DEF AllRecalled
  <2>2. CASE d \in delivered
    <3>1. KnownId(window, <<d[1], id>>)
      BY <2>1, <2>2 DEF CorrelationInv, AllRecalled
    <3>2. Grew(window, window')
      BY <1>1, <1>4
    <3> DEFINE t == window'
               known == <<d[1], id>>
    <3>3. window \in Seq(A) /\ t \in Seq(A \cup B) /\ Grew(window, t) /\ KnownId(window, known)
      BY <1>3, <1>5, <3>1, <3>2
    <3> HIDE DEF t, A, B, known
    <3>4. KnownId(t, known)
      BY <3>3, KnownLater
    <3>5. QED
      BY <3>4 DEF t, known
  <2>3. CASE d \notin delivered
    <3>1. PICK r \in ToSet(records) : d = <<adapter, r>>
      BY <2>1, <2>3 DEF PayloadArrives
    <3>2. FindMarker(r) # {""}
      BY <2>1, <3>1, MarkerIsMeant
    <3>3. PICK i \in DOMAIN batch : HasIdOf(batch[i], d)
      BY <1>2, <3>1, <3>2 DEF Covers
    <3>4. batch[i].id = <<d[1], id>>
      BY <2>1, <3>3 DEF HasIdOf
    <3>5. i \in 1..Len(batch)
      BY <1>2, <3>3, Places
    <3>6. QED
      BY <1>1, <1>4, <3>4, <3>5
  <2>4. QED
    BY <2>2, <2>3
<1>10. QED
  BY <1>1, <1>4, <1>5, <1>7, <1>8, <1>9 DEF CorrelationInv

LEMMA TruthKeeps ==
  ASSUME CorrelationInv, NEW e \in TruthEvents, TruthArrives(e)
  PROVE  CorrelationInv' /\ Grew(observations, observations')
<1>1. truth' \in Seq(TruthEvents) /\ UNCHANGED <<slo, observations, window, delivered>>
  BY DEF CorrelationInv, TruthArrives
<1>2. Accepted' = Accepted
  BY <1>1 DEF Accepted, Backed
<1>3. AllRecalled => AllRecalled'
  BY <1>1 DEF AllRecalled
<1>4. QED
  BY <1>1, <1>2, <1>3 DEF CorrelationInv, Grew

LEMMA InvStep ==
  ASSUME CorrelationInv, [Next]_vars
  PROVE  CorrelationInv' /\ slo' = slo /\ Grew(observations, observations')
<1>1. CASE \E e \in TruthEvents : TruthArrives(e)
  <2>1. PICK e \in TruthEvents : TruthArrives(e)
    BY <1>1
  <2>2. QED
    BY <2>1, TruthKeeps DEF TruthArrives
<1>2. CASE \E d \in Deliveries : PayloadArrives(d[1], d[2], d[3])
  <2>1. PICK d \in Deliveries : PayloadArrives(d[1], d[2], d[3])
    BY <1>2
  <2>2. d[1] \in Sources /\ d[2] \in Payload /\ d[3] \in Int
    BY CorrelationAssumption
  <2>3. QED
    BY <2>1, <2>2, PayloadKeeps DEF PayloadArrives
<1>3. CASE UNCHANGED vars
  <2>1. UNCHANGED <<slo, truth, observations, window, delivered>>
    BY <1>3 DEF vars
  <2>2. Accepted' = Accepted /\ (AllRecalled => AllRecalled')
    BY <2>1 DEF Accepted, Backed, AllRecalled
  <2>3. QED
    BY <2>1, <2>2 DEF CorrelationInv, Grew
<1>4. QED
  BY <1>1, <1>2, <1>3 DEF Next

LEMMA CorrelationInvariant == Spec => []CorrelationInv
<1>1. CorrelationInv /\ [Next]_vars => CorrelationInv'
  BY InvStep
<1>2. QED
  BY <1>1, InvInitially, PTL DEF Spec

\* Whatever vendors deliver, in whatever order and however often, and however Go
\* iterates their fields: an observation that is accepted has the id of a delivered
\* record and the marker that this record names, its marker field before all others, and
\* the session holds those of its own marker and no other.
THEOREM EachAlwaysToItsSession == Spec => []EachToItsSession
<1>1. CorrelationInv => EachToItsSession
  <2>1. SUFFICES ASSUME CorrelationInv PROVE EachToItsSession
    OBVIOUS
  <2>2. ToSet(window) \subseteq Accepted
    <3> DEFINE A == Accepted
    <3>1. window \in Seq(A)
      BY <2>1 DEF CorrelationInv
    <3> HIDE DEF A
    <3>2. ToSet(window) \subseteq A
      BY <3>1 DEF ToSet
    <3>3. QED
      BY <3>2 DEF A
  <2>3. ASSUME NEW o \in ToSet(window) PROVE \E d \in delivered : MayYield(d, o)
    <3>1. PICK d \in delivered : d[1] = o.source /\ o.marker \in Meant(d) /\ HasIdOf(o, d)
      BY <2>2, <2>3 DEF Accepted, Backed
    <3>2. QED
      BY <3>1 DEF MayYield, HasIdOf
  <2>4. ToSet(observations) = {o \in ToSet(window) : o.marker = Marker}
    <3>1. Counted(window, observations)
      BY <2>1 DEF CorrelationInv
    <3>2. QED
      BY <3>1 DEF Counted, ToSet
  <2>5. QED
    BY <2>3, <2>4 DEF EachToItsSession
<1>2. QED
  BY <1>1, CorrelationInvariant, PTL

LEMMA PartsOfPair ==
  ASSUME NEW a, NEW b, NEW p, p = <<a, b>>
  PROVE  p[1] = a /\ p[2] = b
OBVIOUS

\* The upstream id of the record stands for the id of its observation.
LEMMA EventOfObservation ==
  ASSUME NEW d, Identified(d), NEW o, o.source = d[1], HasIdOf(o, d)
  PROVE  o.id = <<o.id[1], o.id[2]>> /\ EventOf(d) = <<o.id[1], {o.id[2]}>>
<1>1. PICK id \in UpstreamId(d) \ {""} : UpstreamId(d) = {id}
  BY DEF Identified
<1>2. o.id = <<d[1], id>>
  BY <1>1 DEF HasIdOf
<1>3. o.id[1] = d[1] /\ o.id[2] = id
  <2> DEFINE a == d[1]
             p == o.id
  <2>1. p = <<a, id>>
    BY <1>2
  <2> HIDE DEF a, p
  <2>2. p[1] = a /\ p[2] = id
    BY <2>1, PartsOfPair
  <2>3. QED
    BY <2>2 DEF a, p
<1>4. QED
  BY <1>1, <1>2, <1>3, Zenon DEF EventOf

LEMMA InvEventsCountOnce == CorrelationInv => EventsCountOnce
<1>1. SUFFICES ASSUME CorrelationInv, EventsIdentified
               PROVE  Len(observations)
                        = Cardinality({EventOf(d) : d \in {e \in delivered : Marker \in Meant(e)}})
  BY DEF EventsCountOnce
<1> DEFINE n == Len(observations)
           E == {EventOf(d) : d \in {e \in delivered : Marker \in Meant(e)}}
           f == [i \in 1..n |-> <<observations[i].id[1], {observations[i].id[2]}>>]
<1>2. n \in Nat /\ DOMAIN observations = 1..n
  BY <1>1 DEF CorrelationInv
<1>3. \A i \in DOMAIN window : window[i] \in Accepted
  <2> DEFINE A == Accepted
  <2>1. window \in Seq(A)
    BY <1>1 DEF CorrelationInv
  <2> HIDE DEF A
  <2>2. \A i \in DOMAIN window : window[i] \in A
    BY <2>1
  <2>3. QED
    BY <2>2 DEF A
<1>4. Counted(window, observations) /\ AllRecalled
  BY <1>1 DEF CorrelationInv
<1>5. \A d \in delivered : Identified(d)
  BY <1>1 DEF EventsIdentified
<1> HIDE DEF n
\* What an observation of the session stands for.
<1>6. ASSUME NEW i \in 1..n
      PROVE  /\ observations[i].id = <<observations[i].id[1], observations[i].id[2]>>
             /\ f[i] \in E
  <2>1. PICK j \in DOMAIN window : window[j] = observations[i]
    BY <1>2, <1>4 DEF Counted
  <2>2. observations[i].marker = Marker
    BY <1>2, <1>4 DEF Counted
  <2>3. PICK d \in delivered : /\ d[1] = observations[i].source
                               /\ observations[i].marker \in Meant(d) /\ HasIdOf(observations[i], d)
    BY <1>3, <2>1 DEF Accepted, Backed
  <2>4. /\ observations[i].id = <<observations[i].id[1], observations[i].id[2]>>
        /\ EventOf(d) = <<observations[i].id[1], {observations[i].id[2]}>>
    BY <1>5, <2>3, EventOfObservation
  <2>5. QED
    BY <2>2, <2>3, <2>4
\* Each event of the session is held.
<1>7. ASSUME NEW d \in delivered, Marker \in Meant(d)
      PROVE  \E i \in 1..n : f[i] = EventOf(d)
  <2>1. PICK id \in UpstreamId(d) \ {""} : UpstreamId(d) = {id}
    BY <1>5 DEF Identified
  <2>2. PICK j \in DOMAIN window : window[j].id = <<d[1], id>>
    BY <1>4, <1>7, <2>1 DEF AllRecalled, KnownId
  <2>3. PICK e \in delivered : /\ e[1] = window[j].source
                               /\ window[j].marker \in Meant(e) /\ HasIdOf(window[j], e)
    BY <1>3 DEF Accepted, Backed
  <2>4. EventOf(e) = <<window[j].id[1], {window[j].id[2]}>>
    BY <1>5, <2>3, EventOfObservation
  <2>5. EventOf(e) = EventOf(d)
    <3>1. window[j].id[1] = d[1] /\ window[j].id[2] = id
      <4> DEFINE a == d[1]
                 p == window[j].id
      <4>1. p = <<a, id>>
        BY <2>2
      <4> HIDE DEF a, p
      <4>2. p[1] = a /\ p[2] = id
        BY <4>1, PartsOfPair
      <4>3. QED
        BY <4>2 DEF a, p
    <3>2. QED
      BY <2>1, <2>4, <3>1, Zenon DEF EventOf
  <2>6. window[j].marker = Marker
    BY <1>1, <1>7, <2>3, <2>5 DEF EventsIdentified
  <2>7. PICK i \in 1..n : observations[i] = window[j]
    BY <1>2, <1>4, <2>6 DEF Counted
  <2>8. QED
    BY <2>4, <2>5, <2>7
<1>8. f \in [1..n -> E]
  BY <1>6
<1>9. \A i, j \in 1..n : f[i] = f[j] => i = j
  <2>1. SUFFICES ASSUME NEW i \in 1..n, NEW j \in 1..n, f[i] = f[j] PROVE i = j
    OBVIOUS
  <2>2. observations[i].id[1] = observations[j].id[1] /\ observations[i].id[2] = observations[j].id[2]
    BY <2>1
  <2>3. observations[i].id = observations[j].id
    BY <1>6, <2>2
  <2>4. QED
    BY <1>2, <1>4, <2>3 DEF Counted
<1>10. \A e \in E : \E i \in 1..n : f[i] = e
  BY <1>7
<1>11. IsFiniteSet(1..n) /\ Cardinality(1..n) = n
  BY <1>2, FirstIndices
<1>12. DOMAIN f = 1..n
  OBVIOUS
<1> HIDE DEF f, E
<1>13. f \in Bijection(1..n, E)
  BY <1>8, <1>9, <1>10, <1>12 DEF Bijection, Injection, Surjection, IsInjective
<1>14. ExistsBijection(1..n, E)
  BY <1>13 DEF ExistsBijection
<1>15. Cardinality(E) = n
  BY <1>11, <1>14, FS_Bijection
<1>16. QED
  BY <1>15 DEF E, n

\* As long as the vendors identify their events, however often they deliver them, in
\* which batches and in whatever order, the session holds one observation for each
\* event that was delivered for it.
THEOREM EventsAlwaysCountOnce == Spec => []EventsCountOnce
BY CorrelationInvariant, InvEventsCountOnce, PTL

----------------------------------------------------------------------------
(* A run counts dimensions.                                                *)

\* As many of the values of a sequence without repetition, as of its places.
LEMMA CountByPlace ==
  ASSUME NEW X, NEW ds \in Seq(X), IsInjective(ds), NEW D \in SUBSET ToSet(ds)
  PROVE  /\ IsFiniteSet(D)
         /\ Cardinality(D) = Cardinality({i \in 1..Len(ds) : ds[i] \in D})
<1> DEFINE n == Len(ds)
           I == {i \in 1..n : ds[i] \in D}
           f == [i \in I |-> ds[i]]
<1>1. n \in Nat /\ DOMAIN ds = 1..n
  OBVIOUS
<1>2. IsFiniteSet(1..n)
  <2> HIDE DEF n
  <2>1. QED
    BY <1>1, FirstIndices
<1>3. IsFiniteSet(I)
  <2>1. I \subseteq 1..n
    OBVIOUS
  <2> HIDE DEF I, n
  <2>2. QED
    BY <1>2, <2>1, FS_Subset
<1>4. f \in [I -> D]
  OBVIOUS
<1>5. \A a, b \in I : f[a] = f[b] => a = b
  BY <1>1 DEF IsInjective
<1>6. \A d \in D : \E i \in I : f[i] = d
  BY <1>1 DEF ToSet
<1>7. f \in Bijection(I, D)
  <2>1. DOMAIN f = I
    OBVIOUS
  <2> HIDE DEF f, I
  <2>2. QED
    BY <1>4, <1>5, <1>6, <2>1 DEF Bijection, Injection, Surjection, IsInjective
<1>8. ExistsBijection(I, D)
  <2> HIDE DEF f, I
  <2>1. QED
    BY <1>7 DEF ExistsBijection
<1>9. QED
  <2> HIDE DEF I
  <2>1. IsFiniteSet(D) /\ Cardinality(D) = Cardinality(I)
    BY <1>3, <1>8, FS_Bijection
  <2>2. QED
    BY <2>1 DEF I

LEMMA EightDimensions == IsFiniteSet(Dimensions) /\ Cardinality(Dimensions) = 8
<1> DEFINE ds == DimensionOrder
           I == {i \in 1..Len(ds) : ds[i] \in Dimensions}
<1>1. Len(ds) = 8 /\ DOMAIN ds = 1..8
  BY DEF DimensionOrder
<1>2. \A i \in 1..8 : ds[i] \in Dimensions
  BY <1>1 DEF Dimensions, ToSet
<1>3. ds \in Seq(Dimensions)
  <2>1. ds = [i \in 1..8 |-> ds[i]]
    BY DEF DimensionOrder
  <2> HIDE DEF ds
  <2>2. QED
    BY <1>1, <1>2, <2>1
<1>4. IsInjective(ds)
  <2>1. /\ ds[1] = "process" /\ ds[2] = "filesystem" /\ ds[3] = "network" /\ ds[4] = "dns"
        /\ ds[5] = "kubernetes" /\ ds[6] = "cloudIdentity" /\ ds[7] = "api" /\ ds[8] = "mcp"
    BY DEF DimensionOrder
  <2>2. \A i \in 1..8 : i = 1 \/ i = 2 \/ i = 3 \/ i = 4 \/ i = 5 \/ i = 6 \/ i = 7 \/ i = 8
    OBVIOUS
  <2> HIDE DEF ds
  <2>3. \A a, b \in 1..8 : ds[a] = ds[b] => a = b
    BY <2>1, <2>2
  <2>4. QED
    BY <1>1, <2>3 DEF IsInjective
<1>5. I = 1..8
  BY <1>1, <1>2
<1>6. Dimensions = ToSet(ds)
  BY DEF Dimensions
<1>7. IsFiniteSet(Dimensions) /\ Cardinality(Dimensions) = Cardinality(I)
  <2> HIDE DEF ds
  <2>1. QED
    BY <1>3, <1>4, <1>6, CountByPlace DEF I
<1>8. Cardinality(1..8) = 8
  <2>1. \A k \in Nat \ {0} : Cardinality(1..k) = k
    BY FirstIndices
  <2>2. 8 \in Nat \ {0}
    OBVIOUS
  <2>3. QED
    BY <2>1, <2>2, Zenon
<1>9. QED
  BY <1>5, <1>7, <1>8

\* What there is to know of the objective and of the checks on its dimensions.
Ordered(n, checks, s, t) ==
  /\ n \in 1..8 /\ n = Len(checks) /\ Cardinality(Required) = n /\ Checks(checks)
  /\ Upto(checks, n) = s /\ AttributedUpto(checks, n) = t /\ s \in 0..n /\ t \in 0..s
  /\ Score(checks) = Mean(45 * s + 55 * t, n)
  /\ \A d \in Required : \E i \in 1..n : checks[i].dimension = d
  /\ \A i \in 1..n :
       LET c == checks[i]
       IN  /\ c.dimension \in Required /\ c = Check(c.dimension, truth, observations)
           /\ c.observed <=> Seen(c.dimension) # {}
           /\ c.attributed <=> Credited(c.dimension) # {}
           /\ c.attributed => c.observed

LEMMA ChecksOrdered ==
  ASSUME CorrelationInv
  PROVE  Ordered(Len(slo.required), ChecksOf(slo, truth, observations),
                 Cardinality({d \in Required : Seen(d) # {}}),
                 Cardinality({d \in Required : Credited(d) # {}}))
<1> DEFINE ds == slo.required
           n == Len(ds)
           checks == ChecksOf(slo, truth, observations)
           seen == {d \in Required : Seen(d) # {}}
           credited == {d \in Required : Credited(d) # {}}
<1>1. ds \in Seq(Dimensions) /\ ds # <<>> /\ IsInjective(ds)
  <2>1. slo \in SLOType
    BY CorrelationAssumption DEF CorrelationInv
  <2>2. slo.required \in {s \in Seq(Dimensions) : s # <<>> /\ IsInjective(s)}
    BY <2>1 DEF SLOType
  <2>3. QED
    BY <2>2
<1>2. Required = ToSet(ds)
  BY DEF Required
<1>3. /\ observations \in Seq(ObservationType) /\ NoEvidence \notin ObservationType
      /\ \A o \in ObservationType : o.attributed \in BOOLEAN
  BY CorrelationAssumption DEF CorrelationInv, ObservationType
<1>4. \A d : About(observations, d) = Seen(d) /\ CreditedAbout(observations, d) = Credited(d)
  BY DEF About, CreditedAbout, Seen, Credited
<1>5. \A d : LET c == Check(d, truth, observations)
             IN  /\ c.dimension = d
                 /\ c.observed <=> Seen(d) # {}
                 /\ c.attributed <=> Credited(d) # {}
                 /\ c.attributed => c.observed
  BY <1>3, <1>4, CheckForm
<1>6. /\ Checks(checks) /\ n = Len(checks)
      /\ \A i \in 1..n : checks[i] = Check(ds[i], truth, observations)
  <2>1. \A i \in 1..n : ds[i] \in Dimensions
    BY <1>1
  <2>2. QED
    BY <1>1, ChecksForm
<1> HIDE DEF ds, checks
<1>7. n \in Nat \ {0} /\ DOMAIN ds = 1..n
  BY <1>1
<1>8. /\ Cardinality(Required) = n /\ n <= 8
  <2>1. {i \in 1..n : ds[i] \in Required} = 1..n
    BY <1>2, <1>7 DEF ToSet
  <2>2. Cardinality(Required) = Cardinality(1..n)
    <3>1. Required \in SUBSET ToSet(ds)
      BY <1>2
    <3>2. Cardinality(Required) = Cardinality({i \in 1..n : ds[i] \in Required})
      BY <1>1, <3>1, CountByPlace
    <3>3. QED
      BY <2>1, <3>2
  <2>3. Cardinality(1..n) = n
    <3> HIDE DEF n
    <3>1. QED
      BY <1>7, FirstIndices
  <2>4. Required \subseteq Dimensions
    BY <1>1, <1>2 DEF ToSet
  <2>5. Cardinality(Required) <= 8
    BY <2>4, EightDimensions, FS_Subset
  <2>6. QED
    BY <2>2, <2>3, <2>5
<1>9. \A i \in 1..n : checks[i].dimension = ds[i] /\ ds[i] \in Required
  BY <1>2, <1>5, <1>6, <1>7 DEF ToSet
<1>10. \A d \in Required : \E i \in 1..n : checks[i].dimension = d
  BY <1>2, <1>7, <1>9 DEF ToSet
<1>11. Upto(checks, n) = Cardinality(seen)
  <2>1. \A i \in 1..n : checks[i].observed <=> ds[i] \in seen
    BY <1>5, <1>6, <1>9
  <2>2. {i \in 1..n : checks[i].observed} = {i \in 1..n : ds[i] \in seen}
    <3> HIDE DEF seen, n
    <3>1. QED
      BY <2>1
  <2>3. seen \in SUBSET ToSet(ds)
    BY <1>2
  <2> HIDE DEF seen
  <2>4. Cardinality(seen) = Cardinality({i \in 1..n : ds[i] \in seen})
    BY <1>1, <2>3, CountByPlace
  <2> HIDE DEF n
  <2>5. QED
    BY <2>2, <2>4 DEF Upto
<1>12. AttributedUpto(checks, n) = Cardinality(credited)
  <2>1. \A i \in 1..n : checks[i].attributed <=> ds[i] \in credited
    BY <1>5, <1>6, <1>9
  <2>2. {i \in 1..n : checks[i].attributed} = {i \in 1..n : ds[i] \in credited}
    <3> HIDE DEF credited, n
    <3>1. QED
      BY <2>1
  <2>3. credited \in SUBSET ToSet(ds)
    BY <1>2
  <2> HIDE DEF credited
  <2>4. Cardinality(credited) = Cardinality({i \in 1..n : ds[i] \in credited})
    BY <1>1, <2>3, CountByPlace
  <2> HIDE DEF n
  <2>5. QED
    BY <2>2, <2>4 DEF AttributedUpto
<1>13. Cardinality(credited) <= Cardinality(seen)
  <2>1. credited \subseteq seen
    BY DEF Credited
  <2>2. IsFiniteSet(seen)
    <3>1. seen \in SUBSET ToSet(ds)
      BY <1>2
    <3> HIDE DEF seen
    <3>2. QED
      BY <1>1, <3>1, CountByPlace
  <2> HIDE DEF seen, credited
  <2>3. QED
    BY <2>1, <2>2, FS_Subset
<1>14. /\ Upto(checks, n) \in 0..n /\ AttributedUpto(checks, n) \in 0..n
       /\ Score(checks) = Mean(45 * Upto(checks, n) + 55 * AttributedUpto(checks, n), n)
  <2> HIDE DEF n
  <2>1. QED
    BY <1>6, ScoreForm
<1>15. \A i \in 1..n :
         LET c == checks[i]
         IN  /\ c.dimension \in Required /\ c = Check(c.dimension, truth, observations)
             /\ c.observed <=> Seen(c.dimension) # {}
             /\ c.attributed <=> Credited(c.dimension) # {}
             /\ c.attributed => c.observed
  <2> HIDE DEF n
  <2>1. QED
    BY <1>5, <1>6, <1>9
<1>16. n \in 1..8 /\ Cardinality(seen) \in 0..n /\ Cardinality(credited) \in 0..Cardinality(seen)
  <2> HIDE DEF n, seen, credited
  <2>1. QED
    BY <1>7, <1>8, <1>11, <1>12, <1>13, <1>14
<1> HIDE DEF n, seen, credited
<1>17. Ordered(n, checks, Cardinality(seen), Cardinality(credited))
  BY <1>6, <1>8, <1>10, <1>11, <1>12, <1>14, <1>15, <1>16 DEF Ordered
<1>18. QED
  BY <1>17 DEF n, checks, seen, credited, ds

LEMMA EarliestIsMin ==
  ASSUME NEW I \in SUBSET Nat, I # {}
  PROVE  Earliest(I) = Min(I) /\ Least(Earliest(I), I)
<1>1. Earliest(I) = Min(I)
  BY Zenon DEF Earliest, Min
<1>2. QED
  BY <1>1, LeastIsMin

LEMMA LeastIsUnique ==
  ASSUME NEW I \in SUBSET Nat, NEW i, NEW j, Least(i, I), Least(j, I)
  PROVE  i = j
<1>1. i \in Nat /\ j \in Nat /\ i <= j /\ j <= i
  BY DEF Least
<1>2. QED
  BY <1>1

\* A check is charged with the delay of its dimension.
LEMMA LatencyIsDelay ==
  ASSUME CorrelationInv, NEW d, Seen(d) # {}
  PROVE  /\ Check(d, truth, observations).latency = Delay(d)
         /\ Delay(d) \in Nat
<1> DEFINE n == Len(observations)
           b == BestObservation(observations, d)
           t == FirstTruth(truth, d)
           I == IF Credited(d) # {} THEN Credited(d) ELSE Seen(d)
           o == observations[Earliest(I)]
           e == truth[Earliest(Told(d))]
<1>1. /\ observations \in Seq(ObservationType) /\ NoEvidence \notin ObservationType
      /\ truth \in Seq(TruthEvents) /\ NoEvidence \notin TruthEvents
      /\ (\A x \in ObservationType : x.attributed \in BOOLEAN /\ x.receivedAt \in Int)
      /\ (\A x \in TruthEvents : x.occurredAt \in Int)
  BY CorrelationAssumption DEF CorrelationInv, ObservationType
<1>2. /\ About(observations, d) \cap (1..n) = Seen(d)
      /\ CreditedAbout(observations, d) \cap (1..n) = Credited(d)
      /\ Credited(d) \subseteq Seen(d) /\ Seen(d) \subseteq 1..n /\ n \in Nat
  BY <1>1 DEF About, CreditedAbout, Seen, Credited
<1>3. Best(b, observations, d, n)
  <2> HIDE DEF b, n
  <2>1. QED
    BY <1>1, BestObservationForm DEF b, n
<1>4. PICK i \in 1..n : b = observations[i] /\ Least(i, I)
  BY <1>2, <1>3 DEF Best
<1>5. I \in SUBSET Nat /\ I # {}
  BY <1>2
<1>6. Earliest(I) = i
  <2> HIDE DEF I
  <2>1. QED
    BY <1>4, <1>5, EarliestIsMin, LeastIsUnique
<1>7. b = o /\ o \in ObservationType
  BY <1>1, <1>4, <1>6
<1>8. t = IF Told(d) = {} THEN NoEvidence ELSE e
  <2>1. t = IF Told(d) = {} THEN NoEvidence ELSE truth[Min(Told(d))]
    BY Zenon DEF FirstTruth, Told
  <2>2. Told(d) \in SUBSET Nat
    BY <1>1 DEF Told
  <2>3. Told(d) # {} => Earliest(Told(d)) = Min(Told(d))
    BY <2>2, EarliestIsMin
  <2>4. QED
    BY <2>1, <2>3
<1>9. Told(d) # {} => e \in TruthEvents
  <2>1. SUFFICES ASSUME Told(d) # {} PROVE e \in TruthEvents
    OBVIOUS
  <2>2. Told(d) \in SUBSET Nat /\ Told(d) \subseteq DOMAIN truth
    BY <1>1 DEF Told
  <2>3. Earliest(Told(d)) \in DOMAIN truth
    BY <2>1, <2>2, EarliestIsMin DEF Least
  <2>4. QED
    BY <1>1, <2>3
<1>10. Check(d, truth, observations).latency =
         IF b = NoEvidence \/ t = NoEvidence THEN 0 ELSE Floor(b.receivedAt - t.occurredAt)
  BY DEF Check
<1>11. Delay(d) = IF Told(d) = {} \/ o.receivedAt < e.occurredAt THEN 0
                  ELSE o.receivedAt - e.occurredAt
  BY Zenon DEF Delay
<1> HIDE DEF b, t, o, e
<1>12. b # NoEvidence /\ o.receivedAt \in Int
  BY <1>1, <1>7
<1>13. CASE Told(d) = {}
  BY <1>8, <1>10, <1>11, <1>13
<1>14. CASE Told(d) # {}
  <2>1. t = e /\ t # NoEvidence /\ e.occurredAt \in Int
    BY <1>1, <1>8, <1>9, <1>14
  <2>2. Check(d, truth, observations).latency = Floor(o.receivedAt - e.occurredAt)
    BY <1>7, <1>10, <1>12, <2>1
  <2>3. QED
    BY <1>11, <1>12, <1>14, <2>1, <2>2 DEF Floor
<1>15. QED
  BY <1>13, <1>14

LEMMA RunForm ==
  LET checks == ChecksOf(slo, truth, observations)
  IN  /\ Run.verdict.score = Score(checks)
      /\ Run.verdict.status = Status(slo, Score(checks), Latency(checks))
      /\ Run.verdict.budget = ErrorBudget(slo.target, Score(checks))
      /\ Run.breaks = Breaks(checks) /\ Run.edges = LiveEdges(checks)
BY DEF Run, Correlate, Verdict

LEMMA ObjectiveForm ==
  ASSUME CorrelationInv
  PROVE  slo.target \in 1..1000 /\ slo.latencyP95 \in Nat
<1>1. slo \in SLOType
  BY CorrelationAssumption DEF CorrelationInv
<1>2. QED
  BY <1>1 DEF SLOType

\* The score, between its bounds.
Scored(score, n, s, t) ==
  n \in 1..8 /\ s \in 0..n /\ t \in 0..s /\ score = Mean(45 * s + 55 * t, n)

Bounded(score, n, s, t) ==
  /\ score \in 0..1000
  /\ 2 * n * score <= 20 * (45 * s + 55 * t) + n
  /\ 20 * (45 * s + 55 * t) + n < 2 * n * (score + 1)
  /\ score > 990 => t = n
  /\ t = n => score = 1000

LEMMA ScoreBounds ==
  ASSUME NEW score, NEW n, NEW s, NEW t, Scored(score, n, s, t)
  PROVE  Bounded(score, n, s, t)
<1> USE DEF Scored
<1> DEFINE total == 45 * s + 55 * t
           p == n * score
<1>1. total \in Nat /\ n \in Nat \ {0} /\ total <= 100 * n /\ score = Mean(total, n)
  OBVIOUS
<1>2. score \in Int /\ 2 * n * score <= 20 * total + n /\ 20 * total + n < 2 * n * score + 2 * n
  <2> HIDE DEF total
  <2>1. QED
    BY <1>1, MeanForm
<1>3. p \in Int /\ 2 * n * score = 2 * p /\ 2 * n * (score + 1) = 2 * p + 2 * n
  BY <1>2
<1>4. 2 * p <= 20 * total + n /\ 20 * total + n < 2 * p + 2 * n
  <2> HIDE DEF p, total
  <2>1. QED
    BY <1>1, <1>2, <1>3
<1>5. score >= 0
  <2>1. SUFFICES ASSUME score <= 0 - 1 PROVE FALSE
    BY <1>2
  <2>2. n * (0 - 1 - score) >= 0
    BY <1>2, <2>1
  <2>3. n * (0 - 1 - score) = 0 - n - p
    BY <1>2
  <2> HIDE DEF p, total
  <2>4. QED
    BY <1>1, <1>3, <1>4, <2>2, <2>3
<1>6. score <= 1000 /\ (t = n => score = 1000)
  <2>1. Mean(100 * n, n) = 1000
    BY MeanOfFull
  <2>2. score <= 1000
    <3> HIDE DEF total
    <3>1. 100 * n \in Nat
      OBVIOUS
    <3>2. Mean(total, n) <= Mean(100 * n, n)
      BY <1>1, <3>1, MeanMonotone
    <3>3. QED
      BY <2>1, <3>2 DEF total
  <2>3. t = n => total = 100 * n
    OBVIOUS
  <2>4. QED
    BY <2>1, <2>2, <2>3
<1>7. score > 990 => t = n
  <2>1. SUFFICES ASSUME score > 990, t <= n - 1 PROVE FALSE
    OBVIOUS
  <2>2. total <= 100 * n - 55
    BY <2>1
  <2>3. n * (score - 991) >= 0
    BY <1>2, <2>1
  <2>4. n * (score - 991) = p - 991 * n
    BY <1>2
  <2> HIDE DEF p, total
  <2>5. QED
    BY <1>1, <1>3, <1>4, <2>2, <2>3, <2>4
<1>8. /\ 2 * n * score <= 20 * total + n
      /\ 20 * total + n < 2 * n * (score + 1)
  <2> HIDE DEF p, total
  <2>1. QED
    BY <1>1, <1>2, <1>3
<1>9. score \in 0..1000
  <2> HIDE DEF p, total
  <2>1. score \in Int /\ score >= 0 /\ score <= 1000
    BY <1>2, <1>5, <1>6
  <2>2. QED
    BY <2>1
<1>10. QED
  BY <1>6, <1>7, <1>8, <1>9, Zenon DEF Bounded

----------------------------------------------------------------------------
(* The properties of a run.                                                *)

LEMMA InvVerdictMatches == CorrelationInv => VerdictMatchesReference
<1> SUFFICES ASSUME CorrelationInv PROVE VerdictMatchesReference
  OBVIOUS
<1> DEFINE n == Len(slo.required)
           checks == ChecksOf(slo, truth, observations)
           s == Cardinality({d \in Required : Seen(d) # {}})
           t == Cardinality({d \in Required : Credited(d) # {}})
           score == Score(checks)
           latency == Latency(checks)
           InTime == \A d \in Required : Seen(d) # {} => Delay(d) <= slo.latencyP95
<1>1. Ordered(n, checks, s, t)
  BY ChecksOrdered
<1>2. slo.target \in 1..1000 /\ slo.latencyP95 \in Nat
  BY ObjectiveForm
<1>3. Run.verdict.score = score /\ Run.verdict.status = Status(slo, score, latency)
  BY RunForm
<1> HIDE DEF n, checks, s, t
<1>4. /\ n \in 1..8 /\ n = Cardinality(Required) /\ n = Len(checks) /\ s \in 0..n /\ t \in 0..s
      /\ score = Mean(45 * s + 55 * t, n) /\ Checks(checks)
  BY <1>1 DEF Ordered
<1>5. /\ score \in 0..1000
      /\ 2 * n * score <= 20 * (45 * s + 55 * t) + n
      /\ 20 * (45 * s + 55 * t) + n < 2 * n * (score + 1)
  <2>1. Scored(score, n, s, t)
    BY <1>4 DEF Scored
  <2> HIDE DEF score
  <2>2. Bounded(score, n, s, t)
    BY <2>1, ScoreBounds
  <2>3. QED
    BY <2>2 DEF Bounded
<1>6. \A i \in 1..n : checks[i].observed =>
        /\ checks[i].dimension \in Required /\ Seen(checks[i].dimension) # {}
        /\ checks[i].latency = Delay(checks[i].dimension) /\ checks[i].latency \in Nat
  <2>1. TAKE i \in 1..n
  <2> DEFINE c == checks[i]
  <2>2. SUFFICES ASSUME c.observed
                 PROVE  /\ c.dimension \in Required /\ Seen(c.dimension) # {}
                        /\ c.latency = Delay(c.dimension) /\ c.latency \in Nat
    OBVIOUS
  <2>3. /\ c.dimension \in Required /\ c = Check(c.dimension, truth, observations)
        /\ Seen(c.dimension) # {}
    BY <1>1, <2>2 DEF Ordered
  <2>4. /\ Check(c.dimension, truth, observations).latency = Delay(c.dimension)
        /\ Delay(c.dimension) \in Nat
    BY <2>3, LatencyIsDelay
  <2>5. QED
    BY <2>3, <2>4, Zenon
<1>7. /\ latency \in Nat
      /\ latency <= slo.latencyP95
           <=> \A i \in 1..n : checks[i].observed => checks[i].latency <= slo.latencyP95
  <2>1. n \in 1..8 /\ Len(checks) = n /\ Checks(checks)
    BY <1>4
  <2>2. Len(checks) < 20
    BY <2>1
  <2>3. \A i \in 1..n : checks[i].observed => checks[i].latency \in Nat
    BY <1>6
  <2>4. QED
    BY <1>2, <2>1, <2>2, <2>3, LatencyForm
<1>8. (\A i \in 1..n : checks[i].observed => checks[i].latency <= slo.latencyP95) <=> InTime
  <2>1. ASSUME \A i \in 1..n : checks[i].observed => checks[i].latency <= slo.latencyP95,
               NEW d \in Required, Seen(d) # {}
        PROVE  Delay(d) <= slo.latencyP95
    <3>1. PICK i \in 1..n : checks[i].dimension = d
      BY <1>1 DEF Ordered
    <3>2. checks[i].observed
      BY <1>1, <2>1, <3>1 DEF Ordered
    <3>3. QED
      BY <1>6, <2>1, <3>1, <3>2
  <2>2. ASSUME InTime, NEW i \in 1..n, checks[i].observed
        PROVE  checks[i].latency <= slo.latencyP95
    BY <1>6, <2>2
  <2>3. QED
    BY <2>1, <2>2
<1>9. latency <= slo.latencyP95 <=> InTime
  BY <1>7, <1>8, Zenon
<1>10. Run.verdict.status = "passing" <=> score >= slo.target /\ InTime
  <2> DEFINE target == slo.target
             bound == slo.latencyP95
  <2>1. score \in 0..1000 /\ latency \in Nat
    BY <1>5, <1>7, Zenon
  <2>2. target \in 1..1000 /\ bound \in Nat
    BY <1>2, Zenon
  <2>3. Run.verdict.status = IF score < target \/ latency > bound THEN "failing" ELSE "passing"
    BY <1>3 DEF Status
  <2>4. latency <= bound <=> InTime
    BY <1>9
  <2> HIDE DEF score, latency, InTime, target, bound
  <2>5. latency > bound <=> ~(latency <= bound)
    BY <2>1, <2>2
  <2>6. score < target <=> ~(score >= target)
    BY <2>1, <2>2
  <2>7. QED
    BY <2>3, <2>4, <2>5, <2>6 DEF target
<1>11. QED
  <2> HIDE DEF score, InTime
  <2>1. /\ 2 * n * Run.verdict.score <= 20 * (45 * s + 55 * t) + n
        /\ 20 * (45 * s + 55 * t) + n < 2 * n * (Run.verdict.score + 1)
        /\ Run.verdict.status = "passing" <=> Run.verdict.score >= slo.target /\ InTime
    BY <1>3, <1>5, <1>10
  <2>2. QED
    BY <1>4, <2>1, Zenon DEF VerdictMatchesReference, s, t, InTime

LEMMA InvPassingMeansAttributed == CorrelationInv => PassingMeansAttributed
<1> SUFFICES ASSUME CorrelationInv, slo.target > 990, Run.verdict.status = "passing",
                    NEW d \in Required
             PROVE  Credited(d) # {}
  BY DEF PassingMeansAttributed
<1> DEFINE n == Len(slo.required)
           checks == ChecksOf(slo, truth, observations)
           s == Cardinality({e \in Required : Seen(e) # {}})
           t == Cardinality({e \in Required : Credited(e) # {}})
           score == Score(checks)
<1>1. Ordered(n, checks, s, t)
  BY ChecksOrdered
<1>2. slo.target \in 1..1000
  BY ObjectiveForm
<1>3. Run.verdict.status = Status(slo, score, Latency(checks))
  BY RunForm
<1> HIDE DEF n, checks, s, t
<1>4. /\ n \in 1..8 /\ s \in 0..n /\ t \in 0..s /\ n = Cardinality(Required)
      /\ score = Mean(45 * s + 55 * t, n)
  BY <1>1 DEF Ordered
<1> HIDE DEF score
<1>5. score \in 0..1000 /\ (score > 990 => t = n)
  <2>1. Scored(score, n, s, t)
    BY <1>4 DEF Scored
  <2>2. Bounded(score, n, s, t)
    BY <2>1, ScoreBounds
  <2>3. QED
    BY <2>2 DEF Bounded
<1>6. ~(score < slo.target)
  BY <1>3 DEF Status
<1>7. t = n
  <2> DEFINE target == slo.target
  <2>1. target \in Int /\ score \in Int /\ target > 990 /\ ~(score < target)
    <3>1. target \in 1..1000 /\ score \in 0..1000
      BY <1>2, <1>5
    <3>2. target > 990 /\ ~(score < target)
      BY <1>6
    <3> HIDE DEF target
    <3>3. QED
      BY <3>1, <3>2
  <2> HIDE DEF target
  <2>2. score > 990
    BY <2>1
  <2>3. QED
    BY <1>5, <2>2
<1> DEFINE C == {e \in Required : Credited(e) # {}}
<1>8. IsFiniteSet(Required)
  <2>1. Required \subseteq Dimensions
    <3>1. slo \in SLOType
      BY CorrelationAssumption DEF CorrelationInv
    <3>2. slo.required \in Seq(Dimensions)
      BY <3>1 DEF SLOType
    <3>3. QED
      BY <3>2 DEF Required, ToSet
  <2>2. QED
    BY <2>1, EightDimensions, FS_Subset
<1>9. C \subseteq Required /\ Cardinality(C) = Cardinality(Required)
  BY <1>4, <1>7 DEF t
<1>10. C = Required
  <2> HIDE DEF C
  <2>1. QED
    BY <1>8, <1>9, FS_Subset
<1>11. QED
  BY <1>10

\* The budget is exhausted when the score misses the target.
Exhausts(target, score) == ErrorBudget(target, score).exhausted <=> score < target

Ranged(target, score) == target \in 1..1000 /\ score \in 0..1000

LEMMA ExhaustedForm ==
  ASSUME NEW target, NEW score, Ranged(target, score)
  PROVE  Exhausts(target, score)
<1> USE DEF Ranged
<1> DEFINE allowed == Floor(1000 - target)
           consumed == Floor(1000 - score)
           exhausted == consumed > allowed
<1>1. ErrorBudget(target, score) =
        [allowed   |-> allowed,
         consumed  |-> consumed,
         remaining |-> Floor(allowed - consumed),
         ratio     |-> IF allowed = 0 THEN 0
                       ELSE (2000 * consumed + allowed) \div (2 * allowed),
         exhausted |-> exhausted]
  <2> HIDE DEF allowed, consumed
  <2>1. QED
    BY ZenonT(30) DEF ErrorBudget, allowed, consumed
<1>2. exhausted <=> score < target
  BY DEF Floor
<1> HIDE DEF exhausted, consumed, allowed
<1>3. ErrorBudget(target, score).exhausted = exhausted
  BY <1>1
<1>4. QED
  BY <1>2, <1>3 DEF Exhausts

LEMMA InvReportIsConsistent == CorrelationInv => ReportIsConsistent
<1> SUFFICES ASSUME CorrelationInv PROVE ReportIsConsistent
  OBVIOUS
<1> DEFINE n == Len(slo.required)
           checks == ChecksOf(slo, truth, observations)
           s == Cardinality({e \in Required : Seen(e) # {}})
           t == Cardinality({e \in Required : Credited(e) # {}})
           score == Score(checks)
           target == slo.target
           breaks == Breaks(checks)
           edges == LiveEdges(checks)
           broken == {b[1] : b \in breaks}
           kept == {c.dimension : c \in {k \in ToSet(checks) : Preserved(k)}}
<1>1. Ordered(n, checks, s, t)
  BY ChecksOrdered
<1>2. target \in 1..1000
  BY ObjectiveForm
<1>3. /\ Run.verdict.score = score /\ Run.verdict.budget = ErrorBudget(target, score)
      /\ Run.breaks = breaks /\ Run.edges = edges
  BY RunForm
<1> HIDE DEF n, checks, s, t, target
<1>4. Scored(score, n, s, t) /\ n \in 1..8 /\ t = AttributedUpto(checks, n)
  BY <1>1 DEF Ordered, Scored
<1>5. DOMAIN checks = 1..n /\ ToSet(checks) = {checks[i] : i \in 1..n}
  BY <1>1 DEF Ordered, Checks, ToSet
<1> HIDE DEF score
<1>6. score \in 0..1000 /\ (t = n => score = 1000)
  BY <1>4, ScoreBounds DEF Bounded
\* Every dimension is attributed in a perfect run.
<1>7. (\A i \in 1..n : checks[i].attributed) => score = 1000
  <2>1. SUFFICES ASSUME \A i \in 1..n : checks[i].attributed PROVE t = n
    BY <1>6
  <2>2. {i \in 1..n : checks[i].attributed} = 1..n
    BY <2>1
  <2>3. t = Cardinality(1..n)
    BY <1>4, <2>2 DEF AttributedUpto
  <2>4. n \in Nat \ {0}
    BY <1>4
  <2>5. Cardinality(1..n) = n
    BY <2>4, FirstIndices
  <2>6. QED
    BY <2>3, <2>5
<1>8. \A i \in 1..n : Preserved(checks[i]) \/ <<checks[i].dimension, Reason(checks[i])>> \in breaks
  <2>1. breaks = {<<c.dimension, Reason(c)>> : c \in {k \in ToSet(checks) : ~Preserved(k)}}
    BY DEF Breaks
  <2>2. QED
    BY <1>5, <2>1
<1>9. \A i \in 1..n : Preserved(checks[i]) => checks[i].attributed
  BY DEF Preserved
<1>10. score < 1000 => \E d \in broken : Credited(d) = {}
  <2>1. SUFFICES ASSUME score < 1000 PROVE \E d \in broken : Credited(d) = {}
    OBVIOUS
  <2>2. PICK i \in 1..n : ~checks[i].attributed
    BY <1>6, <1>7, <2>1
  <2> DEFINE b == <<checks[i].dimension, Reason(checks[i])>>
  <2>3. b \in breaks
    BY <1>8, <1>9, <2>2
  <2>4. Credited(b[1]) = {}
    BY <1>1, <2>2 DEF Ordered
  <2>5. QED
    BY <2>3, <2>4
\* What a break names is what is not kept of the required dimensions.
<1>11. kept = Required \ broken
  <2>1. broken = {c.dimension : c \in {k \in ToSet(checks) : ~Preserved(k)}}
    <3> DEFINE lost == {k \in ToSet(checks) : ~Preserved(k)}
               Break(c) == <<c.dimension, Reason(c)>>
    <3>1. breaks = {Break(c) : c \in lost}
      BY DEF Breaks
    <3>2. \A c \in lost : Break(c)[1] = c.dimension
      OBVIOUS
    <3> HIDE DEF breaks, lost, Break
    <3>3. QED
      BY <3>1, <3>2 DEF lost
  <2>2. \A i \in 1..n : checks[i] = Check(checks[i].dimension, truth, observations)
    BY <1>1 DEF Ordered
  <2>3. Required = {checks[i].dimension : i \in 1..n}
    <3>1. \A d \in Required : \E i \in 1..n : checks[i].dimension = d
      BY <1>1 DEF Ordered
    <3>2. \A i \in 1..n : checks[i].dimension \in Required
      BY <1>1 DEF Ordered
    <3>3. QED
      BY <3>1, <3>2
  <2> DEFINE K(i) == Preserved(checks[i])
  <2>4. kept = {checks[i].dimension : i \in {k \in 1..n : K(k)}}
    BY <1>5
  <2>5. broken = {checks[i].dimension : i \in {k \in 1..n : ~K(k)}}
    <3> HIDE DEF broken
    <3>1. QED
      BY <1>5, <2>1
  <2>6. \A i, j \in 1..n : checks[i].dimension = checks[j].dimension => (K(i) <=> K(j))
    BY <2>2
  <2> HIDE DEF kept, broken, K
  <2>7. QED
    BY <2>3, <2>4, <2>5, <2>6
<1>12. Run.verdict.budget.exhausted <=> score < target
  <2>1. ErrorBudget(target, score).exhausted <=> score < target
    <3>1. Ranged(target, score)
      BY <1>2, <1>6 DEF Ranged
    <3>2. Exhausts(target, score)
      BY <3>1, ExhaustedForm
    <3>3. QED
      BY <3>2, Zenon DEF Exhausts
  <2>2. QED
    BY <1>3, <2>1
<1>13. \A edge \in DOMAIN EdgeNeeds : edge \in edges <=> EdgeNeeds[edge] \subseteq Required \ broken
  <2>1. edges = {edge \in DOMAIN EdgeNeeds : EdgeNeeds[edge] \subseteq kept}
    BY DEF LiveEdges
  <2> HIDE DEF edges, kept, broken
  <2>2. QED
    BY <1>11, <2>1
<1>14. QED
  BY <1>3, <1>10, <1>12, <1>13 DEF ReportIsConsistent, target

\* The figures of a run.
Seens    == {d \in Required : Seen(d) # {}}
Crediteds == {d \in Required : Credited(d) # {}}
ScoreNow == Score(ChecksOf(slo, truth, observations))
Figures  == Scored(ScoreNow, Len(slo.required), Cardinality(Seens), Cardinality(Crediteds))
FiniteFigures == IsFiniteSet(Seens) /\ IsFiniteSet(Crediteds)

LEMMA InvFigures == CorrelationInv => Figures /\ FiniteFigures
<1> SUFFICES ASSUME CorrelationInv PROVE Figures /\ FiniteFigures
  OBVIOUS
<1>1. Ordered(Len(slo.required), ChecksOf(slo, truth, observations),
              Cardinality(Seens), Cardinality(Crediteds))
  BY ChecksOrdered DEF Seens, Crediteds
<1>2. Figures
  BY <1>1 DEF Ordered, Figures, Scored, ScoreNow
<1>3. Required \subseteq Dimensions
  <2>1. slo \in SLOType
    BY CorrelationAssumption DEF CorrelationInv
  <2>2. slo.required \in Seq(Dimensions)
    BY <2>1 DEF SLOType
  <2>3. QED
    BY <2>2 DEF Required, ToSet
<1>4. Seens \subseteq Required /\ Crediteds \subseteq Required
  BY DEF Seens, Crediteds
<1>5. IsFiniteSet(Required)
  BY <1>3, EightDimensions, FS_Subset
<1>6. QED
  BY <1>2, <1>4, <1>5, FS_Subset DEF FiniteFigures

LEMMA StepNeverLowers ==
  ASSUME CorrelationInv, Figures, Figures', FiniteFigures', slo' = slo, Grew(observations, observations'),
         observations \in Seq(ObservationType), observations' \in Seq(ObservationType)
  PROVE  ScoreNow' >= ScoreNow
<1>1. Required' = Required
  BY DEF Required
<1>2. \A d : Seen(d) \subseteq Seen(d)' /\ Credited(d) \subseteq Credited(d)'
  <2>1. /\ DOMAIN observations \subseteq DOMAIN observations'
        /\ \A i \in DOMAIN observations : observations'[i] = observations[i]
    BY DEF Grew
  <2>2. \A d : Seen(d) \subseteq Seen(d)'
    BY <2>1 DEF Seen
  <2>3. QED
    BY <2>1, <2>2 DEF Seen, Credited
<1>3. Seens \subseteq Seens' /\ Crediteds \subseteq Crediteds'
  BY <1>1, <1>2 DEF Seens, Crediteds
<1> DEFINE n == Len(slo.required)
           s == Cardinality(Seens)
           t == Cardinality(Crediteds)
           u == Cardinality(Seens')
           v == Cardinality(Crediteds')
<1>4. s <= u /\ t <= v
  BY <1>3, FS_Subset DEF FiniteFigures
<1>5. Scored(ScoreNow, n, s, t) /\ Scored(ScoreNow', n, u, v)
  BY DEF Figures
<1> HIDE DEF n, s, t, u, v
<1>6. n \in Nat \ {0} /\ s \in Nat /\ t \in Nat /\ u \in Nat /\ v \in Nat
  BY <1>5 DEF Scored
<1> DEFINE a == 45 * s + 55 * t
           b == 45 * u + 55 * v
<1>7. a \in Nat /\ b \in Nat /\ a <= b
  BY <1>4, <1>6
<1>8. ScoreNow = Mean(a, n) /\ ScoreNow' = Mean(b, n)
  BY <1>5 DEF Scored
<1> HIDE DEF a, b
<1>9. Mean(a, n) <= Mean(b, n) /\ Mean(a, n) \in Int /\ Mean(b, n) \in Int
  BY <1>6, <1>7, MeanMonotone, MeanForm
<1>10. QED
  BY <1>8, <1>9

----------------------------------------------------------------------------
(* The theorems.                                                           *)

\* For every objective and whatever evidence comes, in any order and number: the score
\* is the mean of what the required dimensions earn, to the nearest tenth, and
\* the run passes exactly when it meets the target and no dimension is late.
THEOREM VerdictAlwaysMatches == Spec => []VerdictMatchesReference
BY CorrelationInvariant, InvVerdictMatches, PTL

\* Under a target above 99 no run passes while a required dimension has no attributed
\* observation.
THEOREM PassingAlwaysMeansAttributed == Spec => []PassingMeansAttributed
BY CorrelationInvariant, InvPassingMeansAttributed, PTL

\* Score, breaks, graph and error budget of a report never contradict each other.
THEOREM ReportAlwaysConsistent == Spec => []ReportIsConsistent
BY CorrelationInvariant, InvReportIsConsistent, PTL

\* No truth event and no payload, however it is decoded and whenever it comes, lowers
\* the score of its session.
THEOREM EvidenceNeverCosts == Spec => EvidenceNeverLowersScore
<1>1. CorrelationInv /\ CorrelationInv' /\ Figures' /\ FiniteFigures' /\ [Next]_vars
        => ScoreNow' >= ScoreNow
  BY InvStep, InvFigures, StepNeverLowers DEF CorrelationInv
<1>2. ScoreNow' >= ScoreNow => Score(ChecksOf(slo, truth, observations)') >= Score(ChecksOf(slo, truth, observations))
  BY DEF ScoreNow
<1>3. QED
  BY <1>1, <1>2, InvFigures, CorrelationInvariant, PTL DEF Spec, EvidenceNeverLowersScore
=============================================================================
