------------------------------ MODULE Adapters ------------------------------
(***************************************************************************)
(* Decoding of vendor payloads, internal/adapters/adapters.go.  A record   *)
(* is flattened into a map from paths to texts, and everything is read     *)
(* from that map by the ends of paths or by words.  Go iterates a map in   *)
(* any order, anew for each search, so a search that several fields answer *)
(* may return any of them: the operators below give sets of results.       *)
(*                                                                         *)
(* A field is [path, text, marker, words]: the path cut at its dots, the   *)
(* leaf (a text stands for its first 320 bytes), the leftmost marker in it *)
(* ("" for none) and the words of inferDimension that path or text contain.*)
(* Letter case, the time of the event and the fields that nothing reads    *)
(* later are left out.                                                     *)
(***************************************************************************)
EXTENDS Integers, Sequences, FiniteSets, SequencesExt

Sources == {"generic", "falco", "tetragon", "otlp", "cloudtrail", "mcp"}

----------------------------------------------------------------------------
(* Records.                                                                *)

\* STRING, said so that provers know "" is one.
Texts == STRING \cup {""}

Field == [path : Seq(STRING), text : Texts, marker : Texts, words : SUBSET STRING]

NotAnObject == {}  \* an element of a list that is no JSON object

\* The objects of a list, in its order.
Objects(list) ==
  LET kept[i \in 0..Len(list)] ==
        IF i = 0 THEN <<>>
        ELSE IF list[i] = NotAnObject THEN kept[i - 1] ELSE Append(kept[i - 1], list[i])
  IN  kept[Len(list)]

\* lists holds an object's five containers in the order in which they are tried,
\* or the array itself.
Payload == [shape : {"object", "array", "other"}, self : SUBSET Field,
            lists : Seq(Seq(SUBSET Field))]

RecordsFor(payload) ==
  LET full == {i \in DOMAIN payload.lists : Objects(payload.lists[i]) # <<>>}
  IN  CASE payload.shape = "object" /\ full = {} -> <<payload.self>>
        [] payload.shape # "other" /\ full # {}  -> Objects(payload.lists[Min(full)])
        [] OTHER -> <<>>

----------------------------------------------------------------------------
(* Searches.                                                               *)

Hits(flat, key) == {f.text : f \in {g \in flat : IsSuffix(key, g.path)}}

\* The first key that any path ends with decides, even if its text is empty.
First(flat, keys) ==
  LET hit == {i \in DOMAIN keys : Hits(flat, keys[i]) # {}}
  IN  IF hit = {} THEN {""} ELSE Hits(flat, keys[Min(hit)])

MarkersIn(fields) == {f.marker : f \in fields} \ {""}

\* Mutant: the search does not begin with the fields named after the marker.
FindAnyMarker(flat) == IF MarkersIn(flat) = {} THEN {""} ELSE MarkersIn(flat)

\* Fields whose path names a marker go before all others.
FindMarker(flat) ==
  LET named == {f \in flat : "marker" \in ToSet(f.path)}
  IN  IF MarkersIn(flat) = {} THEN {""}
      ELSE IF MarkersIn(named) # {} THEN MarkersIn(named) ELSE MarkersIn(flat)

EvidenceKeys == <<<<"output">>, <<"rule">>, <<"eventName">>, <<"name">>,
                  <<"method">>, <<"message">>, <<"body", "stringValue">>>>

\* The first evidence that is not empty; "" stands for "normalized event".
Evidence(flat) ==
  LET Found(i) == First(flat, <<EvidenceKeys[i]>>)
      MayMiss(n) == \A i \in 1..n : "" \in Found(i)
  IN  (UNION {Found(i) \ {""} : i \in {k \in DOMAIN EvidenceKeys : MayMiss(k - 1)}})
        \cup (IF MayMiss(Len(EvidenceKeys)) THEN {""} ELSE {})

\* Every way the searches of one record may come out.
Readings(flat) ==
  [marker    : FindMarker(flat),
   cluster   : First(flat, <<<<"cluster">>, <<"cluster_name">>,
                             <<"resource", "attributes", "k8s", "cluster", "name">>,
                             <<"k8s", "cluster", "name">>>>),
   source    : First(flat, <<<<"eventSource">>>>),
   workload  : First(flat, <<<<"output_fields", "k8s", "pod", "name">>,
                             <<"k8s", "pod", "name">>, <<"process", "pod", "name">>>>),
   namespace : First(flat, <<<<"output_fields", "k8s", "ns", "name">>,
                             <<"k8s", "namespace", "name">>, <<"process", "pod", "namespace">>>>),
   identity  : First(flat, <<<<"userIdentity", "arn">>, <<"identity">>,
                             <<"aws", "iam", "arn">>, <<"principal">>>>),
   process   : First(flat, <<<<"output_fields", "proc", "name">>, <<"process", "binary">>,
                             <<"process", "name">>,
                             <<"span", "attributes", "process", "executable", "name">>>>),
   pid       : First(flat, <<<<"output_fields", "proc", "pid">>, <<"process", "pid">>, <<"pid">>>>),
   origin    : First(flat, <<<<"k8s", "pod", "name">>, <<"service", "name">>,
                             <<"sourceIdentity">>, <<"sessionContext", "sessionIssuer", "arn">>>>),
   service   : First(flat, <<<<"service", "name">>>>),
   explicit  : First(flat, <<<<"eventID">>, <<"event_id">>, <<"id">>, <<"spanId">>>>),
   evidence  : Evidence(flat)]

----------------------------------------------------------------------------
(* What is inferred from a reading.                                        *)

Rules == <<<<"mcp",        {"tools/call", "tool_call", "mcp."}>>,
           <<"dns",        {"dns", "domain"}>>,
           <<"filesystem", {"openat", "file", "fd.name"}>>,
           <<"network",    {"connect", "tcp", "network", "socket"}>>,
           <<"api",        {"http", "route", "request"}>>,
           <<"process",    {"proc.name", "process.binary", "process_exec", "execve", "shell"}>>,
           <<"kubernetes", {"k8s", "pod", "container"}>>>>

Mentions(flat, words) == \E f \in flat : f.words \cap words # {}

InferDimension(adapter, flat, reading) ==
  LET Applies(rule) == \/ rule[1] = "mcp" /\ adapter = "mcp"
                       \/ /\ Mentions(flat, rule[2])
                          /\ ~(rule[1] = "kubernetes" /\ adapter = "tetragon")
      applying == {i \in DOMAIN Rules : Applies(Rules[i])}
  IN  IF adapter = "cloudtrail" \/ reading.source # "" THEN "cloudIdentity"
      ELSE IF applying = {} THEN "process" ELSE Rules[Min(applying)][1]

InferAttribution(dimension, reading) ==
  LET Has(part) == reading[part] # ""
      pid == reading.pid \notin {"", "0"}
  IN  CASE dimension = "cloudIdentity" -> Has("identity") /\ (Has("workload") \/ Has("origin"))
        [] dimension = "kubernetes" -> Has("workload") /\ Has("namespace")
        [] dimension = "process" -> Has("process") \/ pid
        [] dimension \in {"network", "dns", "api"} ->
             Has("workload") \/ Has("process") \/ Has("service")
        [] dimension = "mcp" -> Has("identity") \/ Has("workload") \/ Has("process")
        [] OTHER -> Has("workload") \/ Has("process")

\* Mutant: an id of the upstream system is not used.
AlwaysHashed(adapter, dimension, reading) ==
  <<adapter, reading.marker, dimension, reading.evidence>>

\* The upstream id, or a hash of adapter, marker, dimension and evidence.
EventID(adapter, dimension, reading) ==
  IF reading.explicit # "" THEN <<adapter, reading.explicit>>
  ELSE <<adapter, reading.marker, dimension, reading.evidence>>

Observation(adapter, flat, reading, receivedAt) ==
  LET dimension == InferDimension(adapter, flat, reading)
  IN  [id |-> EventID(adapter, dimension, reading), marker |-> reading.marker,
       cluster |-> reading.cluster, source |-> adapter, dimension |-> dimension,
       attributed |-> InferAttribution(dimension, reading), receivedAt |-> receivedAt]

\* A record without a marker is skipped.
OfRecord(adapter, flat, receivedAt) ==
  IF FindMarker(flat) = {""} THEN {<<>>}
  ELSE {<<Observation(adapter, flat, reading, receivedAt)>> : reading \in Readings(flat)}

\* The sequences of observations a payload may decode to; <<>> is an error.
Decode(adapter, payload, receivedAt) ==
  LET records == RecordsFor(payload)
      upTo[i \in 0..Len(records)] ==
        IF i = 0 THEN {<<>>}
        ELSE {p[1] \o p[2] : p \in upTo[i - 1] \X OfRecord(adapter, records[i], receivedAt)}
  IN  upTo[Len(records)]
=============================================================================
