----------------------------- MODULE MC_Engine -----------------------------
(***************************************************************************)
(* Instances of Correlation: a session's truth and the vendors' payloads,  *)
(* in what the adapters treat differently.                                 *)
(***************************************************************************)
EXTENDS Correlation

\* Early and late, successful and failed truth.
SmallTruths ==
  {[dimension |-> "process", success |-> TRUE,  occurredAt |-> 0],
   [dimension |-> "process", success |-> FALSE, occurredAt |-> 2],
   [dimension |-> "mcp",     success |-> TRUE,  occurredAt |-> 0]}

----------------------------------------------------------------------------
(* The vendors' payloads: two sessions' markers, with and without context. *)

Mine  == "CTX-A"
Other == "CTX-B"

Text(path, text, words) == [path |-> path, text |-> text, marker |-> "", words |-> words]
Marked(path, marker, words) ==
  [path |-> path, text |-> marker, marker |-> marker, words |-> words]
Object(fields) ==
  [shape |-> "object", lists |-> <<<<>>, <<>>, <<>>, <<>>, <<>>>>, self |-> fields]

\* Falco's alerts of a shell, with and without the process.
Shell == {Marked(<<"output">>, Mine, {"shell"})}
ShellBy == {Marked(<<"output">>, Mine, {"shell"}), Text(<<"id">>, "f2", {}),
            Text(<<"output_fields", "proc", "name">>, "sh", {"proc.name"})}

\* Tool calls: a request, the audit record of its caller, and one that is
\* marked for this session and mentions another.
Call == {Marked(<<"params", "marker">>, Mine, {"tools/call"}), Text(<<"id">>, "c1", {}),
         Text(<<"method">>, "tools/call", {"tools/call"})}
CallBy == {Marked(<<"params", "marker">>, Mine, {"tools/call"}), Text(<<"id">>, "c2", {}),
           Text(<<"method">>, "tools/call", {"tools/call"}),
           Text(<<"identity">>, "agent", {}), Marked(<<"previous">>, Other, {})}

\* A resource's two spans, as one record; whose id is its id is open.
Spans == {Marked(<<"spans", "0", "attributes", "0", "value">>, Mine, {"tools/call"}),
          Text(<<"spans", "0", "spanId">>, "s1", {}), Text(<<"spans", "1", "spanId">>, "s2", {})}

\* Falco's alerts in containers carry the container's id.
InContainer(word, process) ==
  {Marked(<<"output">>, Mine, {word}), Text(<<"output_fields", "proc", "name">>, process, {"proc.name"}),
   Text(<<"output_fields", "container", "id">>, "4f8a", {"container"})}

\* CloudTrail's batch: another session's record, which mentions this one's, one of
\* this one's, and one of none.
Trail(id, marker) ==
  {Marked(<<"requestParameters", "marker">>, marker, {"request"}),
   Text(<<"eventID">>, id, {}), Text(<<"eventName">>, "GetCallerIdentity", {}),
   Text(<<"eventSource">>, "sts", {}), Text(<<"userIdentity", "arn">>, "role", {})}
Batch == [shape |-> "object", self |-> {},
          lists |-> <<<<Trail("t1", Other) \cup {Marked(<<"comment">>, Mine, {})},
                        NotAnObject, Trail("t2", Mine),
                        {Text(<<"eventID">>, "t3", {})}>>, <<>>, <<>>, <<>>, <<>>>>]

SmallDeliveries ==
  {<<"falco", Object(Shell), 1>>, <<"falco", Object(ShellBy), 1>>,
   <<"falco", Object(ShellBy), 4>>, <<"otlp", Object(Spans), 4>>,
   <<"mcp", Object(Call), 4>>, <<"mcp", Object(CallBy), 4>>,
   <<"cloudtrail", Batch, 4>>}
ContainerAlerts ==
  {<<"falco", Object(InContainer("shell", "sh")), t>> : t \in {1, 4}}
    \cup {<<"falco", Object(InContainer("file", "cat")), 4>>}

----------------------------------------------------------------------------
\* The objectives of MC_Engine.cfg: lenient, strict, and one on a dimension
\* of which nothing is ever heard.
SmallSLOs ==
  {[required |-> <<"process", "mcp">>, target |-> 725, latencyP95 |-> 3],
   [required |-> <<"mcp", "process">>, target |-> 995, latencyP95 |-> 2],
   [required |-> <<"mcp", "process", "api">>, target |-> 667, latencyP95 |-> 3]}
=============================================================================
