----------------------------- MODULE MCRequest -----------------------------
(* Bodies that meet in every way, at the top and below it, with each other *)
(* and with the fields of messages; a header for credentials and another   *)
(* one, each in two cases.                                                 *)
EXTENDS Request

A(v) == Atom(v)
MCJsonKeys == {"a", "b", "c", "d", "e", "more", "name"} \cup RpcFields \cup ModelFields
MCBodies ==
  {Object([a |-> A("1")]), Object([a |-> Empty]),
   Object([a |-> Object([c |-> A("3")])]), Object([a |-> Object([d |-> A("4")])]),
   Object([b |-> Object([c |-> Object([e |-> A("5")])])]),
   Object([b |-> Object([c |-> A("6")])]), A("[7]"),
   Object([id |-> A("8"), model |-> A("8")]),
   Object([params |-> Object([more |-> A("9")])])}

N(w, c) == [word |-> w, case |-> c]
MCEnvironment == [v \in {"env:KEY"} |-> "key"]
MCMetaFiles ==
  [auth : {NoAuth, [word |-> "auth", value |-> "env:KEY"], [word |-> "auth", value |-> "env:NONE"]},
   headers : {NoHeaders, [n \in {N("other", "upper")} |-> "m"],
              [n \in {N("auth", "upper"), N("auth", "lower")} |-> IF n.case = "upper" THEN "m" ELSE "env:KEY"]}]
=============================================================================
