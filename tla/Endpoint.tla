------------------------------ MODULE Endpoint ------------------------------
(***************************************************************************)
(* EndpointConfig (src/src/endpoint.rs) as the command line and the files  *)
(* build it up.  Its headers and its body are the JSON texts merged into   *)
(* them, in order; Request says what merging makes of them.                *)
(***************************************************************************)
EXTENDS Sequences

CONSTANTS
  Urls,      \* endpoint values with http: or https: in front
  Commands,  \* endpoint values with stdio: in front
  Objects,   \* texts of JSON objects
  Texts      \* other texts of valid JSON

None == "none"

EndpointConfig ==
  [value : STRING, namespace : STRING, timeout : STRING,
   headers : Seq(STRING), body : Seq(STRING)]

New(value) ==
  [value |-> value, namespace |-> None, timeout |-> None,
   headers |-> << >>, body |-> << >>]

Timeouts == {"-1", "0", "5", "60"}    \* numbers of seconds that are accepted

\* Whether a setting is accepted: headers are objects, bodies any JSON.
Fits(setting, text) ==
  CASE setting = "headers" -> text \in Objects
    [] setting = "body" -> text \in Objects \cup Texts
    [] setting = "timeout" -> text \in Timeouts

\* Mutant: a setting replaces the one before.
WithInstead(e, setting, text) ==
  [e EXCEPT ![setting] = IF setting = "timeout" THEN text ELSE <<text>>]

\* Headers and bodies add up, a timeout replaces the one before.
With(e, setting, text) ==
  [e EXCEPT ![setting] = IF setting = "timeout" THEN text ELSE Append(@, text)]
=============================================================================
