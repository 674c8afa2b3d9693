----------------------------- MODULE HostsFile -----------------------------
(***************************************************************************)
(* load of src/src/hosts.rs: the endpoint that ~/.mcp/hosts has for a      *)
(* name.  The file is the sequence of its lines, each [key, value];        *)
(* comments and blank lines are skipped.                                   *)
(***************************************************************************)
EXTENDS Endpoint, Naturals

Nothing == New(None)

\* What reading has come to: the name of the block, the endpoint that the block of
\* the wanted name gives so far, and "reading", "done" or "failed".
Start == [current |-> None, endpoint |-> Nothing, outcome |-> "reading"]

\* Mutant: the file is read to its end.
BlockLineGoesOn(s, wanted, value) == [s EXCEPT !.current = value, !.endpoint = Nothing]

\* A name line: the next block ends the one that was looked for.
BlockLine(s, wanted, value) ==
  IF s.current = wanted THEN [s EXCEPT !.outcome = "done"]
  ELSE [s EXCEPT !.current = value, !.endpoint = Nothing]

\* Headers and body add to the endpoint that is there.
SettingLine(s, setting, value) ==
  CASE s.endpoint = Nothing -> s
    [] s.endpoint # Nothing /\ Fits(setting, value) ->
         [s EXCEPT !.endpoint = With(@, setting, value)]
    [] OTHER -> [s EXCEPT !.outcome = "failed"]

ReadLine(s, wanted, l) ==
  CASE s.outcome # "reading" -> s
    [] s.outcome = "reading" /\ l.key = "name" -> BlockLine(s, wanted, l.value)
    [] s.outcome = "reading" /\ s.current = wanted /\ l.key \in {"host", "mcp"} ->
         [s EXCEPT !.endpoint = New(l.value)]
    [] s.outcome = "reading" /\ s.current = wanted /\ l.key \in {"headers", "body"} ->
         SettingLine(s, l.key, l.value)
    [] OTHER -> s

\* What the first n lines come to, for each n.
Reading(lines, wanted) ==
  LET s[n \in 0..Len(lines)] == IF n = 0 THEN Start ELSE ReadLine(s[n - 1], wanted, lines[n])
  IN  s

\* The endpoint of a name, Nothing when there is none, and whether loading fails.
Load(lines, wanted) ==
  LET s == Reading(lines, wanted)[Len(lines)]
  IN  [endpoint |-> IF s.current = wanted THEN s.endpoint ELSE Nothing,
       failed |-> s.outcome = "failed"]
=============================================================================
