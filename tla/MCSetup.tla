------------------------------ MODULE MCSetup ------------------------------
(* Endpoints with and without settings, hosts files with the blocks of two *)
(* names, and settings files that are right and wrong.                     *)
EXTENDS Setup

MCWords == [x \in {"{Bearer token}"} |-> <<"{Bearer", "token}">>]
Line(key, value) == [key |-> key, value |-> value]

Plain == [New("https://b") EXCEPT !.headers = <<"{f}">>]
MCGiven ==
  {<<Plain, [Plain EXCEPT !.timeout = "60"]>>, <<[Plain EXCEPT !.timeout = "-1"]>>,
   <<New("docs"), New("stdio:server")>>, <<New("torn")>>, <<New("unknown")>>,
   <<[New("docs") EXCEPT !.headers = <<"{f}">>]>>}
MCHosts ==
  <<Line("name", "docs"), Line("host", "https://a"), Line("headers", "{h}"),
    Line("name", "torn"), Line("host", "https://b"), Line("headers", "[b]")>>

\* Hosts files of up to five lines, for sessions that get all hosts at the start.
MCFileLines ==
  {Line("name", "docs"), Line("name", "torn"), Line("host", "https://a"),
   Line("mcp", "stdio:server"), Line("headers", "{h}"), Line("headers", "[b]"),
   Line("body", "[b]"), Line("color", "red")}
MaxFileLines == 5    \* bound: lines of such a file
MCStarts ==
  {[given |-> g, hosts |-> MCHosts] : g \in MCGiven}
  \cup {[given |-> <<New("docs"), Plain, New("torn")>>, hosts |-> f] :
          f \in UNION {[1..n -> MCFileLines] : n \in 0..MaxFileLines}}

S(flag, text) == [flag |-> flag, text |-> text]
MCAdded ==
  {[host |-> "docs", settings |-> s] : s \in
     {<< >>, <<S("-headers", "{f}"), S("-body", "[b]"), S("-headers", "{h}")>>,
      <<S("-headers", "[b]")>>, <<S("-timeout", "5")>>}}
  \cup {[host |-> "stdio:server", settings |-> <<S("-body", "{f}"), S("-body", "{h}")>>],
        [host |-> "torn", settings |-> << >>],
        [host |-> "https://b", settings |-> <<S("-headers", "{Bearer token}")>>]}

MCSettingsFiles ==
  {<< >>, <<Line("timeout", "-1")>>, <<Line("timeout", "-2"), Line("timeout", "5")>>,
   <<Line("timeout", "5"), Line("timeout", "-2")>>, <<Line("color", "5")>>,
   <<Line("timeout", "soon")>>}
=============================================================================
