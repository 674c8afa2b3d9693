---------------------------- MODULE MCArgScopes ----------------------------
(* An alias with a header of its own, one that does not load, and flags with *)
(* good, bad and missing values.                                             *)
EXTENDS ArgScopes

MCAliases ==
  [docs |-> [New("https://docs") EXCEPT !.headers = <<"{h}">>], torn |-> New(None)]
MCMetas ==
  [m |-> [tools |-> "few", version |-> "old"], n |-> [tools |-> None, version |-> "older"]]

Arg(flag, value) == [flag |-> flag, value |-> value]

Good ==
  {Arg("-host", "docs"), Arg("-host", "https://other"), Arg("-model", "granite"),
   Arg("-model", "https://other"), Arg("-nsname", "files"), Arg("-headers", "{a}"),
   Arg("-body", "[b]"), Arg("-timeout", "-1"), Arg("-timeout", "5"),
   Arg("-messages", "[m]"), Arg("-messages", "[n]"), Arg("-prompt", "p"), Arg("-meta", "m"),
   Arg("-meta", "n"), Arg("-tools", "all"), Arg("-tools", "one"),
   Arg("-protocol-version", "new")}

Bad ==
  {Arg("-host", "torn"), Arg("-host", Missing), Arg("-model", Missing),
   Arg("-nsname", "no name"), Arg("-headers", "[b]"), Arg("-timeout", "-2"),
   Arg("-messages", "{a}"), Arg("-meta", "nowhere"), Arg("-tools", Missing),
   Arg("-prompt-type", "robot"), Arg("-help", Missing), Arg("-other", Missing)}

MCArgs == Good \cup Bad
=============================================================================
