-------------------------- MODULE FilesystemServer --------------------------
(***************************************************************************)
(* The file server, src/src/bin/filesystem-mcp-server.rs, behind the HTTP  *)
(* client of HttpTransport.  One thread takes one request at a time and,   *)
(* inside of it, asks the user at the server's terminal; meanwhile the     *)
(* client's deadline may pass, the user may type ahead or close the        *)
(* terminal, and other processes change the same files.                    *)
(*                                                                         *)
(* A path is the sequence of its names from the root; there are no links.  *)
(* Files have no content; `effects' tells what a request did to which path.*)
(***************************************************************************)
EXTENDS SequencesExt

CONSTANTS
  MaxRequests, MaxRestarts,   \* as in HttpTransport
  StartDir,                \* --start-dir
  InitialDirs, InitialFiles,
  Calls,                   \* tool calls the model may make
  Volatile,                \* files that other processes make and remove
  MaxTyped                 \* bound: lines typed and not yet read

Tools == {"get-start-dir", "confirm", "suggest", "pwd", "cd", "ls", "cat",
          "edit", "append", "rg", "ask-rm"}

\* A path argument is absolute, relative to the working directory ("here") or
\* to its parent ("up"), or absent, which pwd, ls and rg allow.
ASSUME FilesystemAssumption ==
  /\ MaxRequests \in Nat /\ MaxRestarts \in Nat
  /\ InitialDirs \cup InitialFiles \cup Volatile \subseteq Seq(STRING)
  /\ StartDir \in InitialDirs /\ << >> \in InitialDirs
  /\ InitialDirs \cap (InitialFiles \cup Volatile) = {}
  /\ \A p \in (InitialDirs \cup InitialFiles \cup Volatile) \ {<< >>} :
       Front(p) \in InitialDirs
  /\ \A c \in Calls :
       /\ c.tool \in Tools \cup {"other"} /\ c.recursive \in BOOLEAN
       /\ c.from \in {"root", "here", "up", "absent"}
       /\ c.from = "absent" => c.tool \notin {"cd", "cat", "edit", "append", "ask-rm"}
       /\ c.tool = "pwd" => c.from = "absent"
       /\ c.from = "absent" => c.path = << >>
       /\ c.path \in Seq(STRING)

VARIABLES
  deadline, stage, nextId, session, waiting, wire, serving, response, opened, restarts,
  log, status, answer, heard,       \* the client and the wire: HttpTransport
  call, path,       \* the tool call being served, and the path it is about
  question,         \* the question that awaits a line, or "none"
  typed, closed,    \* lines typed and not read; the input has ended
  dirs, files, workingDir,
  consents,         \* id -> questions a "yes" was read for, and whether the user
                    \*   saw the removal of this request when typing it
  effects           \* id -> what it did: paths written, removed or entered

T == INSTANCE HttpTransport WITH Sessions <- FALSE, Streams <- FALSE

tree == <<dirs, files>>
dialogue == <<call, path, question>>
terminal == <<typed, closed>>
record == <<consents, effects>>
fs == <<dialogue, terminal, tree, workingDir, record>>
transport == <<deadline, stage, nextId, session, waiting, wire, serving, response, opened,
               restarts, log, status, answer, heard>>
vars == <<transport, fs>>

NoCall == [tool |-> "none", from |-> "absent", path |-> << >>, recursive |-> FALSE]
Lines == {"yes", "no", "junk"}

\* The client has a deadline, as it has unless -timeout is -1.
Init ==
  /\ T!Init /\ deadline
  /\ call = NoCall /\ path = << >> /\ question = "none"
  /\ typed = << >> /\ closed = FALSE
  /\ dirs = InitialDirs /\ files = InitialFiles /\ workingDir = StartDir
  /\ consents = [id \in T!Ids |-> {}]
  /\ effects = [id \in T!Ids |-> {}]
-----------------------------------------------------------------------------
(* Paths *)

Existing == dirs \cup files

\* Mutant: what a directory holds is left where it is.
UnderItself(p) == {p}

Under(p) == {q \in Existing : IsPrefix(p, q)}

\* Mutant: the working directory is tested.
InsideHere(p) == IsPrefix(StartDir, workingDir)

Inside(p) == IsPrefix(StartDir, p)

Joined(c) ==
  CASE c.from = "root" -> c.path
    [] c.from = "up" -> Front(workingDir) \o c.path
    [] OTHER -> workingDir \o c.path

\* resolve_path: the path, or else its parent, must exist.  The working
\* directory itself is taken as it is.
Resolvable(c) ==
  \/ c.from = "absent"
  \/ /\ c.from = "up" => workingDir \in dirs
     /\ Joined(c) \in Existing \/ Front(Joined(c)) \in Existing
-----------------------------------------------------------------------------
(* The server *)

\* Mutant: what has no output is answered like a notification.
ReplyAccepted ==
  /\ T!Respond("accepted", T!NoSession)
  /\ question' = "none" /\ UNCHANGED <<opened, log, call, path>>

\* The response to the tool call that is being served; an error or a refusal is a
\* result too, one that isError.
Reply ==
  /\ T!Serve("result")
  /\ question' = "none" /\ UNCHANGED <<call, path>>

FirstQuestion(c) ==
  IF c.tool \in {"confirm", "suggest"} THEN c.tool
  ELSE IF c.tool \notin {"get-start-dir", "other"} /\ Resolvable(c) THEN "allow"
  ELSE "none"

TakeCall(message, c) ==
  /\ message.method = "tools/call"
  /\ T!Take(message)
  /\ call' = c /\ question' = FirstQuestion(c)
  /\ path' = IF FirstQuestion(c) = "allow" THEN Joined(c) ELSE << >>
  /\ UNCHANGED <<terminal, tree, workingDir, record>>

TakeOther(message) ==
  /\ message.method # "tools/call"
  /\ T!Take(message)
  /\ UNCHANGED fs

\* The start directory, an unknown tool or a path that does not resolve.
ReplyAtOnce ==
  /\ serving.method = "tools/call" /\ question = "none"
  /\ Reply
  /\ UNCHANGED <<terminal, tree, workingDir, consents, effects>>

ReplyOther ==
  /\ serving.method # "tools/call"
  /\ T!Serve(IF serving.id = T!Notified THEN "accepted" ELSE "result")
  /\ UNCHANGED fs
-----------------------------------------------------------------------------
(* Questions and operations *)

\* The request whose removal is on the screen.
Removing == IF question = "remove" THEN serving.id ELSE T!Notified

\* Mutant: at the end of the input the question is put again.
ReadEndAgain(line) ==
  /\ question # "none"
  /\ \/ typed # << >> /\ Head(typed).line = line /\ typed' = Tail(typed)
     \/ typed = << >> /\ closed /\ line = "junk" /\ UNCHANGED typed
  /\ UNCHANGED closed

\* read_line takes the oldest line typed; the end of the input is an empty
\* line, which means no.
Read(line) ==
  /\ question # "none"
  /\ \/ typed # << >> /\ Head(typed).line = line /\ typed' = Tail(typed)
     \/ typed = << >> /\ closed /\ line = "no" /\ UNCHANGED typed
  /\ UNCHANGED closed

NextQuestion ==
  IF question = "allow" /\ ~Inside(path) THEN "outside"
  ELSE IF question \in {"allow", "outside"} /\ call.tool = "ask-rm" THEN "remove"
  ELSE "none"

Did(what, paths) ==
  effects' = [effects EXCEPT ![serving.id] = {[what |-> what, path |-> p] : p \in paths}]

\* list_dir and ripgrep, which may still fail for reasons of their own.
Lists == call.tool = "ls" /\ path \in dirs
Searches == call.tool = "rg" /\ path \in Existing

\* Tools that change nothing.
Show ==
  /\ \/ call.tool \in {"confirm", "pwd"}
     \/ call.tool = "cat" /\ path \in files
     \/ Lists \/ Searches
  /\ Reply
  /\ UNCHANGED <<tree, workingDir, effects>>

\* Mutant: any path will do that exists.
EnterAny ==
  /\ call.tool = "cd" /\ path \in Existing
  /\ workingDir' = path /\ Did("entered", {path})
  /\ Reply /\ UNCHANGED tree

ChangeDir ==
  /\ call.tool = "cd" /\ path \in dirs
  /\ workingDir' = path /\ Did("entered", {path})
  /\ Reply
  /\ UNCHANGED tree

\* Writing may fail when the file has been created or cut off already.
WriteFile ==
  /\ call.tool \in {"edit", "append"}
  /\ path \notin dirs /\ Front(path) \in dirs
  /\ files' = files \cup {path}
  /\ Did("written", {path})
  /\ Reply
  /\ UNCHANGED <<dirs, workingDir>>

\* remove_dir_all may stop half way, the inner entries gone.
RemovePath ==
  /\ call.tool = "ask-rm" /\ path \in Existing
  /\ path \in dirs => call.recursive
  /\ \E gone \in SUBSET Under(path) \ {{}} :
       /\ << >> \notin gone /\ \A p \in gone : Under(p) \subseteq gone
       /\ dirs' = dirs \ gone /\ files' = files \ gone
       /\ Did("removed", gone)
  /\ Reply
  /\ UNCHANGED workingDir

OperationFails ==
  /\ call.tool \notin {"confirm", "pwd"}
  /\ Reply
  /\ UNCHANGED <<tree, workingDir, effects>>

Perform == Show \/ ChangeDir \/ WriteFile \/ RemovePath \/ OperationFails

AskNext ==
  /\ question' = NextQuestion
  /\ UNCHANGED <<transport, call, path, tree, workingDir, effects>>

Agree ==
  /\ question # "suggest"
  /\ Read("yes")
  /\ consents' = [consents EXCEPT ![serving.id] =
                    @ \cup {[to |-> question, fresh |-> Head(typed).seen = serving.id]}]
  /\ IF NextQuestion # "none" THEN AskNext ELSE Perform

Deny ==
  /\ question # "suggest"
  /\ Read("no")
  /\ Reply
  /\ UNCHANGED <<tree, workingDir, consents, effects>>

AskAgain ==
  /\ question # "suggest"
  /\ Read("junk")
  /\ UNCHANGED <<transport, dialogue, tree, workingDir, record>>

\* Any line is a response to a suggestion.
TakeSuggestion ==
  /\ question = "suggest"
  /\ \E line \in Lines : Read(line)
  /\ Reply
  /\ UNCHANGED <<tree, workingDir, consents, effects>>
-----------------------------------------------------------------------------
(* The user and other processes *)

Type(line) ==
  /\ ~closed /\ Len(typed) < MaxTyped
  /\ typed' = Append(typed, [line |-> line, seen |-> Removing])
  /\ UNCHANGED <<transport, closed, dialogue, tree, workingDir, record>>

CloseInput ==
  /\ ~closed /\ closed' = TRUE
  /\ UNCHANGED <<transport, typed, dialogue, tree, workingDir, record>>

OtherProcess ==
  /\ \E p \in Volatile :
       /\ Front(p) \in dirs
       /\ files' = IF p \in files THEN files \ {p} ELSE files \cup {p}
  /\ UNCHANGED <<transport, dialogue, terminal, dirs, workingDir, record>>

\* Started again, the server is back in its start directory; lines that it
\* had taken in may be lost.
Restart ==
  /\ T!Restart
  /\ StartDir \in dirs
  /\ call' = NoCall /\ path' = << >> /\ question' = "none"
  /\ workingDir' = StartDir
  /\ typed' \in {typed, << >>}
  /\ UNCHANGED <<closed, tree, record>>
-----------------------------------------------------------------------------
ClientStep ==
  /\ T!Request \/ T!Notify \/ T!Receive \/ T!GiveUp \/ T!Close
  /\ UNCHANGED fs

Dialogue == Agree \/ Deny \/ AskAgain \/ TakeSuggestion

ServerStep ==
  \/ \E message \in wire : TakeOther(message) \/ \E c \in Calls : TakeCall(message, c)
  \/ ReplyAtOnce \/ ReplyOther
  \/ Dialogue

UserAnswers == question # "none" /\ typed = << >> /\ \E line \in {"yes", "no"} : Type(line)

Terminated == stage = "closed" /\ wire = {} /\ serving = T!Nothing /\ UNCHANGED vars

Next ==
  \/ ClientStep \/ ServerStep
  \/ \E line \in Lines : Type(line)
  \/ CloseInput \/ OtherProcess \/ Restart
  \/ Terminated

Spec == Init /\ [][Next]_vars /\ WF_vars(T!Receive /\ UNCHANGED fs) /\ WF_vars(T!GiveUp /\ UNCHANGED fs)

\* A server that runs, and a user who does not leave a question on the screen
\* without a yes or a no for ever, however much else they type.
AttendedSpec == Spec /\ WF_vars(ServerStep) /\ SF_vars(UserAnswers)
-----------------------------------------------------------------------------
(* Properties *)

TypeOK ==
  /\ T!TypeOK
  /\ call \in Calls \cup {NoCall}
  /\ question \in {"none", "confirm", "suggest", "allow", "outside", "remove"}
  /\ \A i \in DOMAIN typed : typed[i].line \in Lines
  /\ closed \in BOOLEAN
  /\ << >> \in dirs /\ dirs \cap files = {}
  /\ \A p \in Existing : Front(p) \in dirs

\* What a call did, the user had agreed to within this very call: to the
\* operation, to every path outside of the start directory, and to a removal
\* (file_operation, remove_path).
AgreedBefore ==
  \A id \in T!Ids : \A e \in effects[id] :
    {"allow"} \cup (IF IsPrefix(StartDir, e.path) THEN {} ELSE {"outside"})
              \cup (IF e.what = "removed" THEN {"remove"} ELSE {})
      \subseteq {c.to : c \in consents[id]}

\* When the working directory is no directory, a call of ask-rm removed it: cd
\* leads to directories only, however long its questions took.
WorkingDirRemoved ==
  workingDir \notin dirs =>
    \E id \in T!Ids : [what |-> "removed", path |-> workingDir] \in effects[id]

\* A "yes" to the removal was typed when the removal was on the screen: the tool
\* "Always requires manual confirmation", as its description has it.
RemovalConfirmed ==
  \A id \in T!Ids :
    (\E e \in effects[id] : e.what = "removed")
      => [to |-> "remove", fresh |-> TRUE] \in consents[id]

\* Towards its client the server is one of HttpTransport's: it carries a request
\* out once, however often it asks, and answers it once.
KeepsTransport == T!Spec

\* No request holds the only thread for ever, also when its client has gone or
\* the input has ended.
ServerGetsFree == serving # T!Nothing ~> serving = T!Nothing
=============================================================================
