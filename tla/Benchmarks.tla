----------------------------- MODULE Benchmarks -----------------------------
(***************************************************************************)
(* Benchmarks of a site (controllers/tools/BenchmarkController.php).       *)
(* create() inserts a row and starts a process in the background, which    *)
(* writes <id>.txt and deletes <id>.pid at its end; the list page takes a  *)
(* row without result whose .pid file is gone for finished, stores the     *)
(* text in the row and deletes it.  Nothing but these files tells the two  *)
(* about each other.                                                       *)
(***************************************************************************)
EXTENDS Naturals

CONSTANTS
  MaxBenchmark,  \* bound: how many benchmarks are created
  MaxFaults,     \* bound: how often the manager or the machine goes down
  Missing,       \* what UPDATE stores as result when there is no text (false)
  Null           \* no value

ASSUME BenchmarkBoundAssumption ==
  /\ MaxBenchmark \in Nat /\ MaxFaults \in Nat
  /\ Null \notin 0..MaxBenchmark /\ Missing \notin 0..MaxBenchmark /\ Missing # Null

VARIABLES
  lastB,     \* sqlite_sequence of table benchmark
  raw,       \* table benchmark: id -> result
  pid,       \* ids whose .pid file exists
  txt,       \* files <id>.txt: id -> content
  data,      \* data.txt: the last benchmark its form could have become, 0 at first
  unwritten, \* history: benchmarks whose data could not be written
  proc,      \* the process of an id: "none", "queued", "running", "ended"
  sent,      \* what a process posts: id -> content of data.txt when it started
  faults,    \* how often the manager or the machine went down
  req        \* the request being served

datafile == <<data, unwritten>>
bvars == <<lastB, raw, pid, txt, datafile, proc, sent, faults, req>>

Ids == 1..MaxBenchmark
Partial == 0    \* a text that is still being written

NoRequest == [pc |-> "idle", id |-> Null, todo |-> {}]
Idle == req.pc = "idle"
Goto(label) == req' = [req EXCEPT !.pc = label]
Without(f, i) == [j \in DOMAIN f \ {i} |-> f[j]]
With(f, i, x) == [j \in DOMAIN f \cup {i} |-> IF j = i THEN x ELSE f[j]]

-----------------------------------------------------------------------------
(* create()                                                                *)

\* file_put_contents of the data; that it fails is not noticed.
WriteData(posts) ==
  \/ ~posts /\ UNCHANGED datafile
  \/ posts /\ data' = lastB + 1 /\ unwritten' = unwritten \ {lastB + 1}
  \/ posts /\ UNCHANGED data /\ unwritten' = unwritten \cup {lastB + 1}

\* A faulty variant: PUT is taken for a method without data.
Create_PostOnly(posts, valid) ==
  /\ Idle
  /\ lastB < MaxBenchmark
  /\ WriteData(posts) \/ WriteData(FALSE)
  /\ IF valid THEN Goto("insert") ELSE UNCHANGED req
  /\ sent' = IF valid THEN [sent EXCEPT ![lastB + 1] = IF posts THEN Null ELSE lastB + 1] ELSE sent
  /\ UNCHANGED <<lastB, raw, pid, txt, proc, faults>>

\* POST and PUT write the data file before anything is validated; a benchmark
\* with another method needs none.
Create(posts, valid) ==
  /\ Idle
  /\ lastB < MaxBenchmark
  /\ WriteData(posts)
  /\ IF valid THEN Goto("insert") ELSE UNCHANGED req
  /\ sent' = IF valid THEN [sent EXCEPT ![lastB + 1] = IF posts THEN Null ELSE lastB + 1] ELSE sent
  /\ UNCHANGED <<lastB, raw, pid, txt, proc, faults>>

\* A faulty variant: the sequence of the table does not follow.
Insert_NoSequence ==
  /\ req.pc = "insert"
  /\ raw' = With(raw, lastB + 1, Null)
  /\ req' = [req EXCEPT !.pc = "background", !.id = lastB + 1]
  /\ UNCHANGED <<lastB, pid, txt, datafile, proc, sent, faults>>

Insert ==
  /\ req.pc = "insert"
  /\ lastB' = lastB + 1
  /\ raw' = With(raw, lastB + 1, Null)
  /\ req' = [req EXCEPT !.pc = "background", !.id = lastB + 1]
  /\ UNCHANGED <<pid, txt, datafile, proc, sent, faults>>

\* A faulty variant: the process makes the file itself.
Background_NoPid ==
  /\ req.pc = "background"
  /\ proc' = [proc EXCEPT ![req.id] = "queued"]
  /\ Goto("usleep")
  /\ UNCHANGED <<lastB, raw, pid, txt, datafile, sent, faults>>

\* Util::background: the shell opens the .pid file, then starts the process.
Background ==
  /\ req.pc = "background"
  /\ pid' = pid \cup {req.id}
  /\ proc' = [proc EXCEPT ![req.id] = "queued"]
  /\ Goto("usleep")
  /\ UNCHANGED <<lastB, raw, txt, datafile, sent, faults>>

\* usleep(100000), the redirection: whether the process has started by then is
\* left open.
Usleep ==
  /\ req.pc = "usleep"
  /\ req' = NoRequest
  /\ UNCHANGED <<lastB, raw, pid, txt, datafile, proc, sent, faults>>

-----------------------------------------------------------------------------
(* cmd /C "abs ... > <id>.txt & del <id>.pid"                              *)

ProcessStart(i) ==
  /\ proc[i] = "queued"
  /\ proc' = [proc EXCEPT ![i] = "running"]
  /\ txt' = With(txt, i, Partial)
  /\ sent' = [sent EXCEPT ![i] = IF @ = Null THEN data ELSE @]
  /\ UNCHANGED <<lastB, raw, pid, datafile, req, faults>>

ProcessOutput(i) ==
  /\ proc[i] = "running" /\ txt[i] = Partial
  /\ txt' = With(txt, i, i)
  /\ UNCHANGED <<lastB, raw, pid, datafile, proc, sent, req, faults>>

\* A faulty variant: `&&`, the .pid file stays when abs reports an error.
ProcessEnd_KeepsPid(i) ==
  /\ proc[i] = "running" /\ txt[i] # Partial
  /\ proc' = [proc EXCEPT ![i] = "ended"]
  /\ pid' \in {pid, pid \ {i}}
  /\ UNCHANGED <<lastB, raw, txt, datafile, sent, req, faults>>

ProcessEnd(i) ==
  /\ proc[i] = "running" /\ txt[i] # Partial
  /\ proc' = [proc EXCEPT ![i] = "ended"]
  /\ pid' = pid \ {i}
  /\ UNCHANGED <<lastB, raw, txt, datafile, sent, req, faults>>

-----------------------------------------------------------------------------
(* index()                                                                 *)

\* A faulty variant: all rows are looked at again.
Index_AllRows ==
  /\ Idle
  /\ req' = [pc |-> "next", id |-> Null, todo |-> DOMAIN raw]
  /\ UNCHANGED <<lastB, raw, pid, txt, datafile, proc, sent, faults>>

Index ==
  /\ Idle
  /\ req' = [pc |-> "next", id |-> Null,
             todo |-> {i \in DOMAIN raw : raw[i] \in {Null, Missing}}]
  /\ UNCHANGED <<lastB, raw, pid, txt, datafile, proc, sent, faults>>

\* The next row without result: file_exists.
NextRow(i) ==
  /\ req.pc = "next" /\ i \in req.todo
  /\ req' = [req EXCEPT !.todo = @ \ {i}, !.id = i, !.pc = IF i \in pid THEN "next" ELSE "update"]
  /\ UNCHANGED <<lastB, raw, pid, txt, datafile, proc, sent, faults>>

\* A faulty variant: the text is deleted first.
UpdateRow_UnlinkFirst ==
  /\ req.pc = "update"
  /\ txt' = Without(txt, req.id)
  /\ Goto("unlink")
  /\ UNCHANGED <<lastB, raw, pid, datafile, proc, sent, faults>>

\* file_get_contents, preg_match, UPDATE.
UpdateRow ==
  /\ req.pc = "update"
  /\ raw' = [raw EXCEPT ![req.id] = IF req.id \in DOMAIN txt THEN txt[req.id] ELSE Missing]
  /\ Goto("unlink")
  /\ UNCHANGED <<lastB, pid, txt, datafile, proc, sent, faults>>

Unlink ==
  /\ req.pc = "unlink"
  /\ txt' = Without(txt, req.id)
  /\ Goto("next")
  /\ UNCHANGED <<lastB, raw, pid, datafile, proc, sent, faults>>

PageShown ==
  /\ req.pc = "next" /\ req.todo = {}
  /\ req' = NoRequest
  /\ UNCHANGED <<lastB, raw, pid, txt, datafile, proc, sent, faults>>

-----------------------------------------------------------------------------

\* delete(): the button of a row without result is disabled.
Delete(i) ==
  /\ Idle
  /\ i \in DOMAIN raw /\ raw[i] # Null
  /\ raw' = Without(raw, i)
  /\ UNCHANGED <<lastB, pid, txt, datafile, proc, sent, req, faults>>

Clear ==
  /\ Idle /\ DOMAIN raw # {}
  /\ raw' = [i \in {} |-> Null]
  /\ UNCHANGED <<lastB, pid, txt, datafile, proc, sent, req, faults>>

Fault == faults < MaxFaults /\ faults' = faults + 1

\* The web server of the manager goes down in the middle of a request.
Kill ==
  /\ ~Idle
  /\ Fault
  /\ req' = NoRequest
  /\ UNCHANGED <<lastB, raw, pid, txt, datafile, proc, sent>>

\* The machine goes down: processes are gone, files stay.
Crash ==
  /\ Fault
  /\ proc' = [i \in Ids |-> IF proc[i] \in {"queued", "running"} THEN "none" ELSE proc[i]]
  /\ req' = NoRequest
  /\ UNCHANGED <<lastB, raw, pid, txt, datafile, sent>>

-----------------------------------------------------------------------------

Init ==
  /\ lastB = 0 /\ raw = [i \in {} |-> Null] /\ txt = [i \in {} |-> Null]
  /\ pid = {} /\ data = 0 /\ unwritten = {} /\ faults = 0 /\ req = NoRequest
  /\ proc = [i \in Ids |-> "none"] /\ sent = [i \in Ids |-> Null]

Process(i) == ProcessStart(i) \/ ProcessOutput(i) \/ ProcessEnd(i)
Step == Insert \/ Background \/ Usleep \/ (\E i \in Ids : NextRow(i)) \/ UpdateRow \/ Unlink \/ PageShown

Next ==
  \/ \E posts, valid \in BOOLEAN : Create(posts, valid)
  \/ Index
  \/ Step
  \/ \E i \in Ids : Process(i)
  \/ \E i \in Ids : Delete(i)
  \/ Clear \/ Kill \/ Crash

Spec == Init /\ [][Next]_bvars

\* The operating system runs the processes, the manager its requests, and the
\* user opens the list now and then.
FairSpec ==
  Spec /\ WF_bvars(Step) /\ SF_bvars(Index) /\ \A i \in Ids : WF_bvars(Process(i))

-----------------------------------------------------------------------------
(* Properties                                                              *)

\* Rows, files and processes are well-formed.
BenchmarksTypeOK ==
  /\ lastB \in 0..MaxBenchmark /\ DOMAIN raw \subseteq 1..lastB
  /\ pid \subseteq 1..lastB /\ DOMAIN txt \subseteq 1..lastB
  /\ \A i \in DOMAIN txt : txt[i] \in 0..MaxBenchmark
  /\ req.pc = "update" => req.id \in DOMAIN raw

\* A row holds the whole text of its own run: not a text that was still being
\* written, nor one that a deleted benchmark left behind.
ResultIsOwn == \A i \in DOMAIN raw : raw[i] \notin {Null, Missing} => raw[i] = i

\* The result of a finished run is always in the file or in the row, wherever the
\* list page is cut.
ResultNotLost ==
  \A i \in DOMAIN raw : proc[i] = "ended" => raw[i] = i \/ (i \in DOMAIN txt /\ txt[i] = i)

\* All benchmarks share one data file, and refused forms overwrite it too: what a
\* benchmark posts is the data of its own form or of a later one, never of a form
\* posted before it, whatever was killed in between.  Only a benchmark whose own data
\* could not be written may find older data there.
NeverPostsOlderData == \A i \in Ids \ unwritten : sent[i] # Null => sent[i] >= i

\* The list as the user sees it: the rows, and those with a result.
Ended == {i \in Ids : proc[i] = "ended"}
Shown == {i \in DOMAIN raw : raw[i] \notin {Null, Missing}}
List == INSTANCE Results WITH issued <- lastB, rows <- DOMAIN raw, ended <- Ended, shown <- Shown

\* However pages, processes, kills and crashes interleave, the steps implement
\* Results: the file .pid alone keeps the page from showing a run that has not
\* ended, a result is not overwritten by a later page, and no id is used again.
ImplementsResults == List!LSpec

\* Once the manager and the machine stay up, every benchmark that got a process
\* ends up with its result in the row, or is deleted; only one whose process a
\* crash has ended stays without.
FinishedIsShown ==
  \A i \in Ids : proc[i] = "queued" ~> i \notin DOMAIN raw \/ raw[i] = i \/ proc[i] = "none"
=============================================================================
