-------------------------- MODULE BenchmarksProofs --------------------------
(***************************************************************************)
(* What the list page and the processes in the background may rely on, for *)
(* any number of benchmarks, kills and crashes.                            *)
(*                                                                         *)
(* The properties speak of rows; that they hold needs what the .pid files  *)
(* say of processes and texts (FilesInv), that the page works on rows that *)
(* have no result and on ids without .pid file (PageInv), and how far the  *)
(* data file has got (DataInv).                                            *)
(***************************************************************************)
EXTENDS Benchmarks, TLAPS

\* The request being served.
RequestOK ==
  /\ req \in [pc : {"idle", "insert", "background", "usleep", "next", "update", "unlink"},
              id : Ids \cup {Null}, todo : SUBSET Ids]
  /\ Idle => req.todo = {}
  /\ req.pc = "insert" => lastB < MaxBenchmark
  /\ req.pc = "background" => req.id \in 1..lastB

\* Processes belong to ids that were given out.
ProcessesOK ==
  /\ proc \in [Ids -> {"none", "queued", "running", "ended"}]
  /\ \A i \in Ids : proc[i] # "none" => i <= lastB

\* A process has a .pid file from before its start until its text is whole.
FilesInv ==
  /\ \A i \in DOMAIN txt : txt[i] \in {Partial, i}
  /\ \A i \in DOMAIN txt : i \notin pid => txt[i] = i
  /\ \A i \in Ids : proc[i] \in {"queued", "running"} => i \in pid
  /\ \A i \in Ids : proc[i] = "running" => i \in DOMAIN txt

\* The page only works on rows without result, and reads and deletes only texts
\* that no process writes.
PageInv ==
  /\ \A i \in req.todo : i \in DOMAIN raw /\ raw[i] \in {Null, Missing}
  /\ req.pc \in {"update", "unlink"} =>
       req.id \in DOMAIN raw /\ req.id \notin pid /\ req.id \notin req.todo
  /\ req.pc = "update" => raw[req.id] \in {Null, Missing}
  /\ req.pc = "unlink" /\ proc[req.id] = "ended" => raw[req.id] = req.id

\* A benchmark whose process has not read the data file yet will find its own form
\* there, or a later one, if its data was written; nothing is read for an id before
\* it is given out.
DataInv ==
  /\ data \in 0..MaxBenchmark /\ data <= lastB + 1
  /\ sent \in [Ids -> 0..MaxBenchmark \cup {Null}]
  /\ \A i \in Ids \ unwritten : sent[i] = Null /\ i <= lastB => data >= i
  /\ \A i \in Ids : i > lastB => sent[i] \in {Null, i}
  /\ req.pc = "insert" /\ sent[lastB + 1] = Null => data = lastB + 1 \/ lastB + 1 \in unwritten

\* The inductive invariant.
BenchInv ==
  /\ BenchmarksTypeOK /\ RequestOK /\ ProcessesOK
  /\ FilesInv /\ PageInv /\ DataInv
  /\ ResultIsOwn /\ ResultNotLost /\ NeverPostsOlderData

\* It holds of an empty table.
LEMMA BenchInit == Init => BenchInv
  BY BenchmarkBoundAssumption
  DEF Init, BenchInv, BenchmarksTypeOK, RequestOK, ProcessesOK, FilesInv, PageInv, DataInv,
      ResultIsOwn, ResultNotLost, NeverPostsOlderData, NoRequest, Idle, Ids

\* Every step keeps the invariant.
LEMMA BenchStep ==
  ASSUME BenchInv, [Next]_bvars
  PROVE  BenchInv'
<1> USE BenchmarkBoundAssumption
    DEF BenchInv, BenchmarksTypeOK, RequestOK, ProcessesOK, FilesInv, PageInv, DataInv,
        ResultIsOwn, ResultNotLost, NeverPostsOlderData, NoRequest, Idle, Ids, Partial, Goto,
        With, Without, datafile
<1>1. ASSUME NEW posts \in BOOLEAN, NEW valid \in BOOLEAN, Create(posts, valid)
      PROVE  BenchInv'
  <2>1. /\ lastB + 1 \in Ids /\ UNCHANGED <<lastB, raw, pid, txt, proc, faults>>
        /\ req.pc = "idle" /\ (req' = req \/ (Goto("insert") /\ valid))
    BY <1>1 DEF Create
  <2>2. BenchmarksTypeOK' /\ RequestOK' /\ ProcessesOK' /\ FilesInv' /\ PageInv'
    BY <2>1
  <2>3. ResultIsOwn' /\ ResultNotLost'
    BY <2>1
  <2>4. /\ sent' \in [Ids -> 0..MaxBenchmark \cup {Null}]
        /\ \A i \in Ids : i # lastB + 1 => sent'[i] = sent[i]
        /\ sent'[lastB + 1] \in {Null, lastB + 1}
        /\ valid => sent'[lastB + 1] = IF posts THEN Null ELSE lastB + 1
    <3>1. CASE valid
      BY <1>1, <2>1, <3>1 DEF Create
    <3>2. CASE ~valid
      BY <1>1, <2>1, <3>2 DEF Create
    <3> QED
      BY <3>1, <3>2
  <2>5. /\ data' \in 0..MaxBenchmark /\ data' <= lastB + 1 /\ data' >= data
        /\ \A i \in Ids : i # lastB + 1 => (i \in unwritten' <=> i \in unwritten)
        /\ posts => data' = lastB + 1 \/ lastB + 1 \in unwritten'
    BY <1>1, <2>1 DEF Create, WriteData
  <2>6. NeverPostsOlderData'
    BY <2>1, <2>4, <2>5
  <2>7. DataInv'
    <3>0. lastB' = lastB /\ lastB \in Nat /\ data \in Nat /\ data' \in Nat
      BY <2>1, <2>5
    <3>1. ASSUME NEW i \in Ids
          PROVE  /\ i \notin unwritten' /\ sent'[i] = Null /\ i <= lastB' => data' >= i
                 /\ i > lastB' => sent'[i] \in {Null, i}
      <4>1. CASE i = lastB + 1
        BY <2>4, <3>0, <4>1
      <4>2. CASE i # lastB + 1
        <5>1. sent'[i] = sent[i] /\ (i \in unwritten' <=> i \in unwritten) /\ data' >= data
          BY <2>4, <2>5, <4>2
        <5>2. /\ i \notin unwritten /\ sent[i] = Null /\ i <= lastB => data >= i
              /\ i > lastB => sent[i] \in {Null, i}
          OBVIOUS
        <5> QED
          BY <3>0, <5>1, <5>2
      <4> QED
        BY <4>1, <4>2
    <3>2. req'.pc = "insert" /\ sent'[lastB' + 1] = Null =>
            data' = lastB' + 1 \/ lastB' + 1 \in unwritten'
      BY <2>1, <2>4, <2>5
    <3> QED
      BY <2>1, <2>4, <2>5, <3>1, <3>2
  <2> QED
    BY <2>2, <2>3, <2>6, <2>7
<1>2. CASE Insert
  <2>1. /\ DOMAIN raw' = DOMAIN raw \cup {lastB + 1}
        /\ raw'[lastB + 1] = Null
        /\ \A i \in DOMAIN raw : raw'[i] = raw[i]
    BY <1>2 DEF Insert
  <2>2. lastB + 1 \in Ids /\ lastB + 1 \in 1..lastB' /\ proc[lastB + 1] = "none"
    BY <1>2 DEF Insert
  <2>3. BenchmarksTypeOK'
    BY <1>2, <2>1 DEF Insert
  <2>4. RequestOK'
    <3>1. req' \in [pc : {"background"}, id : {lastB + 1}, todo : SUBSET Ids]
      BY <1>2 DEF Insert
    <3> QED
      BY <2>2, <3>1
  <2>5. ProcessesOK'
    BY <1>2 DEF Insert
  <2>6. FilesInv' /\ NeverPostsOlderData'
    BY <1>2 DEF Insert
  <2>7. PageInv' /\ ResultIsOwn' /\ ResultNotLost'
    BY <1>2, <2>1, <2>2 DEF Insert
  <2>8. DataInv'
    BY <1>2 DEF Insert
  <2> QED
    BY <2>3, <2>4, <2>5, <2>6, <2>7, <2>8
<1>3. CASE Background
  <2>1. BenchmarksTypeOK'
    BY <1>3 DEF Background
  <2>2. RequestOK'
    BY <1>3 DEF Background
  <2>3. ProcessesOK'
    BY <1>3 DEF Background
  <2>4. FilesInv' /\ NeverPostsOlderData'
    BY <1>3 DEF Background
  <2>5. PageInv' /\ ResultIsOwn' /\ ResultNotLost'
    BY <1>3 DEF Background
  <2>6. DataInv'
    BY <1>3 DEF Background
  <2> QED
    BY <2>1, <2>2, <2>3, <2>4, <2>5, <2>6
<1>4. CASE Usleep
  BY <1>4 DEF Usleep
<1>5. ASSUME NEW i \in Ids, ProcessStart(i)
      PROVE  BenchInv'
  <2>1. /\ i <= lastB /\ UNCHANGED <<lastB, raw, pid, data, unwritten, req, faults>>
        /\ \A j \in Ids : j # i => sent'[j] = sent[j]
        /\ sent'[i] = IF sent[i] = Null THEN data ELSE sent[i]
        /\ sent' \in [Ids -> 0..MaxBenchmark \cup {Null}]
    BY <1>5 DEF ProcessStart
  <2>2. DataInv' /\ NeverPostsOlderData'
    BY <2>1
  <2>3. BenchmarksTypeOK' /\ RequestOK' /\ ProcessesOK' /\ FilesInv'
    BY <1>5 DEF ProcessStart
  <2>4. PageInv' /\ ResultIsOwn' /\ ResultNotLost'
    BY <1>5 DEF ProcessStart
  <2> QED
    BY <2>2, <2>3, <2>4
<1>6. ASSUME NEW i \in Ids, ProcessOutput(i)
      PROVE  BenchInv'
  BY <1>6 DEF ProcessOutput
<1>7. ASSUME NEW i \in Ids, ProcessEnd(i)
      PROVE  BenchInv'
  BY <1>7 DEF ProcessEnd
<1>8. CASE Index
  BY <1>8 DEF Index
<1>9. ASSUME NEW i \in Ids, NextRow(i)
      PROVE  BenchInv'
  BY <1>9 DEF NextRow
<1>10. CASE UpdateRow
  <2>1. /\ DOMAIN raw' = DOMAIN raw
        /\ raw'[req.id] \in {Missing, req.id}
        /\ proc[req.id] = "ended" => raw'[req.id] = req.id
        /\ \A i \in DOMAIN raw : i # req.id => raw'[i] = raw[i]
    BY <1>10 DEF UpdateRow
  <2>2. BenchmarksTypeOK' /\ RequestOK' /\ ProcessesOK'
    BY <1>10, <2>1 DEF UpdateRow
  <2>3. FilesInv' /\ DataInv' /\ NeverPostsOlderData'
    BY <1>10 DEF UpdateRow
  <2>4. PageInv' /\ ResultIsOwn' /\ ResultNotLost'
    BY <1>10, <2>1 DEF UpdateRow
  <2> QED
    BY <2>2, <2>3, <2>4
<1>11. CASE Unlink
  <2>1. /\ DOMAIN txt' = DOMAIN txt \ {req.id}
        /\ \A i \in DOMAIN txt' : txt'[i] = txt[i]
    BY <1>11 DEF Unlink
  <2>2. BenchmarksTypeOK' /\ RequestOK' /\ ProcessesOK'
    BY <1>11, <2>1 DEF Unlink
  <2>3. FilesInv' /\ ResultNotLost'
    BY <1>11, <2>1 DEF Unlink
  <2>4. PageInv' /\ DataInv' /\ ResultIsOwn' /\ NeverPostsOlderData'
    BY <1>11 DEF Unlink
  <2> QED
    BY <2>2, <2>3, <2>4
<1>12. CASE PageShown
  BY <1>12 DEF PageShown
<1>13. ASSUME NEW i \in Ids, Delete(i)
      PROVE  BenchInv'
  BY <1>13 DEF Delete
<1>14. CASE Clear
  BY <1>14 DEF Clear
<1>15. CASE Kill
  BY <1>15 DEF Kill, Fault
<1>16. CASE Crash
  BY <1>16 DEF Crash, Fault
<1>17. CASE UNCHANGED bvars
  BY <1>17 DEF bvars
<1> HIDE DEF BenchInv
<1> QED
  BY <1>1, <1>2, <1>3, <1>4, <1>5, <1>6, <1>7, <1>8, <1>9, <1>10, <1>11, <1>12, <1>13, <1>14,
     <1>15, <1>16, <1>17 DEF Next, Step, Process

\* BenchInv is an invariant.
LEMMA BenchInvariant == Spec => []BenchInv
  BY BenchInit, BenchStep, PTL DEF Spec

\* Rows, files and processes belong to ids that were given out.
THEOREM BenchmarksTypeCorrect == Spec => []BenchmarksTypeOK
<1>1. BenchInv => BenchmarksTypeOK
  BY DEF BenchInv
<1> QED
  BY <1>1, BenchInvariant, PTL

\* A row never gets a partial text or the text of another benchmark.
THEOREM ResultAlwaysOwn == Spec => []ResultIsOwn
<1>1. BenchInv => ResultIsOwn
  BY DEF BenchInv
<1> QED
  BY <1>1, BenchInvariant, PTL

\* Wherever the list page is cut, the result of a finished run is in its row or in
\* its file.
THEOREM ResultNeverLost == Spec => []ResultNotLost
<1>1. BenchInv => ResultNotLost
  BY DEF BenchInv
<1> QED
  BY <1>1, BenchInvariant, PTL

\* No benchmark posts the data of a form older than its own.
THEOREM OlderDataNeverPosted == Spec => []NeverPostsOlderData
<1>1. BenchInv => NeverPostsOlderData
  BY DEF BenchInv
<1> QED
  BY <1>1, BenchInvariant, PTL

-----------------------------------------------------------------------------
(* The table is a list of results                                          *)

\* A text without .pid file is that of a process that has ended; a process is started
\* once.
EndInv ==
  /\ \A i \in DOMAIN txt : i \notin pid => proc[i] = "ended"
  /\ req.pc = "background" => proc[req.id] = "none"

\* Every step keeps it.
LEMMA EndStep ==
  ASSUME BenchInv, EndInv, [Next]_bvars
  PROVE  EndInv'
<1> USE DEF EndInv, RequestOK, ProcessesOK, FilesInv, BenchInv, BenchmarksTypeOK, Ids, Goto, With,
            Without, NoRequest
<1>1. CASE \/ \E posts, valid \in BOOLEAN : Create(posts, valid)
           \/ Usleep \/ Index \/ (\E i \in Ids : NextRow(i)) \/ UpdateRow \/ PageShown
           \/ (\E i \in Ids : Delete(i)) \/ Clear \/ Kill \/ UNCHANGED bvars
  <2>1. UNCHANGED <<txt, pid, proc>>
    BY <1>1 DEF Create, Usleep, Index, NextRow, UpdateRow, PageShown, Delete, Clear, Kill, bvars
  <2>2. req' = req \/ req'.pc # "background"
    <3>1. CASE \E posts, valid \in BOOLEAN : Create(posts, valid)
      BY <3>1 DEF Create
    <3>2. CASE \E i \in Ids : NextRow(i)
      BY <3>2 DEF NextRow
    <3>3. CASE Usleep \/ Index \/ UpdateRow \/ PageShown \/ Kill
      BY <3>3 DEF Usleep, Index, UpdateRow, PageShown, Kill
    <3>4. CASE (\E i \in Ids : Delete(i)) \/ Clear \/ UNCHANGED bvars
      BY <3>4 DEF Delete, Clear, bvars
    <3> QED
      BY <1>1, <3>1, <3>2, <3>3, <3>4
  <2> QED
    BY <2>1, <2>2
<1>2. CASE Insert
  <2>1. req' \in [pc : {"background"}, id : {lastB + 1}, todo : {req.todo}]
    BY <1>2 DEF Insert
  <2>2. lastB + 1 \in Ids /\ proc[lastB + 1] = "none" /\ UNCHANGED <<txt, pid, proc>>
    BY <1>2, BenchmarkBoundAssumption DEF Insert
  <2> QED
    BY <2>1, <2>2
<1>3. CASE Background
  BY <1>3 DEF Background
<1>4. ASSUME NEW i \in Ids, ProcessStart(i)
      PROVE  EndInv'
  BY <1>4 DEF ProcessStart
<1>5. ASSUME NEW i \in Ids, ProcessOutput(i)
      PROVE  EndInv'
  BY <1>5 DEF ProcessOutput
<1>6. ASSUME NEW i \in Ids, ProcessEnd(i)
      PROVE  EndInv'
  BY <1>6 DEF ProcessEnd
<1>7. CASE Unlink
  BY <1>7 DEF Unlink
<1>8. CASE Crash
  BY <1>8 DEF Crash
<1> QED
  BY <1>1, <1>2, <1>3, <1>4, <1>5, <1>6, <1>7, <1>8 DEF Next, Step, Process

\* What runs and has ended depends on the processes, what is shown on the table.
LEMMA SameList ==
  /\ UNCHANGED proc => Ended' = Ended
  /\ UNCHANGED raw => Shown' = Shown
  BY DEF Ended, Shown, Ids

\* Every step of Benchmarks is a step of Results, or leaves the list alone.
LEMMA ResultsStep ==
  ASSUME BenchInv, EndInv, [Next]_bvars
  PROVE  [List!LNext]_(List!results)
<1> USE DEF BenchInv, BenchmarksTypeOK, RequestOK, ProcessesOK, Ids
<1>1. CASE Insert
  <2>1. /\ DOMAIN raw' = DOMAIN raw \cup {lastB + 1} /\ raw'[lastB + 1] = Null
        /\ \A i \in DOMAIN raw : raw'[i] = raw[i]
        /\ lastB' = lastB + 1 /\ UNCHANGED proc
    BY <1>1 DEF Insert, With
  <2>2. Shown' = Shown
    BY <2>1 DEF Shown
  <2>3. List!Enlist
    BY <2>1, <2>2, SameList DEF List!Enlist
  <2> QED
    BY <2>3 DEF List!LNext
<1>2. ASSUME NEW i \in Ids, ProcessEnd(i)
      PROVE  [List!LNext]_(List!results)
  <2>1. Ended' = Ended \cup {i} /\ i \notin Ended /\ i \in 1..lastB
    BY <1>2 DEF ProcessEnd, Ended
  <2>2. List!End(i)
    BY <1>2, <2>1, SameList DEF ProcessEnd, List!End
  <2> QED
    BY <2>1, <2>2 DEF List!LNext
<1>3. CASE UpdateRow
  <2>1. /\ req.id \in DOMAIN raw /\ req.id \in 1..lastB /\ raw[req.id] \in {Null, Missing}
        /\ DOMAIN raw' = DOMAIN raw
        /\ raw'[req.id] = IF req.id \in DOMAIN txt THEN txt[req.id] ELSE Missing
        /\ \A i \in DOMAIN raw : i # req.id => raw'[i] = raw[i]
        /\ UNCHANGED <<lastB, proc>>
    BY <1>3 DEF UpdateRow, PageInv
  <2>2. CASE req.id \in DOMAIN txt
    <3>1. txt[req.id] \in 0..MaxBenchmark /\ proc[req.id] = "ended"
      BY <1>3, <2>2 DEF UpdateRow, PageInv, EndInv
    <3>2. Shown' = Shown \cup {req.id} /\ req.id \in (DOMAIN raw \cap Ended) \ Shown
      BY <2>1, <2>2, <3>1, BenchmarkBoundAssumption DEF Shown, Ended
    <3>3. List!Show(req.id)
      BY <2>1, <3>2, SameList DEF List!Show
    <3> QED
      BY <2>1, <3>3 DEF List!LNext
  <2>3. CASE req.id \notin DOMAIN txt
    <3>1. Shown' = Shown
      BY <2>1, <2>3 DEF Shown
    <3> QED
      BY <2>1, <3>1, SameList DEF List!results
  <2> QED
    BY <2>2, <2>3
<1>4. ASSUME NEW i \in Ids, Delete(i)
      PROVE  [List!LNext]_(List!results)
  <2>1. /\ DOMAIN raw' = DOMAIN raw \ {i} /\ \A j \in DOMAIN raw' : raw'[j] = raw[j]
        /\ {i} \in SUBSET DOMAIN raw /\ UNCHANGED <<lastB, proc>>
    BY <1>4 DEF Delete, Without
  <2>2. Shown' = Shown \ {i}
    BY <2>1 DEF Shown
  <2>3. List!Drop({i})
    BY <2>1, <2>2, SameList DEF List!Drop
  <2> QED
    BY <2>1, <2>3 DEF List!LNext
<1>5. CASE Clear
  <2>1. DOMAIN raw' = {} /\ UNCHANGED <<lastB, proc>>
    BY <1>5 DEF Clear
  <2>2. Shown' = {} /\ Shown \subseteq DOMAIN raw
    BY <2>1 DEF Shown
  <2>3. List!Drop(DOMAIN raw)
    BY <2>1, <2>2, SameList DEF List!Drop
  <2> QED
    BY <2>3 DEF List!LNext
<1>6. CASE UNCHANGED <<lastB, raw, Ended>>
  BY <1>6, SameList DEF List!results
<1>7. ASSUME \/ Background \/ (\E i \in Ids : ProcessStart(i)) \/ Crash
      PROVE  UNCHANGED <<lastB, raw, Ended>>
  <2>1. UNCHANGED <<lastB, raw>>
    BY <1>7 DEF Background, ProcessStart, Crash
  <2>2. Ended' = Ended
    <3>1. CASE Background
      BY <3>1 DEF Background, Ended, EndInv
    <3>2. CASE \E i \in Ids : ProcessStart(i)
      BY <3>2 DEF ProcessStart, Ended
    <3>3. CASE Crash
      BY <3>3 DEF Crash, Ended
    <3> QED
      BY <1>7, <3>1, <3>2, <3>3
  <2> QED
    BY <2>1, <2>2
<1>8. ASSUME \/ \E posts, valid \in BOOLEAN : Create(posts, valid)
             \/ Usleep \/ Index \/ (\E i \in Ids : NextRow(i) \/ ProcessOutput(i)) \/ Unlink
             \/ PageShown \/ Kill \/ UNCHANGED bvars
      PROVE  UNCHANGED <<lastB, raw, Ended>>
  BY <1>8, SameList
     DEF Create, Usleep, Index, NextRow, ProcessOutput, Unlink, PageShown, Kill, bvars
<1> QED
  BY <1>1, <1>2, <1>3, <1>4, <1>5, <1>6, <1>7, <1>8 DEF Next, Step, Process

\* create(), index(), delete() and the processes implement Results.
THEOREM ResultsImplemented == Spec => ImplementsResults
<1>1. Init => EndInv /\ List!LInit
  BY DEF Init, EndInv, NoRequest, List!LInit, Ended, Shown
<1> QED
  BY <1>1, EndStep, ResultsStep, BenchInvariant, PTL DEF Spec, ImplementsResults, List!LSpec

\* What the list promises follows from the steps of Results alone: results are those
\* of listed jobs that have ended.
THEOREM ListConsistent == List!LSpec => []List!ListInv
<1> USE DEF List!ListInv
<1>1. List!LInit => List!ListInv
  BY DEF List!LInit
<1>2. ASSUME List!ListInv, [List!LNext]_(List!results)
      PROVE  List!ListInv'
  <2>1. CASE List!Enlist
    BY <1>2, <2>1 DEF List!Enlist
  <2>2. ASSUME NEW i \in 1..lastB, List!End(i) \/ List!Show(i)
        PROVE  List!ListInv'
    BY <1>2, <2>2 DEF List!End, List!Show
  <2>3. ASSUME NEW gone \in SUBSET DOMAIN raw, List!Drop(gone)
        PROVE  List!ListInv'
    BY <1>2, <2>3 DEF List!Drop
  <2>4. CASE UNCHANGED List!results
    BY <1>2, <2>4 DEF List!results
  <2> QED
    BY <1>2, <2>1, <2>2, <2>3, <2>4 DEF List!LNext
<1> QED
  BY <1>1, <1>2, PTL DEF List!LSpec

\* A result that was shown once is not taken back or overwritten while its row is there,
\* and the id of a deleted row is not given again (BenchmarkController::index, delete).
THEOREM ResultShownForGood == Spec => List!ShownForGood
<1>1. ASSUME List!ListInv, [List!LNext]_(List!results)
      PROVE  [List!Keeps]_(List!results)
  <2> USE <1>1 DEF List!ListInv, List!Keeps
  <2>1. CASE List!Enlist
    BY <2>1 DEF List!Enlist
  <2>2. ASSUME NEW i \in 1..lastB, List!End(i) \/ List!Show(i)
        PROVE  List!Keeps
    BY <2>2 DEF List!End, List!Show
  <2>3. ASSUME NEW gone \in SUBSET DOMAIN raw, List!Drop(gone)
        PROVE  List!Keeps
    BY <2>3 DEF List!Drop
  <2> QED
    BY <2>1, <2>2, <2>3 DEF List!LNext
<1> QED
  BY <1>1, ResultsImplemented, ListConsistent, PTL DEF ImplementsResults, List!LSpec, List!ShownForGood
=============================================================================
