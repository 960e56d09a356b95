------------------------------ MODULE Results ------------------------------
(***************************************************************************)
(* What the list of benchmarks promises, without the files and processes   *)
(* behind it: every job has a number of its own, its result is shown only  *)
(* after the job has ended, and stays until its row is dropped for good.   *)
(***************************************************************************)
EXTENDS Naturals

VARIABLES
  issued,  \* the highest number ever given to a job
  rows,    \* the jobs on the list
  ended,   \* the jobs that have ended by themselves
  shown    \* the jobs on the list that have a result

results == <<issued, rows, ended, shown>>

LInit == issued = 0 /\ rows = {} /\ ended = {} /\ shown = {}

Enlist ==
  /\ issued' = issued + 1 /\ rows' = rows \cup {issued + 1}
  /\ UNCHANGED <<ended, shown>>

\* Also of a job whose row is gone.
End(i) ==
  /\ i \in 1..issued \ ended
  /\ ended' = ended \cup {i}
  /\ UNCHANGED <<issued, rows, shown>>

Show(i) ==
  /\ i \in (rows \cap ended) \ shown
  /\ shown' = shown \cup {i}
  /\ UNCHANGED <<issued, rows, ended>>

Drop(gone) ==
  /\ rows' = rows \ gone /\ shown' = shown \ gone
  /\ UNCHANGED <<issued, ended>>

LNext ==
  \/ Enlist
  \/ \E i \in 1..issued : End(i) \/ Show(i)
  \/ \E gone \in SUBSET rows : Drop(gone)

LSpec == LInit /\ [][LNext]_results

\* Only jobs that are on the list and have ended have a result.
ListInv ==
  /\ issued \in Nat /\ rows \subseteq 1..issued /\ ended \subseteq 1..issued
  /\ shown \subseteq rows \cap ended

\* A result is never taken back while its row is there, and a number that left the
\* list never returns to it.
Keeps == shown \cap rows' \subseteq shown' /\ rows' \cap (1..issued) \subseteq rows
ShownForGood == [][Keeps]_results
=============================================================================
