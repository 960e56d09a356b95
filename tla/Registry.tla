------------------------------ MODULE Registry ------------------------------
(***************************************************************************)
(* What the tables instance and endpoint promise the rest of the manager,  *)
(* without any of the steps that keep the promise: an id is given out once *)
(* and never again; only a live instance holds endpoints; an instance is   *)
(* retired after it has given up all of them.                              *)
(***************************************************************************)
EXTENDS Naturals

CONSTANT Claims   \* what a row of table endpoint may be

VARIABLES
  issued,  \* the highest id ever given to an instance
  live,    \* the instances there are
  claims   \* their endpoints

registry == <<issued, live, claims>>

ClaimsOf(i) == {e \in claims : e.instance_id = i}

RInit == issued = 0 /\ live = {} /\ claims = {}

Register ==
  /\ issued' = issued + 1
  /\ live' = live \cup {issued + 1}
  /\ UNCHANGED claims

Claim(e) ==
  /\ e.instance_id \in live
  /\ claims' = claims \cup {e}
  /\ UNCHANGED <<issued, live>>

Release(i) ==
  /\ claims' = claims \ ClaimsOf(i)
  /\ UNCHANGED <<issued, live>>

Retire(i) ==
  /\ ClaimsOf(i) = {}
  /\ live' = live \ {i}
  /\ UNCHANGED <<issued, claims>>

RNext ==
  \/ Register
  \/ \E e \in claims' \ claims : e \in Claims /\ Claim(e)
  \/ \E i \in live : Release(i) \/ Retire(i)

RSpec == RInit /\ [][RNext]_registry

\* Ids of live instances were given out, and every claim has a live owner.
RegistryInv ==
  /\ issued \in Nat
  /\ live \subseteq 1..issued
  /\ \A e \in claims : e.instance_id \in live

\* An id that was given out and retired never becomes live again.
NeverAgain == [][\A i \in 1..issued : i \notin live => i \notin live']_registry
=============================================================================
