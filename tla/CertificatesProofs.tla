------------------------- MODULE CertificatesProofs -------------------------
(***************************************************************************)
(* The authority's two files and the system's store of roots, for any      *)
(* number of sites and key pairs.                                          *)
(*                                                                         *)
(* PairMatches is not inductive: a key that is written beside a root of    *)
(* another key would break it.  A root without its key never exists        *)
(* (RootHasKey), so the constructor makes a new key only where there is no *)
(* root (PcInv).  SavedIsTrusted needs what the two commands on the store  *)
(* of roots have done so far.                                              *)
(***************************************************************************)
EXTENDS Certificates, TLAPS

Key == 1..lastKey

\* The request being served.
RequestOK ==
  /\ req \in [pc : {"idle", "key", "crt", "delstore", "addstore", "sign", "row"},
              site : Site \cup {Null}, then : {"sign", "row", Null}, crt : Key \cup {Null},
              failed : SUBSET {"delstore", "addstore"}]
  /\ ~Idle => req.site \in Site

\* A root certificate is never without the key it was made with.
RootHasKey == caCrt # Null => caKey = caCrt

\* What the position in a request says of the files and of the store of roots.
PcInv ==
  /\ req.pc = "key" => caCrt = Null /\ lastKey < MaxKey
  /\ req.pc = "crt" => caKey = lastKey /\ lastKey > 0
  /\ req.pc \in {"delstore", "addstore", "sign", "row"} => caCrt # Null
  /\ req.pc \in {"delstore", "addstore"} => req.then \in {"sign", "row"}
  /\ req.pc \in {"delstore", "addstore"} /\ req.then = "row" => req.crt = caCrt
  /\ req.pc = "addstore" /\ "delstore" \notin req.failed => trusted = {}
  /\ req.pc = "row" => req.crt = caCrt
  /\ req.pc = "row" /\ "addstore" \notin req.failed => caCrt \in trusted
  /\ req.pc = "row" /\ req.failed = {} => trusted = {caCrt}

\* The inductive invariant.
CertInv == CertificatesTypeOK /\ RequestOK /\ RootHasKey /\ PcInv

\* It holds of the manager as distributed, which has no authority yet.
LEMMA CertInit == Init => CertInv
  BY CertificatesAssumption
  DEF Init, CertInv, CertificatesTypeOK, RequestOK, RootHasKey, PcInv, NoRequest, Idle, Key

\* Every step keeps the invariant.
LEMMA CertStep ==
  ASSUME CertInv, [Next]_cavars
  PROVE  CertInv'
<1> USE CertificatesAssumption
    DEF CertInv, CertificatesTypeOK, RequestOK, RootHasKey, PcInv, NoRequest, Idle, Key
<1>1. ASSUME NEW s \in Site, Construct(s)
      PROVE  CertInv'
  BY <1>1 DEF Construct, Complete
<1>2. CASE WriteKey
  BY <1>2 DEF WriteKey
<1>3. CASE WriteCrt
  BY <1>3 DEF WriteCrt
<1>4. CASE Delstore
  <2>1. CASE trusted' = {} /\ req' = [req EXCEPT !.pc = "addstore", !.failed = {}]
    BY <1>4, <2>1 DEF Delstore
  <2>2. CASE trusted' = trusted /\ req' = [req EXCEPT !.pc = "addstore", !.failed = {"delstore"}]
    BY <1>4, <2>2 DEF Delstore
  <2> QED
    BY <1>4, <2>1, <2>2 DEF Delstore
<1>5. CASE Addstore
  <2>1. CASE trusted' = trusted \cup {caCrt} /\ req' = [req EXCEPT !.pc = req.then]
    BY <1>5, <2>1 DEF Addstore
  <2>2. CASE trusted' = trusted /\ req' = [req EXCEPT !.pc = req.then, !.failed = @ \cup {"addstore"}]
    BY <1>5, <2>2 DEF Addstore
  <2> QED
    BY <1>5, <2>1, <2>2 DEF Addstore
<1>6. CASE Sign
  BY <1>6 DEF Sign
<1>7. CASE StoreRow
  BY <1>7 DEF StoreRow
<1>8. CASE Kill
  BY <1>8 DEF Kill
<1>9. CASE Remove
  BY <1>9 DEF Remove
<1>10. CASE UNCHANGED cavars
  BY <1>10 DEF cavars
<1> QED
  BY <1>1, <1>2, <1>3, <1>4, <1>5, <1>6, <1>7, <1>8, <1>9, <1>10 DEF Next

\* CertInv is an invariant.
LEMMA CertInvariant == Spec => []CertInv
  BY CertInit, CertStep, PTL DEF Spec

\* Files, store of roots and certificates keep their types: every file holds a key
\* pair that was made.
THEOREM CertificatesTypeCorrect == Spec => []CertificatesTypeOK
<1>1. CertInv => CertificatesTypeOK
  BY DEF CertInv
<1> QED
  BY <1>1, CertInvariant, PTL

\* Wherever requests are cut, ca.key and ca.crt belong together.
THEOREM PairAlwaysMatches == Spec => []PairMatches
<1>1. CertInv => PairMatches
  BY DEF CertInv, RootHasKey, PairMatches
<1> QED
  BY <1>1, CertInvariant, PTL

\* The certificate of a site that is being stored was issued by a root the system
\* trusts, the only one of that name, unless certutil failed in this request.
THEOREM SavedAlwaysTrusted == Spec => []SavedIsTrusted
<1>1. CertInv => SavedIsTrusted
  BY DEF CertInv, PcInv, SavedIsTrusted
<1> QED
  BY <1>1, CertInvariant, PTL

\* The root that signed the certificates of the sites is not replaced by any save, nor
\* is its key (the constructor of CA).
THEOREM RootNeverReplaced == Spec => RootKept
<1>1. ASSUME CertInv, [Next]_cavars, caCrt # Null
      PROVE  (caCrt' = caCrt /\ caKey' = caKey) \/ caCrt' = Null
  <2>1. CASE WriteKey
    BY <1>1, <2>1 DEF WriteKey, CertInv, PcInv
  <2>2. CASE WriteCrt
    BY <1>1, <2>2 DEF WriteCrt, CertInv, PcInv, RootHasKey
  <2>3. CASE ~WriteKey /\ ~WriteCrt
    BY <1>1, <2>3 DEF Next, Construct, Delstore, Addstore, Sign, StoreRow, Kill, Remove, cavars
  <2> QED
    BY <2>1, <2>2, <2>3
<1> QED
  BY <1>1, CertInvariant, PTL DEF Spec, RootKept
=============================================================================
