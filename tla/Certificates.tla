---------------------------- MODULE Certificates ----------------------------
(***************************************************************************)
(* The certification authority of the manager (classes/ca.php).  Saving a  *)
(* site constructs it, which makes a key and a root certificate unless     *)
(* both files exist, and has it sign a certificate for the site.  The root *)
(* is put into the system's store by deleting all roots of that name and   *)
(* adding the file: two commands, once after the files are made and once   *)
(* after each signature.  A request may be cut between any two of these,   *)
(* and either command may fail, which nobody looks at.                     *)
(*                                                                         *)
(* A key pair is a number; a certificate is the key it is made with.       *)
(***************************************************************************)
EXTENDS Naturals

CONSTANTS
  Site,         \* sites that are saved
  MaxKey,       \* bound: how many key pairs are made for the authority
  Null          \* no such file

ASSUME CertificatesAssumption == MaxKey \in Nat /\ Null \notin 0..MaxKey

VARIABLES
  lastKey,  \* key pairs made so far
  caKey,    \* private\ca.key
  caCrt,    \* private\ca.crt
  trusted,  \* roots of that name in the system's store
  cert,     \* ssl_crt of the sites: its issuer
  req       \* the request being served

cavars == <<lastKey, caKey, caCrt, trusted, cert, req>>

NoRequest == [pc |-> "idle", site |-> Null, then |-> Null, crt |-> Null, failed |-> {}]
Idle == req.pc = "idle"

\* A faulty variant: the key alone tells that there is an authority.
Complete_KeyOnly == caKey # Null

Complete == caKey # Null /\ caCrt # Null

\* A faulty variant: every site gets an authority made for it.
Construct_Anew(s) ==
  /\ Idle
  /\ lastKey < MaxKey
  /\ req' = [NoRequest EXCEPT !.pc = "key", !.site = s]
  /\ UNCHANGED <<lastKey, caKey, caCrt, trusted, cert>>

\* Site::create and Site::update: new CA.
Construct(s) ==
  /\ Idle
  /\ Complete \/ lastKey < MaxKey
  /\ req' = [NoRequest EXCEPT !.pc = IF Complete THEN "sign" ELSE "key", !.site = s]
  /\ UNCHANGED <<lastKey, caKey, caCrt, trusted, cert>>

\* A faulty variant: a key file that exists is kept.
WriteKey_KeepsFile ==
  /\ req.pc = "key"
  /\ lastKey' = lastKey + 1
  /\ caKey' = IF caKey = Null THEN lastKey + 1 ELSE caKey
  /\ req' = [req EXCEPT !.pc = "crt"]
  /\ UNCHANGED <<caCrt, trusted, cert>>

WriteKey ==
  /\ req.pc = "key"
  /\ lastKey' = lastKey + 1
  /\ caKey' = lastKey + 1
  /\ req' = [req EXCEPT !.pc = "crt"]
  /\ UNCHANGED <<caCrt, trusted, cert>>

\* The root is signed with the key in memory.
WriteCrt ==
  /\ req.pc = "crt"
  /\ caCrt' = lastKey
  /\ req' = [req EXCEPT !.pc = "delstore", !.then = "sign"]
  /\ UNCHANGED <<lastKey, caKey, trusted, cert>>

\* updateTrustedRoot: certutil -delstore, then certutil -addstore.  Whether they
\* succeed is not looked at; failed notes it, for the last time they were run.
Delstore ==
  /\ req.pc = "delstore"
  /\ \/ trusted' = {} /\ req' = [req EXCEPT !.pc = "addstore", !.failed = {}]
     \/ trusted' = trusted /\ req' = [req EXCEPT !.pc = "addstore", !.failed = {"delstore"}]
  /\ UNCHANGED <<lastKey, caKey, caCrt, cert>>

Addstore ==
  /\ req.pc = "addstore"
  /\ \/ trusted' = trusted \cup {caCrt} /\ req' = [req EXCEPT !.pc = req.then]
     \/ trusted' = trusted /\ req' = [req EXCEPT !.pc = req.then, !.failed = @ \cup {"addstore"}]
  /\ UNCHANGED <<lastKey, caKey, caCrt, cert>>

\* A faulty variant: the store is left to the constructor.
Sign_LeavesStore ==
  /\ req.pc = "sign"
  /\ req' = [req EXCEPT !.pc = "row", !.crt = IF caKey = caCrt THEN caCrt ELSE Null]
  /\ UNCHANGED <<lastKey, caKey, caCrt, trusted, cert>>

\* generate(): openssl signs only with a root and a key that belong together.
Sign ==
  /\ req.pc = "sign"
  /\ req' = [req EXCEPT !.pc = "delstore", !.then = "row", !.crt = IF caKey = caCrt THEN caCrt ELSE Null]
  /\ UNCHANGED <<lastKey, caKey, caCrt, trusted, cert>>

\* INSERT INTO site, UPDATE site; see Sites for the rest of the request.
StoreRow ==
  /\ req.pc = "row"
  /\ cert' = [cert EXCEPT ![req.site] = req.crt]
  /\ req' = NoRequest
  /\ UNCHANGED <<lastKey, caKey, caCrt, trusted>>

Kill ==
  /\ ~Idle
  /\ req' = NoRequest
  /\ UNCHANGED <<lastKey, caKey, caCrt, trusted, cert>>

\* The user deletes the directory, or the root certificate, by hand.
Remove ==
  /\ Idle
  /\ caKey' \in {Null, caKey}
  /\ caCrt' = Null
  /\ UNCHANGED <<lastKey, trusted, cert, req>>

Init ==
  /\ lastKey = 0 /\ caKey = Null /\ caCrt = Null /\ trusted = {}
  /\ cert = [s \in Site |-> Null] /\ req = NoRequest

Next ==
  \/ \E s \in Site : Construct(s)
  \/ WriteKey \/ WriteCrt \/ Delstore \/ Addstore \/ Sign \/ StoreRow
  \/ Kill \/ Remove

Spec == Init /\ [][Next]_cavars

-----------------------------------------------------------------------------
(* Properties                                                              *)

\* Files, store and the request being served are well-formed.
CertificatesTypeOK ==
  /\ lastKey \in 0..MaxKey
  /\ caKey \in 1..lastKey \cup {Null} /\ caCrt \in 1..lastKey \cup {Null}
  /\ trusted \subseteq 1..lastKey
  /\ cert \in [Site -> 1..lastKey \cup {Null}]

\* The key and the root certificate always belong together, though they are two
\* files written one after the other.
PairMatches == caKey # Null /\ caCrt # Null => caKey = caCrt

\* A site that was saved has a certificate, and its issuer is a root the system
\* trusts, unless adding it to the store failed in this very request; it is the one
\* root of that name, unless deleting the others failed there too.  What earlier
\* requests left half done or failed at does not matter.
SavedIsTrusted ==
  req.pc = "row" =>
    /\ req.crt # Null
    /\ "addstore" \notin req.failed => req.crt \in trusted
    /\ req.failed = {} => trusted = {req.crt}

\* No save replaces a root that exists or its key, wherever it and the saves before
\* it are cut: the certificates issued under it stay as good as they were.  Another
\* one is made only after the root was removed by hand, with or without its key.
RootKept ==
  [][caCrt # Null => (caCrt' = caCrt /\ caKey' = caKey) \/ caCrt' = Null]_cavars
=============================================================================
