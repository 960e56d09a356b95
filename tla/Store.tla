------------------------------- MODULE Store -------------------------------
(***************************************************************************)
(* The list of packages and its copy in the manager: synchronisation with  *)
(* the store (UpdateController::sync), upload of a package by a developer  *)
(* (DevController::upload), download of an archive into the cache and its  *)
(* unpacking (Installer::download, Installer::unzip).                      *)
(*                                                                         *)
(* The store is a service outside the repository: a sequence of catalogues *)
(* identified by a hash.  A package row is its class file and the hash of  *)
(* its archive, which stands for the archive's content.                    *)
(***************************************************************************)
EXTENDS Naturals, FiniteSets

CONSTANTS
  Catalogue,     \* the catalogues of the store, in the order of publication
  Uploads,       \* archives a developer uploads
  MaxPackage,    \* bound: the largest package id
  MaxInstance,   \* bound: how many instances are installed
  Garbage,       \* content of a file that is no archive, answer that is no JSON
  Null           \* no value: failed transfer, SQL null

Version == DOMAIN Catalogue
Vendor == UNION {Catalogue[v].vendor : v \in Version}

ASSUME CatalogueAssumption ==
  /\ 1 \in Version /\ Version \subseteq Nat /\ Null \notin Version
  /\ \A v \in Version : \A w \in 1..v : w \in Version
\* The store gives an id to one package for good, and withdraws a package with
\* the column `disabled`, not by leaving it out.
ASSUME PermanentIdsAssumption ==
  \A v, w \in Version : v <= w =>
    \A i \in DOMAIN Catalogue[v].package :
      /\ i \in DOMAIN Catalogue[w].package
      /\ Catalogue[w].package[i].class = Catalogue[v].package[i].class
\* Rows have these columns, and the table as distributed has a largest id.
ASSUME RowsAssumption ==
  /\ MaxPackage \in Nat
  /\ \A v \in Version : \A i \in DOMAIN Catalogue[v].package :
       /\ i \in 1..MaxPackage
       /\ DOMAIN Catalogue[v].package[i] = {"class", "filehash", "vendor"}
  /\ \E n \in DOMAIN Catalogue[1].package : \A m \in DOMAIN Catalogue[1].package : n >= m

VARIABLES
  store,     \* the version the store serves
  vendor,    \* table vendor
  package,   \* table package: id -> row
  lastId,    \* sqlite_sequence of table package
  hash,      \* conf store_hash
  cache,     \* files <id>.zip in the download directory: id -> content
  inst,      \* table instance and directories: what was unpacked for what
  spoiled,   \* a synchronisation without usable answer was cut, and none came after
  req        \* the request being served

stvars == <<store, vendor, package, lastId, hash, cache, inst, spoiled, req>>

NoRequest == [op |-> "none", pc |-> "idle", id |-> Null, row |-> Null,
              json |-> Null, todo |-> {}, kept |-> FALSE]
Idle == req.op = "none"
Goto(label) == req' = [req EXCEPT !.pc = label]
EndRequest == req' = NoRequest
Without(f, i) == [j \in DOMAIN f \ {i} |-> f[j]]
With(f, i, x) == [j \in DOMAIN f \cup {i} |-> IF j = i THEN x ELSE f[j]]
Larger(m, n) == IF m >= n THEN m ELSE n

-----------------------------------------------------------------------------
(* The store                                                               *)

Publish ==
  /\ store + 1 \in Version
  /\ store' = store + 1
  /\ UNCHANGED <<vendor, package, lastId, hash, cache, inst, spoiled, req>>

\* What store_sync.php answers: the hash when the manager has the current one,
\* else the catalogue with its hash, both written as the version; or the transfer
\* fails, or something else comes back.
Answer == {store, Null, Garbage}

\* What download.php sends: the archive, or anything when the id is unknown, the
\* transfer fails or is incomplete.
Archive(i) == (IF i \in DOMAIN Catalogue[store].package
               THEN {Catalogue[store].package[i].filehash} ELSE {})
              \cup {Garbage}

-----------------------------------------------------------------------------
(* sync()                                                                  *)

\* What json_decode makes of the answer; the properties of null are null.
JsonVendors(json) == IF json \in Version THEN Catalogue[json].vendor ELSE {}
JsonPackages(json) == IF json \in Version THEN DOMAIN Catalogue[json].package ELSE {}
Decode(data) == IF data = Garbage THEN Null ELSE data

\* A faulty variant: without a hash there is nothing to compare.
Sync_NullIsInSync(data) ==
  /\ Idle
  /\ IF data = hash \/ hash = Null
     THEN UNCHANGED <<vendor, spoiled, req>>
     ELSE /\ req' = [NoRequest EXCEPT !.op = "sync", !.pc = "vendor", !.json = Decode(data),
                                      !.todo = JsonVendors(Decode(data))]
          /\ vendor' = {} /\ spoiled' = FALSE
  /\ UNCHANGED <<store, package, lastId, hash, cache, inst>>

\* Up to `DELETE FROM vendor`.
Sync(data) ==
  /\ Idle
  /\ IF data = hash
     THEN UNCHANGED <<vendor, spoiled, req>>   \* "You are already in sync!"
     ELSE /\ req' = [NoRequest EXCEPT !.op = "sync", !.pc = "vendor", !.json = Decode(data),
                                      !.todo = JsonVendors(Decode(data))]
          /\ vendor' = {} /\ spoiled' = FALSE
  /\ UNCHANGED <<store, package, lastId, hash, cache, inst>>

InsertVendor ==
  /\ req.pc = "vendor"
  /\ \E v \in req.todo :
       /\ vendor' = vendor \cup {v}
       /\ req' = [req EXCEPT !.todo = @ \ {v}]
  /\ UNCHANGED <<store, package, lastId, hash, cache, inst, spoiled>>

\* A faulty variant: the hash is stored before the rows.
DeletePackages_HashFirst ==
  /\ req.pc = "vendor" /\ req.todo = {}
  /\ package' = [i \in {} |-> Null]
  /\ hash' = req.json
  /\ req' = [req EXCEPT !.pc = "package", !.todo = JsonPackages(req.json)]
  /\ UNCHANGED <<store, vendor, lastId, cache, inst, spoiled>>

DeletePackages ==
  /\ req.pc = "vendor" /\ req.todo = {}
  /\ package' = [i \in {} |-> Null]
  /\ req' = [req EXCEPT !.pc = "package", !.todo = JsonPackages(req.json)]
  /\ UNCHANGED <<store, vendor, lastId, hash, cache, inst, spoiled>>

\* A faulty variant: the sequence of the table does not follow the given ids.
InsertPackage_NoSequence ==
  /\ req.pc = "package"
  /\ \E i \in req.todo :
       /\ package' = With(package, i, Catalogue[req.json].package[i])
       /\ req' = [req EXCEPT !.todo = @ \ {i}]
  /\ UNCHANGED <<store, vendor, lastId, hash, cache, inst, spoiled>>

InsertPackage ==
  /\ req.pc = "package"
  /\ \E i \in req.todo :
       /\ package' = With(package, i, Catalogue[req.json].package[i])
       /\ lastId' = Larger(lastId, i)
       /\ req' = [req EXCEPT !.todo = @ \ {i}]
  /\ UNCHANGED <<store, vendor, hash, cache, inst, spoiled>>

\* A faulty variant: the hash is asked for again at the end.
SetHash_AskedAgain ==
  /\ req.pc = "package" /\ req.todo = {}
  /\ hash' = store
  /\ EndRequest
  /\ UNCHANGED <<store, vendor, package, lastId, cache, inst, spoiled>>

SetHash ==
  /\ req.pc = "package" /\ req.todo = {}
  /\ hash' = req.json
  /\ EndRequest
  /\ UNCHANGED <<store, vendor, package, lastId, cache, inst, spoiled>>

-----------------------------------------------------------------------------
(* upload(), which takes everything but the archive from the row of another *)
(* package                                                                  *)

\* A faulty variant: a table without AUTOINCREMENT gives ids again.
Upload_NextFree(i, file) ==
  /\ Idle
  /\ i \in DOMAIN package /\ Cardinality(DOMAIN package) < MaxPackage
  /\ LET n == Cardinality(DOMAIN package) + 1
     IN  /\ package' = With(package, n, [package[i] EXCEPT !.filehash = file])
         /\ lastId' = Larger(lastId, n)
         /\ req' = [NoRequest EXCEPT !.op = "upload", !.pc = "move", !.id = n, !.row = file]
  /\ UNCHANGED <<store, vendor, hash, cache, inst, spoiled>>

Upload(i, file) ==
  /\ Idle
  /\ i \in DOMAIN package /\ lastId < MaxPackage
  /\ package' = With(package, lastId + 1, [package[i] EXCEPT !.filehash = file])
  /\ lastId' = lastId + 1
  /\ req' = [NoRequest EXCEPT !.op = "upload", !.pc = "move", !.id = lastId + 1, !.row = file]
  /\ UNCHANGED <<store, vendor, hash, cache, inst, spoiled>>

MoveUploadedFile ==
  /\ req.pc = "move"
  /\ cache' = With(cache, req.id, req.row)
  /\ EndRequest
  /\ UNCHANGED <<store, vendor, package, lastId, hash, inst, spoiled>>

-----------------------------------------------------------------------------
(* download() and unzip(), for a package that is listed                    *)

\* Util::del: a file that is in use stays, and nobody is told.
Del(i, kept) == cache' = IF kept THEN cache ELSE Without(cache, i)

Install(i) ==
  /\ Idle
  /\ Cardinality(inst) < MaxInstance
  /\ i \in DOMAIN package /\ package[i].vendor \in vendor
  /\ req' = [NoRequest EXCEPT !.op = "install", !.pc = "cached", !.id = i, !.row = package[i]]
  /\ UNCHANGED <<store, vendor, package, lastId, hash, cache, inst, spoiled>>

\* A faulty variant: what is in the cache is taken as it is.
CheckCache_Trusting ==
  /\ req.pc = "cached"
  /\ Goto("fetch")
  /\ UNCHANGED <<store, vendor, package, lastId, hash, cache, inst, spoiled>>

\* A cached file with another hash is deleted.
CheckCache ==
  /\ req.pc = "cached"
  /\ IF req.id \in DOMAIN cache /\ cache[req.id] # req.row.filehash
     THEN \E kept \in BOOLEAN :
            Del(req.id, kept) /\ req' = [req EXCEPT !.pc = "fetch", !.kept = kept]
     ELSE Goto("fetch") /\ UNCHANGED cache
  /\ UNCHANGED <<store, vendor, package, lastId, hash, inst, spoiled>>

\* Is there a file now, the download is skipped.
UseCache ==
  /\ req.pc = "fetch"
  /\ req.id \in DOMAIN cache
  /\ Goto("unzip")
  /\ UNCHANGED <<store, vendor, package, lastId, hash, cache, inst, spoiled>>

\* version.php fails or answers -1.
VersionRefused ==
  /\ req.pc = "fetch"
  /\ req.id \notin DOMAIN cache
  /\ EndRequest
  /\ UNCHANGED <<store, vendor, package, lastId, hash, cache, inst, spoiled>>

Fetch ==
  /\ req.pc = "fetch"
  /\ req.id \notin DOMAIN cache
  /\ \E file \in Archive(req.id) : cache' = With(cache, req.id, file)
  /\ Goto("verify")
  /\ UNCHANGED <<store, vendor, package, lastId, hash, inst, spoiled>>

Verify ==
  /\ req.pc = "verify"
  /\ IF cache[req.id] # req.row.filehash
     THEN EndRequest /\ \E kept \in BOOLEAN : Del(req.id, kept)   \* "Error downloading file"
     ELSE Goto("unzip") /\ UNCHANGED cache
  /\ UNCHANGED <<store, vendor, package, lastId, hash, inst, spoiled>>

\* The rest of the installation: Package::add and Installer::unzip.
Unzip ==
  /\ req.pc = "unzip"
  /\ inst' = inst \cup {[package |-> req.id, class |-> req.row.class,
                         filehash |-> req.row.filehash, file |-> cache[req.id], kept |-> req.kept]}
  /\ EndRequest
  /\ UNCHANGED <<store, vendor, package, lastId, hash, cache, spoiled>>

\* The web server of the manager goes down in the middle of a request.
Kill ==
  /\ ~Idle
  /\ EndRequest
  /\ spoiled' = (spoiled \/ (req.op = "sync" /\ req.json = Null))
  /\ UNCHANGED <<store, vendor, package, lastId, hash, cache, inst>>

-----------------------------------------------------------------------------

\* manager.db as distributed holds the first catalogue.
Init ==
  /\ store = 1 /\ hash = 1
  /\ vendor = Catalogue[1].vendor /\ package = Catalogue[1].package
  /\ lastId = CHOOSE n \in DOMAIN package : \A m \in DOMAIN package : n >= m
  /\ cache = [i \in {} |-> Null] /\ inst = {}
  /\ spoiled = FALSE /\ req = NoRequest

SyncStep == InsertVendor \/ DeletePackages \/ InsertPackage \/ SetHash
InstallStep == CheckCache \/ UseCache \/ VersionRefused \/ Fetch \/ Verify \/ Unzip
Step == SyncStep \/ InstallStep \/ MoveUploadedFile

Next ==
  \/ Publish
  \/ \E data \in Answer : Sync(data)
  \/ \E i \in DOMAIN package, file \in Uploads : Upload(i, file)
  \/ \E i \in DOMAIN package : Install(i)
  \/ Step
  \/ Kill

Spec == Init /\ [][Next]_stvars

\* The user synchronises again and again, every now and then the store answers,
\* and a request runs to its end unless it is killed.
SyncAnswered == Sync(store)
FairSpec == Spec /\ SF_stvars(SyncAnswered) /\ WF_stvars(Step)

-----------------------------------------------------------------------------
(* Properties                                                              *)

PackageRow == UNION {{Catalogue[v].package[i] : i \in DOMAIN Catalogue[v].package} : v \in Version}
File == {r.filehash : r \in PackageRow} \cup Uploads \cup {Garbage}

\* Tables, cache and the request being served are well-formed.
StoreTypeOK ==
  /\ store \in Version /\ hash \in Version \cup {Null}
  /\ vendor \subseteq Vendor /\ lastId \in 1..MaxPackage
  /\ DOMAIN package \subseteq 1..lastId
  /\ \A i \in DOMAIN package : package[i].filehash \in File
  /\ DOMAIN cache \subseteq 1..lastId /\ \A i \in DOMAIN cache : cache[i] \in File
  /\ req.pc = "unzip" => req.id \in DOMAIN cache

\* The tables hold everything of a catalogue.
Complete(v) ==
  /\ Catalogue[v].vendor \subseteq vendor
  /\ \A i \in DOMAIN Catalogue[v].package :
       i \in DOMAIN package /\ package[i] = Catalogue[v].package[i]

\* The tables as a copy of the catalogue of the store, and store_hash as its claim.
Whole == {v \in Version : Complete(v)}
InDoubt == spoiled \/ (req.op = "sync" /\ req.json = Null)
Copy == INSTANCE Replica WITH
  Nothing <- Null, published <- store, claim <- hash, whole <- Whole, doubt <- InDoubt

\* However synchronisations, uploads, cuts and publications interleave, the steps of
\* sync() implement Replica: the hash is stored over whole tables only, it never
\* goes back to an older catalogue, and rows are taken away only while the hash
\* is not the store's or the answer could not be read.
ImplementsReplica == Copy!CSpec

\* A synchronisation that was cut after any number of rows is never mistaken for
\* a complete one: while the stored hash is the store's, no row is missing, unless
\* it was one whose answer could not be read.  The rows go before the hash, and
\* what is in sync is not rewritten.
HashMeansComplete == Idle /\ hash = store /\ ~spoiled => Complete(store)

\* Whatever was lost on the way, another synchronisation brings the tables back.
\* The exceptions: synchronisations are killed for ever, or one was killed after an
\* answer that could not be read, while the stored hash was the store's.
SyncHeals ==
  \/ []<>(Complete(store))
  \/ []<><<Kill /\ req.op = "sync">>_stvars
  \/ <>[](spoiled /\ hash = store)

\* A transfer that was cut, a file left over from an earlier one, an archive of
\* another package or one the store has replaced since is never unpacked, unless
\* it was found in the cache and could not be deleted.
OnlyGenuineUnpacked == \A x \in inst : x.file = x.filehash \/ x.kept

\* An instance of a package of the store belongs to that package for good: neither
\* a synchronisation nor an upload puts another class under its package id.
InstancesKeepTheirClass ==
  \A x \in inst : x.package \in DOMAIN package /\ x.filehash \notin Uploads
    => package[x.package].class = x.class
=============================================================================
