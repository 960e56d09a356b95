---------------------------- MODULE StoreProofs ----------------------------
(***************************************************************************)
(* The copy of the catalogue, the cache of archives and what is unpacked   *)
(* from it, for all catalogues with permanent ids, all uploads and any     *)
(* number of packages and instances.                                       *)
(*                                                                         *)
(* HashMeansComplete is no invariant by itself: SyncInv says which rows a  *)
(* running synchronisation has put in and that it only runs with a usable  *)
(* answer while the stored hash is out of date.  OnlyGenuineUnpacked needs *)
(* what the two hash checks have established by then (InstallInv), and     *)
(* InstancesKeepTheirClass that ids are not given again (InstInv).         *)
(***************************************************************************)
EXTENDS Store, TLAPS

\* The request being served.
RequestOK ==
  /\ req \in [op : {"none", "sync", "upload", "install"},
              pc : {"idle", "vendor", "package", "move", "cached", "fetch", "verify", "unzip"},
              id : {req.id}, row : {req.row}, json : Version \cup {Null},
              todo : {req.todo}, kept : BOOLEAN]
  /\ req.op = "none" <=> req.pc = "idle"
  /\ req.op = "sync" <=> req.pc \in {"vendor", "package"}
  /\ req.op = "upload" <=> req.pc = "move"
  /\ req.op = "upload" => req.id \in 1..lastId /\ req.row \in Uploads
  /\ spoiled \in BOOLEAN

\* The store has listed package i with class c.
FromStore(i, c) ==
  \E v \in Version : i \in DOMAIN Catalogue[v].package /\ Catalogue[v].package[i].class = c

\* A row that was not uploaded is one of the store's.
RowsInv ==
  \A i \in DOMAIN package :
    /\ DOMAIN package[i] = {"class", "filehash", "vendor"}
    /\ package[i].filehash \notin Uploads => FromStore(i, package[i].class)

\* What a synchronisation has done so far.
SyncInv ==
  /\ hash # Null => hash <= store
  /\ req.op = "sync" /\ req.json # Null =>
       req.json <= store /\ hash # store /\ (hash # Null => hash < req.json)
  /\ req.pc = "vendor" =>
       /\ req.todo \subseteq JsonVendors(req.json)
       /\ JsonVendors(req.json) \subseteq vendor \cup req.todo
  /\ req.pc = "package" =>
       /\ req.todo \subseteq JsonPackages(req.json)
       /\ JsonVendors(req.json) \subseteq vendor
       /\ \A i \in JsonPackages(req.json) \ req.todo :
            i \in DOMAIN package /\ package[i] = Catalogue[req.json].package[i]

\* The hash of the store stands for complete tables, but for a running request.
HashInv == req.op # "sync" /\ hash = store /\ ~spoiled => Complete(store)

\* What the hash checks of an installation have established so far.
InstallInv ==
  /\ req.op = "install" => req.id \in DOMAIN package /\ req.row = package[req.id]
  /\ req.pc \in {"verify", "unzip"} => req.id \in DOMAIN cache
  /\ req.pc \in {"fetch", "unzip"} /\ req.id \in DOMAIN cache =>
       cache[req.id] = req.row.filehash \/ req.kept

\* Instances have ids that were given out, those of the store's packages a class
\* the store gave to that id.
InstInv ==
  \A x \in inst :
    /\ x.package \in 1..lastId
    /\ x.filehash \notin Uploads => FromStore(x.package, x.class)

\* The inductive invariant.
StoreInv ==
  /\ StoreTypeOK /\ RequestOK /\ RowsInv /\ SyncInv /\ HashInv /\ InstallInv /\ InstInv
  /\ OnlyGenuineUnpacked /\ InstancesKeepTheirClass

\* It holds of manager.db as distributed.
LEMMA StoreInit == Init => StoreInv
<1> SUFFICES ASSUME Init PROVE StoreInv
  OBVIOUS
<1> USE CatalogueAssumption, RowsAssumption DEF Init
<1>1. /\ package = Catalogue[1].package /\ 1 \in Version
      /\ lastId \in DOMAIN package /\ \A m \in DOMAIN package : lastId >= m
  OBVIOUS
<1>2. StoreTypeOK
  BY <1>1 DEF StoreTypeOK, NoRequest, Vendor, File, PackageRow
<1>3. RequestOK
  BY DEF RequestOK, NoRequest
<1>4. RowsInv
  BY <1>1 DEF RowsInv, FromStore
<1>5. SyncInv /\ HashInv
  BY DEF SyncInv, HashInv, NoRequest, Complete
<1>6. InstallInv /\ InstInv /\ OnlyGenuineUnpacked /\ InstancesKeepTheirClass
  BY DEF InstallInv, InstInv, NoRequest, OnlyGenuineUnpacked, InstancesKeepTheirClass
<1> QED
  BY <1>2, <1>3, <1>4, <1>5, <1>6 DEF StoreInv

-----------------------------------------------------------------------------
(* What the requests do in their first step                                *)

SyncBegun(json) ==
  /\ json # Null => json # hash
  /\ req' \in [op : {"sync"}, pc : {"vendor"}, id : {Null}, row : {Null}, json : {json},
               todo : {JsonVendors(json)}, kept : {FALSE}]
  /\ RequestOK'
  /\ vendor' = {} /\ spoiled' = FALSE
  /\ UNCHANGED <<store, package, lastId, hash, cache, inst>>

Uploaded(file) ==
  /\ req' \in [op : {"upload"}, pc : {"move"}, id : {lastId + 1}, row : {file},
               json : {Null}, todo : {{}}, kept : {FALSE}]
  /\ RequestOK'
  /\ lastId' = lastId + 1 /\ lastId' \in 1..MaxPackage
  /\ DOMAIN package' = DOMAIN package \cup {lastId + 1}
  /\ \A j \in DOMAIN package : package'[j] = package[j]
  /\ DOMAIN package'[lastId + 1] = {"class", "filehash", "vendor"}
  /\ package'[lastId + 1].filehash = file
  /\ UNCHANGED <<store, vendor, hash, cache, inst, spoiled>>

Checked(kept) ==
  /\ req' \in [op : {"install"}, pc : {"fetch"}, id : {req.id}, row : {req.row},
               json : {req.json}, todo : {req.todo}, kept : {kept}]
  /\ req.id \in DOMAIN cache' => cache[req.id] = req.row.filehash \/ kept
  /\ DOMAIN cache' \subseteq DOMAIN cache
  /\ \A j \in DOMAIN cache' : cache'[j] = cache[j]
  /\ UNCHANGED <<store, vendor, package, lastId, hash, inst, spoiled>>

\* A synchronisation that is not superfluous starts with the answer of the store
\* or with nothing, and in the first case the stored hash is another one.
LEMMA SyncEffect ==
  ASSUME StoreInv, NEW data \in Answer, Sync(data), data # hash
  PROVE  \E json \in {store, Null} : SyncBegun(json)
<1> DEFINE json == Decode(data)
<1>1. json \in {store, Null} /\ (json # Null => json # hash) /\ json \in Version \cup {Null}
  BY DEF Answer, Decode, StoreInv, StoreTypeOK
<1>2. /\ req' \in [op : {"sync"}, pc : {"vendor"}, id : {Null}, row : {Null}, json : {json},
                   todo : {JsonVendors(json)}, kept : {FALSE}]
      /\ vendor' = {} /\ spoiled' = FALSE
      /\ UNCHANGED <<store, package, lastId, hash, cache, inst>>
  BY DEF Sync, NoRequest
<1> HIDE DEF json
<1>3. RequestOK'
  BY <1>1, <1>2 DEF RequestOK
<1> QED
  BY <1>1, <1>2, <1>3 DEF SyncBegun

\* An upload adds a row under an id that was never given out.
LEMMA UploadEffect ==
  ASSUME StoreInv, NEW i \in DOMAIN package, NEW file \in Uploads, Upload(i, file)
  PROVE  Uploaded(file)
<1>1. req' \in [op : {"upload"}, pc : {"move"}, id : {lastId + 1}, row : {file},
                json : {Null}, todo : {{}}, kept : {FALSE}]
  BY DEF Upload, NoRequest
<1>2. lastId' = lastId + 1 /\ lastId' \in 1..MaxPackage
  BY RowsAssumption DEF Upload, StoreInv, StoreTypeOK
<1>3. RequestOK'
  <2>1. spoiled' \in BOOLEAN /\ lastId + 1 \in 1..lastId'
    BY <1>2 DEF RequestOK, Upload, StoreInv
  <2> QED
    BY <1>1, <2>1 DEF RequestOK
<1>4. /\ DOMAIN package' = DOMAIN package \cup {lastId + 1}
      /\ \A j \in DOMAIN package : package'[j] = package[j]
      /\ DOMAIN package'[lastId + 1] = {"class", "filehash", "vendor"}
      /\ package'[lastId + 1].filehash = file
  BY DEF Upload, With, StoreInv, StoreTypeOK, RowsInv
<1> QED
  BY <1>1, <1>2, <1>3, <1>4 DEF Upload, Uploaded

\* After the first check, what is cached is the archive of the row or could not be
\* deleted.
LEMMA CheckCacheEffect ==
  ASSUME StoreInv, CheckCache
  PROVE  /\ req.op = "install" /\ req.pc = "cached"
         /\ \E kept \in BOOLEAN : Checked(kept)
<1> USE DEF StoreInv, RequestOK, CheckCache, Checked
<1>1. req.op = "install" /\ req.pc = "cached"
  OBVIOUS
<1>2. CASE req.id \in DOMAIN cache /\ cache[req.id] # req.row.filehash
  <2>1. PICK kept \in BOOLEAN :
          Del(req.id, kept) /\ req' = [req EXCEPT !.pc = "fetch", !.kept = kept]
    BY <1>2
  <2>2. req' \in [op : {"install"}, pc : {"fetch"}, id : {req.id}, row : {req.row},
                  json : {req.json}, todo : {req.todo}, kept : {kept}]
    BY <1>1, <2>1
  <2> QED
    BY <1>1, <2>1, <2>2 DEF Del, Without
<1>3. CASE ~(req.id \in DOMAIN cache /\ cache[req.id] # req.row.filehash)
  <2>1. req' \in [op : {"install"}, pc : {"fetch"}, id : {req.id}, row : {req.row},
                  json : {req.json}, todo : {req.todo}, kept : {req.kept}]
    BY <1>1, <1>3 DEF Goto
  <2> QED
    BY <1>1, <1>3, <2>1
<1> QED
  BY <1>2, <1>3

\* A stored hash other than the store's is an older one.
LEMMA SyncIsAhead ==
  ASSUME StoreInv, NEW json \in {store, Null}, SyncBegun(json), json # Null
  PROVE  hash # store /\ (hash # Null => hash < store)
<1>1. json = store /\ hash # store
  BY DEF SyncBegun
<1>2. store \in Nat /\ (hash # Null => hash \in Nat /\ hash <= store)
  BY CatalogueAssumption DEF StoreInv, StoreTypeOK, SyncInv
<1> QED
  BY <1>1, <1>2

-----------------------------------------------------------------------------

\* Every step keeps the invariant.
LEMMA StoreStep ==
  ASSUME StoreInv, [Next]_stvars
  PROVE  StoreInv'
<1> USE CatalogueAssumption, RowsAssumption, PermanentIdsAssumption
    DEF StoreInv, StoreTypeOK, RequestOK, RowsInv, SyncInv, HashInv, InstallInv, InstInv,
      OnlyGenuineUnpacked, InstancesKeepTheirClass, NoRequest, Complete, FromStore, Version, Vendor,
      File, PackageRow, JsonVendors, JsonPackages, With, Without, Goto, EndRequest, Idle,
      SyncBegun, Uploaded, Checked
<1>1. CASE Publish
  BY <1>1 DEF Publish
<1>2. ASSUME NEW data \in Answer, Sync(data)
      PROVE  StoreInv'
  <2>1. CASE data = hash
    BY <1>2, <2>1 DEF Sync
  <2>2. CASE data # hash
    <3>1. PICK json \in {store, Null} : SyncBegun(json)
      BY <1>2, <2>2, SyncEffect
    <3>2. StoreTypeOK'
      BY <3>1
    <3>3. RowsInv' /\ InstallInv' /\ InstInv' /\ OnlyGenuineUnpacked' /\ InstancesKeepTheirClass'
      BY <3>1
    <3>4. SyncInv' /\ HashInv'
      <4>1. json # Null => hash # store /\ (hash # Null => hash < store)
        <5> HIDE DEF StoreInv, SyncBegun
        <5> QED
          BY <3>1, SyncIsAhead
      <4>2. SyncInv'
        BY <3>1, <4>1
      <4>3. HashInv'
        BY <3>1
      <4> QED
        BY <4>2, <4>3
    <3> QED
      BY <3>1, <3>2, <3>3, <3>4
  <2> QED
    BY <2>1, <2>2
<1>3. CASE InsertVendor
  BY <1>3 DEF InsertVendor
<1>4. CASE DeletePackages
  BY <1>4 DEF DeletePackages
<1>5. CASE InsertPackage
  <2>1. PICK i \in req.todo :
          /\ package' = With(package, i, Catalogue[req.json].package[i])
          /\ lastId' = Larger(lastId, i)
          /\ req' = [req EXCEPT !.todo = @ \ {i}]
    BY <1>5 DEF InsertPackage
  <2>2. /\ req.op = "sync" /\ req.json \in Version /\ i \in DOMAIN Catalogue[req.json].package
        /\ i \in 1..lastId' /\ lastId' \in 1..MaxPackage /\ lastId <= lastId'
        /\ UNCHANGED <<store, vendor, hash, cache, inst, spoiled>>
    BY <1>5, <2>1 DEF InsertPackage, Larger
  <2>3. /\ DOMAIN package' = DOMAIN package \cup {i}
        /\ package'[i] = Catalogue[req.json].package[i]
        /\ \A j \in DOMAIN package : j # i => package'[j] = package[j]
    BY <2>1
  <2>4. StoreTypeOK'
    <3>1. Catalogue[req.json].package[i].filehash \in File
      BY <2>2
    <3>2. req'.pc = "package"
      BY <1>5, <2>1 DEF InsertPackage
    <3> HIDE DEF File, RowsInv, SyncInv, HashInv, InstallInv, InstInv, InstancesKeepTheirClass
    <3> QED
      BY <2>2, <2>3, <3>1, <3>2
  <2>5. RequestOK' /\ HashInv' /\ InstallInv'
    BY <1>5, <2>1, <2>2 DEF InsertPackage
  <2>6. RowsInv' /\ InstInv' /\ OnlyGenuineUnpacked'
    BY <2>2, <2>3
  <2>7. SyncInv'
    BY <1>5, <2>1, <2>2, <2>3 DEF InsertPackage
  <2>8. InstancesKeepTheirClass'
    <3> SUFFICES ASSUME NEW x \in inst, x.package = i, x.filehash \notin Uploads
                 PROVE  package'[i].class = x.class
      BY <2>2, <2>3
    <3>1. PICK v \in Version : /\ i \in DOMAIN Catalogue[v].package
                               /\ Catalogue[v].package[i].class = x.class
      OBVIOUS
    <3>2. v <= req.json \/ req.json <= v
      BY <2>2
    <3> QED
      BY <2>2, <2>3, <3>1, <3>2
  <2> QED
    BY <2>4, <2>5, <2>6, <2>7, <2>8
<1>6. CASE SetHash
  BY <1>6 DEF SetHash
<1>7. ASSUME NEW i \in DOMAIN package, NEW file \in Uploads, Upload(i, file)
      PROVE  StoreInv'
  <2>1. Uploaded(file)
    BY <1>7, UploadEffect
  <2>2. StoreTypeOK' /\ RequestOK'
    BY <2>1
  <2>3. RowsInv' /\ SyncInv' /\ InstallInv'
    BY <2>1
  <2>4. HashInv'
    BY <1>7, <2>1 DEF Upload
  <2>5. InstInv' /\ OnlyGenuineUnpacked' /\ InstancesKeepTheirClass'
    BY <2>1
  <2> QED
    BY <2>2, <2>3, <2>4, <2>5
<1>8. CASE MoveUploadedFile
  BY <1>8 DEF MoveUploadedFile
<1>9. ASSUME NEW i \in DOMAIN package, Install(i)
      PROVE  StoreInv'
  <2>1. StoreTypeOK'
    BY <1>9 DEF Install
  <2>2. RequestOK'
    BY <1>9 DEF Install
  <2>3. RowsInv'
    BY <1>9 DEF Install
  <2>4. SyncInv'
    BY <1>9 DEF Install
  <2>5. HashInv'
    BY <1>9 DEF Install
  <2>6. InstallInv'
    BY <1>9 DEF Install
  <2>7. InstInv' /\ OnlyGenuineUnpacked' /\ InstancesKeepTheirClass'
    BY <1>9 DEF Install
  <2> QED
    BY <2>1, <2>2, <2>3, <2>4, <2>5, <2>6, <2>7
<1>10. CASE CheckCache
  <2>1. StoreTypeOK' /\ InstallInv'
    BY <1>10, CheckCacheEffect
  <2>2. RequestOK'
    BY <1>10, CheckCacheEffect
  <2>3. RowsInv' /\ InstInv' /\ OnlyGenuineUnpacked' /\ InstancesKeepTheirClass'
    BY <1>10, CheckCacheEffect
  <2>4. SyncInv' /\ HashInv'
    BY <1>10, CheckCacheEffect
  <2> QED
    BY <2>1, <2>2, <2>3, <2>4
<1>11. CASE UseCache
  BY <1>11 DEF UseCache
<1>12. CASE VersionRefused
  BY <1>12 DEF VersionRefused
<1>13. CASE Fetch
  BY <1>13 DEF Fetch, Archive
<1>14. CASE Verify
  <2>1. CASE cache[req.id] # req.row.filehash
    <3>1. /\ req' = NoRequest
          /\ UNCHANGED <<store, vendor, package, lastId, hash, inst, spoiled>>
          /\ DOMAIN cache' \subseteq DOMAIN cache
          /\ \A j \in DOMAIN cache' : cache'[j] = cache[j]
      BY <1>14, <2>1 DEF Verify, Del
    <3> QED
      BY <1>14, <3>1 DEF Verify
  <2>2. CASE cache[req.id] = req.row.filehash
    BY <1>14, <2>2 DEF Verify
  <2> QED
    BY <2>1, <2>2
<1>15. CASE Unzip
  BY <1>15 DEF Unzip
<1>16. CASE Kill
  <2>1. StoreTypeOK'
    BY <1>16 DEF Kill
  <2>2. RequestOK'
    BY <1>16 DEF Kill
  <2>3. RowsInv'
    BY <1>16 DEF Kill
  <2>4. SyncInv'
    BY <1>16 DEF Kill
  <2>5. HashInv'
    BY <1>16 DEF Kill
  <2>6. InstallInv'
    BY <1>16 DEF Kill
  <2>7. InstInv' /\ OnlyGenuineUnpacked' /\ InstancesKeepTheirClass'
    BY <1>16 DEF Kill
  <2> QED
    BY <2>1, <2>2, <2>3, <2>4, <2>5, <2>6, <2>7
<1>17. CASE UNCHANGED stvars
  BY <1>17 DEF stvars
<1> HIDE DEF StoreInv
<1> QED
  BY <1>1, <1>2, <1>3, <1>4, <1>5, <1>6, <1>7, <1>8, <1>9, <1>10, <1>11, <1>12, <1>13, <1>14,
     <1>15, <1>16, <1>17 DEF Next, Step, SyncStep, InstallStep

\* StoreInv is an invariant.
LEMMA StoreInvariant == Spec => []StoreInv
  BY StoreInit, StoreStep, PTL DEF Spec

\* Tables, cache and request keep their types; an archive that is unpacked is there.
THEOREM StoreTypeCorrect == Spec => []StoreTypeOK
<1>1. StoreInv => StoreTypeOK
  BY DEF StoreInv
<1> QED
  BY <1>1, StoreInvariant, PTL

\* What is unpacked has the hash of the package's row, unless a cached file could not
\* be deleted.
THEOREM OnlyGenuine == Spec => []OnlyGenuineUnpacked
<1>1. StoreInv => OnlyGenuineUnpacked
  BY DEF StoreInv
<1> QED
  BY <1>1, StoreInvariant, PTL

\* Neither a synchronisation nor an upload puts another class under the package id of
\* an installed instance of the store.
THEOREM ClassesKept == Spec => []InstancesKeepTheirClass
<1>1. StoreInv => InstancesKeepTheirClass
  BY DEF StoreInv
<1> QED
  BY <1>1, StoreInvariant, PTL

\* However synchronisations are cut, the stored hash is the store's only when no row
\* is missing, but for a cut one without usable answer.
THEOREM HashNeverLies == Spec => []HashMeansComplete
<1>1. StoreInv => HashMeansComplete
  BY DEF StoreInv, HashInv, HashMeansComplete, Idle
<1> QED
  BY <1>1, StoreInvariant, PTL

-----------------------------------------------------------------------------
(* The tables are a replica of the catalogue                               *)

\* What the tables hold depends on the tables only.
LEMMA SameWhole ==
  ASSUME UNCHANGED <<vendor, package>>
  PROVE  Whole' = Whole
  BY DEF Whole, Complete

\* While a synchronisation runs the stored hash is not the store's, or the answer
\* could not be read.
LEMMA SyncIsRewrite ==
  ASSUME StoreInv, req.op = "sync"
  PROVE  InDoubt \/ hash # store
  BY DEF StoreInv, SyncInv, InDoubt

\* At its end the tables hold all of the catalogue of the answer, which is newer than
\* the stored hash.
LEMMA SyncIsWhole ==
  ASSUME StoreInv, req.pc = "package", req.todo = {}, req.json # Null
  PROVE  /\ req.json \in Version /\ req.json \in Whole /\ req.json <= store
         /\ hash # Null => hash < req.json
  BY DEF StoreInv, RequestOK, SyncInv, JsonVendors, JsonPackages, Whole, Complete

\* Every step of Store is a step of Replica, or leaves the copy and its claim alone.
LEMMA ReplicaStep ==
  ASSUME StoreInv, StoreInv', [Next]_stvars
  PROVE  [Copy!CNext]_(Copy!replica)
<1> DEFINE Rewritten == /\ InDoubt' \/ hash # store
                        /\ UNCHANGED <<store, hash>>
<1>0. Whole' \subseteq Version /\ InDoubt \in BOOLEAN /\ InDoubt' \in BOOLEAN
  BY DEF Whole, InDoubt, Version
<1>1. CASE Publish
  <2>1. Copy!PublishNext
    BY <1>1, SameWhole, CatalogueAssumption
       DEF Publish, Copy!PublishNext, InDoubt, StoreInv, StoreTypeOK
  <2> QED
    BY <2>1 DEF Copy!CNext
<1>2. CASE Rewritten
  BY <1>0, <1>2 DEF Copy!CNext, Copy!Rewrite
<1>3. CASE UNCHANGED <<store, hash, Whole, InDoubt>>
  BY <1>3 DEF Copy!replica
<1>4. ASSUME NEW data \in Answer, Sync(data)
      PROVE  Rewritten \/ UNCHANGED <<store, hash, Whole, InDoubt>>
  <2>1. CASE data = hash
    BY <1>4, <2>1, SameWhole DEF Sync, InDoubt
  <2>2. CASE data # hash
    <3>1. PICK json \in {store, Null} : SyncBegun(json)
      BY <1>4, <2>2, SyncEffect
    <3>2. CASE json = Null
      BY <3>1, <3>2 DEF SyncBegun, InDoubt
    <3>3. CASE json # Null
      BY <3>1, <3>3 DEF SyncBegun
    <3> QED
      BY <3>2, <3>3
  <2> QED
    BY <2>1, <2>2
<1>5. CASE InsertVendor \/ DeletePackages \/ InsertPackage
  <2>1. /\ req.op = "sync" /\ req'.op = "sync" /\ req'.json = req.json
        /\ UNCHANGED <<store, hash, spoiled>>
    BY <1>5 DEF InsertVendor, DeletePackages, InsertPackage, StoreInv, RequestOK
  <2>2. InDoubt' = InDoubt
    BY <2>1 DEF InDoubt
  <2> QED
    BY <1>2, <2>1, <2>2, SyncIsRewrite
<1>6. CASE SetHash
  <2>1. /\ req.pc = "package" /\ req.todo = {} /\ hash' = req.json /\ req.op = "sync"
        /\ req'.op = "none" /\ UNCHANGED <<store, vendor, package, spoiled>>
    BY <1>6 DEF SetHash, EndRequest, NoRequest, StoreInv, RequestOK
  <2>2. CASE req.json = Null
    BY <1>0, <2>1, <2>2, SameWhole DEF Copy!CNext, Copy!Forget
  <2>3. CASE req.json # Null
    <3>1. InDoubt' = InDoubt
      BY <2>1, <2>3 DEF InDoubt
    <3>2. req.json \in Version /\ Copy!Confirm(req.json)
      BY <2>1, <2>3, <3>1, SyncIsWhole, SameWhole DEF Copy!Confirm
    <3> QED
      BY <3>2 DEF Copy!CNext
  <2> QED
    BY <2>2, <2>3
<1>7. ASSUME NEW i \in DOMAIN package, NEW file \in Uploads, Upload(i, file)
      PROVE  Copy!Gain
  <2>1. Uploaded(file)
    BY <1>7, UploadEffect
  <2>2. Whole \subseteq Whole'
    BY <2>1 DEF Uploaded, Whole, Complete
  <2>3. InDoubt' = InDoubt
    BY <1>7, <2>1 DEF Uploaded, InDoubt, Upload, Idle
  <2> QED
    BY <1>0, <2>1, <2>2, <2>3 DEF Uploaded, Copy!Gain
<1>8. ASSUME \/ MoveUploadedFile \/ InstallStep \/ UNCHANGED stvars
             \/ \E i \in DOMAIN package : Install(i)
      PROVE  UNCHANGED <<store, hash, Whole, InDoubt>>
  <2>1. UNCHANGED <<store, hash, vendor, package, spoiled>>
    BY <1>8 DEF MoveUploadedFile, InstallStep, CheckCache, UseCache, VersionRefused, Fetch, Verify,
       Unzip, Install, stvars
  <2>2. req' = req \/ (req.op # "sync" /\ req'.op # "sync")
    <3>1. CASE \E i \in DOMAIN package : Install(i)
      BY <3>1 DEF Install, NoRequest, Idle
    <3>2. CASE MoveUploadedFile \/ InstallStep
      <4>1. /\ req.op # "sync"
            /\ req.pc \in {"move", "cached", "fetch", "verify", "unzip"}
        BY <3>2 DEF MoveUploadedFile, InstallStep, CheckCache, UseCache, VersionRefused, Fetch,
           Verify, Unzip, StoreInv, RequestOK
      <4>2. req'.pc \in {"idle", "fetch", "verify", "unzip"}
        BY <3>2, CheckCacheEffect DEF MoveUploadedFile, InstallStep, Checked, UseCache,
           VersionRefused, Fetch, Verify, Unzip, StoreInv, RequestOK, Goto, EndRequest, NoRequest
      <4> QED
        BY <4>1, <4>2 DEF StoreInv, RequestOK
    <3>3. CASE UNCHANGED stvars
      BY <3>3 DEF stvars
    <3> QED
      BY <1>8, <3>1, <3>2, <3>3
  <2>3. InDoubt' = InDoubt
    BY <2>1, <2>2 DEF InDoubt
  <2> QED
    BY <2>1, <2>3, SameWhole
<1>9. CASE Kill
  <2>1. InDoubt' = InDoubt
    BY <1>9 DEF Kill, EndRequest, NoRequest, InDoubt, StoreInv, RequestOK
  <2> QED
    BY <1>9, <1>3, <2>1, SameWhole DEF Kill
<1> HIDE DEF Rewritten
<1> QED
  BY <1>1, <1>2, <1>3, <1>4, <1>5, <1>6, <1>7, <1>8, <1>9
     DEF Next, Step, SyncStep, Copy!CNext

\* sync(), upload() and whatever cuts them implement Replica.
THEOREM ReplicaImplemented == Spec => ImplementsReplica
<1>1. Init => Copy!CInit
  <2>1. Init => 1 \in Whole
    BY CatalogueAssumption DEF Init, Whole, Complete
  <2> QED
    BY <2>1, CatalogueAssumption DEF Init, NoRequest, InDoubt, Copy!CInit
<1> QED
  BY <1>1, ReplicaStep, StoreInvariant, PTL DEF Spec, ImplementsReplica, Copy!CSpec

\* What Replica promises follows from its few steps alone: a claim to the version that
\* is served is true, unless it is in doubt.
THEOREM ReplicaConsistent == Copy!CSpec => []Copy!ClaimHolds
<1> USE CatalogueAssumption DEF Copy!ClaimHolds
<1>1. Copy!CInit => Copy!ClaimHolds
  BY DEF Copy!CInit
<1>2. ASSUME Copy!ClaimHolds, [Copy!CNext]_(Copy!replica)
      PROVE  Copy!ClaimHolds'
  <2>1. CASE Copy!PublishNext
    BY <1>2, <2>1 DEF Copy!PublishNext
  <2>2. CASE Copy!Gain
    BY <1>2, <2>2 DEF Copy!Gain
  <2>3. CASE Copy!Rewrite
    BY <1>2, <2>3 DEF Copy!Rewrite
  <2>4. ASSUME NEW v \in Version, Copy!Confirm(v)
        PROVE  Copy!ClaimHolds'
    BY <1>2, <2>4 DEF Copy!Confirm
  <2>5. CASE Copy!Forget
    BY <1>2, <2>5 DEF Copy!Forget
  <2>6. CASE UNCHANGED Copy!replica
    BY <1>2, <2>6 DEF Copy!replica
  <2> QED
    BY <1>2, <2>1, <2>2, <2>3, <2>4, <2>5, <2>6 DEF Copy!CNext
<1> QED
  BY <1>1, <1>2, PTL DEF Copy!CSpec

\* A synchronisation never puts the stored hash back to an older catalogue, however
\* long it takes and whatever is published meanwhile (UpdateController::sync).
THEOREM NeverRolledBack == Spec => Copy!NoRollback
<1>1. Copy!ClaimHolds /\ [Copy!CNext]_(Copy!replica) =>
        [hash # Null /\ hash' # Null => hash <= hash']_(Copy!replica)
  BY CatalogueAssumption
     DEF Copy!ClaimHolds, Copy!CNext, Copy!PublishNext, Copy!Gain, Copy!Rewrite, Copy!Confirm,
         Copy!Forget, Copy!replica
<1> QED
  BY <1>1, ReplicaImplemented, ReplicaConsistent, PTL DEF ImplementsReplica, Copy!CSpec, Copy!NoRollback
=============================================================================
