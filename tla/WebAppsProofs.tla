---------------------------- MODULE WebAppsProofs ----------------------------
(***************************************************************************)
(* Installing web applications, for all applications, directories, names   *)
(* of databases and numbers of installations.                              *)
(*                                                                         *)
(* The data of session and tables is well-formed (AppsInv).  What          *)
(* verify() saw when it accepted a form stays all there is in the          *)
(* directory, and of its database, but for what was installed since        *)
(* (TestedInv): the history variables seen and since say which form that   *)
(* was.  Both with any number of tabs, whose forms and installations come  *)
(* in between.                                                             *)
(***************************************************************************)
EXTENDS WebApps, TLAPS

\* Session and request are well-formed, and a running installation is counted.
AppsInv ==
  /\ WebAppsTypeOK
  /\ tab \in [Tab -> [at : {"home", "redirected", "page"}, app : App \cup {Null}]]
  /\ req \in [pc : {"idle", "download", "mkdir", "unzip", "database", "done"},
              app : App \cup {Null}, root : DocumentRoot \cup {Null}, path : {req.path}]
  /\ ~Idle => runs > 0

\* What is in the directory of the form in the session was installed since the
\* form was tested, or begins with a dot.
DirectoryTested == \A e \in At(RootDir(seen) \o pdata.path) : e.dot \/ e.by > since

\* So for the database: one that was new is still missing or was created since, and
\* one that was there still is.
DatabaseTested ==
  /\ pdata.dbType = "new" /\ pdata.dbName \in DOMAIN db => db[pdata.dbName] > since
  /\ pdata.dbType = "existing" => pdata.dbName \in DOMAIN db

\* From the posting of a form to the use of what it tested: whoever holds a URL to
\* install got it from a form, and an installation is counted after the test.
TestedInv ==
  /\ since # Null => DirectoryTested /\ DatabaseTested /\ (~Idle => since < runs)
  /\ ~Idle \/ wizard # Null \/ (\E t \in Tab : tab[t].app # Null) => since # Null
  /\ req.pc = "unzip" => req.path = Stripped(RootDir(req.root)) \o pdata.path

-----------------------------------------------------------------------------
(* Well-formed data                                                        *)

\* The data is well-formed at the beginning.
LEMMA AppsInit == Init => AppsInv
<1> SUFFICES ASSUME Init
             PROVE  AppsInv
  OBVIOUS
<1>1. \A e \in files : e.by \in 0..runs /\ e.dot \in BOOLEAN
  BY AppsAssumption DEF Init, Entry
<1>2. WebAppsTypeOK
  BY <1>1, AppsAssumption DEF Init, WebAppsTypeOK
<1> QED
  BY <1>2 DEF Init, AppsInv, NoRun, Idle

\* A form that names a database names one that a form can name.
LEMMA FormFields ==
  ASSUME NEW a \in App, NEW f \in Form(a)
  PROVE  f \in Forms /\ (f.dbType # "none" => f.dbName \in DbName)
  BY DEF Form, Forms

\* So does the form in the session.
LEMMA PdataFields ==
  ASSUME WebAppsTypeOK, pdata.dbType = "new"
  PROVE  pdata.dbName \in DbName
<1>1. CASE pdata \in Forms
  <2>1. PICK a \in App : pdata \in Form(a)
    BY <1>1 DEF Forms
  <2> QED
    BY <2>1, FormFields
<1>2. CASE pdata = NoForm
  BY <1>2 DEF NoForm
<1> QED
  BY <1>1, <1>2 DEF WebAppsTypeOK

\* A request that moves on, or ends, stays well-formed.
LEMMA RequestStays ==
  ASSUME AppsInv, runs' = runs,
         \/ \E label \in {"mkdir", "database", "done"} : ~Idle /\ Goto(label)
         \/ req.pc = "mkdir" /\ \E dir : req' = [req EXCEPT !.pc = "unzip", !.path = dir]
         \/ req' = NoRun
         \/ req' = req
  PROVE  /\ req' \in [pc : {"idle", "download", "mkdir", "unzip", "database", "done"},
                      app : App \cup {Null}, root : DocumentRoot \cup {Null}, path : {req'.path}]
         /\ ~Idle' => runs' > 0
<1>1. ASSUME NEW label \in {"mkdir", "database", "done"}, ~Idle, Goto(label)
      PROVE  /\ req' \in [pc : {label}, app : {req.app}, root : {req.root}, path : {req.path}]
             /\ runs' > 0
  BY <1>1 DEF AppsInv, Goto
<1>2. ASSUME req.pc = "mkdir", NEW dir, req' = [req EXCEPT !.pc = "unzip", !.path = dir]
      PROVE  /\ req' \in [pc : {"unzip"}, app : {req.app}, root : {req.root}, path : {dir}]
             /\ runs' > 0
  BY <1>2 DEF AppsInv, Idle
<1>3. CASE req' = NoRun
  BY <1>3 DEF NoRun, Idle
<1>4. CASE req' = req
  BY <1>4 DEF AppsInv, Idle
<1> QED
  BY <1>1, <1>2, <1>3, <1>4 DEF AppsInv, Idle

\* Every step keeps the data well-formed.
LEMMA AppsStep ==
  ASSUME AppsInv, [Next]_avars
  PROVE  AppsInv'
<1>1. ASSUME NEW t \in Tab, NEW a \in App, NEW f \in Form(a), Verify(t, a, f)
      PROVE  AppsInv'
  <2>1. f \in Forms
    BY FormFields
  <2> QED
    BY <1>1, <2>1 DEF AppsInv, WebAppsTypeOK, Verify, Idle
<1>2. ASSUME NEW t \in Tab, ShowWizard(t) \/ Leave(t)
      PROVE  AppsInv'
  BY <1>2 DEF AppsInv, WebAppsTypeOK, ShowWizard, Leave, tests, Idle
<1>3. ASSUME NEW t \in Tab, Install(t)
      PROVE  AppsInv'
  <2>1. runs' \in 0..MaxRun /\ runs' = runs + 1 /\ runs \in Nat
    BY <1>3, AppsAssumption DEF AppsInv, WebAppsTypeOK, Install
  <2>2. WebAppsTypeOK'
    BY <1>3, <2>1 DEF AppsInv, WebAppsTypeOK, Install, tests
  <2>3. tab[t].app \in App \cup {Null}
    BY DEF AppsInv
  <2>4. tab' \in [Tab -> [at : {"home", "redirected", "page"}, app : App \cup {Null}]]
    BY <1>3 DEF AppsInv, Install
  <2>5. req' \in [pc : {"download"}, app : App \cup {Null}, root : DocumentRoot \cup {Null}, path : {Null}]
    BY <1>3, <2>3 DEF AppsInv, WebAppsTypeOK, Install
  <2> QED
    BY <2>1, <2>2, <2>4, <2>5 DEF AppsInv
<1>4. CASE Download \/ Mkdir \/ AppPostInstall \/ Kill
  <2>1. /\ req' \in [pc : {"idle", "download", "mkdir", "unzip", "database", "done"},
                     app : App \cup {Null}, root : DocumentRoot \cup {Null}, path : {req'.path}]
        /\ ~Idle' => runs' > 0
    BY <1>4, RequestStays DEF Download, Mkdir, AppPostInstall, Kill, Idle
  <2> QED
    BY <1>4, <2>1 DEF AppsInv, WebAppsTypeOK, Download, Mkdir, AppPostInstall, Kill, session, tests
<1>5. CASE Unzip
  <2>1. /\ req' \in [pc : {"idle", "download", "mkdir", "unzip", "database", "done"},
                     app : App \cup {Null}, root : DocumentRoot \cup {Null}, path : {req'.path}]
        /\ ~Idle' => runs' > 0
    BY <1>5, RequestStays DEF Unzip, Idle
  <2>2. UNCHANGED <<root, db, pdata, wizard, tab, runs, seen, since>>
    BY <1>5 DEF Unzip, session, tests
  <2>3. ASSUME NEW e \in files'
        PROVE  e.by \in 0..runs' /\ e.dot \in BOOLEAN
    <3>1. runs \in 0..runs
      BY AppsAssumption DEF AppsInv, WebAppsTypeOK
    <3>2. CASE e \in files
      BY <2>2, <3>2 DEF AppsInv, WebAppsTypeOK
    <3>3. CASE e \notin files
      <4>1. e = Entry(req.path, FALSE, runs) \/ e = Entry(req.path \o <<"public">>, FALSE, runs)
        BY <1>5, <3>3 DEF Unzip
      <4>2. e.by = runs /\ e.dot = FALSE
        BY <4>1 DEF Entry
      <4> QED
        BY <2>2, <3>1, <4>2
    <3> QED
      BY <3>2, <3>3
  <2> QED
    BY <2>1, <2>2, <2>3 DEF AppsInv, WebAppsTypeOK
<1>6. CASE CreateDatabase
  <2>1. /\ req' \in [pc : {"idle", "download", "mkdir", "unzip", "database", "done"},
                     app : App \cup {Null}, root : DocumentRoot \cup {Null}, path : {req'.path}]
        /\ ~Idle' => runs' > 0
    BY <1>6, RequestStays DEF CreateDatabase, Idle
  <2>2. UNCHANGED <<root, files, pdata, wizard, tab, runs, seen, since>> /\ runs \in 1..MaxRun
    BY <1>6 DEF AppsInv, WebAppsTypeOK, CreateDatabase, session, tests, Idle
  <2>3. DOMAIN db' \subseteq DbName /\ \A x \in DOMAIN db' : db'[x] \in 1..runs'
    <3>1. CASE db' = db
      BY <2>2, <3>1 DEF AppsInv, WebAppsTypeOK
    <3>2. CASE /\ pdata.dbType = "new"
               /\ db' = [n \in DOMAIN db \cup {pdata.dbName} |-> IF n = pdata.dbName THEN runs ELSE db[n]]
      BY <2>2, <3>2, PdataFields DEF AppsInv, WebAppsTypeOK
    <3> QED
      BY <1>6, <3>1, <3>2 DEF CreateDatabase
  <2> QED
    BY <2>1, <2>2, <2>3 DEF AppsInv, WebAppsTypeOK
<1>7. ASSUME NEW dir \in DocumentRoot \cup {Null}, EditSite(dir)
      PROVE  AppsInv'
  BY <1>7 DEF AppsInv, WebAppsTypeOK, EditSite, session, tests, Idle
<1>8. CASE SwitchDb \/ UNCHANGED avars
  BY <1>8 DEF AppsInv, WebAppsTypeOK, SwitchDb, session, tests, avars, Idle
<1> QED
  BY <1>1, <1>2, <1>3, <1>4, <1>5, <1>6, <1>7, <1>8 DEF Next

-----------------------------------------------------------------------------
(* What was tested                                                         *)

\* A step that leaves files, form and history alone leaves the test of the directory
\* alone, and so for the database.
LEMMA TestKept ==
  ASSUME UNCHANGED <<pdata, seen, since>>
  PROVE  /\ UNCHANGED files => (DirectoryTested' <=> DirectoryTested)
         /\ UNCHANGED db => (DatabaseTested' <=> DatabaseTested)
  BY DEF DirectoryTested, DatabaseTested, At, RootDir

\* Every step keeps what was tested, whichever tab takes it.
LEMMA TestedStep ==
  ASSUME AppsInv, TestedInv, [Next]_avars
  PROVE  TestedInv'
<1>0. /\ tab \in [Tab -> [at : {"home", "redirected", "page"}, app : App \cup {Null}]]
      /\ runs \in Nat /\ (since # Null => since \in 0..runs)
  BY AppsAssumption DEF AppsInv, WebAppsTypeOK
<1>1. ASSUME NEW t \in Tab, NEW a \in App, NEW f \in Form(a), Verify(t, a, f)
      PROVE  TestedInv'
  <2>1. /\ Idle' /\ req'.pc # "unzip" /\ pdata' = f /\ seen' = root /\ since' = runs
        /\ UNCHANGED <<files, db>> /\ IsDirectoryEmpty(RootDir(root) \o f.path) /\ DatabaseValid(f)
    BY <1>1 DEF Verify, Idle, SiteValid
  <2>2. DirectoryTested'
    BY <2>1 DEF DirectoryTested, IsDirectoryEmpty, At, RootDir
  <2>3. since' # Null
    BY <1>0, <2>1, AppsAssumption
  <2>4. DatabaseTested'
    BY <2>1 DEF DatabaseTested, DatabaseValid
  <2> QED
    BY <2>1, <2>2, <2>3, <2>4 DEF TestedInv
<1>2. ASSUME NEW t \in Tab, ShowWizard(t) \/ Leave(t)
      PROVE  TestedInv'
  <2>1. /\ UNCHANGED <<files, db, pdata, seen, since, runs, req>>
        /\ wizard' # Null => wizard # Null
    BY <1>2 DEF ShowWizard, Leave, tests
  <2>2. \A u \in Tab : tab'[u].app # Null => tab[u].app # Null \/ wizard # Null
    BY <1>0, <1>2 DEF ShowWizard, Leave
  <2> QED
    BY <2>1, <2>2, TestKept DEF TestedInv, Idle, RootDir
<1>3. ASSUME NEW t \in Tab, Install(t)
      PROVE  TestedInv'
  <2>1. /\ UNCHANGED <<files, db, pdata, seen, since, wizard>> /\ runs' = runs + 1
        /\ req'.pc = "download" /\ tab[t].app # Null
    BY <1>3 DEF Install, tests
  <2>2. since # Null /\ since < runs'
    BY <1>0, <2>1 DEF TestedInv
  <2> QED
    BY <2>1, <2>2, TestKept DEF TestedInv
<1>4. CASE Mkdir
  <2> DEFINE dir == Stripped(RootDir(req.root)) \o pdata.path
  <2>1. /\ ~Idle /\ UNCHANGED <<files, db, pdata, seen, since, wizard, tab, runs>>
        /\ req' = [req EXCEPT !.pc = "unzip", !.path = dir] \/ req' = NoRun
    BY <1>4 DEF Mkdir, session, tests, Idle
  <2>2. ASSUME NEW d, req' = [req EXCEPT !.pc = "unzip", !.path = d]
        PROVE  req'.root = req.root /\ req'.path = d
    BY <2>2 DEF AppsInv
  <2>3. ASSUME req'.pc = "unzip"
        PROVE  (req.path = Stripped(RootDir(req.root)) \o pdata.path)'
    <3>1. req' # NoRun
      BY <2>3 DEF NoRun
    <3>2. req'.root = req.root /\ req'.path = dir
      BY <2>1, <2>2, <3>1
    <3>3. RootDir(req.root)' = RootDir(req.root)
      BY <3>2 DEF RootDir
    <3>4. Stripped(RootDir(req.root))' = Stripped(RootDir(req.root))
      BY <3>3
    <3> QED
      BY <2>1, <3>2, <3>4
  <2> QED
    BY <2>1, <2>3, TestKept DEF TestedInv
<1>5. CASE Unzip
  <2>1. /\ ~Idle /\ req'.pc = "database" /\ UNCHANGED <<db, pdata, seen, since, wizard, tab, runs>>
        /\ files' = files \cup {Entry(req.path, FALSE, runs), Entry(req.path \o <<"public">>, FALSE, runs)}
    BY <1>5 DEF AppsInv, Unzip, session, tests, Goto, Idle
  <2>2. since # Null /\ since < runs /\ DirectoryTested
    BY <2>1 DEF TestedInv
  <2>3. \A e \in files' : e \in files \/ e.by = runs
    BY <2>1 DEF Entry
  <2>4. DirectoryTested'
    BY <2>1, <2>2, <2>3 DEF DirectoryTested, At, RootDir
  <2> QED
    BY <2>1, <2>2, <2>4, TestKept DEF TestedInv
<1>6. CASE Download \/ AppPostInstall \/ Kill
  <2>1. /\ ~Idle /\ req'.pc # "unzip"
        /\ UNCHANGED <<files, db, pdata, seen, since, wizard, tab, runs>>
    BY <1>6 DEF AppsInv, Download, AppPostInstall, Kill, Goto, NoRun, session,
                tests, Idle
  <2> QED
    BY <2>1, TestKept DEF TestedInv
<1>7. CASE (\E dir \in DocumentRoot \cup {Null} : EditSite(dir)) \/ SwitchDb \/ UNCHANGED avars
  <2>1. UNCHANGED <<files, db, pdata, seen, since, wizard, tab, runs, req>>
    BY <1>7 DEF EditSite, SwitchDb, avars, session, tests
  <2> QED
    BY <2>1, TestKept DEF TestedInv, Idle, RootDir
<1>8. CASE CreateDatabase
  <2>1. /\ ~Idle /\ req'.pc # "unzip"
        /\ UNCHANGED <<files, pdata, seen, since, wizard, tab, runs>>
        /\ \/ UNCHANGED db
           \/ db' = [n \in DOMAIN db \cup {pdata.dbName} |-> IF n = pdata.dbName THEN runs ELSE db[n]]
    BY <1>8 DEF AppsInv, CreateDatabase, Goto, session, tests, Idle
  <2>2. since # Null /\ since < runs /\ DirectoryTested /\ DatabaseTested
    BY <2>1 DEF TestedInv
  <2>3. DatabaseTested'
    <3>1. CASE UNCHANGED db
      BY <2>1, <2>2, <3>1 DEF DatabaseTested
    <3>2. CASE db' = [n \in DOMAIN db \cup {pdata.dbName} |-> IF n = pdata.dbName THEN runs ELSE db[n]]
      BY <2>1, <2>2, <3>2 DEF DatabaseTested
    <3> QED
      BY <2>1, <3>1, <3>2
  <2> QED
    BY <2>1, <2>2, <2>3, TestKept DEF TestedInv
<1> QED
  BY <1>1, <1>2, <1>3, <1>4, <1>5, <1>6, <1>7, <1>8 DEF Next

-----------------------------------------------------------------------------
(* The results                                                             *)

\* Well-formed data is an invariant of the wizard and of install() of the classes.
THEOREM AppsInvariant == Spec => []AppsInv
  BY AppsInit, AppsStep, PTL DEF Spec

\* With any number of tabs, session, databases and files stay well-formed.
THEOREM WebAppsTypeCorrect == Spec => []WebAppsTypeOK
<1>1. AppsInv => WebAppsTypeOK
  BY DEF AppsInv
<1> QED
  BY <1>1, AppsInvariant, PTL

\* With any number of tabs, what verify() saw is all there is but for what was
\* installed since.
LEMMA TestedInvariant == Spec => []TestedInv
<1>1. Init => TestedInv
  BY DEF Init, TestedInv, NoRun, Idle
<1>2. AppsInv /\ TestedInv /\ [Next]_avars => TestedInv'
  BY TestedStep
<1> QED
  BY <1>1, <1>2, AppsInvariant, PTL DEF Spec

\* With any number of tabs, an application is never unpacked over what was there
\* when its form was tested (but names that begin with a dot), however often
\* installations are cut.
THEOREM NeverOverwrites == Spec => []NothingOverwritten
<1>1. TestedInv => NothingOverwritten
  BY DEF TestedInv, DirectoryTested, NothingOverwritten, Idle
<1> QED
  BY <1>1, TestedInvariant, PTL

\* With any number of tabs, a database that is created as new, or taken for it, was not
\* there when the form was tested, and one to be used is still there.
THEOREM DatabaseStaysAsVerified == Spec => []DatabaseAsVerified
<1>1. TestedInv => DatabaseAsVerified
  BY DEF TestedInv, DatabaseTested, DatabaseAsVerified, Idle
<1> QED
  BY <1>1, TestedInvariant, PTL
=============================================================================
