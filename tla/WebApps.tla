------------------------------ MODULE WebApps ------------------------------
(***************************************************************************)
(* Installing a web application into a site: WordPress, Laravel, Joomla,   *)
(* Drupal (with a database), phpMyAdmin and Adminer (without).  Whether    *)
(* the directory is empty and the database new is tested when the form is  *)
(* posted (Installer::form_site_validate, form_database_validate); what    *)
(* was tested is used two requests later (Instance::appInstall, install()  *)
(* of the class), with the data the session holds by then.                 *)
(*                                                                         *)
(* A directory is the sequence of its parts below the directory of sites.  *)
(***************************************************************************)
EXTENDS Naturals, Sequences, SequencesExt

CONSTANTS
  App,          \* applications, by package
  DatabaseApp,  \* the ones whose form asks for a database
  DocumentRoot, \* directories a site may have as document root
  UserFiles,    \* directories that hold files of the user: [dir, dot]
  Path,         \* paths below the document root a form is posted with
  DbName,       \* names of databases a form is posted with
  Tab,          \* tabs of the user's browser
  MaxRun,       \* bound: how many installations are run
  Null          \* no value

ASSUME AppsAssumption ==
  /\ DatabaseApp \subseteq App /\ MaxRun \in Nat /\ Null \notin DbName /\ Null \notin App
  /\ Null \notin Nat
  /\ \A u \in UserFiles : u.dot \in BOOLEAN

VARIABLES
  root,     \* document_root of the site; Null: the site is deleted
  files,    \* who has files where: [dir, dot, by]
  db,       \* databases of the server: name -> who created it
  dbUp,     \* the database server runs
  pdata,    \* $_SESSION['pdata']
  wizard,   \* $_SESSION['wizard']: the package to install
  tab,      \* where each tab is, and the URL its wizard page holds
  runs,     \* how many installations were started
  seen,     \* history: the document root the last accepted form was tested with
  since,    \* history: how many installations had been started by then
  req       \* the installation being run

session == <<pdata, wizard, tab>>
tests == <<seen, since>>
avars == <<root, files, db, dbUp, session, runs, tests, req>>

\* A posted form: "new", "existing" or "none" with a name, and the path.
Form(a) == IF a \in DatabaseApp
           THEN [path : Path, dbType : {"new", "existing", "none"}, dbName : DbName]
           ELSE [path : Path, dbType : {"none"}, dbName : {Null}]
Forms == UNION {Form(a) : a \in App}
NoForm == [path |-> <<>>, dbType |-> "none", dbName |-> Null]

NoRun == [pc |-> "idle", app |-> Null, root |-> Null, path |-> Null]
Idle == req.pc = "idle"
Goto(label) == req' = [req EXCEPT !.pc = label]

Entry(dir, dot, by) == [dir |-> dir, dot |-> dot, by |-> by]
At(dir) == {e \in files : IsPrefix(dir, e.dir)}

\* A faulty variant: only files are seen, not directories.
IsDirectoryEmpty_FilesOnly(dir) == ~\E e \in At(dir) : e.dir = dir /\ ~e.dot

\* Util::isDirectoryEmpty: glob("$dir/*") does not list names that begin with a
\* dot.
IsDirectoryEmpty(dir) == \A e \in At(dir) : e.dir = dir /\ e.dot

\* str_replace('\\public', '', $site['document_root'])
Stripped(dir) == SelectSeq(dir, LAMBDA part : part # "public")

-----------------------------------------------------------------------------
(* verify(), and the wizard                                                *)

\* Without site the path starts at the root of the drive.
RootDir(dir) == IF dir = Null THEN <<>> ELSE dir

\* form_site_validate: the directory that is looked at is not stripped.  The root
\* of the drive is never empty.
SiteValid(f) == (root = Null => f.path # <<>>) /\ IsDirectoryEmpty(RootDir(root) \o f.path)

\* A faulty variant: whether the database exists is not asked.
DatabaseValid_Trusting(f) == f.dbType # "none" => dbUp

\* form_database_validate; databaseExists answers null when it cannot connect.
DatabaseValid(f) ==
  f.dbType # "none" => dbUp /\ (f.dbType = "existing" <=> f.dbName \in DOMAIN db)

Verify(t, a, f) ==
  /\ Idle /\ tab[t].at = "home"
  /\ SiteValid(f) /\ DatabaseValid(f)
  /\ pdata' = f /\ wizard' = a
  /\ seen' = root /\ since' = runs
  /\ tab' = [tab EXCEPT ![t] = [at |-> "redirected", app |-> Null]]
  /\ UNCHANGED <<root, files, db, dbUp, runs, req>>

\* GET /wizard: the page gets the URL, the session loses it.
ShowWizard(t) ==
  /\ Idle /\ tab[t].at = "redirected"
  /\ tab' = [tab EXCEPT ![t] = [at |-> "page", app |-> wizard]]
  /\ wizard' = Null
  /\ UNCHANGED <<root, files, db, dbUp, pdata, runs, tests, req>>

Leave(t) ==
  /\ tab[t].at # "home"
  /\ tab' = [tab EXCEPT ![t] = [at |-> "home", app |-> Null]]
  /\ UNCHANGED <<root, files, db, dbUp, pdata, wizard, runs, tests, req>>

-----------------------------------------------------------------------------
(* appInstall() and install() of the class                                 *)

\* The site is read once, the session wherever it is needed.
Install(t) ==
  /\ Idle /\ tab[t].at = "page" /\ tab[t].app # Null
  /\ runs < MaxRun
  /\ runs' = runs + 1
  /\ tab' = [tab EXCEPT ![t] = [at |-> "home", app |-> Null]]
  /\ req' = [pc |-> "download", app |-> tab[t].app, root |-> root, path |-> Null]
  /\ UNCHANGED <<root, files, db, dbUp, pdata, wizard, tests>>

\* Installer::download, which may end the request; see Store.
Download ==
  /\ req.pc = "download"
  /\ \/ Goto("mkdir")
     \/ req' = NoRun
  /\ UNCHANGED <<root, files, db, dbUp, session, runs, tests>>

Mkdir ==
  /\ req.pc = "mkdir"
  /\ LET dir == Stripped(RootDir(req.root)) \o pdata.path
     IN  \/ req' = [req EXCEPT !.pc = "unzip", !.path = dir]
         \/ At(dir) = {} /\ req' = NoRun   \* Error creating directory
  /\ UNCHANGED <<root, files, db, dbUp, session, runs, tests>>

Unzip ==
  /\ req.pc = "unzip"
  /\ files' = files \cup {Entry(req.path, FALSE, runs), Entry(req.path \o <<"public">>, FALSE, runs)}
  /\ Goto("database")
  /\ UNCHANGED <<root, db, dbUp, session, runs, tests>>

\* A faulty variant: no test of db_type.
CreateDatabase_Always ==
  /\ req.pc = "database"
  /\ db' = IF dbUp /\ pdata.dbName \notin DOMAIN db
           THEN [n \in DOMAIN db \cup {pdata.dbName} |-> IF n = pdata.dbName THEN runs ELSE db[n]]
           ELSE db
  /\ Goto("done")
  /\ UNCHANGED <<root, files, dbUp, session, runs, tests>>

\* QDB::createDatabase: an exception is logged and forgotten.
CreateDatabase ==
  /\ req.pc = "database"
  /\ db' = IF req.app \in DatabaseApp /\ pdata.dbType = "new" /\ dbUp /\ pdata.dbName \notin DOMAIN db
           THEN [n \in DOMAIN db \cup {pdata.dbName} |-> IF n = pdata.dbName THEN runs ELSE db[n]]
           ELSE db
  /\ Goto("done")
  /\ UNCHANGED <<root, files, dbUp, session, runs, tests>>

\* The configuration file and "Application successfully installed".
AppPostInstall ==
  /\ req.pc = "done"
  /\ req' = NoRun
  /\ UNCHANGED <<root, files, db, dbUp, session, runs, tests>>

-----------------------------------------------------------------------------
(* What else happens                                                       *)

Kill ==
  /\ ~Idle
  /\ req' = NoRun
  /\ UNCHANGED <<root, files, db, dbUp, session, runs, tests>>

\* POST /site/<id>/edit and GET /site/<id>/delete, from a page of their own: at any
\* time between two requests.
EditSite(dir) ==
  /\ Idle
  /\ root # Null
  /\ root' = dir
  /\ UNCHANGED <<files, db, dbUp, session, runs, tests, req>>

SwitchDb ==
  /\ dbUp' = ~dbUp
  /\ UNCHANGED <<root, files, db, session, runs, tests, req>>

-----------------------------------------------------------------------------

Init ==
  /\ root \in DocumentRoot
  /\ files = {Entry(u.dir, u.dot, 0) : u \in UserFiles}
  /\ db = [n \in {} |-> Null] /\ dbUp = TRUE
  /\ pdata = NoForm /\ wizard = Null
  /\ tab = [t \in Tab |-> [at |-> "home", app |-> Null]]
  /\ runs = 0 /\ seen = Null /\ since = Null /\ req = NoRun

Next ==
  \/ \E t \in Tab, a \in App : \E f \in Form(a) : Verify(t, a, f)
  \/ \E t \in Tab : ShowWizard(t) \/ Install(t) \/ Leave(t)
  \/ Download \/ Mkdir \/ Unzip \/ CreateDatabase \/ AppPostInstall
  \/ Kill
  \/ \E dir \in DocumentRoot \cup {Null} : EditSite(dir)
  \/ SwitchDb

Spec == Init /\ [][Next]_avars

-----------------------------------------------------------------------------
(* Properties                                                              *)

\* Session, tabs and the installation being run are well-formed.
WebAppsTypeOK ==
  /\ root \in DocumentRoot \cup {Null}
  /\ \A e \in files : e.by \in 0..runs /\ e.dot \in BOOLEAN
  /\ DOMAIN db \subseteq DbName /\ \A x \in DOMAIN db : db[x] \in 1..runs
  /\ pdata \in Forms \cup {NoForm} /\ wizard \in App \cup {Null}
  /\ runs \in 0..MaxRun
  /\ seen \in DocumentRoot \cup {Null} /\ since \in 0..runs \cup {Null}

\* "Document root already contains files/folders": no application is unpacked over
\* what was there when its form was tested, whichever tabs post forms and start
\* installations in between, and however many installations were cut: only what
\* was installed after the test is overwritten.  Three exceptions are in the code:
\* files whose names begin with a dot are not seen; for a document root that
\* ends in public it is not the directory tested that is filled; and so for a site
\* that was edited in between.
NothingOverwritten ==
  req.pc = "unzip" /\ req.root = seen /\ Stripped(RootDir(req.root)) = RootDir(req.root) =>
    \A e \in At(req.path) : e.dot \/ e.by > since

\* "Database already exists", "No such database": what that form was told of its
\* database holds for what is created or used two requests later, whichever tabs
\* post forms and start installations in between: a new database is not one that was
\* there when the form was tested.  Only one that an installation started since has
\* created is taken for new as well, because CREATE DATABASE then fails unnoticed.
DatabaseAsVerified ==
  req.pc = "database" /\ req.app \in DatabaseApp =>
    /\ pdata.dbType = "new" /\ pdata.dbName \in DOMAIN db => db[pdata.dbName] > since
    /\ pdata.dbType = "existing" => pdata.dbName \in DOMAIN db
=============================================================================
