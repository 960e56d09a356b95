----------------------------- MODULE Instances -----------------------------
(***************************************************************************)
(* The life of an installed instance: install, start, stop, restart,       *)
(* serviceInstall, serviceUninstall and uninstall (classes/instance.php,   *)
(* classes/instances/*.php, classes/package.php), together with the        *)
(* requests of other controllers that refer to an instance.                *)
(*                                                                         *)
(* The manager runs on PHP's built-in web server, which serves one request *)
(* at a time: requests never overlap.  One request is however many steps,  *)
(* a database statement, a file operation or a command each, with no       *)
(* transaction around them; it may end between any two (the browser goes   *)
(* away while the wizard streams its progress, an exception, the launcher  *)
(* is closed).  The servers themselves are processes of their own and may  *)
(* die at any time.  So a request is a program counter `pc`, each step is  *)
(* one action, and Disconnect and Kill cut it short.                       *)
(***************************************************************************)
EXTENDS Naturals, FiniteSets, Sequences, Drivers

CONSTANTS
  Package,    \* the packages of the store, each named by its class file
  Interface,  \* addresses a form offers
  Port,       \* port numbers a form may be posted with
  Site,       \* rows of table site
  Command,    \* the commands the user issues from the instance list
  Timeout,    \* sleepTillProcessDead's $timeout (10 in the code)
  MaxId,      \* bound: how many instances are ever created
  Null        \* SQL null / no value

ASSUME PackageAssumption == Package \subseteq ClassFile
ASSUME CommandAssumption ==
  Command \subseteq {"start", "stop", "restart", "serviceInstall", "serviceUninstall"}
ASSUME TimeoutAssumption == Timeout \in Nat \ {0}
ASSUME MaxIdAssumption == MaxId \in Nat
ASSUME NullAssumption == Null \notin Nat /\ Null \notin ClassFile

VARIABLES
  \* manager.db
  lastId,      \* sqlite_sequence: the last id AUTOINCREMENT gave to instance
  instance,    \* ids of the rows of table instance
  package,     \* instance.package_id, kept after the row is gone
  named,       \* rows whose column name is set
  endpoint,    \* rows of table endpoint
  site,        \* site.httpd_instance_id and site.php_instance_id
  phpDefault,  \* conf.php_default_instance_id
  \* the machine
  dir,         \* state of directory bin\<name>
  running,     \* is the server's process alive
  service,     \* is the Windows service wamp.net.<name>.service registered
  \* the session file
  abortSaved,  \* is installer_abort set in the stored session
  \* the request being served
  op,          \* the command
  pc,          \* its next step
  cur,         \* $this->instance_id
  pkg,         \* $this->package of an installation, until it has a row
  post,        \* $_SESSION['pdata'], until the endpoints are registered
  n,           \* counter of the loop being executed
  also,        \* a second instance the request restarts
  abort        \* installer_abort in $_SESSION

db      == <<lastId, instance, package, named, endpoint, site, phpDefault>>
machine == <<dir, running, service>>
session == <<abortSaved, abort>>
request == <<op, pc, cur, pkg, post, n, also>>
vars    == <<db, machine, session, request>>

Ids == 1..MaxId

Ops == {"none", "install", "uninstall", "start", "stop", "restart",
        "serviceInstall", "serviceUninstall"}

Labels ==
  {"idle", "download", "add", "name", "unzip", "unzipping", "endpoint", "conf",
   "initialize", "users", "finalConf", "start", "stop", "waitDead", "serviceInstall",
   "stopAgain", "serviceRemove", "inUse", "abortCheck", "clearSites",
   "clearDefault", "deltree", "deleteEndpoints", "deleteInstance"}

\* bin\<name>: missing; not (or no longer) complete; as unzipped; with the
\* temporary configuration of a bootstrap; with the final configuration.
DirStates == {"absent", "partial", "files", "interim", "final"}

-----------------------------------------------------------------------------
(* Rows and posted forms                                                   *)

PortKeys(p) == {Class(p).endpoints[k].key : k \in DOMAIN Class(p).endpoints}

\* The form of package p; pdata has exactly the fields of the form.
PostOf(p) == [interface : Interface, port : [PortKeys(p) -> Port]]

\* $_POST of a GET request.
EmptyPost == [interface |-> Null, port |-> [k \in {} |-> Null]]

Posts == (UNION {PostOf(p) : p \in Package}) \cup {EmptyPost}

\* A key that the session's pdata does not have reads as null.
PostedPort(pd, key) == IF key \in DOMAIN pd.port THEN pd.port[key] ELSE Null

Row(i, e, pd) ==
  [instance_id |-> i, proto |-> e.proto, interface |-> pd.interface,
   port |-> PostedPort(pd, e.key), type |-> e.type]

Rows == [instance_id : Ids, proto : {"tcp", "udp"}, interface : Interface \cup {Null},
         port : Port \cup {Null}, type : EndpointType]

EndpointsOf(i) == {e \in endpoint : e.instance_id = i}

\* The class of the instance the request works on.
This == Class(package[cur])

\* The ids a form rendered at any earlier time may offer for a role
\* (Package::getInstancesByType).  The form is not read again when it is
\* posted, so the instance may have been uninstalled since.
Offered(role) == {i \in 1..lastId : Class(package[i]).role = role} \cup {Null}

-----------------------------------------------------------------------------
(* Control flow of a request                                               *)

Idle == pc = "idle"

Begin(o, i, p, pd, label) ==
  /\ Idle
  /\ op' = o /\ cur' = i /\ pkg' = p /\ post' = pd
  /\ pc' = label /\ n' = 0 /\ also' = Null
  /\ abort' = abortSaved
  /\ UNCHANGED abortSaved

Goto(label) ==
  /\ pc' = label /\ n' = 0
  /\ UNCHANGED <<op, cur, pkg, post, also>>

NoRequest ==
  /\ op' = "none" /\ pc' = "idle" /\ cur' = Null /\ pkg' = Null
  /\ post' = EmptyPost /\ n' = 0 /\ also' = Null

\* The script ends, however it does: PHP writes the session.
EndRequest == NoRequest /\ abortSaved' = abort /\ abort' = FALSE

\* A command has returned.  Site::update may have a second server to restart;
\* `require` of an instance that is gone is a fatal error.
Return ==
  IF also \in instance
  THEN /\ pc' = "stop" /\ cur' = also /\ also' = Null /\ n' = 0
       /\ UNCHANGED <<op, pkg, post, session>>
  ELSE EndRequest

AfterStop == CASE op = "restart" -> "start"
               [] op = "serviceInstall" -> "serviceInstall"
               [] op \in {"serviceUninstall", "uninstall"} -> "serviceRemove"
               [] op = "install" -> "finalConf"
               [] OTHER -> "idle"

Stopped == IF AfterStop = "idle" \/ pc = "stopAgain"
           THEN EndRequest
           ELSE Goto(AfterStop) /\ UNCHANGED session

-----------------------------------------------------------------------------
(* install                                                                 *)

\* GET /package/<id>/install with some pdata in the session.
BeginInstall(p, pd) ==
  /\ lastId < MaxId
  /\ Begin("install", Null, p, pd, "download")
  /\ UNCHANGED <<db, machine>>

\* Installer::download exits with an error page when it cannot get the file.
Download ==
  /\ pc = "download"
  /\ \/ Goto("add") /\ UNCHANGED session
     \/ EndRequest
  /\ UNCHANGED <<db, machine>>

\* A faulty variant: without AUTOINCREMENT, SQLite gives the highest id plus one.
PackageAdd_ReusesId ==
  /\ pc = "add"
  /\ \E i \in Ids :
       /\ \A j \in instance : j < i
       /\ \A k \in Ids : (\A j \in instance : j < k) => i <= k
       /\ lastId' = IF i > lastId THEN i ELSE lastId
       /\ instance' = instance \cup {i}
       /\ package' = [package EXCEPT ![i] = pkg]
       /\ cur' = i
  /\ pkg' = Null
  /\ pc' = "name"
  /\ UNCHANGED <<named, endpoint, site, phpDefault, machine, session, op, post, n, also>>

\* Package::add: INSERT INTO instance, AUTOINCREMENT.
PackageAdd ==
  /\ pc = "add"
  /\ lastId' = lastId + 1
  /\ instance' = instance \cup {lastId + 1}
  /\ package' = [package EXCEPT ![lastId + 1] = pkg]
  /\ cur' = lastId + 1
  /\ pkg' = Null
  /\ pc' = "name"
  /\ UNCHANGED <<named, endpoint, site, phpDefault, machine, session, op, post, n, also>>

\* UPDATE instance SET name=?
SetName ==
  /\ pc = "name"
  /\ named' = named \cup {cur}
  /\ Goto("unzip")
  /\ UNCHANGED <<lastId, instance, package, endpoint, site, phpDefault, machine, session>>

\* UnzipMe::unzip makes the directory and extracts one file after another.
UnzipBegin ==
  /\ pc = "unzip"
  /\ dir' = [dir EXCEPT ![cur] = "partial"]
  /\ Goto("unzipping")
  /\ UNCHANGED <<db, running, service, session>>

\* A file that cannot be extracted or renamed is skipped without a word
\* (@rename; ZipArchive::open answers an error code, which is not false).
UnzipEnd ==
  /\ pc = "unzipping"
  /\ \E d \in {"files", "partial"} : dir' = [dir EXCEPT ![cur] = d]
  /\ Goto("endpoint")
  /\ UNCHANGED <<db, running, service, session>>

\* registerEndpoint, once for each endpoint of the class.  What else pdata holds
\* goes only into the texts of configuration files.
RegisterEndpoint ==
  /\ pc = "endpoint"
  /\ endpoint' = endpoint \cup {Row(cur, This.endpoints[n + 1], post)}
  /\ IF n + 1 < Len(This.endpoints)
     THEN n' = n + 1 /\ UNCHANGED <<op, pc, cur, pkg, post, also>>
     ELSE /\ pc' = "conf" /\ n' = 0 /\ post' = EmptyPost
          /\ UNCHANGED <<op, cur, pkg, also>>
  /\ UNCHANGED <<lastId, instance, package, named, site, phpDefault, machine, session>>

\* Writes the configuration, the temporary one if the server is bootstrapped;
\* into an incomplete directory that does not give a usable installation.
WriteConf ==
  /\ pc = "conf"
  /\ dir' = [dir EXCEPT ![cur] = IF @ # "files" THEN @
                                 ELSE IF This.bootstrap THEN "interim" ELSE "final"]
  /\ IF This.bootstrap THEN Goto("initialize") /\ UNCHANGED session ELSE EndRequest
  /\ UNCHANGED <<db, running, service>>

\* mysqld --initialize-insecure or initdb creates the data directory; mysqld is
\* waited for, and sleepTillProcessDead throws when it is still there.
Initialize ==
  /\ pc = "initialize"
  /\ \/ Goto("start") /\ UNCHANGED <<running, session>>
     \/ /\ This.stop = "shutdown" /\ dir[cur] # "absent"
        /\ running' = [running EXCEPT ![cur] = TRUE]
        /\ EndRequest
  /\ UNCHANGED <<db, dir, service>>

\* QDB: create users on the bootstrapped server.  MySQL is also told to
\* SHUTDOWN here and waited for; PostgreSQL is stopped with stop().  An error
\* of the connection is caught and dropped inside QDB.
CreateUsers ==
  /\ pc = "users"
  /\ \/ /\ This.stop = "shutdown"
        /\ \/ running' = [running EXCEPT ![cur] = FALSE]
           \/ UNCHANGED running
        /\ Goto("waitDead")
     \/ /\ This.stop # "shutdown"
        /\ Goto("stop")
        /\ UNCHANGED running
  /\ UNCHANGED <<db, dir, service, session>>

\* The real my.ini or pg_hba.conf, then postInstall().
WriteFinalConf ==
  /\ pc = "finalConf"
  /\ dir' = [dir EXCEPT ![cur] = IF @ = "interim" THEN "final" ELSE @]
  /\ EndRequest
  /\ UNCHANGED <<db, running, service>>

-----------------------------------------------------------------------------
(* start, stop, restart, serviceInstall, serviceUninstall                  *)

\* GET /instance/<id>/<cmd>.  For an id without a row `require` fails.
BeginControl(i, cmd) ==
  /\ i \in instance
  /\ Begin(cmd, i, Null, EmptyPost, IF cmd = "start" THEN "start" ELSE "stop")
  /\ UNCHANGED <<db, machine>>

\* Through the service if there is one, else in the background.  Nothing
\* checks whether the server came up; a second copy of a running server finds
\* its port taken and exits.
Start ==
  /\ pc = "start"
  /\ \/ dir[cur] # "absent" /\ running' = [running EXCEPT ![cur] = TRUE]
     \/ UNCHANGED running
  /\ IF op = "install" THEN Goto("users") /\ UNCHANGED session ELSE Return
  /\ UNCHANGED <<db, dir, service>>

\* stop() returns without having looked whether the server is gone.
StopUnchecked ==
  /\ pc \in {"stop", "stopAgain"}
  /\ \/ This.stop \in {"kill", "service_or_kill"}
     \/ This.stop = "service_or_pg_ctl" /\ service[cur]
  /\ \/ running' = [running EXCEPT ![cur] = FALSE]
     \/ UNCHANGED running
  /\ Stopped
  /\ UNCHANGED <<db, dir, service>>

\* mysql*: no process, nothing to do.
StopNothing ==
  /\ pc = "stop"
  /\ This.stop = "shutdown" /\ ~running[cur]
  /\ Stopped
  /\ UNCHANGED <<db, machine>>

\* mysqladmin shutdown / pg_ctl stop, whose result nobody looks at.
StopAndWait ==
  /\ pc = "stop"
  /\ \/ This.stop = "shutdown" /\ running[cur]
     \/ This.stop = "service_or_pg_ctl" /\ ~service[cur]
  /\ \/ running' = [running EXCEPT ![cur] = FALSE]
     \/ UNCHANGED running
  /\ Goto("waitDead")
  /\ UNCHANGED <<db, dir, service, session>>

\* Faulty variants: a poll too many; go on after the last poll instead of
\* throwing; never give up.
WaitDead_PollsOnceMore ==
  /\ pc = "waitDead"
  /\ IF ~running[cur] THEN Stopped
     ELSE IF n + 1 > Timeout THEN EndRequest
     ELSE n' = n + 1 /\ UNCHANGED <<op, pc, cur, pkg, post, also, session>>
  /\ UNCHANGED <<db, machine>>

WaitDead_GoesOn ==
  /\ pc = "waitDead"
  /\ IF ~running[cur] \/ n + 1 >= Timeout THEN Stopped
     ELSE n' = n + 1 /\ UNCHANGED <<op, pc, cur, pkg, post, also, session>>
  /\ UNCHANGED <<db, machine>>

WaitDead_Forever ==
  /\ pc = "waitDead"
  /\ IF ~running[cur] THEN Stopped ELSE UNCHANGED <<request, session>>
  /\ UNCHANGED <<db, machine>>

\* Util::sleepTillProcessDead: poll; after $timeout polls throw.
WaitDead ==
  /\ pc = "waitDead"
  /\ IF ~running[cur] THEN Stopped
     ELSE IF n + 1 >= Timeout THEN EndRequest
     ELSE n' = n + 1 /\ UNCHANGED <<op, pc, cur, pkg, post, also, session>>
  /\ UNCHANGED <<db, machine>>

\* sc/nssm/httpd -k install, result ignored.
ServiceInstall ==
  /\ pc = "serviceInstall"
  /\ \/ service' = [service EXCEPT ![cur] = TRUE]
     \/ UNCHANGED service
  /\ IF This.stopsAgain THEN Goto("stopAgain") /\ UNCHANGED session ELSE EndRequest
  /\ UNCHANGED <<db, dir, running>>

\* If the service exists, remove it, result ignored.
ServiceRemove ==
  /\ pc = "serviceRemove"
  /\ \/ service[cur] /\ service' = [service EXCEPT ![cur] = FALSE]
     \/ UNCHANGED service
  /\ IF op = "uninstall" THEN Goto("clearSites") /\ UNCHANGED session ELSE EndRequest
  /\ UNCHANGED <<db, dir, running>>

-----------------------------------------------------------------------------
(* uninstall                                                               *)

BeginUninstall(i) ==
  /\ i \in instance
  /\ Begin("uninstall", i, Null, EmptyPost,
           IF Class(package[i]).checksUse THEN "inUse" ELSE "abortCheck")
  /\ UNCHANGED <<db, machine>>

\* A faulty variant: the sites are not counted.
InUse_NotCounted ==
  /\ pc = "inUse"
  /\ Goto("abortCheck")
  /\ UNCHANGED <<session, db, machine>>

\* php*: "This package is in use by some of your sites and can't be deleted."
InUse ==
  /\ pc = "inUse"
  /\ abort' = (abort \/ \E s \in Site : site[s].php = cur)
  /\ Goto("abortCheck")
  /\ UNCHANGED <<abortSaved, db, machine>>

\* isset($_SESSION["installer_abort"]): unset it and give up.
AbortCheck ==
  /\ pc = "abortCheck"
  /\ IF abort
     THEN NoRequest /\ abortSaved' = FALSE /\ abort' = FALSE
     ELSE Goto("stop") /\ UNCHANGED session
  /\ UNCHANGED <<db, machine>>

\* UPDATE site SET <column>=null WHERE <column>=?
ClearSites ==
  /\ pc = "clearSites"
  /\ site' = [s \in Site |->
       [httpd |-> IF This.clears = "httpd" /\ site[s].httpd = cur THEN Null ELSE site[s].httpd,
        php   |-> IF This.clears = "php" /\ site[s].php = cur THEN Null ELSE site[s].php]]
  /\ Goto("clearDefault")
  /\ UNCHANGED <<lastId, instance, package, named, endpoint, phpDefault, machine, session>>

\* php*: the default version becomes unassigned.
ClearDefault ==
  /\ pc = "clearDefault"
  /\ phpDefault' = IF This.role = "php" /\ phpDefault = cur THEN Null ELSE phpDefault
  /\ Goto("deltree")
  /\ UNCHANGED <<lastId, instance, package, named, endpoint, site, machine, session>>

\* Util::deltree: files in use stay where they are; its result is ignored.
Deltree ==
  /\ pc = "deltree"
  /\ \/ ~running[cur] /\ dir' = [dir EXCEPT ![cur] = "absent"]
     \/ dir' = [dir EXCEPT ![cur] = IF @ = "absent" THEN @ ELSE "partial"]
  /\ Goto("deleteEndpoints")
  /\ UNCHANGED <<db, running, service, session>>

\* A faulty variant: the rows of endpoint stay.
DeleteEndpoints_Forgotten ==
  /\ pc = "deleteEndpoints"
  /\ Goto("deleteInstance")
  /\ UNCHANGED <<db, machine, session>>

\* A faulty variant: the instance's row is deleted first.
DeleteEndpoints_InstanceFirst ==
  /\ pc = "deleteEndpoints"
  /\ instance' = instance \ {cur}
  /\ named' = named \ {cur}
  /\ endpoint' = endpoint \ EndpointsOf(cur)
  /\ EndRequest
  /\ UNCHANGED <<lastId, package, site, phpDefault, machine>>

DeleteEndpoints ==
  /\ pc = "deleteEndpoints"
  /\ endpoint' = endpoint \ EndpointsOf(cur)
  /\ Goto("deleteInstance")
  /\ UNCHANGED <<lastId, instance, package, named, site, phpDefault, machine, session>>

DeleteInstance ==
  /\ pc = "deleteInstance"
  /\ instance' = instance \ {cur}
  /\ named' = named \ {cur}
  /\ EndRequest
  /\ UNCHANGED <<lastId, package, endpoint, site, phpDefault, machine>>

-----------------------------------------------------------------------------
(* Requests of other controllers that name an instance                     *)

\* SiteController::doAdd and doEdit as far as instances are concerned: store
\* the references, restart the server the site leaves and the one it joins.
SiteSave(s, h, p) ==
  /\ Idle
  /\ site' = [site EXCEPT ![s] = [httpd |-> h, php |-> p]]
  /\ LET old   == site[s].httpd
         first == IF old # Null /\ old # h THEN old ELSE h
         rest  == IF first = h THEN Null ELSE h
     IN  IF first \in instance
         THEN /\ op' = "restart" /\ pc' = "stop" /\ cur' = first /\ also' = rest
              /\ pkg' = Null /\ post' = EmptyPost /\ n' = 0
              /\ abort' = abortSaved /\ UNCHANGED abortSaved
         ELSE UNCHANGED <<request, session>>
  /\ UNCHANGED <<lastId, instance, package, named, endpoint, phpDefault, machine>>

\* SettingsController::save: set('php_default_instance_id', ...)
SettingsSave(d) ==
  /\ Idle
  /\ phpDefault' = d
  /\ UNCHANGED <<lastId, instance, package, named, endpoint, site, machine, session, request>>

-----------------------------------------------------------------------------
(* What cuts a request short, and what the servers do by themselves        *)

\* The steps before which the wizard's progress is printed.
Prints(o) == CASE o = "install"   -> {"download", "unzip", "unzipping", "conf", "initialize",
                                    "start"}
               [] o = "uninstall" -> {"abortCheck", "stop", "deltree"}
               [] OTHER           -> {}

\* The browser is gone: PHP ends the script at its next output.
Disconnect ==
  /\ pc \in Prints(op)
  /\ EndRequest
  /\ UNCHANGED <<db, machine>>

\* The web server itself goes down: nothing of the session is written.
Kill ==
  /\ ~Idle
  /\ NoRequest
  /\ abort' = FALSE
  /\ UNCHANGED <<abortSaved, db, machine>>

\* A server crashes, finishes a shutdown, or is ended under Tools > Processes.
Die(i) ==
  /\ running[i]
  /\ running' = [running EXCEPT ![i] = FALSE]
  /\ UNCHANGED <<db, dir, service, session, request>>

-----------------------------------------------------------------------------

Init ==
  /\ lastId = 0
  /\ instance = {} /\ named = {} /\ endpoint = {}
  /\ package = [i \in Ids |-> Null]
  /\ site = [s \in Site |-> [httpd |-> Null, php |-> Null]]
  /\ phpDefault = Null
  /\ dir = [i \in Ids |-> "absent"]
  /\ running = [i \in Ids |-> FALSE]
  /\ service = [i \in Ids |-> FALSE]
  /\ abortSaved = FALSE /\ abort = FALSE
  /\ op = "none" /\ pc = "idle" /\ cur = Null /\ pkg = Null
  /\ post = EmptyPost /\ n = 0 /\ also = Null

InstallStep == Download \/ PackageAdd \/ SetName \/ UnzipBegin \/ UnzipEnd
               \/ RegisterEndpoint \/ WriteConf \/ Initialize \/ CreateUsers \/ WriteFinalConf

ControlStep == Start \/ StopUnchecked \/ StopNothing \/ StopAndWait \/ WaitDead
               \/ ServiceInstall \/ ServiceRemove

UninstallStep == InUse \/ AbortCheck \/ ClearSites \/ ClearDefault \/ Deltree
                 \/ DeleteEndpoints \/ DeleteInstance

Step == InstallStep \/ ControlStep \/ UninstallStep

Interruption == Disconnect \/ Kill \/ \E i \in Ids : Die(i)

Next ==
  \/ \E p \in Package, pd \in Posts : BeginInstall(p, pd)
  \/ \E i \in Ids, cmd \in Command : BeginControl(i, cmd)
  \/ \E i \in Ids : BeginUninstall(i)
  \/ \E s \in Site, h \in Offered("httpd"), p \in Offered("php") : SiteSave(s, h, p)
  \/ \E d \in Offered("php") : SettingsSave(d)
  \/ Step
  \/ Interruption

Spec == Init /\ [][Next]_vars

\* A script, once started, keeps running (max_execution_time is 0).
FairSpec == Spec /\ WF_vars(Step)

Reg == INSTANCE Registry WITH Claims <- Rows, issued <- lastId, live <- instance, claims <- endpoint

-----------------------------------------------------------------------------
(* Properties                                                              *)

DbTypeOK ==
  /\ lastId \in 0..MaxId
  /\ instance \subseteq Ids /\ named \subseteq instance
  /\ package \in [Ids -> Package \cup {Null}]
  /\ endpoint \subseteq Rows
  /\ site \in [Site -> [httpd : Ids \cup {Null}, php : Ids \cup {Null}]]
  /\ phpDefault \in Ids \cup {Null}

MachineTypeOK ==
  /\ dir \in [Ids -> DirStates]
  /\ running \in [Ids -> BOOLEAN]
  /\ service \in [Ids -> BOOLEAN]

SessionTypeOK == abortSaved \in BOOLEAN /\ abort \in BOOLEAN

RequestTypeOK ==
  /\ op \in Ops /\ pc \in Labels
  /\ cur \in Ids \cup {Null} /\ also \in Ids \cup {Null}
  /\ pkg \in Package \cup {Null} /\ post \in Posts
  /\ n \in Nat /\ (pc = "waitDead" => n < Timeout)

\* Every variable keeps to its domain; in particular the loop counter never
\* passes the poll limit of sleepTillProcessDead.
TypeOK == DbTypeOK /\ MachineTypeOK /\ SessionTypeOK /\ RequestTypeOK

\* Wherever a request is cut, every row of table endpoint belongs to a row of
\* table instance: a port is never blocked (endpointInUse) by an instance the
\* user can no longer see and uninstall.
EndpointsOwned == \A e \in endpoint : e.instance_id \in instance

\* A new instance never meets what an earlier one left behind, although
\* uninstall ignores that deltree, the service removal or the stop failed: until it
\* unpacks its files, its directory does not exist, no process runs from it
\* and no service of its name is registered.
InstallsIntoFreshPlace ==
  pc \in {"name", "unzip"} =>
    dir[cur] = "absent" /\ ~running[cur] /\ ~service[cur]

\* The step that deletes an instance's row leaves no site and no default that
\* refers to it: the count of sites (php), the update of the sites (apache,
\* nginx, php7.4 and later) and the reset of the default all came first.
DeletionLeavesNoReference ==
  [][\A i \in instance \ instance' :
       /\ \A s \in Site : site'[s].httpd # i /\ site'[s].php # i
       /\ phpDefault' # i]_vars

\* A MySQL or MariaDB server never outlives its row: uninstall goes on only
\* when sleepTillProcessDead saw the process gone, and throws otherwise.
DatabaseStoppedBeforeRemoval ==
  \A i \in 1..lastId : i \notin instance /\ Class(package[i]).stop = "shutdown"
                      => ~running[i]

\* Every request ends, also one that waits for a server that does not stop;
\* the next request can only then be served.
RequestsEnd == pc # "idle" ~> pc = "idle"

\* The steps of the requests, wherever they are cut, keep the promise of
\* Registry: ids are never reused, endpoints belong to live instances, and an
\* instance is removed only after its endpoints.
ImplementsRegistry == Reg!RSpec

\* "only once this is set is the instance active and good to go"
\* (classes/instance.php:126): between requests, an instance that has its
\* name has its files and its configuration.
NamedIsGoodToGo == Idle => \A i \in named : dir[i] = "final"

\* "This package is in use by some of your sites and can't be deleted."
\* (classes/instances/php.php): an uninstallation is refused only for a
\* package that is in use.
RefusedOnlyInUse ==
  pc = "abortCheck" /\ abort => \E s \in Site : site[s].php = cur
=============================================================================
