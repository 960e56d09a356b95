# A TLA+ model of the Wamp.NET manager

Wamp.NET runs web servers, PHP versions and databases on a Windows machine. Its
own logic is the *manager* (`src/manager/app`), a PHP application that the
launcher `Wamp.NET.exe` serves with PHP's built-in web server on localhost.
Everything else in the repository is bundled binaries, their data, and mail.
This directory models the manager, checks it with TLC and proves the main
results with TLAPS.

## 1. The system

| Part | State it keeps | Operations | Hard about it |
|---|---|---|---|
| Instance life cycle (`classes/instance.php`, `package.php`, `InstanceController`, `PackageController`) | rows of `instance` and `endpoint`, a directory `bin\<name>`, a process, a Windows service | install, uninstall, start, stop, restart, serviceInstall, serviceUninstall | many steps without a transaction, results ignored, requests that end in the middle |
| Instance classes (`classes/instances/*.php`) | their configuration files | override the steps above | different ways to stop; databases are run once during installation; waits with a time limit |
| Wizard (`postVerify`, `preUninstall`, `views/wizard.php`) | `$_SESSION['pdata']`, `$_SESSION['wizard']`, the URL in an open page | verify, show the page, run its URL | check and use are two requests apart; tabs share the session |
| Endpoint test (`Util::endpointInUse`) | none | is a port taken on an interface | 0.0.0.0 matches everything |
| Sites (`classes/site.php`, `SiteController`) | rows of `site` and `alias`, virtual host files, hosts entries, certificates | add, edit, delete | refers to instances; several files and tables change together |
| Hosts file (`classes/hosts.php`) | the system's hosts file | add, remove, save | rewritten as a whole; failures are silent |
| Download cache and unpacking (`installer.php`, `downloader.php`, `unzipme.php`) | `<package id>.zip`, the unpacked files | download, unzip | corrupt files, silent deletion |
| Store synchronisation (`UpdateController`) | tables `vendor`, `package` | sync | replaces tables row by row |
| Settings (`SettingsController`) | table `conf`, junctions, PATH | save | refers to instances |
| Benchmarks (`tools/BenchmarkController`) | table `benchmark`, output and pid files | create, list, delete, clear | a background process against the page |
| Web applications (`instances/wordpress.php` etc.) | files in a site, a database | install | no cleanup on failure; check and use two requests apart |
| Certificates (`classes/ca.php`) | key and root certificate of the authority, the system's trusted roots, a certificate per site | construct, generate | two files and two commands that belong together |
| Database layer, validation, routing, cache, notifications, mail, tools | little or none | | |

How the parts interact: a controller `require`s the class file of a package and
calls a method of it; the method writes to SQLite, runs commands and streams its
progress to the browser. Sites and settings refer to instances by id and restart
them through `Package::control`. The session carries data from one request to
the next.

What makes concurrency here: PHP's built-in server takes **one request at a
time**, so two requests never overlap. But a request is many steps, and it may
end between any two of them: PHP ends a script at its next output when the
browser has gone (`Disconnect`), an exception ends it, and the user can close
the launcher (`Kill`). Between requests, the requests of other tabs come in any
order. The servers are processes of their own and may die at any time (`Die`).

What makes each part correct:

* life cycle: endpoints belong to existing instances; ids (and with them
  directory and service names) are never reused; an uninstalled instance is not
  referred to and, where the code waits for it, not running; requests end;
* wizard: what was checked still holds when it is used; an installation reads
  its own form;
* sites: a save that is announced is in the tables, the virtual hosts, the
  running server and the hosts file alike; no cut leaves a name in the hosts file
  that no site accounts for, and no name leads to two servers; a request takes
  only lines of the names of sites;
* downloads: only an archive with the right hash is unpacked;
* store: a synchronisation that was cut is not taken for complete, and a lost one
  is made good by the next; the catalogue never goes back; an instance keeps its
  class;
* benchmarks: a stored result is whole and the row's own, and none is lost or
  taken back;
* web applications: what was there when the form was tested is neither
  overwritten nor taken for a new database;
* certificates: key and root match, a root is not replaced, a saved site's issuer
  is the trusted root;
* settings: console, page and PATH agree; the user's own PATH is kept.

## 2. Modules

| Module | Models | Depends on |
|---|---|---|
| `Drivers` | the 18 instance classes, one record each | |
| `Instances` | the life cycle: the core | `Drivers`, `Registry` (as abstract specification) |
| `Registry` | what the tables `instance` and `endpoint` promise | |
| `Endpoints` | `Util::endpointInUse` | |
| `Wizard` | the session and the browser tabs | `Instances` (extends), `Endpoints` |
| `HostsFile` | class `Hosts`: what add and remove do to lines | |
| `Sites` | create, update, delete of a site; the page of the hosts file | `HostsFile` |
| `Store` | synchronisation, upload, download cache | `Replica` (as abstract specification) |
| `Replica` | what the tables `vendor` and `package` and the stored hash promise | |
| `Benchmarks` | the benchmark page and its background processes | `Results` (as abstract specification) |
| `Results` | what the list of benchmarks promises | |
| `WebApps` | installing an application into a site | |
| `Certificates` | class `CA` | |
| `Settings` | defaults, junctions, PATH, the PATH editor | |
| `MCInstances`, `MCWizard`, `MCSites`, `MCStore`, `MCWebApps`, `MCSettings` | modules TLC runs, where a cfg cannot write a constant | |
| `InstancesProofs`, `WizardProofs`, `SitesProofs`, `StoreProofs`, `BenchmarksProofs`, `WebAppsProofs`, `CertificatesProofs`, `SettingsProofs` | theorems about the module they are named after | that module |

**Drivers.** A class file is abstracted to what the life cycle depends on: its
endpoints, whether `verify()` compares the ports, the style of `stop()`, whether
the server is run during installation, what `uninstall()` counts and clears.

**Instances.** The variables are the columns of `manager.db` that matter
(`lastId` is `sqlite_sequence`), the state of the machine (`dir`, `running`,
`service`), the session's `installer_abort`, and the request being served: a
command `op`, a program counter `pc`, and the variables of the PHP objects
(`cur` is `$this->instance_id`). An action is one step whose effect another
observer can tell: one SQL statement, one file operation, one command. The
actions of `InstallStep`, `ControlStep` and `UninstallStep` follow the PHP
methods from top to bottom; where a class differs, the action asks the driver's
record. Where the code ignores a result, the action has both outcomes:

* `Start`: the server may or may not come up; nobody looks.
* `StopUnchecked`, `StopAndWait`: the server may still be there.
* `WaitDead` is one poll of `sleepTillProcessDead`; after `Timeout` polls it throws.
* `Initialize`: the program that creates a data directory may hang; the wait throws.
* `UnzipEnd`: files may be missing. `Deltree`: files in use stay.
* `ServiceInstall`, `ServiceRemove`: may fail.

`dir` abstracts a directory to absent, partial, files, interim, final. What else
a form holds goes only into configuration texts and is left out.

`SiteSave` and `SettingsSave` are the requests of other controllers that store
references to instances. They may store any id that was ever offered
(`Offered`), because a form can be older than an uninstallation.

**Wizard.** A tab is at home, redirected to `/wizard`, or on a wizard page that
holds a URL. `Verify` and `PreUninstall` write `pdata` and `wizard` into the
session, `ShowWizard` renders the page and clears `wizard`, `RunWizard` requests
the page's URL, which starts a request of `Instances` with the `pdata` the
session holds *then*. That `netstat` may report more ports busy only makes
`verify()` refuse more, so it is left out of `Accepts`.

**The other modules** are built alike: a request is a record `req` with a program
counter and the variables of the PHP methods, one action per statement, file or
command, and requests do not overlap. What else happens is part of every run: a
kill between any two steps (`Kill`), pages and forms that are older than what they
name, files that cannot be written or deleted, answers that are lost. Where the
code does not withstand one of these, the property names the exact exception, if
need be by a history variable that records it, and section 5 lists it. `Sites` and
`Benchmarks` count the cuts and failures (`faults`) to bound them.

* **Sites.** `site`, `alias` are the tables; `vhost` maps a server and a domain
  to the names and the certificate its files were made from; `changed` are the
  servers that have not been restarted since. `RemoveHosts` ... `RestartServer`
  follow `Site::update`; `create` enters at `InsertSite`, `delete` leaves through
  `DeleteRow`. A domain that is gone reads as null, as `getById` answers false. A
  line of the hosts file is what the pattern of `Hosts::remove` looks at: has it an
  address, is the address followed by more than one blank, and which name is next.
  `Under` says which domains' files the pattern `<domain>.*` matches besides its
  own. `Uninstall(h, stage)` is the uninstallation of `Instances` as far as it got.
  `ShowHosts` and `PostHosts` are the page of the hosts file: `page` is the text in
  a tab, which is posted over the file at any later time. Writing the hosts file or
  the virtual host, deleting files and restarting a server fail without anybody
  noticing; `req.failed` holds the steps of the running request that did, and
  `leftover` the lines a failed writing has left in the hosts file or an old text
  has brought back. `Hosts::add` ignores `localhost` (`Addable`), `Hosts::remove`
  does not.
* **Store.** A catalogue of the store is a version number; its content is the
  constant `Catalogue`. `Sync` runs to `DELETE FROM vendor`, then one action per
  row. `cache` is the download directory. The hash of an archive stands for its
  content, so that comparing the two is `sha1_file`. `inst` records what was
  unpacked for what. The loose comparison of `sync()` makes a failed transfer
  equal to a stored hash of null. `kept` marks an instance whose cached archive was
  wrong and could not be deleted, `spoiled` a synchronisation that was cut after an
  unreadable answer.
* **Benchmarks.** `pid` and `txt` are the files, `proc` the processes the system
  runs between and during requests. `Partial` is a text still being written.
  `data` is the one file all of them post from; `unwritten` are the benchmarks whose
  data could not be written, of which nobody is told.
* **WebApps.** `Verify`, `ShowWizard`, `Install` are the three requests of the
  wizard; `pdata` is read from the session in the third one. Any number of tabs
  share the session, and the site is edited from other tabs in between. A directory
  is a sequence of parts, so that the stripping of `public` is what it is in the
  code. Files and databases carry the number of the installation they are from;
  `since` and `seen` record how many there had been, and what the document root was,
  when the form in the session was tested.
* **Certificates.** A key pair is a number, a certificate the number of its
  issuer. `Sign` yields nothing if key and root do not belong together. The two
  commands of `updateTrustedRoot` may fail, which is not looked at; `req.failed`
  holds the ones that did when they were last run.
* **Settings.** `Kinds` is the order in which the code handles PHP, MySQL and
  PostgreSQL. A junction for an instance without row leads to `Bin`. `InFront` is
  what a save does to PATH for one of them: put its entry in front unless it is
  there already. If PATH cannot be read (`shell_exec` yields nothing), it becomes the
  junctions alone; `lost` records that PATH or the text in the editor stems from that.

**The abstract specifications** say what a part promises, without the steps that
keep it.

* **Registry** is the tables of the life cycle: an instance is added with a new id,
  gets and loses endpoints, and goes for good.
* **Replica** is a copy of a catalogue that grows: it is taken apart only while it
  claims nothing current or is openly in doubt, and its claim is raised only over a
  copy that is whole, to a newer version. `Store` implements it with `claim` the hash
  in `conf`, `whole` the catalogues all of whose rows are in the tables (`Whole`), and
  `doubt` an answer that could not be read (`InDoubt`).
* **Results** is a list of jobs: a number of its own for each, a result only after
  the end, and none taken back while the row is there. `Benchmarks` implements it
  with `shown` the rows whose `raw` holds a text.

## 3. Runs

| Run | Checks | Shows |
|---|---|---|
| `classes` | `TypeOK`, `DatabaseStoppedBeforeRemoval`, `RequestsEnd` | all 18 classes with bootstrap, waits, services and all commands; liveness: every request ends |
| `wizard` | `WTypeOK`, `EndpointsExclusive`, `InstallReadsItsOwnForm`, `EndpointsOwned`, `InstallsIntoFreshPlace`, `DeletionLeavesNoReference`, `ImplementsRegistry` | Apache, PHP and a site behind the wizard of one tab: the check of `verify()` still holds at `install()`, and wherever requests are cut, nothing of one instance harms another; the steps implement `Registry` |
| `sites` | `SitesTypeOK`, `OneAddressPerName`, `AnnouncedIsServed`, `AnnouncedIsGone`, `FatalSaveHeals` | a site with an alias, also one named localhost, created, renamed, moved between two servers and deleted, with old pages of sites, uninstallations, and a cut, a failed writing, deletion or restart anywhere |
| `hosts_file` | `NoOrphanHosts`, `TakesOnlySiteNames` | the same on one server, with a tab that shows the hosts file and posts the text back at any later time; the user has lines for the names of sites |
| `store` | `StoreTypeOK`, `OnlyGenuineUnpacked`, `InstancesKeepTheirClass`, `HashMeansComplete`, `ImplementsReplica`, `SyncHeals` | publishing, synchronising, uploading and installing with cuts anywhere, lost and unreadable answers, files that cannot be deleted; the steps implement `Replica`; liveness: the next answer makes good what was lost |
| `benchmarks` | `BenchmarksTypeOK`, `ResultIsOwn`, `ResultNotLost`, `NeverPostsOlderData`, `ImplementsResults`, `FinishedIsShown` | processes against the list page, kills, crashes, deletions, data files that cannot be written; the steps implement `Results`; liveness: every run that ends is shown |
| `apps` | `WebAppsTypeOK`, `NothingOverwritten`, `DatabaseAsVerified` | two tabs that share the session, installations cut and tried again, a site edited or deleted at any time between form and installation, a database server that stops |
| `certificates` | `CertificatesTypeOK`, `PairMatches`, `SavedIsTrusted`, `RootKept` | saves cut between any two files or commands, commands of certutil that fail, files removed by hand |
| `settings` | `SettingsTypeOK`, `JunctionIsDefault`, `PhpDefaultExists`, `PathKept` | every choice of defaults, old pages, uninstallations, cuts, a PATH that cannot be read, the PATH editor |
| `wizard_two_tabs` | `EndpointsExclusive`, violated | two tabs: two instances get the same endpoint |
| `good_to_go` | `NamedIsGoodToGo`, violated | a named instance without files |
| `refused` | `RefusedOnlyInUse`, violated | a leaked `installer_abort` cancels an unrelated uninstallation |

The three violations are disagreements between the code and what it says of
itself:

1. `wizard_two_tabs`. "Port already assigned or in use." (`apache.php:46`) is
   checked when the form is posted and never again. Tab 1 posts a form for a
   port, tab 2 posts one for the same port, both are accepted, both are
   installed.
2. `good_to_go`. "only once this is set is the instance active and good to go"
   (`instance.php:126`): the name is set before the files are unpacked. A
   request that ends there leaves a named instance that cannot start.
3. `refused`. A refused uninstallation leaves its mark in the session if the
   browser goes away before `instance.php:160`; the next uninstallation, of a
   package that no site uses, ends without doing anything or saying why.

**Bounds.** `MaxId` (instances ever created) is 2 in `wizard`, where two instances
must meet; an id that was used and retired plus a new one are enough for every
property that relates instances, since each relates two. It is 1 in `classes` and
`good_to_go`, whose properties speak of one instance, so that `classes` can have
every class and command; that the second server of a site that moves is restarted as
well is in `wizard`, and adds the steps of one more restart to the request. `Timeout`
is 1 or 2 instead of 10: the loop is entered, repeated and left on both sides. Two
ports and interfaces, one of them 0.0.0.0, give all cases of the endpoint test. The
only command in `wizard` is stop: web servers run when a site of theirs is saved.
Symmetry is not used: ids are ordered.

In the other modules: `sites` and `hosts_file` have one site (`MaxSite` 1), two names
of which one is a prefix of the other and is `localhost`, an alias, one cut or
failure (`MaxFaults` 1), which may fall anywhere in a history of any length, and two
lines of the user's for these two names, one with a single and one with several
blanks. `sites` has two servers of different addresses and no page of the hosts file
(`Page` {}), `hosts_file` one of each: both together are beyond TLC's reach, and the
theorems cover them. All properties of the two also hold with two sites on one server
and no such page (`MaxSite` 2, `Server` {s1}: 2.3 million states). `store` has two
catalogues, of which the second changes one archive and adds a package, `MaxInstance`
2, and `MaxPackage` 3, which leaves room for an upload beside the store's ids;
`MaxBenchmark` 2 and `MaxFaults` 3, so that one is deleted while another runs and a
kill and crashes follow each other; `apps` has two tabs and `MaxRun` 2, so that an
installation falls between the form and the installation of the other tab, or is cut
and tried again, with two names of databases; `MaxKey` 4 key pairs, one more than the
ways of losing one; two instances of PHP so that a default changes, and a PATH of the
user's in which an entry occurs twice.

**Fairness.** `FairSpec` assumes weak fairness of `Step`: a PHP script, once
started, keeps running, because `max_execution_time` is 0 under the command
line interface and the commands it executes return. Nothing is assumed of the
user, of the servers (a server need never stop: that is why the poll limit is
needed) or of interruptions.

`Store!FairSpec` assumes that the user keeps synchronising and that the store
answers every now and then (`SF` of `SyncAnswered`: the transfers that fail come
between), and that requests run on. `Benchmarks!FairSpec` assumes that requests
and background processes run on and that the list page is opened again and again
(`SF` of `Index`, since it competes with other requests). Of kills and crashes it
is only known that there are finitely many.

**Deadlock** is checked in every run.

## 4. Theorems

TLAPS proves the theorems below for every value of the constants that satisfies
the named assumptions: all packages, interfaces, ports, sites, names, tabs,
catalogues, poll limits, and any number of instances, rows and faults.

| Theorem | States |
|---|---|
| `InstancesProofs!TypeCorrect` | `Spec => []TypeOK` |
| `InstancesProofs!EndpointsAlwaysOwned` | `Spec => []EndpointsOwned` |
| `InstancesProofs!FreshPlace` | `Spec => []InstallsIntoFreshPlace` |
| `InstancesProofs!RegistryImplemented` | `Spec => ImplementsRegistry` (refinement) |
| `InstancesProofs!RegistryConsistent`, `IdsNeverReused` | what the abstract registry guarantees, and so the tables |
| `InstancesProofs!DatabasesStopped` | `Spec => []DatabaseStoppedBeforeRemoval` |
| `InstancesProofs!NoReferenceLeft` | `Spec => DeletionLeavesNoReference` (action property) |
| `WizardProofs!WizardTypeCorrect` | `WSpec => []WTypeOK` |
| `WizardProofs!SafeBehindAnyTabs` | the safety theorems of `InstancesProofs` hold of `WSpec` too, with any number of tabs |
| `WizardProofs!ExclusiveInOneTab` | with one tab, `WSpec => []EndpointsExclusive` |
| `WizardProofs!OwnFormInOneTab` | with one tab, `WSpec => []InstallReadsItsOwnForm` |
| `SitesProofs!SitesTypeCorrect` | `Spec => []SitesTypeOK` |
| `SitesProofs!NeverOrphanHosts` | `Spec => []NoOrphanHosts` |
| `SitesProofs!SavedIsServed`, `DeletedIsGone` | `Spec => []AnnouncedIsServed`, `Spec => []AnnouncedIsGone` |
| `SitesProofs!FatalSaveAlwaysHeals` | `Spec => []FatalSaveHeals` |
| `SitesProofs!NameHasOneAddress` | `Spec => []OneAddressPerName` |
| `SitesProofs!TakesNoOtherNames` | `Spec => TakesOnlySiteNames` (action property) |
| `StoreProofs!StoreTypeCorrect` | `Spec => []StoreTypeOK` |
| `StoreProofs!OnlyGenuine` | `Spec => []OnlyGenuineUnpacked` |
| `StoreProofs!ClassesKept` | `Spec => []InstancesKeepTheirClass` |
| `StoreProofs!HashNeverLies` | `Spec => []HashMeansComplete` |
| `StoreProofs!ReplicaImplemented` | `Spec => ImplementsReplica` (refinement) |
| `StoreProofs!ReplicaConsistent`, `NeverRolledBack` | what the abstract copy guarantees, and so the tables and the hash |
| `BenchmarksProofs!BenchmarksTypeCorrect` | `Spec => []BenchmarksTypeOK` |
| `BenchmarksProofs!ResultAlwaysOwn`, `ResultNeverLost` | `Spec => []ResultIsOwn`, `Spec => []ResultNotLost` |
| `BenchmarksProofs!OlderDataNeverPosted` | `Spec => []NeverPostsOlderData` |
| `BenchmarksProofs!ResultsImplemented` | `Spec => ImplementsResults` (refinement) |
| `BenchmarksProofs!ListConsistent`, `ResultShownForGood` | what the abstract list guarantees, and so the page |
| `WebAppsProofs!WebAppsTypeCorrect` | `Spec => []WebAppsTypeOK` (any number of tabs) |
| `WebAppsProofs!NeverOverwrites` | `Spec => []NothingOverwritten` (any number of tabs) |
| `WebAppsProofs!DatabaseStaysAsVerified` | `Spec => []DatabaseAsVerified` (any number of tabs) |
| `CertificatesProofs!CertificatesTypeCorrect` | `Spec => []CertificatesTypeOK` |
| `CertificatesProofs!PairAlwaysMatches`, `SavedAlwaysTrusted` | `Spec => []PairMatches`, `Spec => []SavedIsTrusted` |
| `CertificatesProofs!RootNeverReplaced` | `Spec => RootKept` (action property) |
| `SettingsProofs!SettingsTypeCorrect` | `Spec => []SettingsTypeOK` |
| `SettingsProofs!JunctionAlwaysDefault`, `PhpDefaultAlwaysExists` | `Spec => []JunctionIsDefault`, `Spec => []PhpDefaultExists` |
| `SettingsProofs!PathAlwaysKept` | `Spec => []PathKept` |

**Assumptions on the constants.** Most only give bounds a number and keep null
values apart from others (`PackageAssumption`, `CommandAssumption`,
`TimeoutAssumption`, `MaxIdAssumption`, `NullAssumption` in `Instances`;
`SiteBoundAssumption`, `UnderAssumption`, `AddressAssumption`, `ServerAssumption`
in `Sites`; `BenchmarkBoundAssumption`, `AppsAssumption`,
`CertificatesAssumption`, `SettingsAssumption`; `UserPathAssumption`, which says no
more than that the user's PATH is a list; `UserLinesAssumption`, that no line of the
user's hosts file is for an empty name or an alias of one). Two say something of the
world:

* `PermanentIdsAssumption` (`Store`): the store gives an id to one package for good
  and withdraws a package by its column `disabled`. `InstancesKeepTheirClass` rests
  on it; the code in the repository takes it for granted.
* `RowsAssumption`, `CatalogueAssumption` (`Store`): every row has the columns the
  code reads, and the first catalogue, which the manager is distributed with, is
  not empty.

**The arguments.**

* `IInv` (`InstancesProofs`) strengthens `TypeOK` by what the position in a
  request implies: a request past `Package::add` works on an instance that has
  a row (`PcInv`), ids beyond `lastId` have never touched the machine
  (`LiveInv`, `FreshInv`), and the last `DELETE` finds no endpoints
  (`OwnedInv`). Without `PcInv` a row of `endpoint` could be added for an
  instance that is gone; without `FreshInv` nothing is known of the next id.
  `DriverShape` is all that is used of the 18 classes.
* `UInv` (`InstancesProofs`) carries what earlier steps of an uninstallation
  established to the deletion: a dead server (`StoppedInv`), no site
  (`UnusedInv`, from the count for PHP and from the update for web servers), no
  default. `RoleInv` says that the two columns of `site` refer to instances of
  the right kind, which is why a web server need not look at the PHP column.
* `SInv` (`WizardProofs`) carries the accepted form along the redirection, the
  page and the request until the endpoints are registered. It needs that no
  other installation or uninstallation runs meanwhile, which is what a single
  tab gives and two tabs do not.
* `SitesInv` (`SitesProofs`) follows a request step by step. The heart of
  `NoOrphanHosts` is `OrphanInv`: from the removal of the names until the rows
  are changed (`Changing`), every line left in the hosts file is accounted for by
  *another* site, so that overwriting or deleting the rows orphans nothing; names
  are put in when the rows are stored. A failed writing is covered because the lines
  it should have taken out are in `leftover`, an old text of the page because the lines
  it brings back are. `StoredInv`, `AliasInv`, `FilesInv` and `SetInv` say what has
  been stored, written and put in by each position, each unless its step is in
  `req.failed`, and give `AnnouncedIsServed`; `GoneInv` gives `AnnouncedIsGone`. For a
  site whose row is gone the address is empty, so the lines written for it are
  nobody's. `OneAddressPerName` needs `TextInv`: it holds of the file and of the text in
  every tab, which may be posted; `Hosts::add` takes out a name before it puts it in
  (`AddedText`), the pages copy whole texts, and nothing else adds lines
  (`OnlyTheseWriteHosts`). `TakesOnlySiteNames` rests on `StoredInv`, by which the names
  a request removes are those the tables still hold when it removes them, and on
  `RemovedLines`: only an empty name matches lines of other names, and those that match
  have two blanks.
* `StoreInv` (`StoreProofs`): `SyncInv` says which rows a running synchronisation
  has put in, and that it runs on a usable answer only while the stored hash is
  out of date; hence a hash that is the store's stands for complete tables
  (`HashInv`). `InstallInv` keeps what the two hash checks have established until
  the archive is unpacked. `RowsInv` and `InstInv` say that ids of packages are
  not given again to another class, uploads excepted. The refinement of `Replica`
  needs one more part of `SyncInv`: the answer being worked on is newer than the hash
  that is stored, so that `SetHash` raises the claim and no step of a synchronisation
  takes rows from under a current one. Kills are stutters or, after an unreadable
  answer, leave the copy in doubt.
* `BenchInv` (`BenchmarksProofs`): a `.pid` file is there from before the start of
  a process until its text is whole (`FilesInv`), so the page, which works only
  on ids without one (`PageInv`), reads and deletes only whole texts. `DataInv`
  bounds how old the shared data file can be, for those whose
  data was written. The refinement of `Results` needs
  `EndInv`: a text without `.pid` file belongs to a process that has ended, and a
  process is started once, so that only ended jobs get a result and only once.
* `AppsInv` and `TestedInv` (`WebAppsProofs`): what the two tests of `verify()` found
  of the form in the session holds of everything older than the test, in every state
  from the posting of the form to its use; whatever tab runs the installation, it is
  counted after the test and so are the files and databases it and all later ones
  make. A form posted by another tab replaces form and test together.
* `CertInv` (`CertificatesProofs`): a root is never without the key it was made with
  (`RootHasKey`), hence a new key is only made where there is no root; `RootKept`
  follows step by step. `PcInv` says what the two commands have left in the store of
  roots unless they failed; as a save runs both again after signing, failures of the
  constructor or of earlier saves do not matter.
* `SetInv` (`SettingsProofs`): all junctions are removed before the first is made,
  so that `mklink` never meets one (`SaveInv`); while default and junction of PHP
  agree, they lead to an instance that exists, also in the middle of requests
  (`PhpInv`). `PathInv` is `KeepsUserPath` of PATH and of the text in the editor: it ends
  with the user's entries, and what is in front of them are junctions, none twice,
  unless `lost` says that the text stems from a PATH that could not be read; either may
  be lost without the other.
  `InFrontPlaces` and `InFrontKeeps` say where `InFront` puts each entry, and that
  this survives it; neither needs an induction.

Every invariant was checked with TLC on the configurations of the runs before it
was proved.

**Only model-checked:** `RequestsEnd`, `SyncHeals` and `FinishedIsShown`, because
liveness under fairness is beyond the prover. The violated properties are shown by
their counterexamples.

## 5. What is not modelled

* The texts of configuration files, labels, data directories and passwords.
* Windows starting a registered service by itself (at boot) after its instance
  was uninstalled and the removal of the service had failed.
* The loop of `UnzipMe` over the entries of an archive: unpacking is one step that
  yields all, part or nothing of the files.
* The draw of the two temporary ports of MySQL 8 (`getFreeLocalTCPPort`). In it,
  `continue` evaluates a condition on a variable that is not set yet, so that the
  excluded port is returned when it is the first one drawn; the server then does not
  come up, which is an outcome of `Start`.
* `UpdateController::update`, which executes PHP code it has just downloaded.
* `str_replace('\\public', '')` inside a longer name (`\publications`).
* The database layer, validation, routing and HTML, which keep no state that a
  property depends on; mail, the folder and process pages.
* The launcher, a binary, and everything under `bin/` and `tools/`: distributions
  of other projects (MariaDB, Apache and so on, with the header files they ship,
  which are most of the C code in the repository). They are no part of the
  manager; what they do to processes, ports and files are external actions.

What the properties leave out, each a behaviour of the code:

* With two tabs, both forms of an application can be accepted for the same directory
  or the same new database. The second installation goes over the first, or shares its
  database, since its failing `CREATE DATABASE` is not noticed (`qdb.php:78`). What was
  made since the test is the exception in `NothingOverwritten` and
  `DatabaseAsVerified`.
* A site edited between the posting of the form and the installation has another
  directory filled than was tested; `NothingOverwritten` is about the one tested.
* An application is announced without its database when the server has stopped
  since the form was posted. `DatabaseAsVerified` is about the name alone.
* A document root that ends in `public` is tested, its parent is filled
  (`instance.php:71`), and files whose names begin with a dot are not seen
  (`util.php:264`): the exceptions in `NothingOverwritten`.
* A site that is renamed leaves its old virtual host files on the server; two sites
  can get one name by editing (`SiteController.php:76`, `site.php:215`); deleting
  site a takes the files of a.b from the same server (`site.php:160`). With two
  sites all three happen in the model, so no property says otherwise.
* Saving or deleting a site that is gone already removes lines of the hosts file
  whose address is followed by two blanks (`hosts.php:45`): the exception in
  `TakesOnlySiteNames`.
* A site named `localhost` takes the user's own line for that name when it is saved or
  deleted (`site.php:121`, `site.php:187`), and `Hosts::add` puts none in its place
  (`hosts.php:25`); a line of the user's for the name of any other site is replaced.
  `TakesOnlySiteNames` allows both, and says that it takes a site of that name.
* A site is announced although the hosts file or its virtual host could not be written
  (`hosts.php:56`, `site.php:404`), files of the server it left could not be deleted
  (`util.php:78`), or a restart failed: `req.failed` in `AnnouncedIsServed` and
  `AnnouncedIsGone`. Lines that stay for that reason are `leftover`. That only some of
  the files of a virtual host can be written is not modelled.
* A page of the hosts file that was rendered before a site was deleted brings its names
  back when it is posted (`HostController.php:20`): `leftover`, too. Other changes the
  user makes to the text in the page are not modelled.
* A name is a domain and an alias, so `www.a` as a domain and as the alias `www` of `a`
  are different names in the model.
* A corrupt archive in the cache that cannot be deleted is unpacked
  (`installer.php:61`): the exception `kept` in `OnlyGenuineUnpacked`.
* A failed synchronisation empties the tables and is announced as a success
  (`UpdateController.php:49`); `SyncHeals` says that the next one repairs them. If it
  is cut while the manager is in sync, they stay empty until the store publishes
  again: the exception `spoiled`.
* An instance of an uploaded package changes its class when the store gives the id
  to another package: `InstancesKeepTheirClass` is about the store's packages.
* A process that takes longer than 100 ms to start may post a later form's data; a
  crash of the machine leaves a benchmark that never ends and cannot be deleted.
* A data file that cannot be written is not noticed (`BenchmarkController.php:80`): the
  process posts what the file held before. `unwritten` in `NeverPostsOlderData`.
* A site is saved although `certutil` failed (`ca.php:68`, `ca.php:69`): its issuer is
  then not trusted, or not the only root of that name. `req.failed` in
  `SavedIsTrusted`. Failed writings of `ca.key` and `ca.crt` are not modelled.
* If only `ca.key` is deleted by hand and the next save is cut after writing the
  new one, key and root differ for good.
* A save of the settings that is cut leaves junctions and defaults different until
  the next one; uninstalling the default MySQL or PostgreSQL leaves its junction. The
  uninstallation is one step in `Settings`; its cuts are in `Instances`. `rmdir` and
  `mklink` do what they are asked for where the path allows it; other failures of them
  are not modelled.
* When PATH cannot be read (`SettingsController.php:70`), the save leaves the junctions
  alone in it: `lost` in `PathKept`. An empty text in the editor is not posted.

## 6. Plan

Every safety property and every refinement that a run checks is a theorem. What is
left:

1. An abstract specification for `Sites`, as there is one for `Instances`, `Store`
   and `Benchmarks`: a table of names that the hosts file follows.
2. Lemmas about `HostsFile` and `Endpoints` on their own (removing twice is removing
   once, the endpoint test is symmetric); so far they are stated where a theorem
   needs them.
