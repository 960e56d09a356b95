------------------------------- MODULE Sites -------------------------------
(***************************************************************************)
(* Creating, changing and deleting a site (classes/site.php,               *)
(* controllers/SiteController.php), with everything that has to change     *)
(* together: the rows of site and alias, the certificate and virtual host  *)
(* files in the directory of the web server, the hosts file, the restart.  *)
(*                                                                         *)
(* As in Instances a request is a program counter, one step per statement, *)
(* file or command.  Of the web servers only their row, their directory    *)
(* and the restart matter here; an uninstallation is one action with the   *)
(* places where it may be cut, see Instances for its steps.  Requests do   *)
(* not overlap, but forms and links of pages loaded earlier are used after *)
(* other requests, so an edited or deleted site and a chosen web server    *)
(* may be gone.                                                            *)
(***************************************************************************)
EXTENDS Naturals, FiniteSets

CONSTANTS
  Name,        \* domain names a form is posted with
  Under,       \* <<n, m>>: the files of domain m match the pattern n.*
  Localhost,   \* the domain name that is never put into the hosts file
  Alias,       \* aliases a form is posted with
  Server,      \* web servers, by instance id
  Page,        \* tabs with the page that edits the hosts file
  address,     \* endpoint.interface of a server, 127.0.0.1 for 0.0.0.0
  UserLines,   \* lines of the hosts file that are the user's own
  MaxSite,     \* bound: how many sites are ever created
  MaxFaults,   \* bound: how many cuts and failed writings there are
  Null         \* SQL null / no value

ASSUME SiteBoundAssumption == MaxSite \in Nat /\ MaxFaults \in Nat
ASSUME UnderAssumption == Under \subseteq Name \X Name
ASSUME AddressAssumption == \A s \in Server : address[s] # Null
ASSUME ServerAssumption == /\ Null \notin Server /\ Null \notin Name /\ Null \notin Nat
                           /\ Null \notin Name \X (Alias \cup {Null})
\* The user's own lines are for any names, those of sites too, but never for an
\* empty name, nor for an alias of an empty name.
ASSUME UserLinesAssumption ==
  \A l \in UserLines : l.host # Null /\ \A a \in Alias : l.host # <<Null, a>>

VARIABLES
  lastSite,  \* sqlite_sequence of table site
  site,      \* table site: id -> name, server, names in the certificate
  alias,     \* table alias: <<site_id, alias>>
  live,      \* servers that have a row in table instance
  vhosts,    \* servers whose directory conf\vhosts exists
  vhost,     \* <<server, domain>> -> content of its files, for those there are
  changed,   \* servers whose files have changed since they were restarted
  hosts,     \* lines of the hosts file
  page,      \* the text in each tab with the page /tools/hosts
  leftover,  \* history: lines of hosts that a failed writing has left there or
             \* that an old text posted from such a page has brought back
  faults,    \* how many cuts, failed writings and failed restarts there were
  req        \* the request being served

tables == <<lastSite, site, alias>>
files  == <<vhosts, vhost, changed>>
hostsFile == <<hosts, page, leftover>>
svars  == <<tables, live, files, hostsFile, faults, req>>

H == INSTANCE HostsFile WITH NoAddress <- Null, NoHost <- Null

SiteIds == 1..MaxSite

\* A posted form.  -1 for the server is null.
Form == [name : Name, aliases : SUBSET Alias, httpd : Server \cup {Null}]
NoForm == [name |-> Null, aliases |-> {}, httpd |-> Null]

\* getById of a site that is gone answers false, whose fields read as null.
Row(s) == IF s \in DOMAIN site THEN site[s] ELSE [name |-> Null, httpd |-> Null, cert |-> {}]

AliasesOf(s) == {a \in Alias : <<s, a>> \in alias}

\* <alias>.<domain>; the domain itself is the one without alias.
Host(name, a) == IF name = Null /\ a = Null THEN Null ELSE <<name, a>>
HostsOf(name, aliases) == {Host(name, Null)} \cup {Host(name, a) : a \in aliases}

\* The names Hosts::add does not ignore.
Addable(h) == h # Host(Localhost, Null)

Idle == req.op = "none"
NoRequest == [op |-> "none", pc |-> "idle", id |-> Null, form |-> NoForm,
              old |-> [name |-> Null, httpd |-> Null, cert |-> {}], todo |-> {}, failed |-> {}]

Goto(label) == req' = [req EXCEPT !.pc = label]
EndRequest == req' = NoRequest

Fault == faults < MaxFaults /\ faults' = faults + 1

\* The step fails and nobody is told: the request goes on.
Silently(label) == Fault /\ req' = [req EXCEPT !.pc = label, !.failed = @ \cup {req.pc}]

\* `require` of a class file for an instance that has no row: a fatal error.
\* Otherwise the server loads its files, unless a stop or a start fails, which
\* nobody looks at (see Instances).
Restarted(s, label) ==
  \/ s \in live /\ Goto(label) /\ changed' = changed \ {s} /\ UNCHANGED faults
  \/ s \in live /\ Silently(label) /\ UNCHANGED changed
  \/ s \notin live /\ Goto("fatal") /\ UNCHANGED <<changed, faults>>

-----------------------------------------------------------------------------
(* The three requests and their first step                                 *)

\* Site::exists: SELECT COUNT(*) ... == 1
exists(name) == Cardinality({s \in DOMAIN site : site[s].name = name}) = 1

\* A page loaded earlier may name a site that is gone since; of the servers it
\* may name any one, for the same reason.
Reachable(s) == s \in 1..lastSite

\* POST /site/add
DoAdd(f) ==
  /\ Idle
  /\ lastSite < MaxSite
  /\ ~exists(f.name)
  /\ req' = [NoRequest EXCEPT !.op = "create", !.pc = "insert", !.form = f]
  /\ UNCHANGED <<tables, live, files, hostsFile, faults>>

\* POST /site/<id>/edit: nothing is validated.
DoEdit(s, f) ==
  /\ Idle
  /\ Reachable(s)
  /\ req' = [NoRequest EXCEPT !.op = "update", !.pc = "unhost", !.id = s, !.form = f, !.old = Row(s)]
  /\ UNCHANGED <<tables, live, files, hostsFile, faults>>

\* GET /site/<id>/delete
Delete(s) ==
  /\ Idle
  /\ Reachable(s)
  /\ req' = [NoRequest EXCEPT !.op = "delete", !.pc = "unhost", !.id = s, !.old = Row(s)]
  /\ UNCHANGED <<tables, live, files, hostsFile, faults>>

-----------------------------------------------------------------------------
(* The steps                                                               *)

\* Hosts::save: the whole file is written, with new lines for the names set; a
\* failure is not noticed.
Save(lines, set, label) ==
  \/ /\ hosts' = lines
     /\ leftover' = {l \in leftover \cap lines : l.host \notin set}
     /\ Goto(label)
     /\ UNCHANGED <<page, faults>>
  \/ /\ Silently(label)
     /\ leftover' = leftover \cup (hosts \ lines)
     /\ UNCHANGED <<hosts, page>>

\* A faulty variant: the aliases stay.
RemoveHosts_DomainOnly ==
  /\ req.pc = "unhost"
  /\ Save(H!remove(hosts, {Host(req.old.name, Null)}), {}, IF req.op = "update" THEN "update" ELSE "leave")
  /\ UNCHANGED <<tables, live, files>>

\* A faulty variant: update() takes the names of the form out.
RemoveHosts_NewName ==
  /\ req.pc = "unhost"
  /\ Save(H!remove(hosts, HostsOf(IF req.op = "update" THEN req.form.name ELSE req.old.name, AliasesOf(req.id))),
          {}, IF req.op = "update" THEN "update" ELSE "leave")
  /\ UNCHANGED <<tables, live, files>>

\* update(), delete(): the domain and its aliases leave the hosts file, "localhost"
\* too, which add() never puts there.
RemoveHosts ==
  /\ req.pc = "unhost"
  /\ Save(H!remove(hosts, HostsOf(req.old.name, AliasesOf(req.id))), {},
          IF req.op = "update" THEN "update" ELSE "leave")
  /\ UNCHANGED <<tables, live, files>>

\* CA::generate, then INSERT INTO site or UPDATE site: the certificate names
\* the domain and the aliases of the form.
NewRow == [name |-> req.form.name, httpd |-> req.form.httpd,
           cert |-> HostsOf(req.form.name, req.form.aliases)]

\* A faulty variant: the id is that of the row before.
InsertSite_SameId ==
  /\ req.pc = "insert"
  /\ site' = [s \in DOMAIN site \cup {lastSite + 1} |-> IF s = lastSite + 1 THEN NewRow ELSE site[s]]
  /\ req' = [req EXCEPT !.pc = "aliases", !.id = lastSite, !.todo = req.form.aliases]
  /\ UNCHANGED <<lastSite, alias, live, files, hostsFile, faults>>

InsertSite ==
  /\ req.pc = "insert"
  /\ lastSite' = lastSite + 1
  /\ site' = [s \in DOMAIN site \cup {lastSite + 1} |-> IF s = lastSite + 1 THEN NewRow ELSE site[s]]
  /\ req' = [req EXCEPT !.pc = "aliases", !.id = lastSite + 1, !.todo = req.form.aliases]
  /\ UNCHANGED <<alias, live, files, hostsFile, faults>>

\* A faulty variant: the row is left for later, the restart comes first.
UpdateSite_Later ==
  /\ req.pc = "update"
  /\ Goto("dropAliases")
  /\ UNCHANGED <<tables, live, files, hostsFile, faults>>

UpdateSite ==
  /\ req.pc = "update"
  /\ site' = [s \in DOMAIN site |-> IF s = req.id THEN NewRow ELSE site[s]]
  /\ Goto("dropAliases")
  /\ UNCHANGED <<lastSite, alias, live, files, hostsFile, faults>>

\* A faulty variant: update() only adds aliases.
DropAliases_Keeps ==
  /\ req.pc = "dropAliases"
  /\ req' = [req EXCEPT !.pc = IF req.op = "update" THEN "aliases" ELSE "done",
                        !.todo = req.form.aliases]
  /\ UNCHANGED <<tables, live, files, hostsFile, faults>>

\* DELETE FROM alias WHERE site_id=?
DropAliases ==
  /\ req.pc = "dropAliases"
  /\ alias' = {x \in alias : x[1] # req.id}
  /\ req' = [req EXCEPT !.pc = IF req.op = "update" THEN "aliases" ELSE "done",
                        !.todo = req.form.aliases]
  /\ UNCHANGED <<lastSite, site, live, files, hostsFile, faults>>

InsertAlias ==
  /\ req.pc = "aliases"
  /\ IF req.todo = {}
     THEN /\ Goto(IF req.op = "update" THEN "leave" ELSE "join")
          /\ UNCHANGED alias
     ELSE \E a \in req.todo :
            /\ alias' = alias \cup {<<req.id, a>>}
            /\ req' = [req EXCEPT !.todo = @ \ {a}]
  /\ UNCHANGED <<lastSite, site, live, files, hostsFile, faults>>

\* Util::del(...\conf\vhosts\<domain>.*): a pattern, not a name.  Without a row
\* of the server the path is wrong and nothing matches.
Deleted(h, name) == {v \in DOMAIN vhost : v[1] = h /\ h \in live /\ (v[2] = name \/ <<name, v[2]>> \in Under)}

\* update() leaves a server only when the server changes, delete() always.
Leaves == req.old.httpd # Null /\ req.old.httpd # req.form.httpd
AfterLeaving == IF req.op = "update" THEN "join" ELSE "deleteRow"

DeleteFiles(gone) ==
  /\ vhost' = [v \in DOMAIN vhost \ gone |-> vhost[v]]
  /\ changed' = IF gone = {} THEN changed ELSE changed \cup {req.old.httpd}

\* A faulty variant: the files stay with the server the site has left.
LeaveServer_KeepsFiles ==
  /\ req.pc = "leave"
  /\ Goto(IF Leaves THEN "restartOld" ELSE AfterLeaving)
  /\ UNCHANGED <<tables, live, files, hostsFile, faults>>

\* The web server the site leaves loses its files; Util::del does not tell when
\* some of them cannot be deleted.
LeaveServer ==
  /\ req.pc = "leave"
  /\ \/ ~Leaves /\ Goto(AfterLeaving) /\ UNCHANGED <<vhost, changed, faults>>
     \/ Leaves /\ LET all == Deleted(req.old.httpd, req.old.name)
                  IN  \/ DeleteFiles(all) /\ Goto("restartOld") /\ UNCHANGED faults
                      \/ \E gone \in SUBSET all \ {all} : DeleteFiles(gone) /\ Silently("restartOld")
  /\ UNCHANGED <<tables, live, vhosts, hostsFile>>

\* It is restarted.
RestartOld ==
  /\ req.pc = "restartOld"
  /\ Restarted(req.old.httpd, AfterLeaving)
  /\ UNCHANGED <<tables, live, vhosts, vhost, hostsFile>>

\* _make(): the hosts file.  Without a server's row the address is empty, and
\* without a site's row the name is.
AddHosts ==
  /\ req.pc = "join"
  /\ IF req.form.httpd = Null
     THEN Goto("done") /\ UNCHANGED <<hostsFile, faults>>
     ELSE LET row   == Row(req.id)
              names == {h \in HostsOf(row.name, AliasesOf(req.id)) : Addable(h)}
              addr  == IF row.httpd \in live THEN address[row.httpd] ELSE Null
          IN  Save(H!add(hosts, addr, names), names, "cert")
  /\ UNCHANGED <<tables, live, files>>

\* _make(): the key, the certificate and the virtual host; where there is no
\* such directory nothing is written, and where a writing fails nothing is
\* changed: nobody is told.
Content == [cert |-> Row(req.id).cert, names |-> HostsOf(Row(req.id).name, AliasesOf(req.id))]

WriteFiles ==
  /\ req.pc = "cert"
  /\ LET row == Row(req.id)
         key == <<row.httpd, row.name>>
     IN  \/ /\ row.httpd \in live \cap vhosts
            /\ vhost' = [v \in DOMAIN vhost \cup {key} |-> IF v = key THEN Content ELSE vhost[v]]
            /\ changed' = changed \cup {row.httpd}
            /\ Goto("restart") /\ UNCHANGED faults
         \/ row.httpd \in live \cap vhosts /\ Silently("restart") /\ UNCHANGED <<vhost, changed>>
         \/ row.httpd \notin live \cap vhosts /\ Goto("restart") /\ UNCHANGED <<vhost, changed, faults>>
  /\ UNCHANGED <<tables, live, vhosts, hostsFile>>

RestartServer ==
  /\ req.pc = "restart"
  /\ Restarted(req.form.httpd, "done")
  /\ UNCHANGED <<tables, live, vhosts, vhost, hostsFile>>

DeleteRow ==
  /\ req.pc = "deleteRow"
  /\ site' = [s \in DOMAIN site \ {req.id} |-> site[s]]
  /\ Goto("dropAliases")
  /\ UNCHANGED <<lastSite, alias, live, files, hostsFile, faults>>

\* "Site successfully ..." and the redirection; or PHP reports a fatal error.
Finish ==
  /\ req.pc \in {"done", "fatal"}
  /\ EndRequest
  /\ UNCHANGED <<tables, live, files, hostsFile, faults>>

-----------------------------------------------------------------------------
(* What else happens                                                       *)

\* The web server of the manager goes down in the middle of a request.
Kill ==
  /\ ~Idle
  /\ EndRequest
  /\ Fault
  /\ UNCHANGED <<tables, live, files, hostsFile>>

\* uninstall() of a web server, as far as it gets: the sites forget it, its
\* directory is deleted, its row is deleted.
Uninstall(h, stage) ==
  /\ Idle
  /\ h \in live
  /\ site' = [s \in DOMAIN site |->
                IF site[s].httpd = h THEN [site[s] EXCEPT !.httpd = Null] ELSE site[s]]
  /\ IF stage >= 2
     THEN /\ vhosts' = vhosts \ {h}
          /\ vhost' = [v \in {v \in DOMAIN vhost : v[1] # h} |-> vhost[v]]
          /\ changed' = changed \ {h}
     ELSE UNCHANGED files
  /\ live' = IF stage = 3 THEN live \ {h} ELSE live
  /\ IF stage = 3 THEN UNCHANGED faults ELSE Fault
  /\ UNCHANGED <<lastSite, alias, hostsFile, req>>

\* GET /tools/hosts renders the page with the file as it is.
ShowHosts(p) ==
  /\ Idle
  /\ page' = [page EXCEPT ![p] = hosts]
  /\ UNCHANGED <<tables, live, files, hosts, leftover, req, faults>>

\* POST /tools/hosts writes the text of the page over the file, however old the
\* page is.
PostHosts(p) ==
  /\ Idle
  /\ hosts' = page[p]
  /\ leftover' = (leftover \cap page[p]) \cup (page[p] \ hosts)
  /\ UNCHANGED <<tables, live, files, page, req, faults>>

-----------------------------------------------------------------------------

Init ==
  /\ lastSite = 0 /\ alias = {}
  /\ site = [s \in {} |-> Null]
  /\ live = Server /\ vhosts = Server /\ changed = {}
  /\ vhost = [v \in {} |-> Null]
  /\ hosts = UserLines /\ page = [p \in Page |-> UserLines] /\ leftover = {} /\ faults = 0
  /\ req = NoRequest

Step == RemoveHosts \/ InsertSite \/ UpdateSite \/ DropAliases \/ InsertAlias
        \/ LeaveServer \/ RestartOld \/ AddHosts \/ WriteFiles \/ RestartServer \/ DeleteRow \/ Finish

Next ==
  \/ \E f \in Form : DoAdd(f)
  \/ \E s \in SiteIds, f \in Form : DoEdit(s, f)
  \/ \E s \in SiteIds : Delete(s)
  \/ Step
  \/ Kill
  \/ \E h \in Server, stage \in 1..3 : Uninstall(h, stage)
  \/ \E p \in Page : ShowHosts(p) \/ PostHosts(p)

Spec == Init /\ [][Next]_svars

-----------------------------------------------------------------------------
(* Properties                                                              *)

RowType == [name : Name, httpd : Server \cup {Null},
            cert : SUBSET (Name \X (Alias \cup {Null}))]

\* Tables, files and the request being served are well-formed.
SitesTypeOK ==
  /\ lastSite \in 0..MaxSite
  /\ DOMAIN site \subseteq 1..lastSite /\ \A s \in DOMAIN site : site[s] \in RowType
  /\ alias \subseteq SiteIds \X Alias
  /\ live \subseteq Server /\ vhosts \subseteq Server /\ changed \subseteq vhosts
  /\ DOMAIN vhost \subseteq vhosts \X Name
  /\ DOMAIN page = Page

\* The lines of a text of the hosts file that are the manager's.
ManagedIn(text) == {l \in text \ UserLines : l.address # Null}
Managed == ManagedIn(hosts)

\* The site accounts for a line of the hosts file: its domain or one of its aliases.
Accounts(s, l) == l.host \in HostsOf(site[s].name, AliasesOf(s))

\* Wherever a request is cut, no name stays in the hosts file that no row of
\* site and alias accounts for: update() and delete() take the names out before
\* they touch the rows, and _make() puts names in only after the rows are there.
\* Only a failed writing of the file leaves such lines, and an old page of the
\* hosts file posted by the user (HostController::update) brings them back.
NoOrphanHosts == \A l \in Managed \ leftover : \E s \in DOMAIN site : Accounts(s, l)

\* A name of a site never leads to two places, whatever old pages, cuts and failed
\* writings of the hosts file have left there when the site is moved, and whatever
\* the user has in the file for this name: Hosts::add takes all lines of the name
\* before it appends one.
OneAddressPerName == \A l \in Managed, m \in hosts : m.address # Null /\ l.host = m.host => l = m

\* "Site successfully created/updated." is said of a site whose row is the form
\* and whose server exists.  Unless the writing or the restart of this very request
\* failed, its files were written from exactly these rows and loaded, and its
\* names lead to that server and nowhere else: whatever earlier requests and pages
\* left behind, and although the request may have failed to take the old names out.
\* (A server whose directory a cut uninstallation has emptied is the exception:
\* nothing can be written.)
AnnouncedIsServed ==
  req.pc = "done" /\ req.op # "delete" /\ req.form.httpd \in vhosts /\ req.id \in DOMAIN site =>
    LET h == req.form.httpd
        names == HostsOf(req.form.name, req.form.aliases)
    IN  /\ h \in live
        /\ site[req.id] = NewRow /\ AliasesOf(req.id) = req.form.aliases
        /\ "restart" \notin req.failed => h \notin changed
        /\ "cert" \notin req.failed => /\ <<h, req.form.name>> \in DOMAIN vhost
                                      /\ vhost[<<h, req.form.name>>] = [cert |-> names, names |-> names]
        /\ "join" \notin req.failed =>
             \A x \in names : Addable(x) =>
               {l \in hosts : l.address # Null /\ l.host = x} = {H!Line(address[h], FALSE, x)}

\* "Site successfully deleted." is said when the server no longer has the site's
\* files and has been restarted without them, and no line of the hosts file, the
\* user's included, leads to it; the first holds too for the server that a site was
\* moved away from.  Each is said unless that very step of this request failed.
AnnouncedIsGone ==
  req.pc = "done" /\ req.old.name # Null =>
    /\ Leaves /\ "leave" \notin req.failed => <<req.old.httpd, req.old.name>> \notin DOMAIN vhost
    /\ Leaves /\ "restartOld" \notin req.failed => req.old.httpd \notin changed
    /\ req.op = "delete" /\ "unhost" \notin req.failed =>
         \A l \in hosts : l.address # Null => l.host # Host(req.old.name, Null)

\* A site that refers to a server that is gone is not stuck: the save that dies
\* on restarting that server has already stored the new choice, so that the next
\* save succeeds.
FatalSaveHeals ==
  req.pc = "fatal" /\ req.op = "update" /\ (req.form.httpd \in live \/ req.form.httpd = Null)
    => Row(req.id).httpd \in live \cup {Null}

\* "remove existing domain and aliases from hosts" (Site::update, Site::delete): a
\* request takes a line from the hosts file, its own or the user's, only when a
\* site of that name is in the tables at that moment, although the names are found
\* by a pattern and the form may hold others.  (For a site that is gone the name
\* is empty, and the pattern then matches every line with two blanks after the
\* address.)
TakesOnlySiteNames ==
  [][~Idle => \A l \in hosts \ hosts' : l.address # Null =>
       \/ \E s \in DOMAIN site : Accounts(s, l)
       \/ req.id \notin DOMAIN site /\ l.wide]_svars
=============================================================================
