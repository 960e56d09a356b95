----------------------------- MODULE SitesProofs -----------------------------
(***************************************************************************)
(* The rows, hosts entries and virtual host files of sites, for any number *)
(* of sites, names, aliases, servers, cuts and failed writings.            *)
(*                                                                         *)
(* The properties speak of the end of a request or of any cut of it, so    *)
(* the invariant follows a request step by step: which rows it has stored  *)
(* (StoredInv), which files it has written or deleted (FilesInv), which    *)
(* lines of the hosts file it has set (SetInv) or taken out (GoneInv), and *)
(* which lines depend on the rows it is about to change (OrphanInv).  What  *)
(* is true of every text of the hosts file, in the file or in a page that  *)
(* may be posted later, is in TextInv.                                     *)
(***************************************************************************)
EXTENDS Sites, TLAPS

NoRow == [name |-> Null, httpd |-> Null, cert |-> {}]
SiteHost == Name \X (Alias \cup {Null})

Label == {"idle", "insert", "unhost", "update", "dropAliases", "aliases", "leave", "restartOld",
          "join", "cert", "restart", "deleteRow", "done", "fatal"}

Saving == req.op \in {"create", "update"}

\* The request being served: which steps belong to which request.
RequestOK ==
  /\ req \in [op : {"none", "create", "update", "delete"},
              pc : Label,
              id : SiteIds \cup {Null}, form : Form \cup {NoForm}, old : RowType \cup {NoRow},
              todo : SUBSET Alias, failed : SUBSET Label]
  /\ req.op = "none" <=> req.pc = "idle"
  /\ req.op = "none" => req = NoRequest
  /\ req.pc = "insert" => req.op = "create" /\ lastSite < MaxSite
  /\ req.pc \in {"unhost", "dropAliases", "leave", "restartOld"} => req.op \in {"update", "delete"}
  /\ req.pc = "update" => req.op = "update"
  /\ req.pc = "deleteRow" => req.op = "delete"
  /\ req.pc \in {"aliases", "join", "cert", "restart"} => Saving
  /\ req.pc \in {"cert", "restart"} => req.form.httpd # Null
  /\ Saving => req.form \in Form
  /\ req.op = "delete" => req.form = NoForm
  /\ req.op = "create" => req.old = NoRow
  /\ req.op # "none" /\ req.pc # "insert" => req.id \in 1..lastSite

\* The rows a request has found and stored.
StoredInv ==
  /\ req.pc = "unhost" => req.old = Row(req.id)
  /\ req.op = "create" /\ req.pc # "insert" => req.id \in DOMAIN site
  /\ req.op = "update" /\ req.old.name # Null => req.id \in DOMAIN site
  /\ Saving /\ req.pc \notin {"insert", "unhost", "update"} /\ req.id \in DOMAIN site =>
       site[req.id] = NewRow

\* The aliases it has stored.
AliasInv ==
  /\ alias \subseteq (1..lastSite) \X Alias
  /\ req.pc = "aliases" => AliasesOf(req.id) \cup req.todo = req.form.aliases
  /\ Saving /\ req.pc \in {"leave", "restartOld", "join", "cert", "restart", "done", "fatal"} =>
       AliasesOf(req.id) = req.form.aliases

\* The site is saved on a server whose files can be written.
Served == Saving /\ req.form.httpd \in vhosts /\ req.id \in DOMAIN site

\* The files it has written, and loaded.
FilesInv ==
  /\ vhosts \subseteq live
  /\ Served /\ req.pc \in {"restart", "done"} /\ "cert" \notin req.failed =>
       LET names == HostsOf(req.form.name, req.form.aliases)
           key == <<req.form.httpd, req.form.name>>
       IN  key \in DOMAIN vhost /\ vhost[key] = [cert |-> names, names |-> names]
  /\ Saving /\ req.pc = "done" /\ "restart" \notin req.failed => req.form.httpd \notin changed

\* The lines it has put into the hosts file.
SetInv ==
  Served /\ "join" \notin req.failed /\ req.pc \in {"cert", "restart", "done"} =>
    \A x \in HostsOf(req.form.name, req.form.aliases) : Addable(x) =>
      {l \in hosts : l.address # Null /\ l.host = x} = {H!Line(address[req.form.httpd], FALSE, x)}

\* What it has taken away from the server the site leaves and from the hosts file.
LeftFiles ==
  /\ Leaves /\ "leave" \notin req.failed
  /\ \/ req.op = "update" /\ req.pc \in {"restartOld", "join", "cert", "restart", "done"}
     \/ req.op = "delete" /\ req.pc \in {"restartOld", "deleteRow", "dropAliases", "done"}
LeftServer ==
  /\ Leaves /\ "restartOld" \notin req.failed
  /\ \/ req.op = "update" /\ req.pc \in {"join", "cert", "restart", "done"}
     \/ req.op = "delete" /\ req.pc \in {"deleteRow", "dropAliases", "done"}
LeftHosts ==
  /\ req.op = "delete" /\ req.pc \in {"leave", "restartOld", "deleteRow", "dropAliases", "done"}
  /\ "unhost" \notin req.failed /\ req.old.name # Null

GoneInv ==
  /\ LeftFiles => <<req.old.httpd, req.old.name>> \notin DOMAIN vhost
  /\ LeftServer => req.old.httpd \notin changed
  /\ LeftHosts => \A l \in hosts : l.address # Null => l.host # Host(req.old.name, Null)

\* The request is about to change rows of its site: no line may depend on them.
Changing == req.pc \in {"update", "dropAliases", "deleteRow"} \/ (req.pc \in {"leave", "restartOld"} /\ req.op = "delete")

OrphanInv ==
  \A l \in Managed \ leftover :
    \E s \in DOMAIN site : Accounts(s, l) /\ (Changing => s # req.id)

\* The inductive invariant.
SitesInv ==
  SitesTypeOK /\ RequestOK /\ StoredInv /\ AliasInv /\ FilesInv /\ SetInv /\ GoneInv /\ OrphanInv

-----------------------------------------------------------------------------
(* Requests and host names                                                 *)

\* The request moves on; its operation, its form and the row it found stay.
Moves(pc, id, todo, failed) ==
  req' \in [op : {req.op}, pc : {pc}, id : {id}, form : {req.form}, old : {req.old},
            todo : {todo}, failed : {failed}]

\* What the fields are after a move.
LEMMA MovesFields ==
  ASSUME NEW pc, NEW id, NEW todo, NEW failed, Moves(pc, id, todo, failed)
  PROVE  /\ req'.op = req.op /\ req'.pc = pc /\ req'.id = id /\ req'.form = req.form
         /\ req'.old = req.old /\ req'.todo = todo /\ req'.failed = failed
  BY DEF Moves

\* A jump to a label is a move.
LEMMA GotoMoves ==
  ASSUME RequestOK, NEW label, Goto(label)
  PROVE  Moves(label, req.id, req.todo, req.failed)
  BY DEF RequestOK, Goto, Moves

\* So is a step that fails silently.
LEMMA SilentMoves ==
  ASSUME RequestOK, NEW label, Silently(label)
  PROVE  Moves(label, req.id, req.todo, req.failed \cup {req.pc})
  BY DEF RequestOK, Silently, Moves

\* A posted form names a site and its aliases.
LEMMA FormFields ==
  ASSUME RequestOK, Saving
  PROVE  /\ req.form.name \in Name /\ req.form.aliases \subseteq Alias
         /\ req.form.httpd \in Server \cup {Null}
  BY DEF RequestOK, Form

\* The host names of a site.
LEMMA SiteHosts ==
  ASSUME NEW n \in Name, NEW aliases \in SUBSET Alias
  PROVE  /\ HostsOf(n, aliases) \subseteq SiteHost
         /\ \A x \in SiteHost : x \in HostsOf(n, aliases) <=> x[1] = n /\ (x[2] = Null \/ x[2] \in aliases)
<1>1. n # Null
  BY ServerAssumption
<1>2. \A x : x \in HostsOf(n, aliases) <=> x = <<n, Null>> \/ \E a \in aliases : x = <<n, a>>
  BY <1>1 DEF HostsOf, Host
<1>3. ASSUME NEW x \in HostsOf(n, aliases)
      PROVE  x \in SiteHost
  <2>1. CASE x = <<n, Null>>
    BY <2>1 DEF SiteHost
  <2>2. ASSUME NEW a \in aliases, x = <<n, a>>
        PROVE  x \in SiteHost
    <3>1. a \in Alias
      OBVIOUS
    <3> QED
      BY <2>2, <3>1 DEF SiteHost
  <2> QED
    BY <1>2, <2>1, <2>2
<1>4. ASSUME NEW x \in SiteHost
      PROVE  x \in HostsOf(n, aliases) <=> x[1] = n /\ (x[2] = Null \/ x[2] \in aliases)
  <2>1. x = <<x[1], x[2]>>
    BY DEF SiteHost
  <2>2. ASSUME x \in HostsOf(n, aliases)
        PROVE  x[1] = n /\ (x[2] = Null \/ x[2] \in aliases)
    BY <1>2, <2>2
  <2>3. ASSUME x[1] = n /\ (x[2] = Null \/ x[2] \in aliases)
        PROVE  x \in HostsOf(n, aliases)
    BY <1>2, <2>1, <2>3
  <2> QED
    BY <2>2, <2>3
<1> QED
  BY <1>3, <1>4

\* The row a request stores.
LEMMA NewRowOK ==
  ASSUME RequestOK, Saving
  PROVE  /\ NewRow \in RowType /\ NewRow.name = req.form.name /\ NewRow.httpd = req.form.httpd
         /\ NewRow.cert = HostsOf(req.form.name, req.form.aliases)
  BY FormFields, SiteHosts DEF NewRow, RowType, SiteHost

\* The row of a site, there or gone.
LEMMA RowOK ==
  ASSUME SitesTypeOK, NEW s
  PROVE  /\ Row(s) \in RowType \cup {NoRow}
         /\ Row(s).name # Null \/ Row(s).httpd # Null => s \in DOMAIN site
         /\ s \in DOMAIN site => Row(s) = site[s]
  BY DEF SitesTypeOK, Row, NoRow

\* Writing the hosts file, whether it succeeds or not.
LEMMA SaveEffect ==
  ASSUME RequestOK, NEW lines, NEW set, NEW label, Save(lines, set, label)
  PROVE  /\ page' = page
         /\ \E failed \in SUBSET Label :
              /\ Moves(label, req.id, req.todo, failed)
              /\ req.failed \subseteq failed
              /\ req.pc \notin failed => hosts' = lines
              /\ hosts' = lines \/ hosts' = hosts
              /\ \A l \in hosts' : l \notin leftover' =>
                   l \in lines /\ (l \in hosts => l \notin leftover \/ l.host \in set)
<1>1. CASE /\ hosts' = lines
           /\ leftover' = {l \in leftover \cap lines : l.host \notin set}
           /\ Goto(label)
           /\ UNCHANGED <<page, faults>>
  <2>1. Moves(label, req.id, req.todo, req.failed) /\ req.failed \in SUBSET Label
    BY <1>1, GotoMoves DEF RequestOK
  <2> QED
    BY <1>1, <2>1
<1>2. CASE /\ Silently(label)
           /\ leftover' = leftover \cup (hosts \ lines)
           /\ UNCHANGED <<hosts, page>>
  <2>1. /\ Moves(label, req.id, req.todo, req.failed \cup {req.pc})
        /\ req.failed \cup {req.pc} \in SUBSET Label
    BY <1>2, SilentMoves DEF RequestOK
  <2> QED
    BY <1>2, <2>1
<1> QED
  BY <1>1, <1>2 DEF Save

-----------------------------------------------------------------------------
(* The initial state, and the end of a request wherever it is cut          *)

\* Nothing is being served.
LEMMA IdleRequest ==
  ASSUME SitesInv, req' = NoRequest, lastSite' = lastSite
  PROVE  /\ RequestOK' /\ StoredInv' /\ SetInv' /\ GoneInv' /\ ~Changing'
         /\ req'.op = "none" /\ req'.pc = "idle"
  BY DEF SitesInv, SitesTypeOK, RequestOK, StoredInv, SetInv, GoneInv, LeftFiles, LeftServer, LeftHosts, Leaves, Changing, Served, Saving,
         LeftFiles, LeftServer, LeftHosts, Leaves, NoRequest, NoForm, NoRow, Label

\* The invariant holds of the manager as distributed.
LEMMA SitesInit == Init => SitesInv
<1> SUFFICES ASSUME Init
             PROVE  SitesInv
  OBVIOUS
<1>1. SitesTypeOK
  BY SiteBoundAssumption DEF Init, SitesTypeOK, SiteIds
<1>2. RequestOK
  BY <1>1 DEF Init, RequestOK, NoRequest, NoForm, NoRow, Saving, Label
<1>3. StoredInv /\ AliasInv /\ FilesInv /\ SetInv /\ GoneInv
  BY DEF Init, StoredInv, AliasInv, FilesInv, SetInv, GoneInv, LeftFiles, LeftServer, LeftHosts,
         NoRequest, Saving, Served
<1>4. OrphanInv
  BY DEF Init, OrphanInv, Managed, ManagedIn
<1> QED
  BY <1>1, <1>2, <1>3, <1>4 DEF SitesInv

\* More aliases, more names.
LEMMA MoreHosts ==
  ASSUME NEW n, NEW a, NEW b, a \subseteq b
  PROVE  HostsOf(n, a) \subseteq HostsOf(n, b)
  BY DEF HostsOf

\* Accounts depends on the names and aliases of the site.
LEMMA SameOrphans ==
  ASSUME OrphanInv, UNCHANGED <<hosts, leftover>>, Changing' => Changing /\ req'.id = req.id,
         \A s \in DOMAIN site : (Changing => s # req.id) =>
           s \in DOMAIN site' /\ site'[s].name = site[s].name /\ AliasesOf(s) \subseteq AliasesOf(s)'
  PROVE  OrphanInv'
<1>1. Managed' = Managed
  BY DEF Managed, ManagedIn
<1>2. ASSUME NEW l \in Managed \ leftover
      PROVE  \E s \in DOMAIN site' : Accounts(s, l)' /\ (Changing' => s # req'.id)
  <2>1. PICK s \in DOMAIN site : Accounts(s, l) /\ (Changing => s # req.id)
    BY <1>2 DEF OrphanInv
  <2>2. Accounts(s, l)' <=> l.host \in HostsOf(site'[s].name, AliasesOf(s)')
    BY DEF Accounts, HostsOf, Host
  <2>3. HostsOf(site[s].name, AliasesOf(s)) \subseteq HostsOf(site[s].name, AliasesOf(s)')
    BY <2>1, MoreHosts
  <2>4. Accounts(s, l)'
    BY <2>1, <2>2, <2>3 DEF Accounts
  <2> QED
    BY <2>1, <2>4
<1> QED
  BY <1>1, <1>2 DEF OrphanInv

\* The end of a request, announced, fatal or by a kill, keeps the invariant.
LEMMA EndStep ==
  ASSUME SitesInv, Finish \/ Kill
  PROVE  SitesInv'
<1>1. /\ req' = NoRequest
      /\ UNCHANGED <<lastSite, site, alias, live, vhosts, vhost, changed, hosts, page, leftover>>
  BY DEF Finish, Kill, EndRequest, tables, files, hostsFile
<1>2. /\ RequestOK' /\ StoredInv' /\ SetInv' /\ GoneInv' /\ ~Changing'
      /\ req'.op = "none" /\ req'.pc = "idle"
  BY <1>1, IdleRequest
<1>3. SitesTypeOK'
  BY <1>1 DEF SitesInv, SitesTypeOK
<1>4. AliasInv' /\ FilesInv'
  BY <1>1, <1>2 DEF SitesInv, AliasInv, FilesInv, Saving, Served
<1>5. OrphanInv'
  BY <1>1, <1>2, SameOrphans DEF SitesInv, AliasesOf
<1> QED
  BY <1>2, <1>3, <1>4, <1>5 DEF SitesInv

-----------------------------------------------------------------------------
(* Between requests                                                        *)

\* An uninstallation of a web server, as far as it got, keeps the invariant.
LEMMA UninstallStep ==
  ASSUME SitesInv, NEW h \in Server, NEW stage \in 1..3, Uninstall(h, stage)
  PROVE  SitesInv'
<1>1. req = NoRequest
  BY DEF SitesInv, RequestOK, Uninstall, Idle
<1>2. UNCHANGED <<lastSite, alias, hosts, page, leftover, req>>
  BY DEF Uninstall, hostsFile
<1>3. /\ RequestOK' /\ StoredInv' /\ SetInv' /\ GoneInv' /\ ~Changing'
      /\ req'.op = "none" /\ req'.pc = "idle"
  BY <1>1, <1>2, IdleRequest
<1>4. /\ DOMAIN site' = DOMAIN site
      /\ \A s \in DOMAIN site : site'[s] \in RowType /\ site'[s].name = site[s].name
  <2>1. DOMAIN site' = DOMAIN site
    BY DEF Uninstall
  <2>2. ASSUME NEW s \in DOMAIN site
        PROVE  site'[s] \in RowType /\ site'[s].name = site[s].name
    <3>1. site[s] \in RowType
      BY DEF SitesInv, SitesTypeOK
    <3>2. site'[s] = IF site[s].httpd = h THEN [site[s] EXCEPT !.httpd = Null] ELSE site[s]
      BY DEF Uninstall
    <3> QED
      BY <3>1, <3>2 DEF RowType
  <2> QED
    BY <2>1, <2>2
<1>5. /\ live' \subseteq live /\ vhosts' \subseteq vhosts /\ vhosts' \subseteq live'
      /\ changed' \subseteq vhosts' /\ DOMAIN vhost' \subseteq vhosts' \X Name
  BY DEF Uninstall, files, SitesInv, SitesTypeOK, FilesInv
<1>6. SitesTypeOK'
  BY <1>2, <1>4, <1>5 DEF SitesInv, SitesTypeOK
<1>7. AliasInv' /\ FilesInv'
  BY <1>2, <1>3, <1>5 DEF SitesInv, AliasInv, FilesInv, Saving, Served
<1>8. OrphanInv'
  BY <1>2, <1>3, <1>4, SameOrphans DEF SitesInv, AliasesOf
<1> QED
  BY <1>3, <1>6, <1>7, <1>8 DEF SitesInv

\* Writing back an old text of the hosts file takes lines away; those it brings
\* back are known.
LEMMA PageStep ==
  ASSUME SitesInv, NEW p \in Page, ShowHosts(p) \/ PostHosts(p)
  PROVE  SitesInv'
<1>1. req = NoRequest
  BY DEF SitesInv, RequestOK, ShowHosts, PostHosts, Idle
<1>2. /\ UNCHANGED <<lastSite, site, alias, live, vhosts, vhost, changed, req>>
      /\ DOMAIN page' = DOMAIN page
  BY DEF ShowHosts, PostHosts, tables, files
<1>3. /\ RequestOK' /\ StoredInv' /\ SetInv' /\ GoneInv' /\ ~Changing'
      /\ req'.op = "none" /\ req'.pc = "idle"
  BY <1>1, <1>2, IdleRequest
<1>4. SitesTypeOK' /\ AliasInv' /\ FilesInv'
  BY <1>2, <1>3 DEF SitesInv, SitesTypeOK, AliasInv, FilesInv, Saving, Served
<1>5. OrphanInv'
  <2>1. ASSUME NEW l \in Managed' \ leftover'
        PROVE  l \in Managed \ leftover
    BY DEF ShowHosts, PostHosts, Managed, ManagedIn
  <2>2. \A s, l : Accounts(s, l)' <=> Accounts(s, l)
    BY <1>2 DEF Accounts, AliasesOf, HostsOf, Host
  <2> QED
    BY <1>2, <1>3, <2>1, <2>2 DEF SitesInv, OrphanInv
<1> QED
  BY <1>3, <1>4, <1>5 DEF SitesInv

\* A request begins: none of its steps is done.
LEMMA StartStep ==
  ASSUME SitesInv,
         \/ \E f \in Form : DoAdd(f)
         \/ \E s \in SiteIds, f \in Form : DoEdit(s, f)
         \/ \E s \in SiteIds : Delete(s)
  PROVE  SitesInv'
<1>1. UNCHANGED <<lastSite, site, alias, live, vhosts, vhost, changed, hosts, page, leftover>>
  BY DEF DoAdd, DoEdit, Delete, tables, files, hostsFile
<1>2. \/ /\ lastSite < MaxSite
         /\ req' \in [op : {"create"}, pc : {"insert"}, id : {Null}, form : Form, old : {NoRow},
                      todo : {{}}, failed : {{}}]
      \/ \E s \in 1..lastSite :
           \/ req' \in [op : {"update"}, pc : {"unhost"}, id : {s}, form : Form, old : {Row(s)},
                        todo : {{}}, failed : {{}}]
           \/ req' \in [op : {"delete"}, pc : {"unhost"}, id : {s}, form : {NoForm}, old : {Row(s)},
                        todo : {{}}, failed : {{}}]
  <2>1. ASSUME NEW f \in Form, DoAdd(f)
        PROVE  /\ lastSite < MaxSite
               /\ req' \in [op : {"create"}, pc : {"insert"}, id : {Null}, form : Form, old : {NoRow},
                            todo : {{}}, failed : {{}}]
    BY <2>1 DEF DoAdd, NoRequest, NoRow
  <2>2. ASSUME NEW s \in SiteIds, NEW f \in Form, DoEdit(s, f)
        PROVE  /\ s \in 1..lastSite
               /\ req' \in [op : {"update"}, pc : {"unhost"}, id : {s}, form : Form, old : {Row(s)},
                            todo : {{}}, failed : {{}}]
    BY <2>2 DEF DoEdit, NoRequest, Reachable
  <2>3. ASSUME NEW s \in SiteIds, Delete(s)
        PROVE  /\ s \in 1..lastSite
               /\ req' \in [op : {"delete"}, pc : {"unhost"}, id : {s}, form : {NoForm}, old : {Row(s)},
                            todo : {{}}, failed : {{}}]
    BY <2>3 DEF Delete, NoRequest, Reachable
  <2> QED
    BY <2>1, <2>2, <2>3
<1>3. /\ req'.pc \in {"insert", "unhost"} /\ req'.op # "none" /\ ~Changing'
      /\ req'.pc = "insert" => req'.op = "create"
      /\ req'.pc = "unhost" => req'.op # "create" /\ req'.old = Row(req'.id)
  BY <1>2 DEF Changing
<1>4. SitesTypeOK'
  BY <1>1 DEF SitesInv, SitesTypeOK
<1>5. RequestOK'
  <2>1. lastSite \in 0..MaxSite /\ MaxSite \in Nat
    BY SiteBoundAssumption DEF SitesInv, SitesTypeOK
  <2>2. CASE /\ lastSite < MaxSite
             /\ req' \in [op : {"create"}, pc : {"insert"}, id : {Null}, form : Form, old : {NoRow},
                          todo : {{}}, failed : {{}}]
    BY <1>1, <2>1, <2>2 DEF RequestOK, Saving, Label
  <2>3. ASSUME NEW s \in 1..lastSite,
               req' \in [op : {"update"}, pc : {"unhost"}, id : {s}, form : Form, old : {Row(s)},
                         todo : {{}}, failed : {{}}]
        PROVE  RequestOK'
    <3>1. Row(s) \in RowType \cup {NoRow} /\ s \in SiteIds
      BY <2>1, RowOK DEF SitesInv, SiteIds
    <3> QED
      BY <1>1, <2>1, <2>3, <3>1 DEF RequestOK, Saving, Label
  <2>4. ASSUME NEW s \in 1..lastSite,
               req' \in [op : {"delete"}, pc : {"unhost"}, id : {s}, form : {NoForm}, old : {Row(s)},
                         todo : {{}}, failed : {{}}]
        PROVE  RequestOK'
    <3>1. Row(s) \in RowType \cup {NoRow} /\ s \in SiteIds
      BY <2>1, RowOK DEF SitesInv, SiteIds
    <3> QED
      BY <1>1, <2>1, <2>4, <3>1 DEF RequestOK, Saving, Label
  <2> QED
    BY <1>2, <2>2, <2>3, <2>4
<1>6. StoredInv'
  <2>1. Row(req.id)' = Row(req'.id)
    BY <1>1 DEF Row
  <2>2. Row(req'.id).name # Null => req'.id \in DOMAIN site
    BY RowOK DEF SitesInv
  <2> QED
    BY <1>1, <1>3, <2>1, <2>2 DEF StoredInv, Saving
<1>7. AliasInv' /\ FilesInv' /\ SetInv' /\ GoneInv'
  BY <1>1, <1>3 DEF SitesInv, AliasInv, FilesInv, SetInv, GoneInv, LeftFiles, LeftServer, LeftHosts, Leaves
<1>8. OrphanInv'
  BY <1>1, <1>3, SameOrphans DEF SitesInv, AliasesOf
<1> QED
  BY <1>4, <1>5, <1>6, <1>7, <1>8 DEF SitesInv

-----------------------------------------------------------------------------
(* The steps of a request                                                  *)

\* A request that moves on stays well-formed.
LEMMA RequestMoves ==
  ASSUME SitesTypeOK, RequestOK, lastSite' \in 0..MaxSite,
         NEW pc \in Label \ {"idle", "insert", "unhost"},
         NEW id \in 1..lastSite', NEW todo \in SUBSET Alias, NEW failed \in SUBSET Label,
         Moves(pc, id, todo, failed),
         req.op # "none",
         pc \in {"dropAliases", "leave", "restartOld"} => req.op \in {"update", "delete"},
         pc = "update" => req.op = "update",
         pc = "deleteRow" => req.op = "delete",
         pc \in {"aliases", "join", "cert", "restart"} => Saving,
         pc \in {"cert", "restart"} => req.form.httpd # Null
  PROVE  RequestOK'
<1>1. id \in SiteIds
  BY SiteBoundAssumption DEF SiteIds
<1>2. /\ req'.op = req.op /\ req'.pc = pc /\ req'.id = id /\ req'.form = req.form
      /\ req'.old = req.old /\ req'.todo = todo /\ req'.failed = failed
  BY MovesFields
<1>3. req' \in [op : {"none", "create", "update", "delete"},
                pc : Label,
                id : SiteIds \cup {Null}, form : Form \cup {NoForm}, old : RowType \cup {NoRow},
                todo : SUBSET Alias, failed : SUBSET Label]
  BY <1>1 DEF RequestOK, Moves
<1>4. Saving' <=> Saving
  BY <1>2 DEF Saving
<1> QED
  BY <1>2, <1>3, <1>4 DEF RequestOK

\* What a served request knows of itself.
LEMMA Serving ==
  ASSUME RequestOK, req.pc # "idle", req.pc # "insert"
  PROVE  /\ req.op \in {"create", "update", "delete"} /\ req.id \in 1..lastSite
         /\ req.todo \in SUBSET Alias /\ req.failed \in SUBSET Label
         /\ Saving <=> req.op # "delete"
  BY DEF RequestOK, Saving

\* The names leave the hosts file before their rows are changed.
LEMMA RemoveHostsStep ==
  ASSUME SitesInv, RemoveHosts
  PROVE  SitesInv'
<1> DEFINE names == HostsOf(req.old.name, AliasesOf(req.id))
           lines == H!remove(hosts, names)
           label == IF req.op = "update" THEN "update" ELSE "leave"
<1>1. /\ req.pc = "unhost" /\ req.op \in {"update", "delete"} /\ req.old = Row(req.id)
      /\ UNCHANGED <<lastSite, site, alias, live, vhosts, vhost, changed>>
  BY DEF SitesInv, RequestOK, StoredInv, RemoveHosts, tables, files
<1>2. PICK failed \in SUBSET Label :
        /\ Moves(label, req.id, req.todo, failed)
        /\ "unhost" \notin failed => hosts' = lines
        /\ hosts' = lines \/ hosts' = hosts
        /\ \A l \in hosts' : l \notin leftover' => l \in lines /\ (l \in hosts => l \notin leftover)
        /\ page' = page
  <2>1. Save(lines, {}, label)
    BY DEF RemoveHosts
  <2> HIDE DEF lines, label
  <2> QED
    BY <1>1, <2>1, SaveEffect DEF SitesInv
<1>3. /\ req'.op = req.op /\ req'.pc = label /\ req'.id = req.id /\ req'.form = req.form
      /\ req'.old = req.old /\ req'.failed = failed
  BY <1>2, MovesFields
<1>4. lines \subseteq hosts /\ hosts' \subseteq hosts
  BY <1>2 DEF H!remove
<1>5. SitesTypeOK'
  BY <1>1, <1>2 DEF SitesInv, SitesTypeOK
<1>6. RequestOK'
  <2>1. /\ req.id \in 1..lastSite' /\ lastSite' \in 0..MaxSite /\ req.todo \in SUBSET Alias
    BY <1>1, Serving DEF SitesInv, SitesTypeOK
  <2> QED
    BY <1>1, <1>2, <2>1, RequestMoves DEF SitesInv, Label
<1>7. StoredInv'
  <2>1. req.old.name # Null => req.id \in DOMAIN site
    BY <1>1, RowOK DEF SitesInv
  <2> QED
    BY <1>1, <1>3, <2>1 DEF StoredInv, Saving
<1>8. AliasInv' /\ FilesInv' /\ SetInv'
  BY <1>1, <1>3 DEF SitesInv, AliasInv, FilesInv, SetInv, Saving
<1>9. GoneInv'
  <2>1. ASSUME NEW l \in lines, l.address # Null
        PROVE  l.host # Host(req.old.name, Null)
    BY <2>1 DEF H!remove, H!Matches, HostsOf
  <2> HIDE DEF lines, names
  <2>2. ~LeftFiles' /\ ~LeftServer' /\ (LeftHosts' => "unhost" \notin failed)
    BY <1>1, <1>3 DEF LeftFiles, LeftServer, LeftHosts
  <2> QED
    BY <1>2, <1>3, <2>1, <2>2 DEF GoneInv, Host
<1>10. OrphanInv'
  <2>1. Managed' \subseteq Managed /\ Managed \subseteq hosts
    BY <1>4 DEF Managed, ManagedIn
  <2>2. ASSUME NEW l \in Managed' \ leftover'
        PROVE  \E s \in DOMAIN site : Accounts(s, l) /\ s # req.id
    <3>1. l \in Managed \ leftover /\ l \in lines
      BY <1>2, <2>1 DEF Managed, ManagedIn
    <3>2. PICK s \in DOMAIN site : Accounts(s, l)
      BY <3>1 DEF SitesInv, OrphanInv
    <3>3. ASSUME s = req.id
          PROVE  FALSE
      <4>1. req.old = site[s]
        BY <1>1, <3>3, RowOK DEF SitesInv
      <4>2. l.host \in names
        BY <3>2, <3>3, <4>1 DEF Accounts
      <4>3. l.address # Null
        BY <3>1 DEF Managed, ManagedIn
      <4> QED
        BY <3>1, <4>2, <4>3 DEF H!remove, H!Matches
    <3> QED
      BY <3>2, <3>3
  <2>3. \A s, l : Accounts(s, l)' <=> Accounts(s, l)
    BY <1>1 DEF Accounts, AliasesOf, HostsOf, Host
  <2> QED
    BY <1>1, <1>3, <2>1, <2>2, <2>3 DEF SitesInv, OrphanInv
<1> QED
  BY <1>5, <1>6, <1>7, <1>8, <1>9, <1>10 DEF SitesInv

\* A new site gets an id that no alias refers to.
LEMMA InsertSiteStep ==
  ASSUME SitesInv, InsertSite
  PROVE  SitesInv'
<1> DEFINE id == lastSite + 1
<1>1. /\ req.pc = "insert" /\ req.op = "create" /\ lastSite < MaxSite /\ req.old = NoRow
      /\ lastSite \in Nat /\ MaxSite \in Nat /\ req.failed \in SUBSET Label /\ Saving
      /\ lastSite' = id /\ UNCHANGED <<alias, live, vhosts, vhost, changed, hosts, page, leftover>>
  BY SiteBoundAssumption
     DEF SitesInv, SitesTypeOK, RequestOK, InsertSite, files, hostsFile, Saving
<1>2. Moves("aliases", id, req.form.aliases, req.failed)
  BY DEF SitesInv, RequestOK, InsertSite, Moves
<1>3. /\ req'.op = req.op /\ req'.pc = "aliases" /\ req'.id = id /\ req'.form = req.form
      /\ req'.old = req.old /\ req'.todo = req.form.aliases
  BY <1>2, MovesFields
<1>4. /\ DOMAIN site' = DOMAIN site \cup {id} /\ id \notin DOMAIN site /\ site'[id] = NewRow
      /\ \A s \in DOMAIN site : site'[s] = site[s]
  BY <1>1 DEF SitesInv, SitesTypeOK, InsertSite
<1>5. req.form.aliases \in SUBSET Alias /\ NewRow \in RowType /\ NewRow' = NewRow
  <2>1. NewRow' = NewRow
    BY <1>3 DEF NewRow
  <2> QED
    BY <1>1, <2>1, FormFields, NewRowOK DEF SitesInv
<1>6. SitesTypeOK'
  <2>1. \A s \in DOMAIN site' : s \in 1..lastSite' /\ site'[s] \in RowType
    BY <1>1, <1>4, <1>5 DEF SitesInv, SitesTypeOK
  <2> QED
    BY <1>1, <2>1 DEF SitesInv, SitesTypeOK
<1>7. RequestOK'
  BY <1>1, <1>2, <1>5, RequestMoves DEF SitesInv, Label
<1>8. StoredInv'
  BY <1>1, <1>3, <1>4, <1>5 DEF StoredInv
<1>9. AliasInv'
  <2>1. alias \subseteq (1..lastSite') \X Alias /\ AliasesOf(id) = {}
    BY <1>1 DEF SitesInv, AliasInv, AliasesOf
  <2>2. AliasesOf(req.id)' = {}
    BY <1>1, <1>3, <2>1 DEF AliasesOf
  <2> QED
    BY <1>1, <1>3, <2>1, <2>2 DEF AliasInv
<1>10. FilesInv' /\ SetInv' /\ GoneInv'
  BY <1>1, <1>3 DEF SitesInv, FilesInv, SetInv, GoneInv, LeftFiles, LeftServer, LeftHosts, Leaves
<1>11. OrphanInv'
  <2>1. ~Changing'
    BY <1>3 DEF Changing
  <2> QED
    BY <1>1, <1>4, <2>1, SameOrphans DEF SitesInv, AliasesOf
<1> QED
  BY <1>6, <1>7, <1>8, <1>9, <1>10, <1>11 DEF SitesInv

\* No line of the hosts file depends on the row that is overwritten.
LEMMA UpdateSiteStep ==
  ASSUME SitesInv, UpdateSite
  PROVE  SitesInv'
<1>1. /\ req.pc = "update" /\ req.op = "update" /\ Saving /\ Changing
      /\ UNCHANGED <<lastSite, alias, live, vhosts, vhost, changed, hosts, page, leftover>>
  BY DEF SitesInv, RequestOK, UpdateSite, files, hostsFile, Saving, Changing
<1>2. Moves("dropAliases", req.id, req.todo, req.failed)
  BY GotoMoves DEF SitesInv, UpdateSite
<1>3. /\ req'.op = req.op /\ req'.pc = "dropAliases" /\ req'.id = req.id /\ req'.form = req.form
      /\ req'.old = req.old
  BY <1>2, MovesFields
<1>4. /\ DOMAIN site' = DOMAIN site
      /\ \A s \in DOMAIN site : site'[s] = IF s = req.id THEN NewRow ELSE site[s]
  BY DEF UpdateSite
<1>5. NewRow \in RowType /\ NewRow' = NewRow
  <2>1. NewRow' = NewRow
    BY <1>3 DEF NewRow
  <2> QED
    BY <1>1, <2>1, NewRowOK DEF SitesInv
<1>6. SitesTypeOK'
  BY <1>1, <1>4, <1>5 DEF SitesInv, SitesTypeOK
<1>7. RequestOK'
  <2>1. /\ req.id \in 1..lastSite' /\ lastSite' \in 0..MaxSite /\ req.todo \in SUBSET Alias
        /\ req.failed \in SUBSET Label
    BY <1>1, Serving DEF SitesInv, SitesTypeOK
  <2> QED
    BY <1>1, <1>2, <2>1, RequestMoves DEF SitesInv, Label
<1>8. StoredInv'
  BY <1>1, <1>3, <1>4, <1>5 DEF SitesInv, StoredInv
<1>9. AliasInv' /\ FilesInv' /\ SetInv' /\ GoneInv'
  BY <1>1, <1>3 DEF SitesInv, AliasInv, FilesInv, SetInv, GoneInv, LeftFiles, LeftServer, LeftHosts, Leaves
<1>10. OrphanInv'
  BY <1>1, <1>3, <1>4, SameOrphans DEF SitesInv, AliasesOf
<1> QED
  BY <1>6, <1>7, <1>8, <1>9, <1>10 DEF SitesInv

\* Nor on the aliases that are deleted.
LEMMA DropAliasesStep ==
  ASSUME SitesInv, DropAliases
  PROVE  SitesInv'
<1> DEFINE label == IF req.op = "update" THEN "aliases" ELSE "done"
<1>1. /\ req.pc = "dropAliases" /\ req.op \in {"update", "delete"} /\ Changing
      /\ req.op = "update" => Saving
      /\ UNCHANGED <<lastSite, site, live, vhosts, vhost, changed, hosts, page, leftover>>
  BY DEF SitesInv, RequestOK, DropAliases, files, hostsFile, Saving, Changing
<1>2. Moves(label, req.id, req.form.aliases, req.failed)
  BY DEF SitesInv, RequestOK, DropAliases, Moves
<1>3. /\ req'.op = req.op /\ req'.pc = label /\ req'.id = req.id /\ req'.form = req.form
      /\ req'.old = req.old /\ req'.todo = req.form.aliases /\ req'.failed = req.failed
  BY <1>2, MovesFields
<1>4. alias' = {x \in alias : x[1] # req.id}
  BY DEF DropAliases
<1>5. /\ AliasesOf(req.id)' = {}
      /\ \A s \in DOMAIN site : s # req.id => AliasesOf(s)' = AliasesOf(s)
  BY <1>3, <1>4 DEF AliasesOf
<1>6. SitesTypeOK'
  BY <1>1, <1>4 DEF SitesInv, SitesTypeOK
<1>7. RequestOK'
  <2>1. /\ req.id \in 1..lastSite' /\ lastSite' \in 0..MaxSite /\ req.form.aliases \in SUBSET Alias
        /\ req.failed \in SUBSET Label
    BY <1>1, Serving DEF SitesInv, SitesTypeOK, RequestOK, Form, NoForm
  <2> QED
    BY <1>1, <1>2, <2>1, RequestMoves DEF SitesInv, Label
<1>8. StoredInv'
  <2>1. NewRow' = NewRow
    BY <1>3 DEF NewRow
  <2> QED
    BY <1>1, <1>3, <2>1 DEF SitesInv, StoredInv, Saving
<1>9. AliasInv'
  <2>1. alias' \subseteq (1..lastSite') \X Alias
    BY <1>1, <1>4 DEF SitesInv, AliasInv
  <2> QED
    BY <1>1, <1>3, <1>5, <2>1 DEF AliasInv, Saving
<1>10. FilesInv' /\ SetInv' /\ GoneInv'
  BY <1>1, <1>3 DEF SitesInv, FilesInv, SetInv, GoneInv, LeftFiles, LeftServer, LeftHosts, Leaves, Served, Saving
<1>11. OrphanInv'
  <2>1. ~Changing'
    BY <1>3 DEF Changing
  <2> QED
    BY <1>1, <1>5, <2>1, SameOrphans DEF SitesInv
<1> QED
  BY <1>6, <1>7, <1>8, <1>9, <1>10, <1>11 DEF SitesInv

\* The aliases of the form are stored one by one.
LEMMA InsertAliasStep ==
  ASSUME SitesInv, InsertAlias
  PROVE  SitesInv'
<1>1. /\ req.pc = "aliases" /\ Saving /\ req.op \in {"create", "update"} /\ ~Changing
      /\ UNCHANGED <<lastSite, site, live, vhosts, vhost, changed, hosts, page, leftover>>
  BY DEF SitesInv, RequestOK, InsertAlias, files, hostsFile, Saving, Changing
<1>2. PICK label \in {"aliases", "leave", "join"}, todo \in SUBSET req.todo :
        /\ Moves(label, req.id, todo, req.failed)
        /\ label = "leave" => req.op = "update"
        /\ label = "join" => req.op = "create"
        /\ label # "aliases" => req.todo = {} /\ alias' = alias
        /\ label = "aliases" => \E a \in req.todo : todo = req.todo \ {a} /\ alias' = alias \cup {<<req.id, a>>}
  <2>1. CASE req.todo = {}
    <3>1. /\ Moves(IF req.op = "update" THEN "leave" ELSE "join", req.id, req.todo, req.failed)
          /\ alias' = alias
      BY <2>1, GotoMoves DEF SitesInv, InsertAlias
    <3>2. CASE req.op = "update"
      BY <2>1, <3>1, <3>2
    <3>3. CASE req.op # "update"
      BY <1>1, <2>1, <3>1, <3>3
    <3> QED
      BY <3>2, <3>3
  <2>2. CASE req.todo # {}
    <3>1. PICK a \in req.todo : /\ alias' = alias \cup {<<req.id, a>>}
                                /\ req' = [req EXCEPT !.todo = @ \ {a}]
      BY <2>2 DEF InsertAlias
    <3>2. Moves("aliases", req.id, req.todo \ {a}, req.failed)
      BY <1>1, <3>1 DEF SitesInv, RequestOK, Moves
    <3> QED
      BY <3>1, <3>2
  <2> QED
    BY <2>1, <2>2
<1>3. /\ req'.op = req.op /\ req'.pc = label /\ req'.id = req.id /\ req'.form = req.form
      /\ req'.old = req.old /\ req'.todo = todo
  BY <1>2, MovesFields
<1>4. /\ req.id \in 1..lastSite /\ lastSite \in 0..MaxSite /\ req.todo \in SUBSET Alias
      /\ req.failed \in SUBSET Label
  BY <1>1, Serving DEF SitesInv, SitesTypeOK
<1>5. \A s : AliasesOf(s) \subseteq AliasesOf(s)'
  BY <1>2 DEF AliasesOf
<1>6. alias' \subseteq (1..lastSite) \X Alias
  BY <1>2, <1>4 DEF SitesInv, AliasInv
<1>7. SitesTypeOK'
  <2>1. 1..lastSite \subseteq SiteIds
    BY <1>4, SiteBoundAssumption DEF SiteIds
  <2>2. alias' \subseteq SiteIds \X Alias
    BY <1>6, <2>1
  <2> QED
    BY <1>1, <2>2 DEF SitesInv, SitesTypeOK
<1>8. RequestOK'
  BY <1>1, <1>2, <1>4, RequestMoves DEF SitesInv, Label
<1>9. StoredInv'
  <2>1. NewRow' = NewRow
    BY <1>3 DEF NewRow
  <2> QED
    BY <1>1, <1>2, <1>3, <2>1 DEF SitesInv, StoredInv, Saving
<1>10. AliasInv'
  <2>1. AliasesOf(req.id) \cup req.todo = req.form.aliases
    BY <1>1 DEF SitesInv, AliasInv
  <2>2. CASE label # "aliases"
    <3>1. AliasesOf(req.id)' = req.form.aliases
      BY <1>2, <1>3, <2>1, <2>2 DEF AliasesOf
    <3> QED
      BY <1>1, <1>2, <1>3, <1>6, <2>2, <3>1 DEF AliasInv, Saving
  <2>3. CASE label = "aliases"
    <3>1. PICK a \in req.todo : todo = req.todo \ {a} /\ alias' = alias \cup {<<req.id, a>>}
      BY <1>2, <2>3
    <3>2. AliasesOf(req.id)' = AliasesOf(req.id) \cup {a}
      BY <1>3, <1>4, <3>1 DEF AliasesOf
    <3>3. AliasesOf(req.id)' \cup todo = req.form.aliases
      BY <2>1, <3>1, <3>2
    <3> QED
      BY <1>1, <1>3, <1>6, <2>3, <3>3 DEF AliasInv, Saving
  <2> QED
    BY <2>2, <2>3
<1>11. FilesInv' /\ SetInv' /\ GoneInv'
  <2>1. req.op = "update" \/ req.old.name = Null
    BY <1>1 DEF SitesInv, RequestOK, NoRow
  <2>2. label = "join" => req.op = "create"
    BY <1>1, <1>2
  <2> QED
    BY <1>1, <1>2, <1>3, <2>1, <2>2 DEF SitesInv, FilesInv, SetInv, GoneInv, LeftFiles, LeftServer, LeftHosts, Leaves
<1>12. OrphanInv'
  <2>1. ~Changing'
    BY <1>1, <1>2, <1>3 DEF Changing
  <2> QED
    BY <1>1, <1>5, <2>1, SameOrphans DEF SitesInv
<1> QED
  BY <1>7, <1>8, <1>9, <1>10, <1>11, <1>12 DEF SitesInv

\* No line of the hosts file depends on the row that is deleted.
LEMMA DeleteRowStep ==
  ASSUME SitesInv, DeleteRow
  PROVE  SitesInv'
<1>1. /\ req.pc = "deleteRow" /\ req.op = "delete" /\ ~Saving /\ Changing
      /\ UNCHANGED <<lastSite, alias, live, vhosts, vhost, changed, hosts, page, leftover>>
  BY DEF SitesInv, RequestOK, DeleteRow, files, hostsFile, Saving, Changing
<1>2. Moves("dropAliases", req.id, req.todo, req.failed)
  BY GotoMoves DEF SitesInv, DeleteRow
<1>3. /\ req'.op = req.op /\ req'.pc = "dropAliases" /\ req'.id = req.id /\ req'.form = req.form
      /\ req'.old = req.old /\ req'.failed = req.failed
  BY <1>2, MovesFields
<1>4. /\ DOMAIN site' = DOMAIN site \ {req.id}
      /\ \A s \in DOMAIN site' : site'[s] = site[s]
  BY DEF DeleteRow
<1>5. SitesTypeOK'
  BY <1>1, <1>4 DEF SitesInv, SitesTypeOK
<1>6. RequestOK'
  <2>1. /\ req.id \in 1..lastSite' /\ lastSite' \in 0..MaxSite /\ req.todo \in SUBSET Alias
        /\ req.failed \in SUBSET Label
    BY <1>1, Serving DEF SitesInv, SitesTypeOK
  <2> QED
    BY <1>1, <1>2, <2>1, RequestMoves DEF SitesInv, Label
<1>7. StoredInv' /\ AliasInv' /\ FilesInv' /\ SetInv' /\ GoneInv'
  BY <1>1, <1>3 DEF SitesInv, StoredInv, AliasInv, FilesInv, SetInv, GoneInv, LeftFiles, LeftServer, LeftHosts, Leaves, Saving, Served
<1>8. OrphanInv'
  BY <1>1, <1>3, <1>4, SameOrphans DEF SitesInv, AliasesOf
<1> QED
  BY <1>5, <1>6, <1>7, <1>8 DEF SitesInv

\* Restarting a server, which may fail silently, or the fatal error where it has no row.
LEMMA RestartedEffect ==
  ASSUME RequestOK, NEW s, NEW label, Restarted(s, label)
  PROVE  \E end \in {label, "fatal"}, failed \in SUBSET Label :
           /\ Moves(end, req.id, req.todo, failed)
           /\ req.failed \subseteq failed /\ changed' \subseteq changed
           /\ failed \subseteq req.failed \cup {req.pc}
           /\ end # "fatal" /\ req.pc \notin failed => s \notin changed'
<1>1. CASE s \in live /\ Goto(label) /\ changed' = changed \ {s}
  <2>1. Moves(label, req.id, req.todo, req.failed) /\ req.failed \in SUBSET Label
    BY <1>1, GotoMoves DEF RequestOK
  <2> QED
    BY <1>1, <2>1
<1>2. CASE s \in live /\ Silently(label) /\ changed' = changed
  <2>1. /\ Moves(label, req.id, req.todo, req.failed \cup {req.pc})
        /\ req.failed \cup {req.pc} \in SUBSET Label
    BY <1>2, SilentMoves DEF RequestOK
  <2> QED
    BY <1>2, <2>1
<1>3. CASE s \notin live /\ Goto("fatal") /\ changed' = changed
  <2>1. Moves("fatal", req.id, req.todo, req.failed) /\ req.failed \in SUBSET Label
    BY <1>3, GotoMoves DEF RequestOK
  <2> QED
    BY <1>3, <2>1
<1> QED
  BY <1>1, <1>2, <1>3 DEF Restarted

\* The server that the site leaves loses its files.
LEMMA LeaveServerStep ==
  ASSUME SitesInv, LeaveServer
  PROVE  SitesInv'
<1> DEFINE h == req.old.httpd
<1>1. /\ req.pc = "leave" /\ req.op \in {"update", "delete"}
      /\ Saving <=> req.op = "update"
      /\ UNCHANGED <<lastSite, site, alias, live, vhosts, hosts, page, leftover>>
  BY DEF SitesInv, RequestOK, LeaveServer, tables, hostsFile, Saving
<1>2. PICK label \in {AfterLeaving, "restartOld"}, failed \in SUBSET Label :
        /\ Moves(label, req.id, req.todo, failed)
        /\ req.failed \subseteq failed
        /\ DOMAIN vhost' \subseteq DOMAIN vhost
        /\ changed' \subseteq vhosts
        /\ label = "restartOld" <=> Leaves
        /\ Leaves /\ "leave" \notin failed => <<h, req.old.name>> \notin DOMAIN vhost'
  <2>1. CASE ~Leaves
    <3>1. Moves(AfterLeaving, req.id, req.todo, req.failed) /\ UNCHANGED <<vhost, changed>>
      BY <2>1, GotoMoves DEF SitesInv, LeaveServer
    <3>2. req.failed \in SUBSET Label /\ changed \subseteq vhosts
      BY DEF SitesInv, RequestOK, SitesTypeOK
    <3> QED
      BY <2>1, <3>1, <3>2 DEF AfterLeaving
  <2>2. ASSUME Leaves, NEW gone \in SUBSET Deleted(h, req.old.name), DeleteFiles(gone)
        PROVE  DOMAIN vhost' = DOMAIN vhost \ gone /\ changed' \subseteq vhosts
    <3>1. gone # {} => h \in vhosts
      BY <2>2 DEF Deleted, SitesInv, SitesTypeOK
    <3> QED
      BY <2>2, <3>1 DEF DeleteFiles, SitesInv, SitesTypeOK
  <2>3. CASE Leaves /\ DeleteFiles(Deleted(h, req.old.name)) /\ Goto("restartOld")
    <3>1. Moves("restartOld", req.id, req.todo, req.failed) /\ req.failed \in SUBSET Label
      BY <2>3, GotoMoves DEF SitesInv, RequestOK
    <3>2. /\ DOMAIN vhost' = DOMAIN vhost \ Deleted(h, req.old.name)
          /\ changed' \subseteq vhosts
      BY <2>2, <2>3
    <3>3. <<h, req.old.name>> \notin DOMAIN vhost'
      BY <3>2 DEF Deleted, SitesInv, SitesTypeOK, FilesInv
    <3> QED
      BY <2>3, <3>1, <3>2, <3>3
  <2>4. ASSUME Leaves, NEW gone \in SUBSET Deleted(h, req.old.name), DeleteFiles(gone),
               Silently("restartOld")
        PROVE  /\ Moves("restartOld", req.id, req.todo, req.failed \cup {"leave"})
               /\ req.failed \cup {"leave"} \in SUBSET Label
               /\ DOMAIN vhost' \subseteq DOMAIN vhost
               /\ changed' \subseteq vhosts
    BY <1>1, <2>2, <2>4, SilentMoves DEF SitesInv, RequestOK
  <2>5. \/ ~Leaves
        \/ Leaves /\ DeleteFiles(Deleted(h, req.old.name)) /\ Goto("restartOld")
        \/ Leaves /\ \E gone \in SUBSET Deleted(h, req.old.name) :
                         DeleteFiles(gone) /\ Silently("restartOld")
    BY DEF LeaveServer
  <2> QED
    BY <2>1, <2>3, <2>4, <2>5
<1>3. /\ req'.op = req.op /\ req'.pc = label /\ req'.id = req.id /\ req'.form = req.form
      /\ req'.old = req.old /\ req'.failed = failed
  BY <1>2, MovesFields
<1>4. /\ label \in {"join", "deleteRow", "restartOld"}
      /\ label = "join" => req.op = "update"
      /\ label = "deleteRow" => req.op = "delete"
      /\ label # "restartOld" => ~Leaves
  BY <1>1, <1>2 DEF AfterLeaving
<1>5. SitesTypeOK'
  BY <1>1, <1>2 DEF SitesInv, SitesTypeOK
<1>6. RequestOK'
  <2>1. /\ req.id \in 1..lastSite' /\ lastSite' \in 0..MaxSite /\ req.todo \in SUBSET Alias
    BY <1>1, Serving DEF SitesInv, SitesTypeOK
  <2> QED
    BY <1>1, <1>2, <1>4, <2>1, RequestMoves DEF SitesInv, Label
<1>7. StoredInv'
  <2>1. NewRow' = NewRow
    BY <1>3 DEF NewRow
  <2> QED
    BY <1>1, <1>3, <1>4, <2>1 DEF SitesInv, StoredInv, Saving
<1>8. AliasInv'
  <2>1. AliasesOf(req.id)' = AliasesOf(req.id)
    BY <1>1, <1>3 DEF AliasesOf
  <2> QED
    BY <1>1, <1>3, <1>4, <2>1 DEF SitesInv, AliasInv, Saving
<1>9. FilesInv' /\ SetInv'
  BY <1>1, <1>3, <1>4 DEF SitesInv, FilesInv, SetInv
<1>10. GoneInv'
  <2>1. Leaves' <=> Leaves
    BY <1>3 DEF Leaves
  <2>2. /\ LeftFiles' => <<h, req.old.name>> \notin DOMAIN vhost'
        /\ ~LeftServer'
        /\ LeftHosts' => LeftHosts
    BY <1>1, <1>2, <1>3, <1>4, <2>1 DEF LeftFiles, LeftServer, LeftHosts
  <2> QED
    BY <1>1, <1>3, <2>2 DEF SitesInv, GoneInv, Host
<1>11. OrphanInv'
  <2>1. Changing' => Changing /\ req'.id = req.id
    BY <1>1, <1>3, <1>4 DEF Changing
  <2> QED
    BY <1>1, <2>1, SameOrphans DEF SitesInv, AliasesOf
<1> QED
  BY <1>5, <1>6, <1>7, <1>8, <1>9, <1>10, <1>11 DEF SitesInv

\* The server that the site has left is restarted, or the request ends in a fatal error.
LEMMA RestartOldStep ==
  ASSUME SitesInv, RestartOld
  PROVE  SitesInv'
<1>1. /\ req.pc = "restartOld" /\ req.op \in {"update", "delete"}
      /\ Saving <=> req.op = "update"
      /\ UNCHANGED <<lastSite, site, alias, live, vhosts, vhost, hosts, page, leftover>>
  BY DEF SitesInv, RequestOK, RestartOld, tables, hostsFile, Saving
<1>2. PICK label \in {AfterLeaving, "fatal"}, failed \in SUBSET Label :
        /\ Moves(label, req.id, req.todo, failed)
        /\ req.failed \subseteq failed /\ changed' \subseteq changed
        /\ label # "fatal" /\ "restartOld" \notin failed => req.old.httpd \notin changed'
  <2>1. Restarted(req.old.httpd, AfterLeaving)
    BY DEF RestartOld
  <2> QED
    BY <1>1, <2>1, RestartedEffect DEF SitesInv
<1>3. /\ req'.op = req.op /\ req'.pc = label /\ req'.id = req.id /\ req'.form = req.form
      /\ req'.old = req.old /\ req'.failed = failed
  BY <1>2, MovesFields
<1>4. /\ label \in {"join", "deleteRow", "fatal"}
      /\ label = "join" => req.op = "update"
      /\ label = "deleteRow" => req.op = "delete"
  BY <1>1, <1>2 DEF AfterLeaving
<1>5. SitesTypeOK'
  BY <1>1, <1>2 DEF SitesInv, SitesTypeOK
<1>6. RequestOK'
  <2>1. /\ req.id \in 1..lastSite' /\ lastSite' \in 0..MaxSite /\ req.todo \in SUBSET Alias
    BY <1>1, Serving DEF SitesInv, SitesTypeOK
  <2> QED
    BY <1>1, <1>2, <1>4, <2>1, RequestMoves DEF SitesInv, Label
<1>7. StoredInv'
  <2>1. NewRow' = NewRow
    BY <1>3 DEF NewRow
  <2> QED
    BY <1>1, <1>3, <1>4, <2>1 DEF SitesInv, StoredInv, Saving
<1>8. AliasInv'
  <2>1. AliasesOf(req.id)' = AliasesOf(req.id)
    BY <1>1, <1>3 DEF AliasesOf
  <2> QED
    BY <1>1, <1>3, <1>4, <2>1 DEF SitesInv, AliasInv, Saving
<1>9. FilesInv' /\ SetInv'
  BY <1>1, <1>3, <1>4 DEF SitesInv, FilesInv, SetInv
<1>10. GoneInv'
  <2>1. Leaves' <=> Leaves
    BY <1>3 DEF Leaves
  <2>2. /\ LeftFiles' => LeftFiles
        /\ LeftServer' => req.old.httpd \notin changed'
        /\ LeftHosts' => LeftHosts
    BY <1>1, <1>2, <1>3, <1>4, <2>1 DEF LeftFiles, LeftServer, LeftHosts
  <2> QED
    BY <1>1, <1>3, <2>2 DEF SitesInv, GoneInv, Host
<1>11. OrphanInv'
  <2>1. Changing' => Changing /\ req'.id = req.id
    BY <1>1, <1>3, <1>4 DEF Changing
  <2> QED
    BY <1>1, <2>1, SameOrphans DEF SitesInv, AliasesOf
<1> QED
  BY <1>5, <1>6, <1>7, <1>8, <1>9, <1>10, <1>11 DEF SitesInv

\* The server loads the files written, or the request ends in a fatal error.
LEMMA RestartServerStep ==
  ASSUME SitesInv, RestartServer
  PROVE  SitesInv'
<1>1. /\ req.pc = "restart" /\ Saving
      /\ UNCHANGED <<lastSite, site, alias, live, vhosts, vhost, hosts, page, leftover>>
  BY DEF SitesInv, RequestOK, RestartServer, tables, hostsFile
<1>2. PICK label \in {"done", "fatal"}, failed \in SUBSET Label :
        /\ Moves(label, req.id, req.todo, failed)
        /\ req.failed \subseteq failed /\ changed' \subseteq changed
        /\ failed \subseteq req.failed \cup {"restart"}
        /\ label = "done" /\ "restart" \notin failed => req.form.httpd \notin changed'
  <2>1. Restarted(req.form.httpd, "done")
    BY DEF RestartServer
  <2> QED
    BY <1>1, <2>1, RestartedEffect DEF SitesInv
<1>3. /\ req'.op = req.op /\ req'.pc = label /\ req'.id = req.id /\ req'.form = req.form
      /\ req'.old = req.old /\ req'.failed = failed
  BY <1>2, MovesFields
<1>4. SitesTypeOK'
  BY <1>1, <1>2 DEF SitesInv, SitesTypeOK
<1>5. RequestOK'
  <2>1. /\ req.id \in 1..lastSite' /\ lastSite' \in 0..MaxSite /\ req.todo \in SUBSET Alias
        /\ req.failed \in SUBSET Label
    BY <1>1, Serving DEF SitesInv, SitesTypeOK
  <2> QED
    BY <1>1, <1>2, <2>1, Serving, RequestMoves DEF SitesInv, Label
<1>6. StoredInv'
  <2>1. NewRow' = NewRow
    BY <1>3 DEF NewRow
  <2> QED
    BY <1>1, <1>2, <1>3, <2>1 DEF SitesInv, StoredInv, Saving
<1>7. AliasInv'
  <2>1. AliasesOf(req.id)' = AliasesOf(req.id)
    BY <1>1, <1>3 DEF AliasesOf
  <2> QED
    BY <1>1, <1>2, <1>3, <2>1 DEF SitesInv, AliasInv, Saving
<1>8. FilesInv' /\ SetInv'
  BY <1>1, <1>2, <1>3 DEF SitesInv, FilesInv, SetInv, Served, Saving
<1>9. GoneInv'
  BY <1>1, <1>2, <1>3 DEF SitesInv, GoneInv, LeftFiles, LeftServer, LeftHosts, Leaves, Saving
<1>10. OrphanInv'
  <2>1. ~Changing'
    BY <1>2, <1>3 DEF Changing
  <2> QED
    BY <1>1, <2>1, SameOrphans DEF SitesInv, AliasesOf
<1> QED
  BY <1>4, <1>5, <1>6, <1>7, <1>8, <1>9, <1>10 DEF SitesInv

\* The row of the site being saved, if it is there, is the form.
LEMMA SavedRow ==
  ASSUME SitesInv, req.pc \in {"join", "cert"}
  PROVE  /\ Saving
         /\ req.id \in DOMAIN site =>
              /\ Row(req.id) = NewRow /\ NewRow.name = req.form.name /\ NewRow.httpd = req.form.httpd
              /\ NewRow.cert = HostsOf(req.form.name, req.form.aliases)
              /\ req.form.name \in Name /\ req.form.aliases \in SUBSET Alias
         /\ req.id \notin DOMAIN site => Row(req.id).httpd = Null
         /\ AliasesOf(req.id) = req.form.aliases
<1>1. Saving
  BY DEF SitesInv, RequestOK
<1>2. AliasesOf(req.id) = req.form.aliases
  BY <1>1 DEF SitesInv, AliasInv
<1>3. req.id \in DOMAIN site => Row(req.id) = NewRow
  BY <1>1, RowOK DEF SitesInv, StoredInv
<1>4. req.id \notin DOMAIN site => Row(req.id).httpd = Null
  BY DEF Row
<1> QED
  BY <1>1, <1>2, <1>3, <1>4, NewRowOK, FormFields DEF SitesInv

\* Setting names (Hosts::add): afterwards a line with an address is for one of
\* them, and then it is the line added, or it was there and is for another name.
LEMMA AddedLines ==
  ASSUME NEW lines, NEW a, NEW names
  PROVE  /\ \A x \in names : H!Line(a, FALSE, x) \in H!add(lines, a, names)
         /\ \A l \in H!add(lines, a, names) : l.address # Null =>
              \/ l.host \in names /\ l.address = a /\ l = H!Line(a, FALSE, l.host)
              \/ l.host \notin names /\ l \in lines
<1>1. \A x \in names : H!Line(a, FALSE, x) \in H!add(lines, a, names)
  BY DEF H!add
<1>2. ASSUME NEW l \in H!add(lines, a, names), l.address # Null
      PROVE  \/ l.host \in names /\ l.address = a /\ l = H!Line(a, FALSE, l.host)
             \/ l.host \notin names /\ l \in lines
  <2>1. CASE l \in H!remove(lines, names)
    BY <1>2, <2>1 DEF H!remove, H!Matches
  <2>2. ASSUME NEW x \in names, l = H!Line(a, FALSE, x)
        PROVE  l.host \in names /\ l.address = a /\ l = H!Line(a, FALSE, l.host)
    BY <2>2 DEF H!Line
  <2> QED
    BY <2>1, <2>2 DEF H!add
<1> QED
  BY <1>1, <1>2

\* Names are put into the hosts file after their rows are there.
LEMMA AddHostsStep ==
  ASSUME SitesInv, AddHosts
  PROVE  SitesInv'
<1> DEFINE row   == Row(req.id)
           names == {x \in HostsOf(row.name, AliasesOf(req.id)) : Addable(x)}
           addr  == IF row.httpd \in live THEN address[row.httpd] ELSE Null
           lines == H!add(hosts, addr, names)
<1>1. /\ req.pc = "join" /\ Saving
      /\ UNCHANGED <<lastSite, site, alias, live, vhosts, vhost, changed>>
  BY SavedRow DEF AddHosts, tables, files
<1>2. PICK label \in {"cert", "done"}, failed \in SUBSET Label :
        /\ Moves(label, req.id, req.todo, failed)
        /\ req.failed \subseteq failed /\ page' = page
        /\ label = "done" <=> req.form.httpd = Null
        /\ label = "done" => UNCHANGED <<hosts, leftover>>
        /\ label = "cert" /\ "join" \notin failed => hosts' = lines
        /\ label = "cert" => \A l \in hosts' : l \notin leftover' =>
             l \in lines /\ (l \in hosts => l \notin leftover \/ l.host \in names)
  <2>1. CASE req.form.httpd = Null
    <3>1. Moves("done", req.id, req.todo, req.failed) /\ UNCHANGED <<hosts, page, leftover>>
      BY <2>1, GotoMoves DEF SitesInv, AddHosts, hostsFile
    <3>2. req.failed \in SUBSET Label
      BY DEF SitesInv, RequestOK
    <3> QED
      BY <2>1, <3>1, <3>2
  <2>2. CASE req.form.httpd # Null
    <3>1. Save(lines, names, "cert")
      BY <2>2 DEF AddHosts
    <3>2. /\ page' = page
          /\ \E failed \in SUBSET Label :
               /\ Moves("cert", req.id, req.todo, failed)
               /\ req.failed \subseteq failed
               /\ "join" \notin failed => hosts' = lines
               /\ \A l \in hosts' : l \notin leftover' =>
                    l \in lines /\ (l \in hosts => l \notin leftover \/ l.host \in names)
      <4> HIDE DEF lines, names
      <4> QED
        BY <1>1, <3>1, SaveEffect DEF SitesInv
    <3> HIDE DEF lines, names
    <3> QED
      BY <2>2, <3>2
  <2> QED
    BY <2>1, <2>2
<1>3. /\ req'.op = req.op /\ req'.pc = label /\ req'.id = req.id /\ req'.form = req.form
      /\ req'.old = req.old /\ req'.failed = failed
  BY <1>2, MovesFields
<1>4. SitesTypeOK'
  BY <1>1, <1>2 DEF SitesInv, SitesTypeOK
<1>5. RequestOK'
  <2>1. /\ req.id \in 1..lastSite' /\ lastSite' \in 0..MaxSite /\ req.todo \in SUBSET Alias
    BY <1>1, Serving DEF SitesInv, SitesTypeOK
  <2> QED
    BY <1>1, <1>2, <2>1, RequestMoves DEF SitesInv, Label, Saving
<1>6. StoredInv'
  <2>1. NewRow' = NewRow
    BY <1>3 DEF NewRow
  <2> QED
    BY <1>1, <1>2, <1>3, <2>1 DEF SitesInv, StoredInv, Saving
<1>7. AliasInv'
  <2>1. AliasesOf(req.id)' = AliasesOf(req.id)
    BY <1>1, <1>3 DEF AliasesOf
  <2> QED
    BY <1>1, <1>2, <1>3, <2>1 DEF SitesInv, AliasInv, Saving
<1>8. FilesInv'
  BY <1>1, <1>2, <1>3, ServerAssumption DEF SitesInv, SitesTypeOK, FilesInv, Served, Saving
<1>9. SetInv'
  <2> SUFFICES ASSUME Served', "join" \notin failed, label = "cert",
                      NEW x \in HostsOf(req.form.name, req.form.aliases), Addable(x)
               PROVE  {l \in hosts' : l.address # Null /\ l.host = x}
                        = {H!Line(address[req.form.httpd], FALSE, x)}
    <3>1. ASSUME Served'
          PROVE  req.form.httpd # Null
      BY <1>1, <1>3, <3>1, ServerAssumption DEF SitesInv, SitesTypeOK, Served
    <3>2. HostsOf(req.form.name, req.form.aliases)' = HostsOf(req.form.name, req.form.aliases)
      BY <1>3 DEF HostsOf, Host
    <3> QED
      BY <1>2, <1>3, <3>1, <3>2 DEF SetInv, H!Line, Addable, Host
  <2>1. req.id \in DOMAIN site /\ req.form.httpd \in live
    BY <1>1, <1>3 DEF SitesInv, FilesInv, Served
  <2>2. x \in names /\ addr = address[req.form.httpd]
    BY <1>1, <2>1, SavedRow
  <2>3. hosts' = H!add(hosts, addr, names)
    BY <1>2, <1>3
  <2>4. addr # Null
    BY <2>1, <2>2, AddressAssumption DEF SitesInv, SitesTypeOK
  <2> HIDE DEF names, addr
  <2>5. H!Line(addr, FALSE, x) \in hosts' /\ H!Line(addr, FALSE, x).address # Null
        /\ H!Line(addr, FALSE, x).host = x
    BY <2>2, <2>3, <2>4, AddedLines DEF H!Line
  <2>6. ASSUME NEW l \in hosts', l.address # Null, l.host = x
        PROVE  l = H!Line(addr, FALSE, x)
    <3>1. l \in H!add(hosts, addr, names) /\ l.host \in names
      BY <2>2, <2>3, <2>6
    <3>2. l = H!Line(addr, FALSE, l.host)
      BY <2>6, <3>1, AddedLines
    <3> QED
      BY <2>6, <3>2
  <2> QED
    BY <2>2, <2>5, <2>6
<1>10. GoneInv'
  <2>1. req.op # "delete"
    BY <1>1 DEF Saving
  <2>2. Leaves' <=> Leaves
    BY <1>3 DEF Leaves
  <2>3. (LeftFiles' => LeftFiles) /\ (LeftServer' => LeftServer) /\ ~LeftHosts'
    BY <1>1, <1>2, <1>3, <2>1, <2>2 DEF LeftFiles, LeftServer, LeftHosts
  <2> QED
    BY <1>1, <1>3, <2>3 DEF SitesInv, GoneInv
<1>11. OrphanInv'
  <2>1. ~Changing'
    BY <1>2, <1>3 DEF Changing
  <2>2. CASE label = "done"
    BY <1>1, <1>2, <2>1, <2>2, SameOrphans DEF SitesInv, AliasesOf
  <2>3. CASE label = "cert"
    <3>1. \A s, l : Accounts(s, l)' <=> Accounts(s, l)
      BY <1>1 DEF Accounts, AliasesOf, HostsOf, Host
    <3>2. ASSUME NEW l \in Managed' \ leftover'
          PROVE  \E s \in DOMAIN site : Accounts(s, l)
      <4>1. l \in hosts' /\ l \notin UserLines /\ l.address # Null /\ l \in H!add(hosts, addr, names)
        BY <1>2, <2>3, <3>2 DEF Managed, ManagedIn
      <4>2. CASE l.host \in names
        <5>1. l.address = addr
          <6> HIDE DEF names, addr
          <6> QED
            BY <4>1, <4>2, AddedLines
        <5>2. row.httpd # Null
          BY <4>1, <5>1, ServerAssumption DEF SitesInv, SitesTypeOK
        <5>3. req.id \in DOMAIN site /\ row = site[req.id]
          BY <1>1, <5>2, SavedRow, RowOK DEF SitesInv
        <5> QED
          BY <4>2, <5>3 DEF Accounts
      <4>3. CASE l.host \notin names
        <5>1. l \in hosts
          <6> HIDE DEF names, addr
          <6> QED
            BY <4>1, <4>3, AddedLines
        <5>2. l \in Managed \ leftover
          BY <1>2, <2>3, <3>2, <4>1, <4>3, <5>1 DEF Managed, ManagedIn
        <5> QED
          BY <5>2 DEF SitesInv, OrphanInv
      <4> QED
        BY <4>2, <4>3
    <3> QED
      BY <1>1, <2>1, <3>1, <3>2 DEF OrphanInv
  <2> QED
    BY <2>2, <2>3
<1> QED
  BY <1>4, <1>5, <1>6, <1>7, <1>8, <1>9, <1>10, <1>11 DEF SitesInv

\* The files are written from the rows of the site.
LEMMA WriteFilesStep ==
  ASSUME SitesInv, WriteFiles
  PROVE  SitesInv'
<1> DEFINE row == Row(req.id)
           key == <<row.httpd, row.name>>
           names == HostsOf(req.form.name, req.form.aliases)
           writes == row.httpd \in live \cap vhosts
<1>1. /\ req.pc = "cert" /\ Saving
      /\ UNCHANGED <<lastSite, site, alias, live, vhosts, hosts, page, leftover>>
  BY SavedRow DEF WriteFiles, tables, hostsFile
<1>2. PICK failed \in SUBSET Label :
        /\ Moves("restart", req.id, req.todo, failed)
        /\ req.failed \subseteq failed /\ failed \subseteq req.failed \cup {"cert"}
        /\ writes /\ "cert" \notin failed => key \in DOMAIN vhost' /\ vhost'[key] = Content
        /\ writes => DOMAIN vhost' \subseteq DOMAIN vhost \cup {key} /\ changed' \subseteq changed \cup {row.httpd}
        /\ ~writes => UNCHANGED <<vhost, changed>>
  <2>1. CASE /\ writes
             /\ vhost' = [v \in DOMAIN vhost \cup {key} |-> IF v = key THEN Content ELSE vhost[v]]
             /\ changed' = changed \cup {row.httpd}
             /\ Goto("restart")
    <3>1. Moves("restart", req.id, req.todo, req.failed) /\ req.failed \in SUBSET Label
      BY <2>1, GotoMoves DEF SitesInv, RequestOK
    <3>2. DOMAIN vhost' = DOMAIN vhost \cup {key} /\ vhost'[key] = Content
      BY <2>1
    <3> HIDE DEF row, key
    <3> QED
      BY <2>1, <3>1, <3>2
  <2>2. CASE writes /\ Silently("restart") /\ UNCHANGED <<vhost, changed>>
    <3>1. /\ Moves("restart", req.id, req.todo, req.failed \cup {"cert"})
          /\ req.failed \cup {"cert"} \in SUBSET Label
      BY <1>1, <2>2, SilentMoves DEF SitesInv, RequestOK
    <3> HIDE DEF row, key
    <3> QED
      BY <2>2, <3>1
  <2>3. CASE ~writes /\ Goto("restart") /\ UNCHANGED <<vhost, changed>>
    <3>1. Moves("restart", req.id, req.todo, req.failed) /\ req.failed \in SUBSET Label
      BY <2>3, GotoMoves DEF SitesInv, RequestOK
    <3> HIDE DEF row, key
    <3> QED
      BY <2>3, <3>1
  <2> QED
    BY <2>1, <2>2, <2>3 DEF WriteFiles
<1>3. /\ req'.op = req.op /\ req'.pc = "restart" /\ req'.id = req.id /\ req'.form = req.form
      /\ req'.old = req.old /\ req'.failed = failed
  BY <1>2, MovesFields
<1>5. writes => /\ req.id \in DOMAIN site /\ row.httpd = req.form.httpd /\ row.name = req.form.name
                /\ req.form.name \in Name /\ Content = [cert |-> names, names |-> names]
  <2>1. writes => row.httpd # Null
    BY ServerAssumption DEF SitesInv, SitesTypeOK
  <2> QED
    BY <1>1, <2>1, SavedRow DEF Content
<1>6. SitesTypeOK'
  BY <1>1, <1>2, <1>5 DEF SitesInv, SitesTypeOK
<1>7. RequestOK'
  <2>1. /\ req.id \in 1..lastSite' /\ lastSite' \in 0..MaxSite /\ req.todo \in SUBSET Alias
        /\ req.op # "none" /\ req.form.httpd # Null
    BY <1>1, Serving DEF SitesInv, SitesTypeOK, RequestOK
  <2> QED
    BY <1>1, <1>2, <2>1, RequestMoves DEF SitesInv, Label
<1>8. StoredInv'
  <2>1. NewRow' = NewRow
    BY <1>3 DEF NewRow
  <2> QED
    BY <1>1, <1>3, <2>1 DEF SitesInv, StoredInv, Saving
<1>9. AliasInv'
  <2>1. AliasesOf(req.id)' = AliasesOf(req.id)
    BY <1>1, <1>3 DEF AliasesOf
  <2> QED
    BY <1>1, <1>3, <2>1 DEF SitesInv, AliasInv, Saving
<1>10. FilesInv'
  <2>1. vhosts' \subseteq live'
    BY <1>1 DEF SitesInv, FilesInv
  <2>2. ASSUME Served', "cert" \notin failed
        PROVE  /\ <<req.form.httpd, req.form.name>> \in DOMAIN vhost'
               /\ vhost'[<<req.form.httpd, req.form.name>>] = [cert |-> names, names |-> names]
    <3>1. req.form.httpd \in vhosts /\ req.id \in DOMAIN site
      BY <1>1, <1>3, <2>2 DEF Served
    <3>2. row.httpd = req.form.httpd /\ writes
      BY <1>1, <3>1, SavedRow DEF SitesInv, FilesInv
    <3> QED
      BY <1>2, <1>5, <2>2, <3>2
  <2>3. names' = names
    BY <1>3 DEF HostsOf, Host
  <2> HIDE DEF names
  <2> QED
    BY <1>3, <2>1, <2>2, <2>3 DEF FilesInv, names
<1>11. SetInv'
  BY <1>1, <1>2, <1>3 DEF SitesInv, SetInv, Served, Saving
<1>12. GoneInv'
  <2>1. Leaves' <=> Leaves
    BY <1>3 DEF Leaves
  <2>2. (LeftFiles' => LeftFiles) /\ (LeftServer' => LeftServer) /\ ~LeftHosts'
    BY <1>1, <1>2, <1>3, <2>1 DEF LeftFiles, LeftServer, LeftHosts, Saving
  <2>3. ASSUME Leaves
        PROVE  /\ <<req.old.httpd, req.old.name>> \in DOMAIN vhost' => <<req.old.httpd, req.old.name>> \in DOMAIN vhost
               /\ req.old.httpd \in changed' => req.old.httpd \in changed
    BY <1>2, <1>5, <2>3 DEF Leaves
  <2>4. (LeftFiles => Leaves) /\ (LeftServer => Leaves)
    BY DEF LeftFiles, LeftServer
  <2> QED
    BY <1>1, <1>3, <2>2, <2>3, <2>4 DEF SitesInv, GoneInv
<1>13. OrphanInv'
  <2>1. ~Changing'
    BY <1>3 DEF Changing
  <2> QED
    BY <1>1, <2>1, SameOrphans DEF SitesInv, AliasesOf
<1> QED
  BY <1>6, <1>7, <1>8, <1>9, <1>10, <1>11, <1>12, <1>13 DEF SitesInv

\* A step that changes nothing keeps the invariant.
LEMMA StutterStep ==
  ASSUME SitesInv, UNCHANGED svars
  PROVE  SitesInv'
<1>1. UNCHANGED <<lastSite, site, alias, live, vhosts, vhost, changed, hosts, page, leftover, req>>
  BY DEF svars, tables, files, hostsFile
<1>2. SitesTypeOK'
  BY <1>1 DEF SitesInv, SitesTypeOK
<1>3. RequestOK' /\ StoredInv'
  BY <1>1 DEF SitesInv, RequestOK, StoredInv, Row, NewRow, HostsOf, Host, Saving
<1>4. AliasInv' /\ FilesInv' /\ SetInv'
  <2>1. AliasInv'
    BY <1>1 DEF SitesInv, AliasInv, AliasesOf, Saving
  <2>2. FilesInv'
    BY <1>1 DEF SitesInv, FilesInv, Served, Saving, HostsOf, Host
  <2>3. SetInv'
    BY <1>1 DEF SitesInv, SetInv, Served, Saving, HostsOf, Host, Addable, H!Line
  <2> QED
    BY <2>1, <2>2, <2>3
<1>5. GoneInv'
  BY <1>1 DEF SitesInv, GoneInv, LeftFiles, LeftServer, LeftHosts, Leaves
<1>6. OrphanInv'
  <2>1. Changing' => Changing /\ req'.id = req.id
    BY <1>1 DEF Changing
  <2> QED
    BY <1>1, <2>1, SameOrphans DEF SitesInv, AliasesOf
<1> QED
  BY <1>2, <1>3, <1>4, <1>5, <1>6 DEF SitesInv

\* Every step keeps the invariant.
LEMMA SitesStep ==
  ASSUME SitesInv, [Next]_svars
  PROVE  SitesInv'
<1>1. CASE Step
  BY <1>1, RemoveHostsStep, InsertSiteStep, UpdateSiteStep, DropAliasesStep, InsertAliasStep,
     LeaveServerStep, RestartOldStep, AddHostsStep, WriteFilesStep, RestartServerStep, DeleteRowStep, EndStep
     DEF Step
<1>2. ASSUME NEW h \in Server, NEW stage \in 1..3, Uninstall(h, stage)
      PROVE  SitesInv'
  BY <1>2, UninstallStep
<1>3. ASSUME NEW p \in Page, ShowHosts(p) \/ PostHosts(p)
      PROVE  SitesInv'
  BY <1>3, PageStep
<1> QED
  BY <1>1, <1>2, <1>3, StartStep, EndStep, StutterStep DEF Next

-----------------------------------------------------------------------------
(* The results                                                             *)

\* The invariant holds of every behaviour of Sites (classes/site.php, SiteController).
THEOREM SitesInvariant == Spec => []SitesInv
<1>1. Init => SitesInv
  BY SitesInit
<1>2. SitesInv /\ [Next]_svars => SitesInv'
  BY SitesStep
<1> QED
  BY <1>1, <1>2, PTL DEF Spec

\* Tables, files and requests of any number of sites stay well-formed.
THEOREM SitesTypeCorrect == Spec => []SitesTypeOK
<1>1. SitesInv => SitesTypeOK
  BY DEF SitesInv
<1> QED
  BY <1>1, SitesInvariant, PTL

\* Wherever requests are cut, no line of the hosts file is left that no site
\* accounts for, except by a failed writing or by an old page of the hosts file that
\* is posted (Site::update, delete, _make, HostController::update).
THEOREM NeverOrphanHosts == Spec => []NoOrphanHosts
<1>1. SitesInv => NoOrphanHosts
  BY DEF SitesInv, OrphanInv, NoOrphanHosts
<1> QED
  BY <1>1, SitesInvariant, PTL

\* Only these steps write the hosts file or render its page.
LEMMA OnlyTheseWriteHosts ==
  ASSUME [Next]_svars, ~RemoveHosts, ~AddHosts, \A p \in Page : ~ShowHosts(p) /\ ~PostHosts(p)
  PROVE  hosts' = hosts /\ page' = page
<1>1. CASE Step
  BY <1>1 DEF Step, InsertSite, UpdateSite, DropAliases, InsertAlias, LeaveServer, RestartOld,
              WriteFiles, RestartServer, DeleteRow, Finish, hostsFile
<1>2. CASE Next /\ ~Step
  BY <1>2 DEF Next, DoAdd, DoEdit, Delete, Kill, Uninstall, hostsFile
<1>3. CASE UNCHANGED svars
  BY <1>3 DEF svars, hostsFile
<1> QED
  BY <1>1, <1>2, <1>3

\* What is true of a text of the hosts file: no line is for an empty name, and no
\* name of the manager has a second line.
TextOK(text) ==
  /\ \A l \in text : l.address # Null => l.host # Null /\ \A a \in Alias : l.host # <<Null, a>>
  /\ \A l \in ManagedIn(text), m \in text : m.address # Null /\ l.host = m.host => l = m

TextInv == TextOK(hosts) /\ \A p \in Page : TextOK(page[p])

\* Removing lines keeps a text well-formed.
LEMMA SmallerText ==
  ASSUME NEW text, NEW smaller, smaller \subseteq text, TextOK(text)
  PROVE  TextOK(smaller)
  BY DEF TextOK, ManagedIn

\* So does setting the names of a site, or names without an address.
LEMMA AddedText ==
  ASSUME NEW text, NEW a, NEW names, TextOK(text), a # Null => names \subseteq SiteHost
  PROVE  TextOK(H!add(text, a, names))
<1> DEFINE new == H!add(text, a, names)
<1>1. ASSUME NEW l \in new, l.address # Null
      PROVE  \/ l.host \in names /\ l.address = a /\ l = H!Line(a, FALSE, l.host)
             \/ l.host \notin names /\ l \in text
  BY <1>1, AddedLines
<1> HIDE DEF new
<1>2. ASSUME NEW l \in new, l.address # Null
      PROVE  l.host # Null /\ \A b \in Alias : l.host # <<Null, b>>
  <2>1. CASE l \in text
    BY <1>2, <2>1 DEF TextOK
  <2>2. CASE l.host \in names /\ l.address = a
    <3>1. l.host \in SiteHost
      BY <1>2, <2>2
    <3>2. PICK n \in Name, b \in Alias \cup {Null} : l.host = <<n, b>>
      BY <3>1 DEF SiteHost
    <3> QED
      BY <3>2, ServerAssumption
  <2> QED
    BY <1>1, <1>2, <2>1, <2>2
<1>3. ASSUME NEW l \in ManagedIn(new), NEW m \in new, m.address # Null, l.host = m.host
      PROVE  l = m
  <2>1. l \in new /\ l \notin UserLines /\ l.address # Null
    BY <1>3 DEF ManagedIn
  <2>2. CASE l.host \in names
    BY <1>1, <1>3, <2>1, <2>2
  <2>3. CASE l.host \notin names
    BY <1>1, <1>3, <2>1, <2>3 DEF TextOK, ManagedIn
  <2> QED
    BY <2>2, <2>3
<1>4. TextOK(new)
  BY <1>2, <1>3 DEF TextOK
<1> QED
  BY <1>4 DEF new

\* The texts of the hosts file stay well-formed, in the file and in the pages.
LEMMA TextStep ==
  ASSUME SitesInv, TextInv, [Next]_svars
  PROVE  TextInv'
<1> SUFFICES TextOK(hosts') /\ \A p \in Page : TextOK(page'[p])
  BY DEF TextInv, TextOK, ManagedIn
<1>1. CASE RemoveHosts
  <2>1. hosts' \subseteq hosts /\ page' = page
    BY <1>1 DEF RemoveHosts, Save, H!remove
  <2> QED
    BY <2>1, SmallerText DEF TextInv
<1>2. CASE AddHosts
  <2> DEFINE row == Row(req.id)
             names == {x \in HostsOf(row.name, AliasesOf(req.id)) : Addable(x)}
             addr == IF row.httpd \in live THEN address[row.httpd] ELSE Null
  <2>1. page' = page /\ (hosts' = hosts \/ hosts' = H!add(hosts, addr, names))
    BY <1>2 DEF AddHosts, Save, hostsFile
  <2>2. addr # Null => names \subseteq SiteHost
    <3> SUFFICES ASSUME addr # Null
                 PROVE  names \subseteq SiteHost
      OBVIOUS
    <3>1. row.httpd # Null
      BY ServerAssumption DEF SitesInv, SitesTypeOK
    <3>2. row.name \in Name /\ AliasesOf(req.id) \in SUBSET Alias
      BY <3>1, RowOK DEF SitesInv, SitesTypeOK, RowType, AliasesOf
    <3> QED
      BY <3>2, SiteHosts
  <2> HIDE DEF names, addr
  <2> QED
    BY <2>1, <2>2, AddedText DEF TextInv
<1>3. ASSUME NEW p \in Page, ShowHosts(p)
      PROVE  hosts' = hosts /\ \A q \in Page : page'[q] = page[q] \/ page'[q] = hosts
  BY <1>3 DEF ShowHosts, SitesInv, SitesTypeOK
<1>4. ASSUME NEW p \in Page, PostHosts(p)
      PROVE  hosts' = page[p] /\ page' = page
  BY <1>4 DEF PostHosts
<1>5. CASE ~RemoveHosts /\ ~AddHosts /\ \A p \in Page : ~ShowHosts(p) /\ ~PostHosts(p)
  BY <1>5, OnlyTheseWriteHosts DEF TextInv
<1> QED
  BY <1>1, <1>2, <1>3, <1>4, <1>5 DEF TextInv

\* Every text of the hosts file is well-formed (Hosts::add, Hosts::remove, HostController).
THEOREM TextInvariant == Spec => []TextInv
<1>1. Init => TextInv
  BY UserLinesAssumption DEF Init, TextInv, TextOK, ManagedIn
<1>2. SitesInv /\ TextInv /\ [Next]_svars => TextInv'
  BY TextStep
<1> QED
  BY <1>1, <1>2, SitesInvariant, PTL DEF Spec

\* No name of a site ever has two lines in the hosts file, the user's included,
\* wherever requests are cut, whichever writing fails and whichever page is posted
\* (Hosts::add as Site::_make calls it).
THEOREM NameHasOneAddress == Spec => []OneAddressPerName
<1>1. TextInv => OneAddressPerName
  BY DEF TextInv, TextOK, OneAddressPerName, Managed
<1> QED
  BY <1>1, TextInvariant, PTL

\* A site announced as saved is stored, written, loaded and reachable (Site::create, update).
THEOREM SavedIsServed == Spec => []AnnouncedIsServed
<1>1. SitesInv => AnnouncedIsServed
  <2> SUFFICES ASSUME SitesInv, req.pc = "done", req.op # "delete", req.form.httpd \in vhosts,
                      req.id \in DOMAIN site
               PROVE  AnnouncedIsServed
    BY DEF AnnouncedIsServed
  <2>1. Served
    BY Serving DEF SitesInv, Served
  <2>2. site[req.id] = NewRow /\ AliasesOf(req.id) = req.form.aliases
    BY <2>1 DEF SitesInv, StoredInv, AliasInv, Served
  <2>3. /\ req.form.httpd \in live
        /\ "restart" \notin req.failed => req.form.httpd \notin changed
        /\ "cert" \notin req.failed =>
             LET names == HostsOf(req.form.name, req.form.aliases)
                 key == <<req.form.httpd, req.form.name>>
             IN  key \in DOMAIN vhost /\ vhost[key] = [cert |-> names, names |-> names]
    BY <2>1 DEF SitesInv, FilesInv, Served
  <2>4. "join" \notin req.failed =>
          \A x \in HostsOf(req.form.name, req.form.aliases) : Addable(x) =>
            {l \in hosts : l.address # Null /\ l.host = x} = {H!Line(address[req.form.httpd], FALSE, x)}
    BY <2>1 DEF SitesInv, SetInv
  <2> QED
    BY <2>2, <2>3, <2>4 DEF AnnouncedIsServed
<1> QED
  BY <1>1, SitesInvariant, PTL

\* A site announced as deleted or moved has left its server's files and, when
\* deleted, the hosts file (Site::delete, update).
THEOREM DeletedIsGone == Spec => []AnnouncedIsGone
<1>1. SitesInv => AnnouncedIsGone
  <2> SUFFICES ASSUME SitesInv, req.pc = "done", req.old.name # Null
               PROVE  AnnouncedIsGone
    BY DEF AnnouncedIsGone
  <2>1. req.op \in {"update", "delete"}
    BY DEF SitesInv, RequestOK, NoRow
  <2> QED
    BY <2>1 DEF SitesInv, GoneInv, LeftFiles, LeftServer, LeftHosts, AnnouncedIsGone
<1> QED
  BY <1>1, SitesInvariant, PTL

\* The save that dies on a server that is gone has stored the new choice (Site::update).
THEOREM FatalSaveAlwaysHeals == Spec => []FatalSaveHeals
<1>1. SitesInv => FatalSaveHeals
  <2> SUFFICES ASSUME SitesInv, req.pc = "fatal", req.op = "update",
                      req.form.httpd \in live \/ req.form.httpd = Null
               PROVE  Row(req.id).httpd \in live \cup {Null}
    BY DEF FatalSaveHeals
  <2>1. Saving
    BY DEF Saving
  <2>2. CASE req.id \in DOMAIN site
    BY <2>1, <2>2, RowOK, NewRowOK DEF SitesInv, StoredInv
  <2>3. CASE req.id \notin DOMAIN site
    BY <2>3 DEF Row
  <2> QED
    BY <2>2, <2>3
<1> QED
  BY <1>1, SitesInvariant, PTL

\* The names of a site that is in the tables match its lines only; the names of
\* one that is gone match only lines with two blanks after the address.
LEMMA RemovedLines ==
  ASSUME TextOK(hosts), NEW s, NEW names \in SUBSET HostsOf(Row(s).name, AliasesOf(s)),
         SitesTypeOK, NEW l \in hosts \ H!remove(hosts, names)
  PROVE  (s \in DOMAIN site /\ Accounts(s, l)) \/ (s \notin DOMAIN site /\ l.wide)
<1>1. PICK x \in names : H!Matches(l, x)
  BY DEF H!remove
<1>2. l.address # Null /\ (l.host = x \/ (x = Null /\ l.wide))
  BY <1>1 DEF H!Matches
<1>3. CASE s \in DOMAIN site
  <2>1. Row(s) = site[s] /\ site[s].name \in Name
    BY <1>3, RowOK DEF SitesTypeOK, RowType
  <2>2. AliasesOf(s) \in SUBSET Alias
    BY DEF AliasesOf
  <2>3. x \in SiteHost
    BY <2>1, <2>2, SiteHosts
  <2> QED
    BY <1>2, <1>3, <2>1, <2>3, ServerAssumption DEF Accounts, SiteHost
<1>4. CASE s \notin DOMAIN site
  <2>1. Row(s).name = Null
    BY <1>4 DEF Row
  <2>2. x = Null \/ \E a \in Alias : x = <<Null, a>>
    BY <2>1 DEF HostsOf, Host, AliasesOf
  <2>3. l.host # x
    BY <1>2, <2>2 DEF TextOK
  <2> QED
    BY <1>2, <1>4, <2>3
<1> QED
  BY <1>3, <1>4

\* No request takes a line from the hosts file, the user's or its own, unless a site
\* of that name is in the tables (Hosts::remove as Site::update, delete and _make
\* call it).
THEOREM TakesNoOtherNames == Spec => TakesOnlySiteNames
<1>1. ASSUME SitesInv, TextInv, [Next]_svars, ~Idle, NEW l \in hosts \ hosts', l.address # Null
      PROVE  (\E s \in DOMAIN site : Accounts(s, l)) \/ (req.id \notin DOMAIN site /\ l.wide)
  <2>0. SitesTypeOK /\ TextOK(hosts)
    BY <1>1 DEF SitesInv, TextInv
  <2>1. CASE RemoveHosts
    <3> DEFINE names == HostsOf(Row(req.id).name, AliasesOf(req.id))
    <3>1. req.old = Row(req.id)
      BY <1>1, <2>1 DEF SitesInv, StoredInv, RemoveHosts
    <3>2. l \in hosts \ H!remove(hosts, names)
      BY <1>1, <2>1, <3>1 DEF RemoveHosts, Save
    <3> QED
      BY <2>0, <3>2, RemovedLines
  <2>2. CASE AddHosts
    <3> DEFINE names == {x \in HostsOf(Row(req.id).name, AliasesOf(req.id)) : Addable(x)}
    <3>1. l \in hosts \ H!remove(hosts, names)
      BY <1>1, <2>2 DEF AddHosts, Save, hostsFile, H!add
    <3> QED
      BY <2>0, <3>1, RemovedLines
  <2>3. \A p \in Page : ~ShowHosts(p) /\ ~PostHosts(p)
    BY <1>1 DEF ShowHosts, PostHosts
  <2> QED
    BY <1>1, <2>1, <2>2, <2>3, OnlyTheseWriteHosts
<1>2. SitesInv /\ TextInv /\ [Next]_svars =>
        [~Idle => \A l \in hosts \ hosts' : l.address # Null =>
           \/ \E s \in DOMAIN site : Accounts(s, l)
           \/ req.id \notin DOMAIN site /\ l.wide]_svars
  BY <1>1
<1> QED
  BY <1>2, SitesInvariant, TextInvariant, PTL DEF Spec, TakesOnlySiteNames
=============================================================================
