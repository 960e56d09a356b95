------------------------------- MODULE Wizard -------------------------------
(***************************************************************************)
(* How a browser gets an instance installed or uninstalled.  It takes      *)
(* three requests: the form is posted and verified, which leaves its data  *)
(* in the session and redirects to /wizard; /wizard renders a page that    *)
(* holds the URL stored in the session and forgets it; the script of that  *)
(* page requests the URL, which reads the data from the session again.     *)
(* All tabs of the browser share the session, and the requests of other    *)
(* tabs come in between.                                                   *)
(*                                                                         *)
(* Every behaviour of this module is one of Instances: the wizard decides  *)
(* which of the installations that Instances allows are requested.         *)
(***************************************************************************)
EXTENDS Instances

CONSTANT Tab     \* tabs of the user's browser

VARIABLES
  tab,      \* where each tab is, and the URL its wizard page holds
  pdata,    \* $_SESSION['pdata']
  wizard    \* $_SESSION['wizard']

wizardVars == <<tab, pdata, wizard>>
wvars == <<vars, wizardVars>>

E == INSTANCE Endpoints WITH NoPort <- Null

Url(cmd, arg) == [cmd |-> cmd, arg |-> arg]
NoUrl == Url("none", Null)
Urls == {NoUrl} \cup {Url("install", p) : p \in Package} \cup {Url("uninstall", i) : i \in Ids}

At(place, url) == [at |-> place, url |-> url]
Home == At("home", NoUrl)

\* A faulty variant: only the first port of the form is looked up.
Accepts_FirstPortOnly(p, pd) ==
  LET e == Class(p).endpoints[1]
  IN  ~E!endpointInUse(endpoint, {}, e.proto, pd.interface, pd.port[e.key])

\* verify() of the class: every posted port is free on the posted interface,
\* and differs from the other one where the class checks that.  That netstat
\* reports a port busy only makes more forms come back with an error.
Accepts(p, pd) ==
  LET ends == Class(p).endpoints
  IN  /\ \A k \in DOMAIN ends :
           ~E!endpointInUse(endpoint, {}, ends[k].proto, pd.interface, pd.port[ends[k].key])
      /\ Class(p).distinct => \A j, k \in DOMAIN ends :
           pd.port[ends[j].key] = pd.port[ends[k].key] => j = k

\* A faulty variant: pdata of an earlier form stays.
Verify_KeepsOldData(t, p, pd) ==
  /\ Idle
  /\ tab[t] = Home
  /\ Accepts(p, pd)
  /\ pdata' = IF pdata = EmptyPost THEN pd ELSE pdata
  /\ wizard' = Url("install", p)
  /\ tab' = [tab EXCEPT ![t] = At("redirected", NoUrl)]
  /\ UNCHANGED vars

\* A faulty variant: the id of the package is missing from the URL.
Verify_NoPackage(t, p, pd) ==
  /\ Idle
  /\ tab[t] = Home
  /\ Accepts(p, pd)
  /\ pdata' = pd
  /\ wizard' = Url("install", Null)
  /\ tab' = [tab EXCEPT ![t] = At("redirected", NoUrl)]
  /\ UNCHANGED vars

\* POST /package/<id>/add: verify() and postVerify().
Verify(t, p, pd) ==
  /\ Idle
  /\ tab[t] = Home
  /\ Accepts(p, pd)
  /\ pdata' = pd
  /\ wizard' = Url("install", p)
  /\ tab' = [tab EXCEPT ![t] = At("redirected", NoUrl)]
  /\ UNCHANGED vars

\* GET /instance/<id>/preUninstall: $_POST is empty.
PreUninstall(t, i) ==
  /\ Idle
  /\ tab[t] = Home
  /\ i \in instance
  /\ pdata' = EmptyPost
  /\ wizard' = Url("uninstall", i)
  /\ tab' = [tab EXCEPT ![t] = At("redirected", NoUrl)]
  /\ UNCHANGED vars

\* GET /wizard: the page gets the URL, the session loses it.
ShowWizard(t) ==
  /\ Idle
  /\ tab[t] = At("redirected", NoUrl)
  /\ tab' = [tab EXCEPT ![t] = At("page", wizard)]
  /\ wizard' = NoUrl
  /\ UNCHANGED <<vars, pdata>>

\* hermione(): the page's script requests its URL.  The empty URL is the page
\* itself, so /wizard is rendered once more, into the void.
RunWizard(t) ==
  /\ Idle
  /\ tab[t].at = "page"
  /\ tab' = [tab EXCEPT ![t] = Home]
  /\ UNCHANGED pdata
  /\ LET url == tab[t].url IN
     \/ url.cmd = "install" /\ BeginInstall(url.arg, pdata) /\ UNCHANGED wizard
     \/ url.cmd = "uninstall" /\ BeginUninstall(url.arg) /\ UNCHANGED wizard
     \/ url.cmd = "uninstall" /\ url.arg \notin instance /\ UNCHANGED <<vars, wizard>>
     \/ url.cmd = "none" /\ wizard' = NoUrl /\ UNCHANGED vars

\* The user leaves the wizard before its script ran.
Leave(t) ==
  /\ tab[t] # Home
  /\ tab' = [tab EXCEPT ![t] = Home]
  /\ UNCHANGED <<vars, pdata, wizard>>

WInit ==
  /\ Init
  /\ tab = [t \in Tab |-> Home]
  /\ pdata = EmptyPost
  /\ wizard = NoUrl

TabStep(t) ==
  \/ \E p \in Package : \E pd \in PostOf(p) : Verify(t, p, pd)
  \/ \E i \in Ids : PreUninstall(t, i)
  \/ ShowWizard(t) \/ RunWizard(t) \/ Leave(t)

OtherStep ==
  /\ \/ \E i \in Ids, cmd \in Command : BeginControl(i, cmd)
     \/ \E s \in Site, h \in Offered("httpd"), p \in Offered("php") : SiteSave(s, h, p)
     \/ \E d \in Offered("php") : SettingsSave(d)
     \/ Step
     \/ Interruption
  /\ UNCHANGED wizardVars

WNext == OtherStep \/ \E t \in Tab : TabStep(t)

WSpec == WInit /\ [][WNext]_wvars

-----------------------------------------------------------------------------
(* Properties                                                              *)

\* The session, the tabs and what they hold are well-formed.
WTypeOK ==
  /\ tab \in [Tab -> [at : {"home", "redirected", "page"}, url : Urls]]
  /\ pdata \in Posts
  /\ wizard \in Urls

\* "Port already assigned or in use." (verify() of every class): what verify()
\* checks against the table still holds when install() registers it two
\* requests later, so no two instances ever hold conflicting endpoints.
EndpointsExclusive ==
  \A e, f \in endpoint : e.instance_id # f.instance_id => ~E!Conflict(e, f)

\* An installation reads the data of the form that was posted for its own
\* package: the URL the page holds and the session's pdata belong together.
InstallReadsItsOwnForm == pc = "download" => post \in PostOf(pkg)
=============================================================================
