---------------------------- MODULE WizardProofs ----------------------------
(***************************************************************************)
(* What is proved of Instances holds behind the wizard with any number of  *)
(* tabs.  With a single tab, the check of verify() is still good two       *)
(* requests later, when install() registers the endpoints.                 *)
(***************************************************************************)
EXTENDS Wizard, InstancesProofs

\* Posting a form puts the session and the tab in order.
LEMMA WTypeStep ==
  ASSUME WTypeOK, WNext
  PROVE  WTypeOK'
<1> USE DEF WTypeOK, At, Home
<1>a. NoUrl \in Urls
  BY DEF Urls
<1>1. CASE OtherStep
  BY <1>1 DEF OtherStep, wizardVars
<1>2. ASSUME NEW t \in Tab, NEW p \in Package, NEW pd \in PostOf(p), Verify(t, p, pd)
      PROVE  WTypeOK'
  <2>1. pd \in Posts /\ Url("install", p) \in Urls
    BY <1>2 DEF Posts, Urls
  <2> QED
    BY <1>2, <1>a, <2>1 DEF Verify
<1>3. ASSUME NEW t \in Tab, NEW i \in Ids, PreUninstall(t, i)
      PROVE  WTypeOK'
  <2>1. Url("uninstall", i) \in Urls
    BY <1>3 DEF Urls
  <2> QED
    BY <1>3, <1>a, <2>1, EmptyPostIsPost DEF PreUninstall
<1>4. ASSUME NEW t \in Tab, ShowWizard(t) \/ RunWizard(t) \/ Leave(t)
      PROVE  WTypeOK'
  BY <1>4, <1>a DEF ShowWizard, RunWizard, Leave
<1> QED
  BY <1>1, <1>2, <1>3, <1>4 DEF WNext, TabStep

\* A URL of the wizard names a package to install or an instance to remove.
LEMMA UrlArgs ==
  ASSUME NEW url \in Urls
  PROVE  /\ url.cmd = "install" => url.arg \in Package
         /\ url.cmd = "uninstall" => url.arg \in Ids
  BY DEF Urls, Url, NoUrl

\* The requests of the wizard are requests of Instances, or none.
LEMMA WizardStepIsStep ==
  ASSUME WTypeOK, [WNext]_wvars
  PROVE  [Next]_vars
<1>1. CASE OtherStep
  BY <1>1 DEF OtherStep, Next
<1>2. ASSUME NEW t \in Tab, RunWizard(t)
      PROVE  [Next]_vars
  <2>1. tab[t].url \in Urls /\ pdata \in Posts
    BY DEF WTypeOK
  <2> QED
    BY <1>2, <2>1, UrlArgs DEF RunWizard, Next
<1>3. ASSUME NEW t \in Tab, TabStep(t), ~RunWizard(t)
      PROVE  UNCHANGED vars
  BY <1>3 DEF TabStep, Verify, PreUninstall, ShowWizard, Leave
<1> QED
  BY <1>1, <1>2, <1>3 DEF WNext, wvars

\* The session and the tabs hold well-formed data, also when the requests of
\* several tabs interleave (postVerify, preUninstall, views/wizard.php).
THEOREM WizardTypeCorrect == WSpec => []WTypeOK
<1>1. WInit => WTypeOK
  BY EmptyPostIsPost DEF WInit, WTypeOK, Home, At, Urls
<1>2. WTypeOK /\ [WNext]_wvars => WTypeOK'
  BY WTypeStep DEF WTypeOK, wvars, wizardVars
<1> QED
  BY <1>1, <1>2, PTL DEF WSpec

\* The wizard is made of requests of Instances, so what is proved there can be cited.
LEMMA WizardIsInstances == WSpec => Spec
<1>1. WInit => Init
  BY DEF WInit
<1>2. WTypeOK /\ [WNext]_wvars => [Next]_vars
  BY WizardStepIsStep
<1> QED
  BY <1>1, <1>2, WizardTypeCorrect, PTL DEF WSpec, Spec

\* What Instances guarantees therefore holds behind the wizard, however many tabs are
\* open and in whatever order their requests come: endpoints have owners, ids are not
\* given again, nothing is installed over the remains of an earlier instance, no
\* database runs without its row, and no reference to a deleted instance is left.
THEOREM SafeBehindAnyTabs ==
  WSpec => /\ [](EndpointsOwned /\ InstallsIntoFreshPlace /\ DatabaseStoppedBeforeRemoval)
           /\ DeletionLeavesNoReference /\ Reg!NeverAgain
  BY WizardIsInstances, EndpointsAlwaysOwned, FreshPlace, DatabasesStopped, NoReferenceLeft,
     IdsNeverReused, PTL

-----------------------------------------------------------------------------
(* A single tab                                                            *)

\* The user has one tab of the manager open.
SingleTab == \A t, u \in Tab : t = u

\* The endpoints of p as posted in pd conflict with those of no other instance.
ClearOfOthers(i, p, pd) ==
  \A k \in DOMAIN Class(p).endpoints : \A e \in endpoint :
    e.instance_id # i => ~E!Conflict(e, Row(i, Class(p).endpoints[k], pd))

\* pd is a form of p that verify() accepts with the table as it is.
Verified(p, pd) == pd \in PostOf(p) /\ Accepts(p, pd)

\* What verify() established is carried along the redirection, the page, the
\* request and its steps until the endpoints are in the table.
TabsInv ==
  /\ op \in {"install", "uninstall"} => \A t \in Tab : tab[t] = Home
  /\ \A t \in Tab :
       /\ tab[t].at = "redirected" /\ wizard.cmd = "install" => Verified(wizard.arg, pdata)
       /\ tab[t].at = "page" /\ tab[t].url.cmd = "install" => Verified(tab[t].url.arg, pdata)

\* The same for the request that reads it.
PostInv ==
  /\ pc \in {"download", "add"} => Verified(pkg, post)
  /\ pc \in {"name", "unzip", "unzipping", "endpoint"} =>
       post \in PostOf(package[cur]) /\ ClearOfOthers(cur, package[cur], post)

\* Two endpoints conflict or not whichever comes first (Util::endpointInUse).
LEMMA ConflictSymmetric ==
  ASSUME NEW e, NEW f, E!Conflict(e, f)
  PROVE  E!Conflict(f, e)
  BY DEF E!Conflict, E!Takes, E!AnyInterface

\* A form that verify() accepts asks for endpoints that nobody holds.
LEMMA VerifiedIsClear ==
  ASSUME NEW p \in Package, NEW pd, Verified(p, pd), NEW i
  PROVE  ClearOfOthers(i, p, pd)
<1> SUFFICES ASSUME NEW k \in DOMAIN Class(p).endpoints, NEW e \in endpoint,
                    E!Conflict(e, Row(i, Class(p).endpoints[k], pd))
             PROVE  FALSE
  BY DEF ClearOfOthers
<1> DEFINE spec == Class(p).endpoints[k]
<1>1. spec.key \in DOMAIN pd.port /\ PostedPort(pd, spec.key) = pd.port[spec.key]
  BY DEF Verified, PostOf, PortKeys, PostedPort
<1>2. E!Takes(e, spec.proto, pd.interface, pd.port[spec.key])
  BY <1>1 DEF E!Conflict, Row
<1>3. ~E!Takes(e, spec.proto, pd.interface, pd.port[spec.key])
  BY DEF Verified, Accepts, E!endpointInUse
<1> QED
  BY <1>2, <1>3

\* The table of endpoints changes only inside an installation or an
\* uninstallation, and its rows are added one at a time.
LEMMA EndpointFrame ==
  ASSUME OpInv, Next
  PROVE  \/ RegisterEndpoint /\ op = "install"
         \/ DeleteEndpoints /\ op = "uninstall"
         \/ UNCHANGED endpoint
  BY DbFrame DEF OpInv, RegisterEndpoint, DeleteEndpoints, PackageAdd, SetName, ClearSites,
                 ClearDefault, DeleteInstance, SiteSave, SettingsSave, db

\* How a request gets to, or stays before, the registration of its endpoints.
LEMMA InstallFrame ==
  ASSUME Next, pc' \in {"download", "add", "name", "unzip", "unzipping", "endpoint"}
  PROVE  \/ \E p \in Package, pd \in Posts : BeginInstall(p, pd)
         \/ PackageAdd
         \/ /\ pc \in {"download", "add"} /\ pc' \in {"download", "add"}
            /\ UNCHANGED <<pkg, post>>
         \/ /\ pc \in {"name", "unzip", "unzipping", "endpoint"}
            /\ pc' \in {"name", "unzip", "unzipping", "endpoint"}
            /\ UNCHANGED <<cur, post, package>>
<1> USE DEF EndRequest, NoRequest, Goto, db
<1>1. CASE InstallStep
  BY <1>1 DEF InstallStep, Download, SetName, UnzipBegin, UnzipEnd, RegisterEndpoint,
              WriteConf, Initialize,
              CreateUsers, WriteFinalConf
<1>2. CASE ControlStep
  BY <1>2 DEF ControlStep, Start, StopUnchecked, StopNothing, StopAndWait, WaitDead,
              ServiceInstall, ServiceRemove, Stopped, AfterStop, Return
<1>3. CASE UninstallStep
  BY <1>3 DEF UninstallStep, InUse, AbortCheck, ClearSites, ClearDefault, Deltree,
              DeleteEndpoints, DeleteInstance
<1>4. CASE Interruption
  BY <1>4 DEF Interruption, Disconnect, Kill, Die, request
<1>5. CASE ~Step /\ ~Interruption
  BY <1>5 DEF Next, BeginControl, BeginUninstall, Begin, SiteSave, SettingsSave, Idle, request
<1> QED
  BY <1>1, <1>2, <1>3, <1>4, <1>5 DEF Step

\* A command other than install and uninstall never becomes one of them.
LEMMA OpFrame ==
  ASSUME OtherStep, op' \in {"install", "uninstall"}
  PROVE  op' = op
<1> USE DEF EndRequest, NoRequest, Goto, request
<1>1. CASE InstallStep
  BY <1>1 DEF InstallStep, Download, PackageAdd, SetName, UnzipBegin, UnzipEnd,
              RegisterEndpoint, WriteConf, Initialize, CreateUsers, WriteFinalConf
<1>2. CASE ControlStep
  BY <1>2 DEF ControlStep, Start, StopUnchecked, StopNothing, StopAndWait, WaitDead,
              ServiceInstall, ServiceRemove, Stopped, Return
<1>3. CASE UninstallStep
  BY <1>3 DEF UninstallStep, InUse, AbortCheck, ClearSites, ClearDefault, Deltree,
              DeleteEndpoints, DeleteInstance
<1>4. CASE Interruption
  BY <1>4 DEF Interruption, Disconnect, Kill, Die
<1>5. CASE ~Step /\ ~Interruption
  BY <1>5, CommandAssumption DEF OtherStep, BeginControl, Begin, SiteSave, SettingsSave
<1> QED
  BY <1>1, <1>2, <1>3, <1>4, <1>5 DEF Step

\* The accepted form stays accepted while other requests are served.
LEMMA TabsStep ==
  ASSUME SingleTab, WTypeOK, OpInv, TabsInv, WNext
  PROVE  TabsInv'
<1>0. TabsInv /\ WTypeOK
  OBVIOUS
<1>1. CASE OtherStep
  <2>1. UNCHANGED <<tab, pdata, wizard>> /\ Next
    BY <1>1 DEF OtherStep, wizardVars, Next
  <2>2. CASE \A t \in Tab : tab[t] = Home
    BY <2>1, <2>2 DEF TabsInv, Home, At
  <2>3. CASE op \notin {"install", "uninstall"}
    <3>1. UNCHANGED endpoint
      BY <2>1, <2>3, EndpointFrame
    <3>2. \A p, pd : Verified(p, pd)' <=> Verified(p, pd)
      BY <3>1 DEF Verified, Accepts
    <3>3. op' \notin {"install", "uninstall"}
      BY <1>1, <2>3, OpFrame
    <3> QED
      BY <1>0, <2>1, <3>2, <3>3 DEF TabsInv
  <2> QED
    BY <1>0, <2>2, <2>3 DEF TabsInv
<1>2. ASSUME NEW t \in Tab, NEW p \in Package, NEW pd \in PostOf(p), Verify(t, p, pd)
      PROVE  TabsInv'
  <2>1. op = "none" /\ UNCHANGED <<op, endpoint>>
    BY <1>2 DEF Verify, Idle, OpInv, vars, request, db
  <2>2. Verified(p, pd)'
    BY <1>2, <2>1 DEF Verify, Verified, Accepts
  <2>3. wizard' = Url("install", p) /\ pdata' = pd /\ tab'[t].at = "redirected"
    BY <1>0, <1>2 DEF Verify, At, WTypeOK
  <2>4. \A u \in Tab : u = t
    BY DEF SingleTab
  <2> QED
    BY <2>1, <2>2, <2>3, <2>4 DEF TabsInv, Url
<1>3. ASSUME NEW t \in Tab, NEW i \in Ids, PreUninstall(t, i)
      PROVE  TabsInv'
  <2>1. op = "none" /\ UNCHANGED <<op, endpoint>>
    BY <1>3 DEF PreUninstall, Idle, OpInv, vars, request, db
  <2>2. wizard'.cmd = "uninstall" /\ tab'[t].at = "redirected"
    BY <1>0, <1>3 DEF PreUninstall, At, Url, WTypeOK
  <2>3. \A u \in Tab : u = t
    BY DEF SingleTab
  <2> QED
    BY <2>1, <2>2, <2>3 DEF TabsInv
<1>4. ASSUME NEW t \in Tab, ShowWizard(t)
      PROVE  TabsInv'
  <2>1. op = "none" /\ UNCHANGED <<op, endpoint, pdata>>
    BY <1>4 DEF ShowWizard, Idle, OpInv, vars, request, db
  <2>2. \A p, pd : Verified(p, pd)' <=> Verified(p, pd)
    BY <2>1 DEF Verified, Accepts
  <2>3. tab[t].at = "redirected" /\ tab'[t].at = "page" /\ tab'[t].url = wizard
    BY <1>0, <1>4 DEF ShowWizard, At, WTypeOK
  <2>4. \A u \in Tab : u = t
    BY DEF SingleTab
  <2> QED
    BY <1>0, <2>1, <2>2, <2>3, <2>4 DEF TabsInv
<1>5. ASSUME NEW t \in Tab, RunWizard(t) \/ Leave(t)
      PROVE  TabsInv'
  <2>1. tab'[t] = Home
    BY <1>0, <1>5 DEF RunWizard, Leave, WTypeOK
  <2>2. \A u \in Tab : u = t
    BY DEF SingleTab
  <2> QED
    BY <2>1, <2>2 DEF TabsInv, Home, At
<1> QED
  BY <1>1, <1>2, <1>3, <1>4, <1>5 DEF WNext, TabStep

\* An installation takes over an accepted form and keeps it until it has
\* registered the endpoints.
LEMMA PostStep ==
  ASSUME WTypeOK, IInv, OpInv, TabsInv, PostInv, WNext
  PROVE  PostInv'
<1>0. PostInv /\ IInv /\ DbTypeOK
  BY DEF IInv, TypeOK
<1>1. [Next]_vars
  BY WizardStepIsStep
<1>2. CASE UNCHANGED vars
  BY <1>0, <1>2
     DEF PostInv, Verified, Accepts, ClearOfOthers, vars, db, request
<1>3. ASSUME Next, NEW p \in Package, NEW pd \in Posts, BeginInstall(p, pd)
      PROVE  PostInv'
  <2>1. op = "none" /\ op' = "install" /\ pkg' = p /\ post' = pd
    BY <1>3 DEF BeginInstall, Begin, Idle, OpInv
  <2>2. ~OtherStep
    BY <2>1, OpFrame
  <2>3. PICK t \in Tab : RunWizard(t)
    BY <2>1, <2>2 DEF WNext, TabStep, Verify, PreUninstall, ShowWizard, Leave, vars, request
  <2>4. tab[t].at = "page" /\ tab[t].url.cmd = "install" /\ p = tab[t].url.arg /\ pd = pdata
    BY <2>1, <2>3 DEF RunWizard, BeginInstall, BeginUninstall, Begin, vars, request
  <2>5. Verified(p, pd)
    BY <2>4 DEF TabsInv
  <2> QED
    BY <1>3, <2>5 DEF BeginInstall, Begin, PostInv, Verified, Accepts, db
<1>4. CASE PackageAdd
  <2>1. lastId \in Nat /\ lastId + 1 \in Ids /\ pkg \in Package /\ Verified(pkg, post)
    BY <1>0, <1>4, MaxIdAssumption DEF PackageAdd, DbTypeOK, IInv, PcInv, PostInv, Ids
  <2>2. cur' = lastId + 1 /\ package'[cur'] = pkg /\ UNCHANGED <<endpoint, post>>
    BY <1>0, <1>4, <2>1 DEF PackageAdd, DbTypeOK
  <2>3. ClearOfOthers(lastId + 1, pkg, post)
    BY <2>1, VerifiedIsClear
  <2> QED
    BY <1>4, <2>1, <2>2, <2>3 DEF PackageAdd, PostInv, ClearOfOthers, Verified
<1>5. ASSUME Next, ~PackageAdd, \A p \in Package, pd \in Posts : ~BeginInstall(p, pd)
      PROVE  PostInv'
  <2>1. CASE UNCHANGED endpoint
    BY <1>0, <1>5, <2>1, InstallFrame DEF PostInv, Verified, Accepts, ClearOfOthers
  <2>2. CASE RegisterEndpoint
    BY <1>0, <2>2 DEF RegisterEndpoint, PostInv, ClearOfOthers, Row
  <2>3. CASE DeleteEndpoints
    BY <2>3 DEF DeleteEndpoints, Goto, PostInv
  <2> QED
    BY <1>5, <2>1, <2>2, <2>3, EndpointFrame
<1> QED
  BY <1>1, <1>2, <1>3, <1>4, <1>5

\* A row that is added conflicts with no row of another instance.
LEMMA ExclusiveStep ==
  ASSUME IInv, OpInv, PostInv, EndpointsExclusive, Next
  PROVE  EndpointsExclusive'
<1>1. CASE UNCHANGED endpoint
  BY <1>1 DEF EndpointsExclusive
<1>2. CASE DeleteEndpoints
  BY <1>2 DEF DeleteEndpoints, EndpointsExclusive
<1>3. CASE RegisterEndpoint
  <2> DEFINE new == Row(cur, This.endpoints[n + 1], post)
  <2>1. n + 1 \in DOMAIN This.endpoints
    BY <1>3, CurDriver DEF RegisterEndpoint, IInv, PcInv, TypeOK, RequestTypeOK, DriverOK, NonEmpty
  <2>2. \A e \in endpoint : e.instance_id # cur => ~E!Conflict(e, new)
    BY <1>3, <2>1 DEF RegisterEndpoint, PostInv, ClearOfOthers, This
  <2>3. \A e \in endpoint : e.instance_id # cur => ~E!Conflict(new, e)
    BY <2>2, ConflictSymmetric
  <2>4. new.instance_id = cur /\ endpoint' = endpoint \cup {new}
    BY <1>3 DEF RegisterEndpoint, Row
  <2> QED
    BY <2>2, <2>3, <2>4 DEF EndpointsExclusive
<1> QED
  BY <1>1, <1>2, <1>3, EndpointFrame

\* What is inductive with a single tab.
SInv == TabsInv /\ PostInv /\ EndpointsExclusive

\* SInv is an invariant.
LEMMA SingleTabInductive ==
  ASSUME SingleTab
  PROVE  WSpec => []SInv
<1>1. WInit => SInv
  BY DEF WInit, Init, SInv, TabsInv, PostInv, EndpointsExclusive, Home, At
<1>2. WTypeOK /\ IInv /\ UInv /\ SInv /\ [WNext]_wvars => SInv'
  <2>1. ASSUME WTypeOK, IInv, UInv, SInv, WNext
        PROVE  SInv'
    <3>1. TabsInv' /\ PostInv'
      BY <2>1, TabsStep, PostStep DEF SInv, UInv
    <3>2. EndpointsExclusive'
      <4>1. CASE Next
        BY <2>1, <4>1, ExclusiveStep DEF SInv, UInv
      <4>2. CASE UNCHANGED vars
        BY <2>1, <4>2 DEF SInv, EndpointsExclusive, vars, db
      <4> QED
        BY <2>1, <4>1, <4>2, WizardStepIsStep
    <3> QED
      BY <3>1, <3>2 DEF SInv
  <2>2. ASSUME SInv, UNCHANGED wvars
        PROVE  SInv'
    <3>1. UNCHANGED <<vars, wizardVars, request, db>>
      BY <2>2 DEF wvars, vars
    <3>2. \A p, pd : Verified(p, pd)' <=> Verified(p, pd)
      BY <3>1 DEF Verified, Accepts, db
    <3>3. UNCHANGED <<tab, pdata, wizard, op>>
      BY <3>1 DEF wizardVars, request
    <3>4. TabsInv'
      BY <2>2, <3>2, <3>3 DEF SInv, TabsInv
    <3>5. PostInv'
      BY <2>2, <3>1 DEF SInv, PostInv, Verified, Accepts, ClearOfOthers, vars, db, request
    <3>6. EndpointsExclusive'
      BY <2>2, <3>1 DEF SInv, EndpointsExclusive, db
    <3> QED
      BY <3>4, <3>5, <3>6 DEF SInv
  <2> QED
    BY <2>1, <2>2
<1>3. WSpec => [](IInv /\ UInv)
  BY WizardIsInstances, Inductive, UninstallInductive, PTL
<1> QED
  BY <1>1, <1>2, <1>3, WizardTypeCorrect, PTL DEF WSpec

\* "Port already assigned or in use.": with one tab, no two instances ever hold
\* endpoints that conflict (Util::endpointInUse).
THEOREM ExclusiveInOneTab ==
  ASSUME SingleTab
  PROVE  WSpec => []EndpointsExclusive
  BY SingleTabInductive, PTL DEF SInv

\* With one tab, install() reads from the session the form that was posted for
\* the package it installs.
THEOREM OwnFormInOneTab ==
  ASSUME SingleTab
  PROVE  WSpec => []InstallReadsItsOwnForm
<1>1. SInv => InstallReadsItsOwnForm
  BY DEF SInv, PostInv, Verified, InstallReadsItsOwnForm
<1> QED
  BY <1>1, SingleTabInductive, PTL
=============================================================================
