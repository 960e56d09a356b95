-------------------------- MODULE InstancesProofs --------------------------
(***************************************************************************)
(* The inductive invariant IInv of Instances and what follows from it, for *)
(* all packages, sites, forms, poll limits and numbers of instances.       *)
(*                                                                         *)
(* TypeOK and the properties are not inductive: that a row is owned after  *)
(* RegisterEndpoint needs that the request's instance has a row (PcInv);   *)
(* that a row may be deleted needs that its endpoints went first           *)
(* (OwnedInv); that a new instance finds nothing in its place needs that   *)
(* no id beyond lastId was ever used (FreshInv, LiveInv).                  *)
(*                                                                         *)
(* Lemmas named ...Frame say which actions can change a part of the state; *)
(* lemmas named ...Step prove that one conjunct is preserved.              *)
(***************************************************************************)
EXTENDS Instances, TLAPS

-----------------------------------------------------------------------------
(* The table of instance classes, so that no proof looks at all of them    *)

NonEmpty(s) == s \in Seq(EndpointSpec) /\ Len(s) > 0

\* Every class registers at least one endpoint.  Whatever a site can refer to
\* protects the reference: a PHP class counts the sites that use it, a web
\* server sets their reference to null.
DriverOK(c) ==
  /\ NonEmpty(c.endpoints)
  /\ c.bootstrap \in BOOLEAN /\ c.stopsAgain \in BOOLEAN
  /\ c.checksUse \in BOOLEAN
  /\ (c.role = "php") <=> c.checksUse
  /\ (c.role = "httpd") <=> (c.clears = "httpd")

\* A list of one endpoint is a non-empty list of endpoints.
LEMMA OnePort ==
  ASSUME NEW proto \in {"tcp", "udp"}, NEW key \in PortKey, NEW type \in EndpointType
  PROVE  NonEmpty(Port1(proto, key, type))
  BY DEF Port1, EndpointSpec, NonEmpty

\* So is the concatenation of two of them.
LEMMA TwoPorts ==
  ASSUME NEW s, NEW t, NonEmpty(s), NonEmpty(t)
  PROVE  NonEmpty(s \o t)
  BY DEF NonEmpty

\* The endpoints that the classes register (registerEndpoint in install()).
LEMMA EndpointLists ==
  /\ NonEmpty(HttpEndpoints)
  /\ NonEmpty(PhpEndpoint)
  /\ NonEmpty(Port1("tcp", "tcp_port", "mysql"))
  /\ NonEmpty(Port1("tcp", "tcp_port", "mysql") \o Port1("tcp", "tcp_port_x", "mysql_x"))
  /\ NonEmpty(Port1("tcp", "tcp_port", "pgsql"))
  /\ NonEmpty(Port1("tcp", "tcp_port", NoType))
  /\ NonEmpty(Port1("tcp", "tcp_port", NoType) \o Port1("udp", "udp_port", NoType))
  /\ NonEmpty(Port1("udp", "udp_port", "dns"))
<1>1. NonEmpty(Port1("tcp", "http_port", "http"))
  BY OnePort DEF PortKey, EndpointType
<1>2. NonEmpty(Port1("tcp", "https_port", "https"))
  BY OnePort DEF PortKey, EndpointType
<1>3. NonEmpty(Port1("tcp", "tcp_port", "php"))
  BY OnePort DEF PortKey, EndpointType
<1>4. NonEmpty(Port1("tcp", "tcp_port", "mysql"))
  BY OnePort DEF PortKey, EndpointType
<1>5. NonEmpty(Port1("tcp", "tcp_port_x", "mysql_x"))
  BY OnePort DEF PortKey, EndpointType
<1>6. NonEmpty(Port1("tcp", "tcp_port", "pgsql"))
  BY OnePort DEF PortKey, EndpointType
<1>7. NonEmpty(Port1("tcp", "tcp_port", NoType))
  BY OnePort DEF PortKey, EndpointType
<1>8. NonEmpty(Port1("udp", "udp_port", NoType))
  BY OnePort DEF PortKey, EndpointType
<1>9. NonEmpty(Port1("udp", "udp_port", "dns"))
  BY OnePort DEF PortKey, EndpointType
<1>10. NonEmpty(HttpEndpoints)
  BY <1>1, <1>2, TwoPorts DEF HttpEndpoints
<1>11. NonEmpty(Port1("tcp", "tcp_port", "mysql") \o Port1("tcp", "tcp_port_x", "mysql_x"))
  BY <1>4, <1>5, TwoPorts
<1>12. NonEmpty(Port1("tcp", "tcp_port", NoType) \o Port1("udp", "udp_port", NoType))
  BY <1>7, <1>8, TwoPorts
<1> QED
  BY <1>3, <1>4, <1>6, <1>7, <1>9, <1>10, <1>11, <1>12 DEF PhpEndpoint

\* All class files (manager/app/classes/instances) have the shape DriverOK.
LEMMA DriverShape == \A file \in ClassFile : DriverOK(Class(file))
<1>1. DriverOK(Class_apache)
  BY EndpointLists DEF DriverOK, Class_apache, Plain
<1>2. DriverOK(Class_nginx)
  BY EndpointLists DEF DriverOK, Class_nginx, Plain
<1>3. DriverOK(Class_php)
  BY EndpointLists DEF DriverOK, Class_php, Plain
<1>4. DriverOK(Class_php74)
  BY EndpointLists DEF DriverOK, Class_php74, Plain
<1>5. DriverOK(Class_mysql)
  BY EndpointLists DEF DriverOK, Class_mysql, Plain
<1>6. DriverOK(Class_mysql8)
  BY EndpointLists DEF DriverOK, Class_mysql8, Plain
<1>7. DriverOK(Class_postgresql)
  BY EndpointLists DEF DriverOK, Class_postgresql, Plain
<1>8. DriverOK(Class_mongodb)
  BY EndpointLists DEF DriverOK, Class_mongodb, Plain
<1>9. DriverOK(Class_redis)
  BY EndpointLists DEF DriverOK, Class_redis, Plain
<1>10. DriverOK(Class_memcached)
  BY EndpointLists DEF DriverOK, Class_memcached, Plain
<1>11. DriverOK(Class_acrylic)
  BY EndpointLists DEF DriverOK, Class_acrylic, Plain
<1>12. DriverOK(Class_wildthing)
  BY EndpointLists DEF DriverOK, Class_wildthing, Plain
<1> QED
  BY <1>1, <1>2, <1>3, <1>4, <1>5, <1>6, <1>7, <1>8, <1>9, <1>10, <1>11, <1>12
  DEF ClassFile, Class, Class_php72, Class_php73, Class_php80, Class_php81, Class_php812,
      Class_mariadb

-----------------------------------------------------------------------------
(* The inductive invariant                                                 *)

\* Rows have ids that were given out, and an id keeps its package.
LiveInv ==
  /\ instance \subseteq 1..lastId
  /\ \A i \in 1..lastId : package[i] \in Package

\* What the position in a request says of $this->instance_id, of the
\* package to install and of the loop over the endpoints.
PcInv ==
  /\ pc \notin {"idle", "download", "add"} => cur \in instance
  /\ pc \in {"download", "add"} => pkg \in Package /\ lastId < MaxId
  /\ pc = "endpoint" => n < Len(This.endpoints)

\* Nothing of an instance is on the machine.
Clean(i) == dir[i] = "absent" /\ ~running[i] /\ ~service[i]

\* Ids that were never given out, and the one just given out, are clean.
FreshInv ==
  /\ \A i \in Ids : i > lastId => Clean(i)
  /\ pc \in {"name", "unzip"} => Clean(cur)

\* Endpoints have an owner, and lose it only when they are gone.
OwnedInv ==
  /\ EndpointsOwned
  /\ pc = "deleteInstance" => EndpointsOf(cur) = {}

\* The inductive invariant.
IInv == TypeOK /\ LiveInv /\ PcInv /\ FreshInv /\ OwnedInv

\* The actions that write to manager.db.
LEMMA DbFrame ==
  ASSUME Next
  PROVE  \/ PackageAdd \/ SetName \/ RegisterEndpoint
         \/ ClearSites \/ ClearDefault \/ DeleteEndpoints \/ DeleteInstance
         \/ \E s \in Site, h \in Offered("httpd"), p \in Offered("php") : SiteSave(s, h, p)
         \/ \E d \in Offered("php") : SettingsSave(d)
         \/ UNCHANGED db
<1> USE DEF db
<1>1. CASE InstallStep
  BY <1>1 DEF InstallStep, Download, UnzipBegin, UnzipEnd, WriteConf, Initialize, CreateUsers,
              WriteFinalConf
<1>2. CASE ControlStep
  BY <1>2 DEF ControlStep, Start, StopUnchecked, StopNothing, StopAndWait, WaitDead,
              ServiceInstall, ServiceRemove
<1>3. CASE UninstallStep
  BY <1>3 DEF UninstallStep, InUse, AbortCheck, Deltree
<1>4. CASE Interruption
  BY <1>4 DEF Interruption, Disconnect, Kill, Die
<1>5. CASE ~Step /\ ~Interruption
  BY <1>5 DEF Next, BeginInstall, BeginControl, BeginUninstall
<1> QED
  BY <1>1, <1>2, <1>3, <1>4, <1>5 DEF Step

\* Any field read from pdata is a value of its form, or null.
LEMMA PostFields ==
  ASSUME NEW pd \in Posts, NEW key
  PROVE  pd.interface \in Interface \cup {Null} /\ PostedPort(pd, key) \in Port \cup {Null}
<1>1. CASE pd = EmptyPost
  BY <1>1 DEF EmptyPost, PostedPort
<1>2. ASSUME NEW p \in Package, pd \in PostOf(p)
      PROVE  pd.interface \in Interface \cup {Null} /\ PostedPort(pd, key) \in Port \cup {Null}
  BY <1>2 DEF PostOf, PostedPort
<1> QED
  BY <1>1, <1>2 DEF Posts

\* The empty form is a form.
LEMMA EmptyPostIsPost == EmptyPost \in Posts
  BY DEF Posts

\* Forms offer ids of instances, or none.
LEMMA OfferedIds ==
  ASSUME DbTypeOK, NEW role
  PROVE  Offered(role) \subseteq Ids \cup {Null}
  BY MaxIdAssumption DEF DbTypeOK, Offered, Ids

\* A request that works on an instance works on one that has a row, and a
\* class with the shape of DriverOK.
LEMMA CurDriver ==
  ASSUME IInv, pc \notin {"idle", "download", "add"}
  PROVE  cur \in instance /\ cur \in Ids /\ package[cur] \in Package /\ DriverOK(This)
  BY DriverShape, PackageAssumption DEF IInv, LiveInv, PcInv, TypeOK, DbTypeOK, This

\* registerEndpoint stores a well-formed row, whatever pdata holds.
LEMMA RowTyped ==
  ASSUME IInv, pc = "endpoint"
  PROVE  Row(cur, This.endpoints[n + 1], post) \in Rows
<1>1. cur \in Ids /\ DriverOK(This) /\ n \in Nat /\ n < Len(This.endpoints) /\ post \in Posts
  BY CurDriver DEF IInv, PcInv, TypeOK, RequestTypeOK
<1>2. This.endpoints[n + 1] \in EndpointSpec
  BY <1>1 DEF DriverOK, NonEmpty
<1> QED
  BY <1>1, <1>2, PostFields DEF Row, Rows, EndpointSpec

\* The tables keep their types.
LEMMA DbTypeStep ==
  ASSUME IInv, Next
  PROVE  DbTypeOK'
<1> USE DEF DbTypeOK, db, machine, session, request
<1>0. DbTypeOK BY DEF IInv, TypeOK
<1>1. CASE PackageAdd
  BY <1>0, <1>1, MaxIdAssumption DEF PackageAdd, IInv, PcInv, Ids
<1>2. CASE SetName
  BY <1>0, <1>2, CurDriver DEF SetName
<1>3. CASE DeleteInstance
  BY <1>0, <1>3 DEF DeleteInstance
<1>4. CASE RegisterEndpoint
  BY <1>0, <1>4, RowTyped DEF RegisterEndpoint
<1>5. CASE DeleteEndpoints
  BY <1>0, <1>5 DEF DeleteEndpoints
<1>6. CASE ClearSites
  BY <1>0, <1>6 DEF ClearSites
<1>7. CASE ClearDefault
  BY <1>0, <1>7 DEF ClearDefault
<1>8. ASSUME NEW s \in Site, NEW h \in Offered("httpd"), NEW p \in Offered("php"), SiteSave(s, h, p)
      PROVE  DbTypeOK'
  BY <1>0, <1>8, OfferedIds DEF SiteSave
<1>9. ASSUME NEW d \in Offered("php"), SettingsSave(d)
      PROVE  DbTypeOK'
  BY <1>0, <1>9, OfferedIds DEF SettingsSave
<1>10. CASE UNCHANGED db
  BY <1>0, <1>10
<1> QED
  BY <1>1, <1>2, <1>3, <1>4, <1>5, <1>6, <1>7, <1>8, <1>9, <1>10, DbFrame

\* Directories, processes and services keep their types.
LEMMA MachineTypeStep ==
  ASSUME IInv, Next
  PROVE  MachineTypeOK'
<1> USE DEF MachineTypeOK, machine, DirStates
<1>0. MachineTypeOK BY DEF IInv, TypeOK
<1>1. CASE InstallStep
  BY <1>0, <1>1 DEF InstallStep, Download, PackageAdd, SetName, UnzipBegin, UnzipEnd,
                    RegisterEndpoint, WriteConf, Initialize, CreateUsers, WriteFinalConf
<1>2. CASE ControlStep
  BY <1>0, <1>2 DEF ControlStep, Start, StopUnchecked, StopNothing, StopAndWait, WaitDead,
                    ServiceInstall, ServiceRemove
<1>3. CASE UninstallStep
  BY <1>0, <1>3 DEF UninstallStep, InUse, AbortCheck, ClearSites, ClearDefault, Deltree,
                    DeleteEndpoints, DeleteInstance
<1>4. CASE Interruption
  BY <1>0, <1>4 DEF Interruption, Disconnect, Kill, Die
<1>5. CASE ~Step /\ ~Interruption
  BY <1>0, <1>5 DEF Next, BeginInstall, BeginControl, BeginUninstall, SiteSave, SettingsSave
<1> QED
  BY <1>1, <1>2, <1>3, <1>4, <1>5 DEF Step

\* The session keeps its type.
LEMMA SessionTypeStep ==
  ASSUME IInv, Next
  PROVE  SessionTypeOK'
<1> USE DEF SessionTypeOK, session
<1>0. SessionTypeOK BY DEF IInv, TypeOK
<1>a. EndRequest => SessionTypeOK'
  BY <1>0, Zenon DEF EndRequest
<1>b. Stopped => SessionTypeOK'
  BY <1>0, <1>a, Zenon DEF Stopped
<1>c. Return => SessionTypeOK'
  BY <1>0, <1>a, Zenon DEF Return
<1>1. CASE InstallStep
  BY <1>0, <1>1, <1>a, Zenon
     DEF InstallStep, Download, PackageAdd, SetName, UnzipBegin, UnzipEnd, RegisterEndpoint,
         WriteConf, Initialize, CreateUsers, WriteFinalConf
<1>2. CASE ControlStep
  BY <1>0, <1>2, <1>a, <1>b, <1>c, Zenon
     DEF ControlStep, Start, StopUnchecked, StopNothing, StopAndWait, WaitDead,
         ServiceInstall, ServiceRemove
<1>3. CASE UninstallStep
  BY <1>0, <1>3, <1>a, Zenon
     DEF UninstallStep, InUse, AbortCheck, ClearSites, ClearDefault, Deltree, DeleteEndpoints,
         DeleteInstance
<1>4. CASE Interruption
  BY <1>0, <1>4, <1>a, Zenon DEF Interruption, Disconnect, Kill, Die
<1>5. CASE ~Step /\ ~Interruption
  BY <1>0, <1>5, Zenon
     DEF Next, BeginInstall, BeginControl, BeginUninstall, SiteSave, SettingsSave, Begin
<1> QED
  BY <1>1, <1>2, <1>3, <1>4, <1>5 DEF Step

\* The state between requests is well-formed.
LEMMA EndRequestType == NoRequest => RequestTypeOK'
  BY EmptyPostIsPost DEF NoRequest, RequestTypeOK, Ops, Labels

\* So is the state after a jump,
LEMMA GotoType ==
  ASSUME RequestTypeOK, NEW label \in Labels, Goto(label)
  PROVE  RequestTypeOK'
  BY TimeoutAssumption DEF Goto, RequestTypeOK

\* after stop() has returned,
LEMMA StoppedType ==
  ASSUME RequestTypeOK, Stopped
  PROVE  RequestTypeOK'
<1>1. AfterStop \in Labels
  BY DEF AfterStop, Labels
<1> QED
  BY <1>1, EndRequestType, GotoType DEF Stopped, EndRequest

\* after a command has returned to Site::update,
LEMMA ReturnType ==
  ASSUME RequestTypeOK, DbTypeOK, Return
  PROVE  RequestTypeOK'
  BY EndRequestType DEF Return, EndRequest, RequestTypeOK, DbTypeOK, Labels

\* and at the start of a request.
LEMMA BeginType ==
  ASSUME NEW o \in Ops, NEW i \in Ids \cup {Null}, NEW p \in Package \cup {Null}, NEW pd \in Posts,
         NEW label \in Labels, Begin(o, i, p, pd, label)
  PROVE  RequestTypeOK'
  BY TimeoutAssumption DEF RequestTypeOK, Begin

\* The request keeps its type; the polls of sleepTillProcessDead stay below
\* its limit.
LEMMA RequestTypeStep ==
  ASSUME IInv, Next
  PROVE  RequestTypeOK'
<1>0. RequestTypeOK /\ DbTypeOK BY DEF IInv, TypeOK
<1>1. CASE InstallStep
  <2>1. CASE PackageAdd
    BY <1>0, <2>1, MaxIdAssumption DEF PackageAdd, RequestTypeOK, IInv, PcInv, DbTypeOK, Ids, Labels
  <2>2. CASE RegisterEndpoint
    BY <1>0, <2>2, EmptyPostIsPost DEF RegisterEndpoint, RequestTypeOK, Labels
  <2>3. CASE Download \/ SetName \/ UnzipBegin \/ UnzipEnd \/ WriteConf
          \/ Initialize \/ CreateUsers \/ WriteFinalConf
    <3>1. {"add", "unzip", "unzipping", "endpoint", "initialize", "start", "waitDead", "stop"}
            \subseteq Labels
      BY DEF Labels
    <3> QED
      BY <1>0, <2>3, <3>1, GotoType, EndRequestType
         DEF Download, SetName, UnzipBegin, UnzipEnd, WriteConf, Initialize, CreateUsers,
             WriteFinalConf, EndRequest
  <2> QED BY <1>1, <2>1, <2>2, <2>3 DEF InstallStep
<1>2. CASE ControlStep
  <2>1. CASE WaitDead
    BY <1>0, <2>1, TimeoutAssumption, StoppedType, EndRequestType
       DEF WaitDead, EndRequest, RequestTypeOK, session
  <2>3. CASE Start \/ StopUnchecked \/ StopNothing \/ StopAndWait \/ ServiceInstall \/ ServiceRemove
    <3>1. {"users", "waitDead", "stopAgain", "clearSites"} \subseteq Labels
      BY DEF Labels
    <3> QED
      BY <1>0, <2>3, <3>1, GotoType, EndRequestType, StoppedType, ReturnType
         DEF Start, StopUnchecked, StopNothing, StopAndWait, ServiceInstall, ServiceRemove,
             EndRequest
  <2> QED BY <1>2, <2>1, <2>3 DEF ControlStep
<1>3. CASE UninstallStep
  <2>1. {"abortCheck", "stop", "clearDefault", "deltree", "deleteEndpoints", "deleteInstance"}
          \subseteq Labels
    BY DEF Labels
  <2> QED
    BY <1>0, <1>3, <2>1, GotoType, EndRequestType
       DEF UninstallStep, InUse, AbortCheck, ClearSites, ClearDefault, Deltree,
           DeleteEndpoints, DeleteInstance, EndRequest
<1>4. CASE Interruption
  BY <1>0, <1>4, EndRequestType
     DEF Interruption, Disconnect, Kill, Die, EndRequest, RequestTypeOK, request
<1>5. ASSUME NEW p \in Package, NEW pd \in Posts, BeginInstall(p, pd)
      PROVE  RequestTypeOK'
  BY <1>5, BeginType DEF BeginInstall, Ops, Labels
<1>6. ASSUME NEW i \in Ids, NEW cmd \in Command, BeginControl(i, cmd)
      PROVE  RequestTypeOK'
  BY <1>6, BeginType, EmptyPostIsPost, CommandAssumption DEF BeginControl, Ops, Labels
<1>7. ASSUME NEW i \in Ids, BeginUninstall(i)
      PROVE  RequestTypeOK'
  BY <1>7, BeginType, EmptyPostIsPost DEF BeginUninstall, Ops, Labels
<1>8. ASSUME NEW s \in Site, NEW h \in Offered("httpd"), NEW p \in Offered("php"), SiteSave(s, h, p)
      PROVE  RequestTypeOK'
  BY <1>0, <1>8, OfferedIds, EmptyPostIsPost
     DEF SiteSave, RequestTypeOK, DbTypeOK, request, Ops, Labels
<1>9. ASSUME NEW d \in Offered("php"), SettingsSave(d)
      PROVE  RequestTypeOK'
  BY <1>0, <1>9 DEF SettingsSave, RequestTypeOK, request
<1> QED
  BY <1>1, <1>2, <1>3, <1>4, <1>5, <1>6, <1>7, <1>8, <1>9 DEF Next, Step

\* AUTOINCREMENT gives out ids in order and deletion only removes rows.
LEMMA LiveStep ==
  ASSUME IInv, Next
  PROVE  LiveInv'
<1>0. LiveInv /\ DbTypeOK BY DEF IInv, TypeOK
<1>1. CASE PackageAdd
  <2>1. lastId \in Nat /\ lastId + 1 \in Ids /\ pkg \in Package
    BY <1>0, <1>1, MaxIdAssumption DEF PackageAdd, DbTypeOK, IInv, PcInv, Ids
  <2>2. lastId' = lastId + 1 /\ instance' = instance \cup {lastId + 1}
    BY <1>1 DEF PackageAdd
  <2>3. \A i \in 1..lastId' : package'[i] = IF i = lastId + 1 THEN pkg ELSE package[i]
    BY <1>0, <1>1, <2>1, MaxIdAssumption DEF PackageAdd, DbTypeOK, Ids
  <2> QED
    BY <1>0, <2>1, <2>2, <2>3 DEF LiveInv
<1>2. CASE DeleteInstance
  BY <1>0, <1>2 DEF DeleteInstance, LiveInv
<1>3. CASE UNCHANGED <<lastId, instance, package>>
  BY <1>0, <1>3 DEF LiveInv
<1> QED
  BY <1>1, <1>2, <1>3, DbFrame DEF SetName, RegisterEndpoint, ClearSites, ClearDefault,
     DeleteEndpoints, SiteSave, SettingsSave, db

\* A request keeps its instance: only its own last step deletes the row.
LEMMA PcStep ==
  ASSUME IInv, Next
  PROVE  PcInv'
<1>0. PcInv /\ DbTypeOK /\ RequestTypeOK BY DEF IInv, TypeOK
<1>a. NoRequest => PcInv'
  BY DEF NoRequest, PcInv
<1>b. ASSUME cur \in instance, UNCHANGED instance, NEW label, Goto(label),
             label \notin {"download", "add", "endpoint"}
      PROVE  PcInv'
  BY <1>b DEF Goto, PcInv
<1>c. ASSUME cur \in instance, UNCHANGED instance, Stopped
      PROVE  PcInv'
  BY <1>a, <1>b, <1>c DEF Stopped, AfterStop, EndRequest
<1>d. ASSUME UNCHANGED instance, Return
      PROVE  PcInv'
  BY <1>a, <1>d DEF Return, EndRequest, PcInv
<1>1. CASE InstallStep
  <2>1. CASE Download
    BY <1>0, <1>a, <2>1 DEF Download, Goto, EndRequest, PcInv, db
  <2>2. CASE PackageAdd
    BY <2>2 DEF PackageAdd, PcInv
  <2>3. CASE SetName \/ UnzipBegin
    BY <2>3, <1>b, CurDriver DEF SetName, UnzipBegin, db
  <2>4. CASE UnzipEnd
    <3>1. DriverOK(This) /\ cur \in instance
      BY <2>4, CurDriver DEF UnzipEnd
    <3>2. 0 < Len(This.endpoints)
      BY <3>1 DEF DriverOK, NonEmpty
    <3> QED
      BY <2>4, <3>1, <3>2 DEF UnzipEnd, Goto, PcInv, This, db
  <2>5. CASE RegisterEndpoint
    BY <1>0, <2>5, CurDriver DEF RegisterEndpoint, PcInv, RequestTypeOK, This
  <2>6. CASE WriteConf \/ Initialize \/ CreateUsers \/ WriteFinalConf
    BY <1>a, <1>b, <2>6, CurDriver
       DEF WriteConf, Initialize, CreateUsers, WriteFinalConf, EndRequest, db
  <2> QED
    BY <1>1, <2>1, <2>2, <2>3, <2>4, <2>5, <2>6 DEF InstallStep
<1>2. CASE ControlStep
  <2>1. CASE WaitDead
    BY <1>0, <1>a, <1>c, <2>1, CurDriver DEF WaitDead, EndRequest, PcInv, session, db
  <2>2. CASE Start \/ StopUnchecked \/ StopNothing \/ StopAndWait \/ ServiceInstall \/ ServiceRemove
    BY <1>a, <1>b, <1>c, <1>d, <2>2, CurDriver
       DEF Start, StopUnchecked, StopNothing, StopAndWait, ServiceInstall, ServiceRemove,
           EndRequest, db
  <2> QED
    BY <1>2, <2>1, <2>2 DEF ControlStep
<1>3. CASE UninstallStep
  BY <1>3, <1>a, <1>b, CurDriver
     DEF UninstallStep, InUse, AbortCheck, ClearSites, ClearDefault, Deltree, DeleteEndpoints,
         DeleteInstance, EndRequest, db
<1>4. CASE Interruption
  BY <1>0, <1>4, <1>a DEF Interruption, Disconnect, Kill, Die, EndRequest, PcInv, This, request, db
<1>5. CASE ~Step /\ ~Interruption
  BY <1>0, <1>5, NullAssumption
     DEF Next, BeginInstall, BeginControl, BeginUninstall, Begin, SiteSave, SettingsSave,
         Idle, PcInv, This, request, db
<1> QED
  BY <1>1, <1>2, <1>3, <1>4, <1>5 DEF Step

\* How the labels that FreshInv and OwnedInv mention are reached.
LEMMA PcFrame ==
  ASSUME Next, pc' \in {"name", "unzip", "deleteInstance"}
  PROVE  PackageAdd \/ SetName \/ DeleteEndpoints \/ \E i \in Ids : Die(i)
<1> USE DEF EndRequest, NoRequest, Goto
<1>1. CASE InstallStep
  BY <1>1 DEF InstallStep, Download, UnzipBegin, UnzipEnd, RegisterEndpoint, WriteConf, Initialize,
              CreateUsers, WriteFinalConf
<1>2. CASE ControlStep
  BY <1>2 DEF ControlStep, Start, StopUnchecked, StopNothing, StopAndWait, WaitDead,
              ServiceInstall, ServiceRemove, Stopped, AfterStop, Return
<1>3. CASE UninstallStep
  BY <1>3 DEF UninstallStep, InUse, AbortCheck, ClearSites, ClearDefault, Deltree,
              DeleteInstance
<1>4. CASE Interruption
  BY <1>4 DEF Interruption, Disconnect, Kill
<1>5. CASE ~Step /\ ~Interruption
  BY <1>5 DEF Next, BeginInstall, BeginControl, BeginUninstall, Begin, SiteSave, SettingsSave,
              Idle, request
<1> QED
  BY <1>1, <1>2, <1>3, <1>4, <1>5 DEF Step

\* A request touches only the directory, process and service of its own
\* instance, and nothing before the instance has its name.
LEMMA MachineFrame ==
  ASSUME MachineTypeOK, Next, NEW i \in Ids
  PROVE  /\ dir'[i] # dir[i] \/ service'[i] # service[i]
              => i = cur /\ pc \notin {"idle", "download", "add", "name"}
         /\ running'[i] /\ ~running[i] => i = cur /\ pc \in {"start", "initialize"}
<1> USE DEF MachineTypeOK, machine
<1>1. CASE InstallStep
  BY <1>1 DEF InstallStep, Download, PackageAdd, SetName, UnzipBegin, UnzipEnd,
              RegisterEndpoint, WriteConf, Initialize, CreateUsers, WriteFinalConf
<1>2. CASE ControlStep
  BY <1>2 DEF ControlStep, Start, StopUnchecked, StopNothing, StopAndWait, WaitDead,
              ServiceInstall, ServiceRemove
<1>3. CASE UninstallStep
  BY <1>3 DEF UninstallStep, InUse, AbortCheck, ClearSites, ClearDefault, Deltree,
              DeleteEndpoints, DeleteInstance
<1>4. CASE Interruption
  BY <1>4 DEF Interruption, Disconnect, Kill, Die
<1>5. CASE ~Step /\ ~Interruption
  BY <1>5 DEF Next, BeginInstall, BeginControl, BeginUninstall, SiteSave, SettingsSave
<1> QED
  BY <1>1, <1>2, <1>3, <1>4, <1>5 DEF Step

\* What is on the machine belongs to ids that were given out.
LEMMA FreshStep ==
  ASSUME IInv, Next
  PROVE  FreshInv'
<1>0. FreshInv /\ LiveInv /\ PcInv /\ DbTypeOK /\ MachineTypeOK BY DEF IInv, TypeOK
<1>1. CASE PackageAdd
  <2>1. lastId \in Nat /\ lastId + 1 \in Ids /\ UNCHANGED machine
    BY <1>0, <1>1, MaxIdAssumption DEF PackageAdd, DbTypeOK, PcInv, Ids
  <2>2. Clean(lastId + 1) /\ \A i \in Ids : i > lastId + 1 => Clean(i)
    BY <1>0, <2>1 DEF FreshInv, Ids
  <2> QED
    BY <1>1, <2>1, <2>2 DEF PackageAdd, FreshInv, Clean, machine
<1>2. ASSUME ~PackageAdd, NEW i \in Ids, i > lastId'
      PROVE  Clean(i)'
  <2>1. lastId' = lastId
    BY <1>2, DbFrame DEF SetName, RegisterEndpoint, ClearSites, ClearDefault, DeleteEndpoints,
                         DeleteInstance, SiteSave, SettingsSave, db
  <2>2. pc \notin {"idle", "download", "add"} => i # cur
    BY <1>0, <1>2, <2>1, MaxIdAssumption DEF LiveInv, PcInv, DbTypeOK, Ids
  <2> QED
    BY <1>0, <1>2, <2>1, <2>2, MachineFrame DEF FreshInv, Clean, MachineTypeOK
<1>3. ASSUME ~PackageAdd, pc' \in {"name", "unzip"}
      PROVE  Clean(cur)'
  <2>1. CASE SetName
    BY <1>0, <2>1 DEF SetName, Goto, FreshInv, Clean, machine
  <2>2. ASSUME NEW i \in Ids, Die(i)
        PROVE  Clean(cur)'
    BY <1>0, <1>3, <2>2 DEF Die, FreshInv, Clean, MachineTypeOK, request
  <2> QED
    BY <1>3, <2>1, <2>2, PcFrame DEF DeleteEndpoints, Goto
<1> QED
  BY <1>1, <1>2, <1>3 DEF FreshInv

\* The order of postUninstall: first the endpoints, then the row.
LEMMA OwnedStep ==
  ASSUME IInv, Next
  PROVE  OwnedInv'
<1>0. OwnedInv /\ PcInv /\ LiveInv BY DEF IInv
<1>1. EndpointsOwned'
  <2>1. CASE PackageAdd
    BY <1>0, <2>1 DEF PackageAdd, OwnedInv, EndpointsOwned
  <2>2. CASE RegisterEndpoint
    BY <1>0, <2>2, CurDriver DEF RegisterEndpoint, OwnedInv, EndpointsOwned, Row
  <2>3. CASE DeleteEndpoints
    BY <1>0, <2>3 DEF DeleteEndpoints, OwnedInv, EndpointsOwned
  <2>4. CASE DeleteInstance
    BY <1>0, <2>4 DEF DeleteInstance, OwnedInv, EndpointsOwned, EndpointsOf
  <2>5. CASE UNCHANGED <<instance, endpoint>>
    BY <1>0, <2>5 DEF OwnedInv, EndpointsOwned
  <2> QED
    BY <2>1, <2>2, <2>3, <2>4, <2>5, DbFrame
       DEF SetName, ClearSites, ClearDefault, SiteSave, SettingsSave, db
<1>2. ASSUME pc' = "deleteInstance"
      PROVE  (EndpointsOf(cur) = {})'
  <2>1. CASE DeleteEndpoints
    BY <2>1 DEF DeleteEndpoints, Goto, EndpointsOf
  <2>2. ASSUME NEW i \in Ids, Die(i)
        PROVE  (EndpointsOf(cur) = {})'
    BY <1>0, <1>2, <2>2 DEF Die, OwnedInv, EndpointsOf, db, request
  <2> QED
    BY <1>2, <2>1, <2>2, PcFrame DEF PackageAdd, SetName, Goto
<1> QED
  BY <1>1, <1>2 DEF OwnedInv

\* The invariant holds of the empty database,
LEMMA InitIInv ==
  ASSUME Init
  PROVE  IInv
<1> USE DEF Init
<1>1. DbTypeOK
  BY MaxIdAssumption DEF DbTypeOK
<1>2. MachineTypeOK /\ SessionTypeOK /\ RequestTypeOK
  BY EmptyPostIsPost DEF MachineTypeOK, SessionTypeOK, RequestTypeOK, DirStates, Ops, Labels
<1>3. LiveInv /\ PcInv /\ FreshInv /\ OwnedInv
  BY DEF LiveInv, PcInv, FreshInv, Clean, OwnedInv, EndpointsOwned
<1> QED
  BY <1>1, <1>2, <1>3 DEF IInv, TypeOK

\* and every step, cut or not, preserves it.
LEMMA StepIInv == IInv /\ [Next]_vars => IInv'
<1>1. ASSUME IInv, Next
      PROVE  IInv'
  BY <1>1, DbTypeStep, MachineTypeStep, SessionTypeStep, RequestTypeStep, LiveStep, PcStep,
     FreshStep, OwnedStep DEF IInv, TypeOK
<1>2. ASSUME IInv, UNCHANGED vars
      PROVE  IInv'
  BY <1>2 DEF IInv, TypeOK, DbTypeOK, MachineTypeOK, SessionTypeOK, RequestTypeOK, LiveInv,
              PcInv, FreshInv, Clean, OwnedInv, EndpointsOwned, EndpointsOf, This,
              vars, db, machine, session, request
<1> QED
  BY <1>1, <1>2

\* IInv is an invariant.
THEOREM Inductive == Spec => []IInv
  BY InitIInv, StepIInv, PTL DEF Spec

\* Every variable keeps to its domain, and sleepTillProcessDead
\* (classes/util.php) never polls beyond its limit.
THEOREM TypeCorrect == Spec => []TypeOK
  BY Inductive, PTL DEF IInv

\* Wherever a request is cut, no row of table endpoint is left without its
\* row of table instance: no port is blocked by an instance nobody can remove.
THEOREM EndpointsAlwaysOwned == Spec => []EndpointsOwned
  BY Inductive, PTL DEF IInv, OwnedInv

\* An installation never meets the directory, process or service of an earlier
\* instance, although uninstall ignores whether it could remove them.
THEOREM FreshPlace == Spec => []InstallsIntoFreshPlace
<1>1. IInv => InstallsIntoFreshPlace
  BY DEF IInv, FreshInv, Clean, InstallsIntoFreshPlace
<1> QED
  BY <1>1, Inductive, PTL

\* The steps of install and uninstall implement the abstract registry: each is
\* one of its steps or leaves the two tables alone.
THEOREM RegistryImplemented == Spec => ImplementsRegistry
<1>1. Init => Reg!RInit
  BY DEF Init, Reg!RInit
<1>2. ASSUME IInv, [Next]_vars
      PROVE  [Reg!RNext]_(Reg!registry)
  <2> USE DEF Reg!registry
  <2>1. CASE PackageAdd
    BY <2>1 DEF PackageAdd, Reg!RNext, Reg!Register
  <2>2. CASE RegisterEndpoint
    <3>1. Row(cur, This.endpoints[n + 1], post) \in Rows
      BY <1>2, <2>2, RowTyped DEF RegisterEndpoint
    <3>2. Reg!Claim(Row(cur, This.endpoints[n + 1], post))
      BY <1>2, <2>2, CurDriver DEF RegisterEndpoint, Reg!Claim, Row
    <3>3. endpoint' = endpoint \cup {Row(cur, This.endpoints[n + 1], post)}
      BY <3>2 DEF Reg!Claim
    <3> QED
      BY <3>1, <3>2, <3>3 DEF Reg!RNext, Reg!Claim
  <2>3. CASE DeleteEndpoints
    <3>1. cur \in instance /\ Reg!Release(cur)
      BY <1>2, <2>3, CurDriver DEF DeleteEndpoints, EndpointsOf, Reg!Release, Reg!ClaimsOf
    <3> QED
      BY <3>1 DEF Reg!RNext
  <2>4. CASE DeleteInstance
    <3>1. cur \in instance /\ Reg!Retire(cur)
      BY <1>2, <2>4, CurDriver
         DEF DeleteInstance, IInv, OwnedInv, EndpointsOf, Reg!Retire, Reg!ClaimsOf
    <3> QED
      BY <3>1 DEF Reg!RNext
  <2>5. CASE UNCHANGED <<lastId, instance, endpoint>>
    BY <2>5
  <2> QED
    BY <1>2, <2>1, <2>2, <2>3, <2>4, <2>5, DbFrame
       DEF SetName, ClearSites, ClearDefault, SiteSave, SettingsSave, db, vars
<1> QED
  BY <1>1, <1>2, Inductive, PTL DEF Spec, ImplementsRegistry, Reg!RSpec

-----------------------------------------------------------------------------
(* What follows from the abstract registry alone                           *)

\* The registry's state is consistent after every step, whichever it is.
LEMMA RegistryStep ==
  ASSUME Reg!RegistryInv, [Reg!RNext]_(Reg!registry)
  PROVE  Reg!RegistryInv'
<1> USE DEF Reg!RegistryInv
<1>1. CASE Reg!Register
  BY <1>1 DEF Reg!Register
<1>2. ASSUME NEW e, Reg!Claim(e)
      PROVE  Reg!RegistryInv'
  BY <1>2 DEF Reg!Claim
<1>3. ASSUME NEW i \in instance, Reg!Release(i) \/ Reg!Retire(i)
      PROVE  Reg!RegistryInv'
  BY <1>3 DEF Reg!Release, Reg!Retire, Reg!ClaimsOf
<1>4. CASE UNCHANGED Reg!registry
  BY <1>4 DEF Reg!registry
<1> QED
  BY <1>1, <1>2, <1>3, <1>4 DEF Reg!RNext

\* Endpoints always have a live owner, and live ids were given out: what
\* endpointInUse and the list of instances rely on.
THEOREM RegistryConsistent == Reg!RSpec => []Reg!RegistryInv
<1>1. Reg!RInit => Reg!RegistryInv
  BY DEF Reg!RInit, Reg!RegistryInv
<1> QED
  BY <1>1, RegistryStep, PTL DEF Reg!RSpec

\* In the abstract registry a retired id never becomes live again.
LEMMA RegistryNeverAgain == Reg!RSpec => Reg!NeverAgain
<1>1. Reg!RegistryInv /\ [Reg!RNext]_(Reg!registry) =>
        [\A i \in 1..lastId : i \notin instance => i \notin instance']_(Reg!registry)
  BY DEF Reg!RegistryInv, Reg!RNext, Reg!Register, Reg!Claim, Reg!Release, Reg!Retire, Reg!registry
<1> QED
  BY <1>1, RegistryConsistent, PTL DEF Reg!RSpec, Reg!NeverAgain

\* An id of a deleted row never comes back (AUTOINCREMENT), so nothing that
\* still refers to the old instance can ever mean a new one: this follows from
\* the abstract registry and from install and uninstall implementing it.
THEOREM IdsNeverReused == Spec => Reg!NeverAgain
  BY RegistryImplemented, RegistryNeverAgain, PTL DEF ImplementsRegistry

-----------------------------------------------------------------------------
(* What is true when uninstall deletes the row of an instance: a MySQL or  *)
(* MariaDB server is gone (DatabaseStoppedBeforeRemoval), and nothing      *)
(* refers to the instance any more (DeletionLeavesNoReference).  Both need *)
(* to know what earlier steps of the same request established, so the      *)
(* invariants below carry it from the step that establishes it to the      *)
(* deletion.  That the facts survive in between rests on requests not      *)
(* overlapping: only the request itself starts its server, and no site is  *)
(* saved before it ends.                                                   *)

Removing == {"serviceRemove", "clearSites", "clearDefault", "deltree",
             "deleteEndpoints", "deleteInstance"}

\* Once stop() has returned to uninstall, a server that is waited for is dead.
StoppedInv ==
  /\ DatabaseStoppedBeforeRemoval
  /\ pc \in Removing /\ This.stop = "shutdown" => ~running[cur]

\* The labels tell which command is being served.
OpInv ==
  /\ pc \in {"download", "add", "name", "unzip", "unzipping", "endpoint", "conf",
             "initialize", "users", "finalConf"} => op = "install"
  /\ pc \in {"inUse", "abortCheck", "clearSites", "clearDefault", "deltree",
             "deleteEndpoints", "deleteInstance"} => op = "uninstall"
  /\ pc = "start" => op # "uninstall"
  /\ pc = "idle" => op = "none"

\* A reference names an instance, present or past, of the right role.
RoleInv ==
  /\ \A s \in Site :
       /\ site[s].httpd # Null =>
            site[s].httpd \in 1..lastId /\ Class(package[site[s].httpd]).role = "httpd"
       /\ site[s].php # Null =>
            site[s].php \in 1..lastId /\ Class(package[site[s].php]).role = "php"
  /\ phpDefault # Null =>
       phpDefault \in 1..lastId /\ Class(package[phpDefault]).role = "php"

\* The steps of uninstall after the check of installer_abort.
Past == {"stop", "waitDead"} \cup Removing

\* What uninstall has made sure of so far.
UnusedInv ==
  /\ op = "uninstall" /\ This.checksUse /\ (pc \in Past \/ (pc = "abortCheck" /\ ~abort))
       => \A s \in Site : site[s].php # cur
  /\ pc \in {"clearDefault", "deltree", "deleteEndpoints", "deleteInstance"}
       /\ This.clears = "httpd" => \A s \in Site : site[s].httpd # cur
  /\ pc \in {"deltree", "deleteEndpoints", "deleteInstance"} => phpDefault # cur

-----------------------------------------------------------------------------

\* The ids and packages of existing rows and of retired ids do not change.
LEMMA PackageKept ==
  ASSUME IInv, Next, NEW i \in 1..lastId
  PROVE  i \in 1..lastId' /\ package'[i] = package[i]
<1>0. DbTypeOK
  BY DEF IInv, TypeOK
<1>1. CASE PackageAdd
  BY <1>0, <1>1, MaxIdAssumption DEF PackageAdd, DbTypeOK, Ids
<1>2. CASE UNCHANGED <<lastId, package>>
  BY <1>2
<1> QED
  BY <1>1, <1>2, DbFrame DEF SetName, RegisterEndpoint, ClearSites, ClearDefault,
     DeleteEndpoints, DeleteInstance, SiteSave, SettingsSave, db

\* Only a finished stop() leads into the steps that remove things.
LEMMA RemovingFrame ==
  ASSUME Next, pc' \in Removing
  PROVE  \/ (StopUnchecked \/ StopNothing \/ WaitDead) /\ Stopped /\ cur' = cur
         \/ pc \in Removing /\ cur' = cur
<1> USE DEF EndRequest, NoRequest, Goto, Removing
<1>1. CASE InstallStep
  BY <1>1 DEF InstallStep, Download, PackageAdd, SetName, UnzipBegin, UnzipEnd,
              RegisterEndpoint, WriteConf, Initialize, CreateUsers, WriteFinalConf
<1>2. CASE ControlStep
  BY <1>2 DEF ControlStep, Start, StopUnchecked, StopNothing, StopAndWait, WaitDead,
              ServiceInstall, ServiceRemove, Stopped, Return
<1>3. CASE UninstallStep
  BY <1>3 DEF UninstallStep, InUse, AbortCheck, ClearSites, ClearDefault, Deltree,
              DeleteEndpoints, DeleteInstance
<1>4. CASE Interruption
  BY <1>4 DEF Interruption, Disconnect, Kill, Die, request
<1>5. CASE ~Step /\ ~Interruption
  BY <1>5 DEF Next, BeginInstall, BeginControl, BeginUninstall, Begin, SiteSave, SettingsSave,
              Idle, request
<1> QED
  BY <1>1, <1>2, <1>3, <1>4, <1>5 DEF Step

\* sleepTillProcessDead lets uninstall go on only with a dead server, which
\* nobody else starts before the row is gone.
LEMMA StoppedStep ==
  ASSUME IInv, StoppedInv, Next
  PROVE  StoppedInv'
<1>0. LiveInv /\ PcInv /\ DbTypeOK /\ MachineTypeOK /\ StoppedInv
  BY DEF IInv, TypeOK
<1>1. ASSUME NEW i \in 1..lastId', i \notin instance', Class(package'[i]).stop = "shutdown",
             running'[i]
      PROVE  FALSE
  <2>1. CASE PackageAdd
    <3>1. i \in 1..lastId /\ i \notin instance
      BY <1>0, <1>1, <2>1, MaxIdAssumption DEF PackageAdd, DbTypeOK, Ids
    <3> QED
      BY <1>0, <1>1, <2>1, <3>1, PackageKept
         DEF PackageAdd, StoppedInv, DatabaseStoppedBeforeRemoval, machine
  <2>2. CASE DeleteInstance
    BY <1>0, <1>1, <2>2
       DEF DeleteInstance, StoppedInv, DatabaseStoppedBeforeRemoval, Removing, This, machine
  <2>3. CASE UNCHANGED <<lastId, instance, package>>
    <3>1. ~running[i] /\ i \in Ids
      BY <1>0, <1>1, <2>3, MaxIdAssumption
         DEF StoppedInv, DatabaseStoppedBeforeRemoval, DbTypeOK, Ids
    <3>2. i = cur /\ pc \in {"start", "initialize"}
      BY <1>0, <1>1, <3>1, MachineFrame
    <3> QED
      BY <1>0, <1>1, <2>3, <3>2 DEF PcInv
  <2> QED
    BY <2>1, <2>2, <2>3, DbFrame DEF SetName, RegisterEndpoint, ClearSites, ClearDefault,
       DeleteEndpoints, SiteSave, SettingsSave, db
<1>2. ASSUME pc' \in Removing, This'.stop = "shutdown"
      PROVE  ~running'[cur']
  <2>1. CASE (StopUnchecked \/ StopNothing \/ WaitDead) /\ Stopped /\ cur' = cur
    BY <1>0, <1>2, <2>1
       DEF StopUnchecked, StopNothing, WaitDead, EndRequest, NoRequest, Removing, This,
           machine, db
  <2>2. CASE pc \in Removing /\ cur' = cur
    <3>1. cur \in instance /\ cur \in Ids /\ cur \in 1..lastId
      BY <1>0, <2>2 DEF PcInv, LiveInv, DbTypeOK, Removing
    <3>2. This' = This
      BY <2>2, <3>1, PackageKept DEF This
    <3>3. ~running[cur]
      BY <1>0, <1>2, <2>2, <3>2 DEF StoppedInv
    <3> QED
      BY <1>0, <2>2, <3>1, <3>3, MachineFrame DEF Removing
  <2> QED
    BY <1>2, <2>1, <2>2, RemovingFrame
<1> QED
  BY <1>1, <1>2 DEF StoppedInv, DatabaseStoppedBeforeRemoval

\* Every jump stays within its command.
LEMMA OpStep ==
  ASSUME OpInv, Next
  PROVE  OpInv'
<1> USE DEF OpInv, EndRequest, NoRequest, Goto
<1>1. CASE InstallStep
  BY <1>1 DEF InstallStep, Download, PackageAdd, SetName, UnzipBegin, UnzipEnd,
                    RegisterEndpoint, WriteConf, Initialize, CreateUsers, WriteFinalConf
<1>2. CASE ControlStep
  BY <1>2 DEF ControlStep, Start, StopUnchecked, StopNothing, StopAndWait, WaitDead,
                    ServiceInstall, ServiceRemove, Stopped, AfterStop, Return
<1>3. CASE UninstallStep
  BY <1>3 DEF UninstallStep, InUse, AbortCheck, ClearSites, ClearDefault, Deltree,
                    DeleteEndpoints, DeleteInstance
<1>4. CASE Interruption
  BY <1>4 DEF Interruption, Disconnect, Kill, Die, request
<1>5. CASE ~Step /\ ~Interruption
  BY <1>5, CommandAssumption
     DEF Next, BeginInstall, BeginControl, BeginUninstall, Begin, SiteSave, SettingsSave,
         Idle, request
<1> QED
  BY <1>1, <1>2, <1>3, <1>4, <1>5 DEF Step

\* The forms offer web servers for one column and PHP versions for the other.
LEMMA RoleStep ==
  ASSUME IInv, RoleInv, Next
  PROVE  RoleInv'
<1>0. DbTypeOK /\ RoleInv
  BY DEF IInv, TypeOK
<1>1. CASE UNCHANGED <<site, phpDefault>>
  BY <1>0, <1>1, PackageKept DEF RoleInv
<1>2. CASE ClearSites
  BY <1>0, <1>2, PackageKept DEF RoleInv, ClearSites
<1>3. CASE ClearDefault
  BY <1>0, <1>3, PackageKept DEF RoleInv, ClearDefault
<1>4. ASSUME NEW s \in Site, NEW h \in Offered("httpd"), NEW p \in Offered("php"), SiteSave(s, h, p)
      PROVE  RoleInv'
  BY <1>0, <1>4, PackageKept DEF RoleInv, SiteSave, Offered, DbTypeOK
<1>5. ASSUME NEW d \in Offered("php"), SettingsSave(d)
      PROVE  RoleInv'
  BY <1>0, <1>5, PackageKept DEF RoleInv, SettingsSave, Offered
<1> QED
  BY <1>1, <1>2, <1>3, <1>4, <1>5, DbFrame
     DEF PackageAdd, SetName, RegisterEndpoint, DeleteEndpoints, DeleteInstance, db

\* How an uninstallation gets to and past the check of installer_abort.
LEMMA UninstallFrame ==
  ASSUME OpInv, Next, op' = "uninstall", pc' \in Past \cup {"abortCheck"}
  PROVE  \/ InUse
         \/ AbortCheck /\ ~abort /\ pc' = "stop" /\ UNCHANGED <<cur, site, package>>
         \/ \E i \in Ids : BeginUninstall(i)
         \/ /\ op = "uninstall" /\ pc \in Past \cup {"abortCheck"}
            /\ pc' = "abortCheck" <=> pc = "abortCheck"
            /\ UNCHANGED <<cur, abort, package>>
            /\ ClearSites \/ UNCHANGED site
<1> USE DEF OpInv, EndRequest, NoRequest, Goto, Past, Removing, session, db
<1>1. CASE InstallStep
  BY <1>1 DEF InstallStep, Download, PackageAdd, SetName, UnzipBegin, UnzipEnd,
                    RegisterEndpoint, WriteConf, Initialize, CreateUsers, WriteFinalConf
<1>2. CASE ControlStep
  BY <1>2 DEF ControlStep, Start, StopUnchecked, StopNothing, StopAndWait, WaitDead,
                    ServiceInstall, ServiceRemove, Stopped, AfterStop, Return
<1>3. CASE UninstallStep
  BY <1>3 DEF UninstallStep, InUse, AbortCheck, ClearSites, ClearDefault, Deltree,
                    DeleteEndpoints, DeleteInstance
<1>4. CASE Interruption
  BY <1>4 DEF Interruption, Disconnect, Kill, Die, request
<1>5. CASE ~Step /\ ~Interruption
  BY <1>5, CommandAssumption
     DEF Next, BeginInstall, BeginControl, Begin, SiteSave, SettingsSave, Idle, request
<1> QED
  BY <1>1, <1>2, <1>3, <1>4, <1>5 DEF Step
\* The steps of an uninstallation after its cleanup began.
LEMMA LateFrame ==
  ASSUME Next, pc' \in {"clearDefault", "deltree", "deleteEndpoints", "deleteInstance"}
  PROVE  ClearSites \/ ClearDefault \/ Deltree \/ DeleteEndpoints \/ \E i \in Ids : Die(i)
<1> USE DEF EndRequest, NoRequest, Goto
<1>1. CASE InstallStep
  BY <1>1 DEF InstallStep, Download, PackageAdd, SetName, UnzipBegin, UnzipEnd,
              RegisterEndpoint, WriteConf, Initialize, CreateUsers, WriteFinalConf
<1>2. CASE ControlStep
  BY <1>2 DEF ControlStep, Start, StopUnchecked, StopNothing, StopAndWait, WaitDead,
              ServiceInstall, ServiceRemove, Stopped, AfterStop, Return
<1>3. CASE UninstallStep
  BY <1>3 DEF UninstallStep, InUse, AbortCheck, DeleteInstance
<1>4. CASE Interruption
  BY <1>4 DEF Interruption, Disconnect, Kill
<1>5. CASE ~Step /\ ~Interruption
  BY <1>5 DEF Next, BeginInstall, BeginControl, BeginUninstall, Begin, SiteSave, SettingsSave,
              Idle, request
<1> QED
  BY <1>1, <1>2, <1>3, <1>4, <1>5 DEF Step

\* The count of sites, the update of the sites and the reset of the default stay
\* true until the row is deleted.
LEMMA UnusedStep ==
  ASSUME IInv, OpInv, RoleInv, UnusedInv, Next
  PROVE  UnusedInv'
<1>0. DbTypeOK /\ PcInv /\ LiveInv /\ UnusedInv
  BY DEF IInv, TypeOK
<1>1. ASSUME op' = "uninstall", This'.checksUse,
             pc' \in Past \/ (pc' = "abortCheck" /\ ~abort'), NEW s \in Site
      PROVE  site'[s].php # cur'
  <2>1. CASE InUse
    <3>1. ~abort' /\ cur' = cur /\ site' = site
      BY <1>1, <2>1 DEF InUse, Goto, Past, Removing, db
    <3>2. abort' = (abort \/ \E t \in Site : site[t].php = cur)
      BY <2>1 DEF InUse
    <3> QED
      BY <3>1, <3>2
  <2>2. CASE AbortCheck /\ ~abort /\ pc' = "stop" /\ UNCHANGED <<cur, site, package>>
    BY <1>0, <1>1, <2>2, OpStep DEF AbortCheck, UnusedInv, OpInv, This
  <2>3. ASSUME NEW i \in Ids, BeginUninstall(i)
        PROVE  FALSE
    BY <1>1, <2>3 DEF BeginUninstall, Begin, Past, Removing, This, db
  <2>4. CASE /\ op = "uninstall" /\ pc \in Past \cup {"abortCheck"}
             /\ pc' = "abortCheck" <=> pc = "abortCheck"
             /\ UNCHANGED <<cur, abort, package>>
             /\ ClearSites \/ UNCHANGED site
    <3>1. site[s].php # cur
      BY <1>0, <1>1, <2>4 DEF UnusedInv, This, Past
    <3>2. cur \in Ids
      BY <1>0, <2>4 DEF PcInv, DbTypeOK, Past, Removing
    <3> QED
      BY <2>4, <3>1, <3>2, NullAssumption DEF ClearSites, Ids
  <2> QED
    BY <1>1, <2>1, <2>2, <2>3, <2>4, UninstallFrame DEF Past
<1>2. ASSUME pc' \in {"clearDefault", "deltree", "deleteEndpoints", "deleteInstance"},
             This'.clears = "httpd", NEW s \in Site
      PROVE  site'[s].httpd # cur'
  <2>1. CASE ClearSites
    <3>1. cur \in Ids /\ This.clears = "httpd"
      BY <1>0, <1>2, <2>1 DEF ClearSites, Goto, PcInv, DbTypeOK, This
    <3> QED
      BY <2>1, <3>1, NullAssumption DEF ClearSites, Goto, Ids
  <2>2. CASE ClearDefault \/ Deltree \/ DeleteEndpoints
    BY <1>0, <1>2, <2>2 DEF ClearDefault, Deltree, DeleteEndpoints, Goto, UnusedInv, This, db
  <2>3. ASSUME NEW i \in Ids, Die(i)
        PROVE  site'[s].httpd # cur'
    BY <1>0, <1>2, <2>3 DEF Die, UnusedInv, This, db, request
  <2> QED
    BY <1>2, <2>1, <2>2, <2>3, LateFrame
<1>3. ASSUME pc' \in {"deltree", "deleteEndpoints", "deleteInstance"}
      PROVE  phpDefault' # cur'
  <2>1. CASE ClearDefault
    <3>1. cur \in Ids
      BY <1>0, <2>1 DEF ClearDefault, PcInv, DbTypeOK
    <3> QED
      BY <2>1, <3>1, NullAssumption DEF ClearDefault, Goto, RoleInv, This, Ids
  <2>2. CASE Deltree \/ DeleteEndpoints
    BY <1>0, <2>2 DEF Deltree, DeleteEndpoints, Goto, UnusedInv, db
  <2>3. ASSUME NEW i \in Ids, Die(i)
        PROVE  phpDefault' # cur'
    BY <1>0, <1>3, <2>3 DEF Die, UnusedInv, db, request
  <2> QED
    BY <1>3, <2>1, <2>2, <2>3, LateFrame DEF ClearSites, Goto
<1> QED
  BY <1>1, <1>2, <1>3 DEF UnusedInv

-----------------------------------------------------------------------------

\* What is inductive together with IInv.
UInv == StoppedInv /\ OpInv /\ RoleInv /\ UnusedInv

\* It holds of the empty database,
LEMMA InitUInv ==
  ASSUME Init
  PROVE  UInv
  BY DEF Init, UInv, StoppedInv, DatabaseStoppedBeforeRemoval, OpInv, RoleInv, UnusedInv, Past,
         Removing

\* and every step preserves it.
LEMMA StepUInv == IInv /\ UInv /\ [Next]_vars => UInv'
<1>1. ASSUME IInv, UInv, Next
      PROVE  UInv'
  BY <1>1, StoppedStep, OpStep, RoleStep, UnusedStep DEF UInv
<1>2. ASSUME UInv, UNCHANGED vars
      PROVE  UInv'
  BY <1>2 DEF UInv, StoppedInv, DatabaseStoppedBeforeRemoval, OpInv, RoleInv, UnusedInv, This,
              vars, db, machine, session, request
<1> QED
  BY <1>1, <1>2

\* UInv is an invariant.
THEOREM UninstallInductive == Spec => []UInv
  BY InitUInv, StepUInv, Inductive, PTL DEF Spec

\* No MySQL or MariaDB server runs once its row is deleted: uninstall deletes
\* it only after sleepTillProcessDead saw the process gone.
THEOREM DatabasesStopped == Spec => []DatabaseStoppedBeforeRemoval
  BY UninstallInductive, PTL DEF UInv, StoppedInv

\* The step that deletes a row of instance (Instance::postUninstall) leaves no
\* site and no default that refers to it.
THEOREM NoReferenceLeft == Spec => DeletionLeavesNoReference
<1>1. ASSUME IInv, UInv, Next, NEW i \in instance \ instance'
      PROVE  /\ \A s \in Site : site'[s].httpd # i /\ site'[s].php # i
             /\ phpDefault' # i
  <2>1. DeleteInstance
    BY <1>1, DbFrame DEF PackageAdd, SetName, RegisterEndpoint, ClearSites, ClearDefault,
       DeleteEndpoints, SiteSave, SettingsSave, db
  <2>2. i = cur /\ pc = "deleteInstance" /\ UNCHANGED <<site, phpDefault>>
    BY <1>1, <2>1 DEF DeleteInstance
  <2>3. cur \in Ids /\ DriverOK(This) /\ op = "uninstall"
    BY <1>1, <2>2, CurDriver DEF UInv, OpInv
  <2>4. ASSUME NEW s \in Site
        PROVE  site[s].httpd # cur /\ site[s].php # cur
    <3>1. CASE site[s].httpd = cur
      <4>1. This.clears = "httpd"
        BY <1>1, <2>3, <3>1, NullAssumption DEF UInv, RoleInv, This, DriverOK, Ids
      <4> QED
        BY <1>1, <2>2, <3>1, <4>1 DEF UInv, UnusedInv
    <3>2. CASE site[s].php = cur
      <4>1. This.checksUse
        BY <1>1, <2>3, <3>2, NullAssumption DEF UInv, RoleInv, This, DriverOK, Ids
      <4>2. pc \in Past
        BY <2>2 DEF Past, Removing
      <4>3. UnusedInv
        BY <1>1 DEF UInv
      <4>4. \A t \in Site : site[t].php # cur
        BY <2>3, <4>1, <4>2, <4>3 DEF UnusedInv
      <4> QED
        BY <3>2, <4>4
    <3> QED
      BY <3>1, <3>2
  <2> QED
    BY <1>1, <2>2, <2>4 DEF UInv, UnusedInv
<1>2. IInv /\ UInv /\ [Next]_vars =>
        [\A i \in instance \ instance' :
           /\ \A s \in Site : site'[s].httpd # i /\ site'[s].php # i
           /\ phpDefault' # i]_vars
  BY <1>1
<1> QED
  BY <1>2, Inductive, UninstallInductive, PTL DEF Spec, DeletionLeavesNoReference
=============================================================================
