------------------------------ MODULE Settings ------------------------------
(***************************************************************************)
(* The default PHP, MySQL and PostgreSQL (controllers/                     *)
(* SettingsController.php): a row of conf, a junction bin\.php (.mysql,    *)
(* .pgsql) to the directory of the instance, and an entry of the junction  *)
(* in the system's PATH, which keep together what the user types in a      *)
(* console and what the page shows.  Three other places touch them: the    *)
(* uninstallation, the PATH editor and the settings page of another tab.   *)
(***************************************************************************)
EXTENDS Naturals, Sequences, SequencesExt

CONSTANTS
  Instance,     \* instances that may be the default of their kind
  kind,         \* Instance -> the kind
  UserPath,     \* the user's own PATH, a sequence
  Bin,          \* the directory of instances, without the name of one
  Null          \* SQL null, no junction

Kinds == <<"php", "mysql", "pgsql">>   \* in the order of the code
Kind == Range(Kinds)

ASSUME SettingsAssumption ==
  /\ \A i \in Instance : kind[i] \in Kind
  /\ {Null, Bin} \cap Instance = {}
ASSUME UserPathAssumption == UserPath \in Seq(Range(UserPath))

VARIABLES
  live,      \* instances that have a row
  conf,      \* <kind>_default_instance_id
  junction,  \* kind -> the instance whose directory it leads to
  path,      \* PATH; a junction's entry is written as its kind
  pathForm,  \* the text in an open page /tools/path
  lost,      \* history: which of "path", "form" stem from a PATH that could not be read
  req        \* the request being served

texts == <<path, pathForm, lost>>
setvars == <<live, conf, junction, texts, req>>

NoRequest == [pc |-> "idle", n |-> 1, post |-> [k \in Kind |-> Null]]
Idle == req.pc = "idle"

\* The step after the n-th kind: the next kind, or the next part of save().
Advance(label) ==
  req' = IF req.n < Len(Kinds) THEN [req EXCEPT !.n = @ + 1] ELSE [req EXCEPT !.pc = label, !.n = 1]
K == Kinds[req.n]

\* The page offers the instances there are, or none (-1); an older page also
\* some that are gone.
Post == {p \in [Kind -> Instance \cup {Null}] : \A k \in Kind : p[k] # Null => kind[p[k]] = k}

Save(p) ==
  /\ Idle
  /\ req' = [pc |-> "remove", n |-> 1, post |-> p]
  /\ UNCHANGED <<live, conf, junction, texts>>

\* A faulty variant: only a junction that is not needed any more is removed.
RemoveJunction_Unused ==
  /\ req.pc = "remove"
  /\ junction' = [junction EXCEPT ![K] = IF req.post[K] = Null THEN Null ELSE @]
  /\ Advance("create")
  /\ UNCHANGED <<live, conf, texts>>

RemoveJunction ==
  /\ req.pc = "remove"
  /\ junction' = [junction EXCEPT ![K] = Null]
  /\ Advance("create")
  /\ UNCHANGED <<live, conf, texts>>

\* bin\<name>: without row the name is empty.
DirOf(i) == IF i \in live \cup {Null} THEN i ELSE Bin

\* A faulty variant: a line copied without changing the name.
CreateJunction_Copied ==
  /\ req.pc = "create"
  /\ junction' = [junction EXCEPT ![K] = IF @ = Null THEN DirOf(req.post["mysql"]) ELSE @]
  /\ Advance("set")
  /\ UNCHANGED <<live, conf, texts>>

\* mklink fails where there is a junction.
CreateJunction ==
  /\ req.pc = "create"
  /\ junction' = [junction EXCEPT ![K] = IF @ = Null THEN DirOf(req.post[K]) ELSE @]
  /\ Advance("set")
  /\ UNCHANGED <<live, conf, texts>>

SetDefault ==
  /\ req.pc = "set"
  /\ conf' = [conf EXCEPT ![K] = req.post[K]]
  /\ Advance("path")
  /\ UNCHANGED <<live, junction, texts>>

\* A faulty variant: the entries are put in front on every save.
SetPath_Always ==
  /\ req.pc = "path"
  /\ path' = Reverse(Kinds) \o path
  /\ req' = NoRequest
  /\ UNCHANGED <<live, conf, junction, pathForm, lost>>

\* An entry that PATH does not have is put in front of it.
InFront(k, p) == IF Contains(p, k) THEN p ELSE <<k>> \o p

\* The three entries in front of p, where they are missing.
WithEntries(p) == InFront("pgsql", InFront("mysql", InFront("php", p)))

\* --path-get, the entries that are missing are put in front, --path-set.  When
\* --path-get fails, its empty answer is taken for PATH.
SetPath ==
  /\ req.pc = "path"
  /\ \/ path' = WithEntries(path) /\ UNCHANGED lost
     \/ path' = WithEntries(<<>>) /\ lost' = lost \cup {"path"}
  /\ req' = NoRequest
  /\ UNCHANGED <<live, conf, junction, pathForm>>

\* A faulty variant: PHP is treated as the databases are.
Uninstall_ForgetsNothing(i) ==
  /\ Idle /\ i \in live
  /\ live' = live \ {i}
  /\ UNCHANGED <<conf, junction, texts, req>>

\* uninstall(): the classes of PHP forget the default and remove the junction,
\* those of the databases do neither.
Uninstall(i) ==
  /\ Idle /\ i \in live
  /\ live' = live \ {i}
  /\ IF kind[i] = "php" /\ conf["php"] = i
     THEN junction' = [junction EXCEPT !["php"] = Null] /\ conf' = [conf EXCEPT !["php"] = Null]
     ELSE UNCHANGED <<junction, conf>>
  /\ UNCHANGED <<texts, req>>

\* GET /tools/path shows PATH, POST writes back what the page shows.
ShowPath ==
  /\ Idle /\ pathForm = <<>>
  /\ pathForm' = path
  /\ lost' = IF "path" \in lost THEN {"path", "form"} ELSE {}
  /\ UNCHANGED <<live, conf, junction, path, req>>

PostPath ==
  /\ Idle /\ pathForm # <<>>
  /\ path' = pathForm /\ pathForm' = <<>>
  /\ lost' = IF "form" \in lost THEN {"path"} ELSE {}
  /\ UNCHANGED <<live, conf, junction, req>>

Kill ==
  /\ ~Idle
  /\ req' = NoRequest
  /\ UNCHANGED <<live, conf, junction, texts>>

Init ==
  /\ live = Instance
  /\ conf = [k \in Kind |-> Null] /\ junction = [k \in Kind |-> Null]
  /\ path = UserPath /\ pathForm = <<>> /\ lost = {} /\ req = NoRequest

Next ==
  \/ \E p \in Post : Save(p)
  \/ RemoveJunction \/ CreateJunction \/ SetDefault \/ SetPath
  \/ \E i \in Instance : Uninstall(i)
  \/ ShowPath \/ PostPath \/ Kill

Spec == Init /\ [][Next]_setvars

-----------------------------------------------------------------------------
(* Properties                                                              *)

\* Defaults, junctions and the request being served are well-formed.
SettingsTypeOK ==
  /\ live \subseteq Instance /\ req.n \in 1..Len(Kinds)
  /\ \A k \in Kind : /\ conf[k] # Null => conf[k] \in Instance /\ kind[conf[k]] = k
                     /\ junction[k] \notin {Null, Bin} => junction[k] \in Instance /\ kind[junction[k]] = k

\* After every save what runs in a console is what the page shows as default,
\* whatever was the default before and wherever earlier saves were cut: mklink
\* never meets an old junction.  Only a default that was uninstalled before it was
\* posted leads nowhere.
JunctionIsDefault ==
  req.pc = "path" => \A k \in Kind : junction[k] = conf[k] \/ (junction[k] = Bin /\ conf[k] \in Instance \ live)

\* As long as the junction of PHP agrees with the stored default, it does not lead
\* to a directory that is deleted.  (Those of the databases do after the
\* uninstallation of the default.)
PhpDefaultExists == Idle /\ junction["php"] = conf["php"] => conf["php"] \in live \cup {Null}

\* The text p of PATH ends with the user's own entries, all of them and in their
\* order; in front of them are entries of junctions only, none of which p has twice.
KeepsUserPath(p) ==
  LET n == Len(p) - Len(UserPath)
  IN  /\ n \in Nat
      /\ \A j \in 1..Len(UserPath) : p[n + j] = UserPath[j]
      /\ \A j \in 1..n : p[j] \in Kind
      /\ \A j \in 1..n, m \in 1..Len(p) : p[j] = p[m] => j = m

\* Every save leaves PATH with the user's entries in their order and adds no
\* junction that is there already, also after the editor has put an older text
\* back over the entries of a save.  Only a save that could not read PATH leaves it
\* without the user's entries, until the editor writes back a text from before.
PathKept == "path" \notin lost => KeepsUserPath(path)
=============================================================================
