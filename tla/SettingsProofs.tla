--------------------------- MODULE SettingsProofs ---------------------------
(***************************************************************************)
(* The junctions and the stored defaults, for all instances and any        *)
(* sequence of saves, cuts and uninstallations.                            *)
(*                                                                         *)
(* JunctionIsDefault speaks of the end of a save; SaveInv says what each   *)
(* of its three passes over the kinds has done so far.  PhpDefaultExists   *)
(* holds at every step, whether a request runs or not (PhpInv).  PATH is   *)
(* independent of them and has an invariant of its own (PathInv).          *)
(***************************************************************************)
EXTENDS Settings, TLAPS

\* A choice for each kind: an instance of that kind or none.
ChoiceOK(c, none) ==
  /\ DOMAIN c = Kind
  /\ \A k \in Kind : c[k] \in none \/ (c[k] \in Instance /\ kind[c[k]] = k)

TablesOK ==
  /\ live \subseteq Instance
  /\ ChoiceOK(conf, {Null}) /\ ChoiceOK(junction, {Null, Bin})

\* The request being served.
RequestOK ==
  /\ req \in [pc : {"idle", "remove", "create", "set", "path"}, n : 1..3, post : {req.post}]
  /\ ChoiceOK(req.post, {Null})

\* The junction of a kind is the one the form asks for.
Made(k) == junction[k] = DirOf(req.post[k])

\* What the passes of save() have done so far: all junctions are removed before
\* the first one is made, so that mklink finds none.
SaveInv ==
  /\ req.pc = "remove" => \A m \in 1..3 : m < req.n => junction[Kinds[m]] = Null
  /\ req.pc = "create" => \A m \in 1..3 : IF m < req.n THEN Made(Kinds[m])
                                                       ELSE junction[Kinds[m]] = Null
  /\ req.pc \in {"set", "path"} => \A m \in 1..3 : Made(Kinds[m])
  /\ req.pc = "set" => \A m \in 1..3 : m < req.n => conf[Kinds[m]] = req.post[Kinds[m]]
  /\ req.pc = "path" => \A m \in 1..3 : conf[Kinds[m]] = req.post[Kinds[m]]

\* While default and junction of PHP agree they lead to an instance, or nowhere.
PhpInv == junction["php"] = conf["php"] => conf["php"] \in live \cup {Null}

\* The inductive invariant.
SetInv == TablesOK /\ RequestOK /\ SaveInv /\ PhpInv

\* The three kinds and their order.
LEMMA KindsAre ==
  /\ Kind = {"php", "mysql", "pgsql"} /\ Len(Kinds) = 3
  /\ Kinds[1] = "php" /\ Kinds[2] = "mysql" /\ Kinds[3] = "pgsql"
  BY DEF Kind, Kinds, Range

\* Each kind has its place in the order.
LEMMA KindsCovered ==
  /\ \A m \in 1..3 : Kinds[m] \in Kind
  /\ \A k \in Kind : \E m \in 1..3 : k = Kinds[m]
  /\ \A m, j \in 1..3 : Kinds[m] = Kinds[j] => m = j
  BY KindsAre

\* After a step for one kind comes the next kind, or the next pass.
LEMMA AdvanceEffect ==
  ASSUME RequestOK, NEW label, Advance(label)
  PROVE  req' \in [pc : {IF req.n < 3 THEN req.pc ELSE label},
                   n : {IF req.n < 3 THEN req.n + 1 ELSE 1}, post : {req.post}]
<1>1. CASE req.n < 3
  BY <1>1, KindsAre DEF RequestOK, Advance
<1>2. CASE ~(req.n < 3)
  BY <1>2, KindsAre DEF RequestOK, Advance
<1> QED
  BY <1>1, <1>2

\* It holds of a fresh installation.
LEMMA SetInit == Init => SetInv
  BY KindsAre DEF Init, SetInv, TablesOK, RequestOK, ChoiceOK, SaveInv, PhpInv, NoRequest

\* Every step keeps the invariant.
LEMMA SetStep ==
  ASSUME SetInv, [Next]_setvars
  PROVE  SetInv'
<1> USE KindsAre, KindsCovered, SettingsAssumption
    DEF SetInv, TablesOK, RequestOK, ChoiceOK, SaveInv, PhpInv, Made, DirOf, NoRequest, Idle, K, Advance, texts
<1>1. ASSUME NEW p \in Post, Save(p)
      PROVE  SetInv'
  BY <1>1 DEF Save, Post
<1>2. CASE RemoveJunction
  <2>1. req' \in [pc : {IF req.n < 3 THEN req.pc ELSE "create"},
                  n : {IF req.n < 3 THEN req.n + 1 ELSE 1}, post : {req.post}]
    BY <1>2, AdvanceEffect DEF RemoveJunction
  <2>2. req.n \in 1..3 /\ K = Kinds[req.n]
    OBVIOUS
  <2>3. TablesOK'
    BY <1>2, <2>2 DEF RemoveJunction
  <2>4. RequestOK'
    BY <2>1, <2>2
  <2>5. SaveInv'
    <3>1. CASE req.n < 3
      BY <1>2, <2>1, <2>2, <3>1 DEF RemoveJunction
    <3>2. CASE req.n = 3
      BY <1>2, <2>1, <2>2, <3>2 DEF RemoveJunction
    <3> QED
      BY <2>2, <3>1, <3>2
  <2>6. PhpInv'
    BY <1>2, <2>2 DEF RemoveJunction
  <2> QED
    BY <2>3, <2>4, <2>5, <2>6
<1>3. CASE CreateJunction
  <2>1. req' \in [pc : {IF req.n < 3 THEN req.pc ELSE "set"},
                  n : {IF req.n < 3 THEN req.n + 1 ELSE 1}, post : {req.post}]
    BY <1>3, AdvanceEffect DEF CreateJunction
  <2>2. req.n \in 1..3 /\ K = Kinds[req.n] /\ req.pc = "create"
    BY <1>3 DEF CreateJunction
  <2>3. /\ DOMAIN junction' = Kind
        /\ junction'[Kinds[req.n]] = DirOf(req.post[Kinds[req.n]])
        /\ \A k \in Kind : k # Kinds[req.n] => junction'[k] = junction[k]
        /\ UNCHANGED <<live, conf>>
    BY <1>3, <2>2 DEF CreateJunction
  <2>4. TablesOK'
    BY <2>2, <2>3
  <2>5. RequestOK'
    BY <2>1, <2>2
  <2>6. SaveInv'
    <3>1. \A k \in Kind : DirOf(req.post[k])' = DirOf(req.post[k])
      BY <2>1, <2>3
    <3>2. \A m \in 1..3 : m <= req.n => Made(Kinds[m])'
      BY <2>1, <2>2, <2>3, <3>1
    <3>3. CASE req.n < 3
      BY <2>1, <2>2, <2>3, <3>2, <3>3
    <3>4. CASE req.n = 3
      BY <2>1, <2>2, <3>2, <3>4
    <3> QED
      BY <2>2, <3>3, <3>4
  <2>7. PhpInv'
    BY <2>2, <2>3
  <2> QED
    BY <2>4, <2>5, <2>6, <2>7
<1>4. CASE SetDefault
  <2>1. req' \in [pc : {IF req.n < 3 THEN req.pc ELSE "path"},
                  n : {IF req.n < 3 THEN req.n + 1 ELSE 1}, post : {req.post}]
    BY <1>4, AdvanceEffect DEF SetDefault
  <2>2. req.n \in 1..3 /\ K = Kinds[req.n]
    OBVIOUS
  <2>3. TablesOK'
    BY <1>4, <2>2 DEF SetDefault
  <2>4. RequestOK'
    BY <2>1, <2>2
  <2>5. SaveInv'
    <3>1. CASE req.n < 3
      BY <1>4, <2>1, <2>2, <3>1 DEF SetDefault
    <3>2. CASE req.n = 3
      BY <1>4, <2>1, <2>2, <3>2 DEF SetDefault
    <3> QED
      BY <2>2, <3>1, <3>2
  <2>6. PhpInv'
    BY <1>4, <2>2 DEF SetDefault
  <2> QED
    BY <2>3, <2>4, <2>5, <2>6
<1>5. CASE SetPath
  BY <1>5 DEF SetPath
<1>6. ASSUME NEW i \in Instance, Uninstall(i)
      PROVE  SetInv'
  BY <1>6 DEF Uninstall
<1>7. CASE ShowPath \/ PostPath
  BY <1>7 DEF ShowPath, PostPath
<1>8. CASE Kill
  BY <1>8 DEF Kill
<1>9. CASE UNCHANGED setvars
  BY <1>9 DEF setvars
<1> HIDE DEF SetInv
<1> QED
  BY <1>1, <1>2, <1>3, <1>4, <1>5, <1>6, <1>7, <1>8, <1>9 DEF Next

\* SetInv is an invariant.
LEMMA SetInvariant == Spec => []SetInv
  BY SetInit, SetStep, PTL DEF Spec

\* Defaults and junctions are instances of their kind.
THEOREM SettingsTypeCorrect == Spec => []SettingsTypeOK
<1>1. SetInv => SettingsTypeOK
  BY KindsAre DEF SetInv, TablesOK, RequestOK, ChoiceOK, SettingsTypeOK
<1> QED
  BY <1>1, SetInvariant, PTL

\* At the end of every save the junctions lead to the stored defaults, whatever the
\* saves before left behind.
THEOREM JunctionAlwaysDefault == Spec => []JunctionIsDefault
<1>1. SetInv => JunctionIsDefault
  BY KindsCovered DEF SetInv, RequestOK, ChoiceOK, SaveInv, Made, DirOf, JunctionIsDefault
<1> QED
  BY <1>1, SetInvariant, PTL

\* The default PHP is never an uninstalled one while its junction agrees with it.
THEOREM PhpDefaultAlwaysExists == Spec => []PhpDefaultExists
<1>1. SetInv => PhpDefaultExists
  BY DEF SetInv, PhpInv, PhpDefaultExists
<1> QED
  BY <1>1, SetInvariant, PTL

-----------------------------------------------------------------------------
(* PATH                                                                    *)

\* PATH, and the text of an open page of the editor, are sequences of entries that
\* keep the user's, unless they stem from a PATH that could not be read.  The
\* editor's text need not be an initial part of PATH nor the other way round, and
\* either may be lost without the other, so both are needed.
Entry == Kind \cup Range(UserPath)
PathInv ==
  /\ path \in Seq(Entry) /\ PathKept
  /\ pathForm \in Seq(Entry)
  /\ pathForm # <<>> /\ "form" \notin lost => KeepsUserPath(pathForm)

\* An entry put in front of a text moves the others by one.
LEMMA InFrontPlaces ==
  ASSUME NEW p \in Seq(Entry), NEW k \in Kind
  PROVE  LET q == <<k>> \o p
         IN  /\ q \in Seq(Entry) /\ Len(q) = Len(p) + 1 /\ q[1] = k
             /\ \A j \in 1..Len(p) : q[j + 1] = p[j]
             /\ \A j \in 2..Len(q) : j - 1 \in 1..Len(p) /\ q[j] = p[j - 1]
<1>1. <<k>> \in Seq(Entry)
  BY DEF Entry
<1>2. Len(<<k>>) = 1
  OBVIOUS
<1>3. <<k>> \o p \in Seq(Entry) /\ Len(<<k>> \o p) = Len(p) + 1
  BY <1>1, <1>2
<1>4. \A j \in 1..(Len(p) + 1) : (<<k>> \o p)[j] = IF j <= 1 THEN k ELSE p[j - 1]
  BY <1>1, <1>2
<1> QED
  BY <1>3, <1>4

\* Putting a missing entry in front keeps the user's entries, and no entry is there
\* twice because of it (SettingsController::save, strpos === false).
LEMMA InFrontKeeps ==
  ASSUME NEW p \in Seq(Entry), NEW k \in Kind, KeepsUserPath(p)
  PROVE  InFront(k, p) \in Seq(Entry) /\ KeepsUserPath(InFront(k, p))
<1>1. CASE Contains(p, k)
  BY <1>1 DEF InFront
<1>2. CASE ~Contains(p, k)
  <2> DEFINE q == <<k>> \o p
             u == Len(UserPath)
             n == Len(p) - u
  <2>1. InFront(k, p) = q
    BY <1>2 DEF InFront
  <2>2. /\ q \in Seq(Entry) /\ Len(q) = Len(p) + 1 /\ q[1] = k
        /\ \A j \in 1..Len(p) : q[j + 1] = p[j]
        /\ \A j \in 2..Len(q) : j - 1 \in 1..Len(p) /\ q[j] = p[j - 1]
    BY InFrontPlaces
  <2>3. /\ n \in Nat /\ u \in Nat /\ Len(p) \in Nat /\ Len(p) = n + u
        /\ \A j \in 1..u : p[n + j] = UserPath[j]
        /\ \A j \in 1..n : p[j] \in Kind
        /\ \A j \in 1..n, m \in 1..Len(p) : p[j] = p[m] => j = m
    BY UserPathAssumption DEF KeepsUserPath
  <2>4. \A m \in 1..Len(p) : p[m] # k
    BY <1>2 DEF Contains
  <2>5. Len(q) - u = n + 1
    BY <2>2, <2>3
  <2> HIDE DEF q, n, u
  <2>6. ASSUME NEW j \in 1..u
        PROVE  q[n + 1 + j] = UserPath[j]
    <3>1. n + j \in 1..Len(p) /\ (n + j) + 1 = n + 1 + j
      BY <2>3
    <3>2. q[(n + j) + 1] = p[n + j] /\ p[n + j] = UserPath[j]
      BY <2>2, <2>3, <3>1
    <3> QED
      BY <3>1, <3>2
  <2>7. ASSUME NEW j \in 1..(n + 1)
        PROVE  q[j] \in Kind /\ \A m \in 1..Len(q) : q[j] = q[m] => j = m
    <3>1. CASE j = 1
      BY <2>2, <2>3, <2>4, <3>1
    <3>2. CASE j # 1
      <4>1. j \in 2..Len(q) /\ j - 1 \in 1..n /\ q[j] = p[j - 1]
        BY <2>2, <2>3, <3>2
      <4>2. ASSUME NEW m \in 1..Len(q), q[j] = q[m]
            PROVE  j = m
        <5>1. m # 1 /\ m \in 2..Len(q)
          BY <2>2, <2>3, <2>4, <4>1, <4>2
        <5>2. q[m] = p[m - 1] /\ m - 1 \in 1..Len(p)
          BY <2>2, <5>1
        <5>3. j - 1 = m - 1
          BY <2>3, <4>1, <4>2, <5>2
        <5> QED
          BY <4>1, <5>1, <5>3
      <4> QED
        BY <2>3, <4>1, <4>2
    <3> QED
      BY <3>1, <3>2
  <2>8. KeepsUserPath(q)
    <3>1. Len(q) - Len(UserPath) = n + 1 /\ n + 1 \in Nat
      BY <2>3, <2>5 DEF u
    <3>2. \A j \in 1..Len(UserPath) : q[(Len(q) - Len(UserPath)) + j] = UserPath[j]
      BY <2>6, <3>1 DEF u
    <3>3. /\ \A j \in 1..(Len(q) - Len(UserPath)) : q[j] \in Kind
          /\ \A j \in 1..(Len(q) - Len(UserPath)), m \in 1..Len(q) : q[j] = q[m] => j = m
      BY <2>7, <3>1
    <3> QED
      BY <3>1, <3>2, <3>3 DEF KeepsUserPath
  <2> QED
    BY <2>1, <2>2, <2>8
<1> QED
  BY <1>1, <1>2

\* What save() puts in front of a text are entries (SettingsController::save).
LEMMA InFrontIsText ==
  ASSUME NEW p \in Seq(Entry), NEW k \in Kind
  PROVE  InFront(k, p) \in Seq(Entry)
  BY InFrontPlaces DEF InFront

\* So are the three of them, and they keep the user's entries where the text had them.
LEMMA WithEntriesKeeps ==
  ASSUME NEW p \in Seq(Entry)
  PROVE  /\ WithEntries(p) \in Seq(Entry)
         /\ KeepsUserPath(p) => KeepsUserPath(WithEntries(p))
<1> DEFINE q == InFront("php", p)
           r == InFront("mysql", q)
<1>1. q \in Seq(Entry) /\ (KeepsUserPath(p) => KeepsUserPath(q))
  BY KindsAre, InFrontKeeps, InFrontIsText
<1> HIDE DEF q
<1>2. r \in Seq(Entry) /\ (KeepsUserPath(q) => KeepsUserPath(r))
  BY <1>1, KindsAre, InFrontKeeps, InFrontIsText
<1> HIDE DEF r
<1>3. InFront("pgsql", r) \in Seq(Entry) /\ (KeepsUserPath(r) => KeepsUserPath(InFront("pgsql", r)))
  BY <1>2, KindsAre, InFrontKeeps, InFrontIsText
<1>4. WithEntries(p) = InFront("pgsql", r)
  BY DEF WithEntries, q, r
<1> QED
  BY <1>1, <1>2, <1>3, <1>4

\* Every step keeps the user's entries, in PATH and on the page of the editor.
LEMMA PathStep ==
  ASSUME PathInv, [Next]_setvars
  PROVE  PathInv'
<1>1. CASE SetPath
  <2>1. CASE path' = WithEntries(path) /\ UNCHANGED <<pathForm, lost>>
    <3>1. path' \in Seq(Entry) /\ (KeepsUserPath(path) => KeepsUserPath(path'))
      BY <2>1, WithEntriesKeeps DEF PathInv
    <3> QED
      BY <2>1, <3>1 DEF PathInv, PathKept
  <2>2. CASE path' = WithEntries(<<>>) /\ lost' = lost \cup {"path"} /\ UNCHANGED pathForm
    <3>1. <<>> \in Seq(Entry)
      OBVIOUS
    <3>2. path' \in Seq(Entry)
      BY <2>2, <3>1, WithEntriesKeeps
    <3> QED
      BY <2>2, <3>2 DEF PathInv, PathKept
  <2> QED
    BY <1>1, <2>1, <2>2 DEF SetPath
<1>2. CASE ShowPath
  BY <1>2 DEF PathInv, PathKept, ShowPath
<1>3. CASE PostPath
  BY <1>3 DEF PathInv, PathKept, PostPath
<1>4. CASE UNCHANGED texts
  BY <1>4 DEF PathInv, PathKept, texts
<1> QED
  BY <1>1, <1>2, <1>3, <1>4
     DEF Next, Save, RemoveJunction, CreateJunction, SetDefault, Uninstall, Kill, setvars

\* Whatever is saved, cut or written back by the editor, PATH keeps the user's entries
\* and has no junction twice because of the manager, unless it stems from a PATH that
\* could not be read (SettingsController::save, PathController).
THEOREM PathAlwaysKept == Spec => []PathKept
<1>1. Init => PathInv
  BY UserPathAssumption DEF Init, PathInv, PathKept, KeepsUserPath, Entry
<1>2. PathInv => PathKept
  BY DEF PathInv
<1> QED
  BY <1>1, <1>2, PathStep, PTL DEF Spec
=============================================================================
