------------------------------ MODULE Replica ------------------------------
(***************************************************************************)
(* What a copy of a growing catalogue promises, without the steps that     *)
(* make it: the claim to be up to date is raised only over a copy that is  *)
(* whole, it never goes back to an older version, and the copy is taken    *)
(* apart only while it claims nothing current, or openly in doubt.         *)
(***************************************************************************)
EXTENDS Naturals

CONSTANTS
  Version,   \* the versions there may be, in the order of numbers
  Nothing    \* no claim

VARIABLES
  published, \* the version the owner of the catalogue serves
  claim,     \* the version the copy says it is
  whole,     \* the versions the copy holds everything of
  doubt      \* an answer could not be read, and none was read since

replica == <<published, claim, whole, doubt>>

CInit ==
  /\ published \in Version /\ claim = published
  /\ published \in whole /\ doubt = FALSE

PublishNext ==
  /\ published' \in Version /\ published' > published
  /\ UNCHANGED <<claim, whole, doubt>>

\* The copy gains rows while it is left alone otherwise.
Gain ==
  /\ whole \subseteq whole' /\ whole' \subseteq Version
  /\ UNCHANGED <<published, claim, doubt>>

\* A part of the copy is replaced: anything may be missing afterwards.
Rewrite ==
  /\ doubt' \/ claim # published
  /\ whole' \subseteq Version /\ doubt' \in BOOLEAN
  /\ UNCHANGED <<published, claim>>

\* The claim follows the copy.
Confirm(v) ==
  /\ v \in whole /\ v <= published
  /\ claim # Nothing => claim < v
  /\ claim' = v
  /\ UNCHANGED <<published, whole, doubt>>

Forget ==
  /\ claim' = Nothing /\ doubt' \in BOOLEAN
  /\ UNCHANGED <<published, whole>>

CNext ==
  \/ PublishNext \/ Gain \/ Rewrite \/ Forget
  \/ \E v \in Version : Confirm(v)

CSpec == CInit /\ [][CNext]_replica

\* A claim to the version that is served is true, unless it is in doubt.
ClaimHolds ==
  /\ published \in Version /\ claim \in Version \cup {Nothing}
  /\ claim # Nothing => claim <= published
  /\ claim = published /\ ~doubt => published \in whole

\* No older version is ever claimed after a newer one, unless the claim was given
\* up in between.
NoRollback == [][claim # Nothing /\ claim' # Nothing => claim <= claim']_replica
=============================================================================
