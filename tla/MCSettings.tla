----------------------------- MODULE MCSettings -----------------------------
(* Two versions of PHP, one of MySQL and one of PostgreSQL.                 *)
EXTENDS Settings

MCKind == [i \in Instance |-> IF i \in {"php1", "php2"} THEN "php"
                              ELSE IF i = "mysql1" THEN "mysql" ELSE "pgsql"]
\* An entry may well occur twice in a user's own PATH.
MCPath == <<"windows", "tools", "windows">>
=============================================================================
