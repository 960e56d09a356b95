------------------------------ MODULE MCSites ------------------------------
(* Sites with small constants for TLC. *)
EXTENDS Sites, TLC

MCAddress == "s1" :> "127.0.0.1" @@ "s2" :> "10.0.0.5"

\* Lines of the user for names that sites have as well: one as Windows and editors
\* align it, and one of a single blank.
MCUserLines == {H!Line("127.0.0.1", TRUE, <<"localhost", Null>>),
                H!Line("10.0.0.9", FALSE, <<"localhost.dev", Null>>)}

\* localhost.* matches localhost.dev.key, localhost.dev.crt and localhost.dev.vhost.
MCUnder == {<<"localhost", "localhost.dev">>}
=============================================================================
