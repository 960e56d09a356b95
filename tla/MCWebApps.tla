----------------------------- MODULE MCWebApps -----------------------------
(* One site that may have its files in its directory or in public below it, *)
(* and a file of the user whose name begins with a dot.                     *)
EXTENDS WebApps

Plain == <<"site">>
Public == <<"site", "public">>

MCRoots == {Plain, Public}
MCPaths == {<<>>, <<"blog">>, <<"shop">>}
MCFiles == {[dir |-> Plain, dot |-> TRUE]}
=============================================================================
