------------------------------ MODULE MCStore ------------------------------
(* Two catalogues: the second one has another archive for package 1 and one *)
(* package and one vendor more.                                             *)
EXTENDS Store

R(c, f, v) == [class |-> c, filehash |-> f, vendor |-> v]

MCCatalogue ==
  << [vendor |-> {"a"}, package |-> <<R("httpd", "f1", "a")>>],
     [vendor |-> {"a", "p"}, package |-> <<R("httpd", "f2", "a"), R("php", "f3", "p")>>] >>
=============================================================================
