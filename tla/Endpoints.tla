----------------------------- MODULE Endpoints -----------------------------
(***************************************************************************)
(* When a network endpoint is taken: Util::endpointInUse.  An endpoint is  *)
(* a record with the fields proto, interface and port; rows of table       *)
(* endpoint have more fields, which the test does not read.                *)
(***************************************************************************)
CONSTANT NoPort   \* SQL null, which `port=?` never matches

AnyInterface == "0.0.0.0"

\* One row of table endpoint, or one line of the launcher's --netstat, against
\* a protocol, an interface and a port.
Takes(e, proto, interface, port) ==
  /\ e.proto = proto
  /\ e.port = port /\ port # NoPort
  /\ interface = AnyInterface \/ e.interface = AnyInterface \/ e.interface = interface

endpointInUse(table, netstat, proto, interface, port) ==
  \E e \in table \cup netstat : Takes(e, proto, interface, port)

\* Two endpoints that cannot be served at the same time.
Conflict(e, f) == Takes(e, f.proto, f.interface, f.port)
=============================================================================
