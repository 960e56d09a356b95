----------------------------- MODULE HostsFile -----------------------------
(***************************************************************************)
(* Class Hosts: what adding and removing a host name does to the lines of  *)
(* the system's hosts file.  A line is abstracted to what the pattern in   *)
(* Hosts::remove looks at: does it begin with an IPv4 address, is there    *)
(* more than one blank after it, and which name comes first.               *)
(***************************************************************************)
CONSTANTS
  NoAddress,   \* the line has no address: a comment, or add() without one
  NoHost       \* the empty host name

Line(address, wide, host) == [address |-> address, wide |-> wide, host |-> host]

\* `^\d{1,3}\.\d{1,3}\.\d{1,3}\.\d{1,3}\s+<host>($|\s.*)`.  With an empty name
\* the second blank after the address matches \s.
Matches(l, host) ==
  /\ l.address # NoAddress
  /\ l.host = host \/ (host = NoHost /\ l.wide)

remove(lines, hosts) == {l \in lines : \A h \in hosts : ~Matches(l, h)}

\* A faulty variant: the line is appended to what is there.
add_Appends(lines, address, hosts) ==
  lines \cup {Line(address, FALSE, h) : h \in hosts}

\* add() removes the name and appends a line; "localhost" is left alone.
add(lines, address, hosts) ==
  remove(lines, hosts) \cup {Line(address, FALSE, h) : h \in hosts}
=============================================================================
