------------------------------ MODULE Drivers ------------------------------
(***************************************************************************)
(* The instance classes of manager/app/classes/instances/*.php.  A package *)
(* of the store names one of these files (package.class_file); Package::   *)
(* control and the controllers `require` it and call init(), so the file   *)
(* decides which endpoints an installation registers, how the server is    *)
(* stopped and what uninstalling it does to the sites.  Each file is one   *)
(* record; the texts of the configuration files it writes are left out.    *)
(*                                                                         *)
(*  role       what the manager's other tables refer to it as              *)
(*  endpoints  the rows of registerEndpoint, in the order of install():    *)
(*             protocol, key of the posted port, endpoint.type             *)
(*  distinct   verify() compares the two posted ports with each other      *)
(*  stop       how stop() works:                                           *)
(*    "kill"              killByPath, nothing is waited for                *)
(*    "service_or_kill"   net stop if a service exists, else killByPath    *)
(*    "shutdown"          mysqladmin, then sleepTillProcessDead            *)
(*    "service_or_pg_ctl" net stop if a service exists, else pg_ctl, then  *)
(*                        sleepTillProcessDead                             *)
(*  bootstrap  install() runs the server once with a temporary             *)
(*             configuration before it writes the final one                *)
(*  checksUse  uninstall() first counts the sites that use the instance    *)
(*  clears     the column of site that uninstall() sets to null            *)
(*  stopsAgain serviceInstall() stops the server a second time             *)
(***************************************************************************)
EXTENDS Naturals, Sequences

NoType == "none"

\* endpoint.type, and the fields of the forms that hold a port.
EndpointType == {NoType, "http", "https", "php", "mysql", "mysql_x", "pgsql", "dns"}
PortKey == {"http_port", "https_port", "tcp_port", "tcp_port_x", "udp_port"}
EndpointSpec == [proto : {"tcp", "udp"}, key : PortKey, type : EndpointType]

Port1(proto, key, type) == <<[proto |-> proto, key |-> key, type |-> type]>>

\* The shape most of the files share: no site refers to the instance, the
\* configuration is written once, stop() asks the service or kills.
Plain(endpoints) ==
  [role |-> "other", endpoints |-> endpoints, distinct |-> FALSE,
   stop |-> "service_or_kill", bootstrap |-> FALSE, checksUse |-> FALSE,
   clears |-> "none", stopsAgain |-> FALSE]

HttpEndpoints == Port1("tcp", "http_port", "http") \o Port1("tcp", "https_port", "https")

Class_apache ==
  [Plain(HttpEndpoints) EXCEPT !.role = "httpd", !.stop = "kill", !.clears = "httpd"]

Class_nginx ==
  [Plain(HttpEndpoints) EXCEPT !.role = "httpd", !.clears = "httpd"]

PhpEndpoint == Port1("tcp", "tcp_port", "php")

\* php.php, php7.2.php and php7.3.php: sites keep the reference, which is why
\* the use count has to refuse the uninstallation.
Class_php ==
  [Plain(PhpEndpoint) EXCEPT !.role = "php", !.checksUse = TRUE]

Class_php72 == Class_php

Class_php73 == Class_php

\* php7.4.php and later also set site.php_instance_id to null.
Class_php74 ==
  [Plain(PhpEndpoint) EXCEPT !.role = "php", !.checksUse = TRUE, !.clears = "php"]

Class_php80 == Class_php74

Class_php81 == Class_php74

Class_php812 == Class_php74

Class_mysql ==
  [Plain(Port1("tcp", "tcp_port", "mysql")) EXCEPT !.stop = "shutdown", !.bootstrap = TRUE]

Class_mariadb == Class_mysql

Class_mysql8 ==
  [Plain(Port1("tcp", "tcp_port", "mysql") \o Port1("tcp", "tcp_port_x", "mysql_x"))
     EXCEPT !.stop = "shutdown", !.bootstrap = TRUE, !.distinct = TRUE]

Class_postgresql ==
  [Plain(Port1("tcp", "tcp_port", "pgsql"))
     EXCEPT !.stop = "service_or_pg_ctl", !.bootstrap = TRUE]

Class_mongodb ==
  [Plain(Port1("tcp", "tcp_port", NoType)) EXCEPT !.stopsAgain = TRUE]

Class_redis == Plain(Port1("tcp", "tcp_port", NoType))

Class_memcached ==
  Plain(Port1("tcp", "tcp_port", NoType) \o Port1("udp", "udp_port", NoType))

Class_acrylic == Plain(Port1("udp", "udp_port", "dns"))

Class_wildthing == Plain(Port1("udp", "udp_port", "dns"))

ClassFile ==
  {"apache", "nginx", "php", "php7.2", "php7.3", "php7.4", "php8.0", "php8.1",
   "php8.1.2", "mysql", "mariadb", "mysql8", "postgresql", "mongodb", "redis",
   "memcached", "acrylic", "wildthing"}

\* `require .../instances/<class_file>`
Class(file) ==
  CASE file = "apache"     -> Class_apache
    [] file = "nginx"      -> Class_nginx
    [] file = "php"        -> Class_php
    [] file = "php7.2"     -> Class_php72
    [] file = "php7.3"     -> Class_php73
    [] file = "php7.4"     -> Class_php74
    [] file = "php8.0"     -> Class_php80
    [] file = "php8.1"     -> Class_php81
    [] file = "php8.1.2"   -> Class_php812
    [] file = "mysql"      -> Class_mysql
    [] file = "mariadb"    -> Class_mariadb
    [] file = "mysql8"     -> Class_mysql8
    [] file = "postgresql" -> Class_postgresql
    [] file = "mongodb"    -> Class_mongodb
    [] file = "redis"      -> Class_redis
    [] file = "memcached"  -> Class_memcached
    [] file = "acrylic"    -> Class_acrylic
    [] file = "wildthing"  -> Class_wildthing
=============================================================================
