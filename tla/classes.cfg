SPECIFICATION FairSpec
CONSTANTS
  Package = {"apache", "nginx", "php", "php7.2", "php7.3", "php7.4", "php8.0", "php8.1",
             "php8.1.2", "mysql", "mariadb", "mysql8", "postgresql", "mongodb", "redis",
             "memcached", "acrylic", "wildthing"}
  Interface = {"127.0.0.1"}
  Port = {3306}
  Site = {s1}
  Command = {"start", "stop", "restart", "serviceInstall", "serviceUninstall"}
  Timeout = 2
  MaxId = 1
  Null = Null
INVARIANTS
  TypeOK
  DatabaseStoppedBeforeRemoval
PROPERTY RequestsEnd
