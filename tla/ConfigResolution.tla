-------------------------- MODULE ConfigResolution --------------------------
(***************************************************************************)
(* ConfigService: the instances of a configuration and the configurations  *)
(* of an instance.  A configuration is what Targets builds, with its type  *)
(* and its parameters; a collection of hosts is never among those, so that *)
(* there is one host or none.                                              *)
(***************************************************************************)
EXTENDS Connectors

CONSTANT Junk

T == INSTANCE Targets

\* Presto's connector is Trino's.
ConnectorType(config) == IF config.type = "presto" THEN "trino" ELSE config.type

\* The coordinates that the connectors know (Connectors).
Coordinates(config) ==
    LET p == config.params
    IN  [main |-> IF "host" \in DOMAIN p THEN p.host
                  ELSE IF "region" \in DOMAIN p THEN p.region ELSE p.database,
         rest |-> [x \in DOMAIN p \cap {"port", "database"} |-> p[x]]]

\* _get_hosts
Hosts(config) == IF "host" \in DOMAIN config.params THEN {config.params.host} ELSE {}

\* list_instances, given the catalogs that the server has at present.
ListInstances(config, catalogs) ==
    InstanceNames(ConnectorType(config), Coordinates(config), catalogs)

\* Mutant: the instances that a connector discovers are not looked at.
Matches_HostsOnly(config, instance, catalogs) == instance \in Hosts(config)

\* configuration_matches_instance
Matches(config, instance, catalogs) ==
    IF Hosts(config) # {} THEN instance \in Hosts(config)
    ELSE instance \in ListInstances(config, catalogs)

\* Whether it has to ask the server for that.
MatchAsks(config) == Hosts(config) = {}

\* The connector refuses an operation on this instance.
Refuses(config, op, instance) ==
    Rejects(ConnectorType(config), op, instance, Coordinates(config))
=============================================================================
