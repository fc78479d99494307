--------------------------- MODULE SpellTemplates ---------------------------
(***************************************************************************)
(* The programs CloudSpells ships: the __main__.py that each spell         *)
(* template of the CLI renders (cloudspells/cli/templates/spells/) and two *)
(* of the repository's examples, run statement by statement on the Vcn of  *)
(* SpellProgram.  The iam and storage templates build no Vcn.  export() of *)
(* a spell other than the Vcn only publishes outputs, so it is left out.   *)
(***************************************************************************)
EXTENDS SpellProgram

CONSTANT Scripts  \* the programs to run

VARIABLES
  script,    \* the program that was deployed
  settings,  \* <<app_port, db_port>> of its stack configuration, if it reads them
  pc         \* the statement that runs next

progVars == <<vars, script, settings, pc>>

ScriptNames ==
  {"vcn", "compute", "bastion", "autoscale", "loadbalancer", "oke", "web-db",
   "examples/bastion", "examples/secure-vcn"}

ASSUME ScriptsAssumption == Scripts \subseteq ScriptNames

(* The ports and groups that the programs name themselves.  They may be left
   out of the constants when no program that uses them is deployed. *)
OwnPorts   == {SSH, HTTP, HTTPS}
GroupNames == {"lb", "web", "db", "mgmt"}
ScriptUses == OwnPorts \subseteq Ports /\ GroupNames \subseteq Nsgs

NsgOf(name, r, ports)       == Spell("Nsg", name, r, ports, FALSE)
ServesOf(src, tgt, port, s) == Spell("serves", src, tgt, <<port>>, s)
InstanceIn(tier)            == Spell("ComputeInstance", tier, "", <<>>, FALSE)
BastionSpell                == Spell("Bastion", "", "", <<>>, FALSE)
ExportVcn                   == Spell("export", "", "", <<>>, FALSE)

(* Programs that read ports from the stack configuration. *)
Configured == {"web-db", "examples/secure-vcn"}

(* Fault: the instances come before the relations. *)
WebDbInstancesFirst(appPort, dbPort) ==
  <<NsgOf("lb", "INTERNET_EDGE", <<HTTP, HTTPS, SSH>>),
    NsgOf("web", "APP_SERVER", <<>>),
    NsgOf("db", "DATABASE", <<>>),
    InstanceIn("private"), InstanceIn("secure"),
    ServesOf("lb", "web", appPort, TRUE),
    ServesOf("web", "db", dbPort, TRUE), ExportVcn>>

WebDb(appPort, dbPort) ==
  <<NsgOf("lb", "INTERNET_EDGE", <<HTTP, HTTPS, SSH>>),
    NsgOf("web", "APP_SERVER", <<>>),
    NsgOf("db", "DATABASE", <<>>),
    ServesOf("lb", "web", appPort, TRUE),
    ServesOf("web", "db", dbPort, TRUE),
    InstanceIn("private"), InstanceIn("secure"), ExportVcn>>

SecureVcn(appPort, dbPort) ==
  <<NsgOf("lb", "INTERNET_EDGE", <<HTTP, HTTPS>>),
    NsgOf("web", "APP_SERVER", <<>>),
    NsgOf("db", "DATABASE", <<>>),
    NsgOf("mgmt", "MANAGEMENT", <<>>),
    ServesOf("lb", "web", appPort, TRUE),
    ServesOf("web", "db", dbPort, TRUE),
    ServesOf("mgmt", "lb", SSH, FALSE),
    ServesOf("mgmt", "web", SSH, FALSE),
    ServesOf("mgmt", "db", SSH, FALSE),
    ExportVcn>>

Statements(name, ports) ==
  CASE name = "vcn"          -> <<ExportVcn>>
    [] name = "compute"      -> <<InstanceIn("private"), ExportVcn>>
    [] name = "bastion"      -> <<InstanceIn("private"), BastionSpell, ExportVcn>>
    [] name = "autoscale"    -> <<Spell("ScalableWorkload", "", "", <<HTTP>>, TRUE), ExportVcn>>
    [] name = "loadbalancer" -> <<Spell("LoadBalancer", "", "", <<HTTP>>, FALSE), ExportVcn>>
    [] name = "oke"          -> <<Spell("OkeCluster", "", "", <<>>, FALSE), ExportVcn>>
    [] name = "web-db"       -> WebDb(ports[1], ports[2])
    [] name = "examples/bastion" ->
         <<NsgOf("web", "APP_SERVER", <<>>), BastionSpell, InstanceIn("private"), ExportVcn>>
    [] name = "examples/secure-vcn" -> SecureVcn(ports[1], ports[2])

Program == Statements(script, settings)

(* One statement of the program: a spell of SpellProgram. *)
Do(s) ==
  \/ s.kind = "Nsg"              /\ NewNsg(s.at, s.to, s.ports)
  \/ s.kind = "serves"           /\ Serves(s.at, s.to, s.ports[1], s.opt)
  \/ s.kind = "ComputeInstance"  /\ ComputeInstance(s.at)
  \/ s.kind = "Bastion"          /\ Bastion
  \/ s.kind = "ScalableWorkload" /\ ScalableWorkload(s.ports[1], s.opt)
  \/ s.kind = "LoadBalancer"     /\ LoadBalancer(s.ports[1])
  \/ s.kind = "OkeCluster"       /\ OkeCluster(s.opt)
  \/ s.kind = "export"           /\ Export

Statement ==
  /\ pc <= Len(Program)
  /\ Do(Program[pc])
  /\ pc' = pc + 1
  /\ UNCHANGED <<script, settings>>

ScriptInit ==
  /\ Init
  /\ script \in Scripts
  /\ settings \in IF script \in Configured THEN Ports \X Ports ELSE {<<>>}
  /\ pc = 1

(* Python runs the next statement unless an exception ended the program. *)
ScriptSpec == ScriptInit /\ [][Statement]_progVars /\ WF_progVars(Statement)

-----------------------------------------------------------------------------

Finished == pc > Len(Program) /\ outcome = "ok"

(* Every shipped program runs to its end: none builds a spell after the
   finalisation that the spell had to precede. *)
RunsToEnd == <>Finished

(* A program that ran to its end left a deployed network that lets its own
   declared traffic through, from the internet inwards, tier by tier: web and
   database instances are reachable along lb -> web -> db, for the application
   and for SSH, whatever ports were configured. *)
TiersConnected ==
  Finished /\ script \in Configured =>
    LET rules == BagToSet(securityLists) IN
      /\ Admits(rules, "ingress", "public", HTTPS, "internet")
      /\ \A p \in {settings[1], SSH} : PathOpen(rules, "public", "private", p)
      /\ \A p \in {settings[2], SSH} : PathOpen(rules, "private", "secure", p)

(* ... and nothing else crosses tiers: the database tier answers the private
   tier (and the management tier, by SSH) only, on the ports of the relation and
   on no other, and no tier reaches into the management tier.  The secure tier of
   docs/reference/vcn-architecture.md answers the private one on every port, by a
   baseline rule that the code does not have. *)
TiersIsolated ==
  script \in Configured =>
    LET rules == BagToSet(securityLists) IN
      \A p \in Ports \cup {SSH, HTTP, HTTPS} :
        /\ ~PathOpen(rules, "public", "secure", p)
        /\ \A src \in Tiers \ {"management"} : ~PathOpen(rules, src, "management", p)
        /\ PathOpen(rules, "management", "secure", p) => p = SSH
        /\ PathOpen(rules, "private", "secure", p) => p \in {settings[2], SSH}

(* The Bastion spell's own documentation: after a ComputeInstance was built
   "the existing SSH rule is reused", so a Bastion is never refused. *)
BastionReusesRule == outcome # "RuntimeError"
=============================================================================
