-------------------- MODULE DatabaseCredentialsProperties --------------------
(* What the database path of DatabaseCredentials guarantees.                 *)
EXTENDS DatabaseCredentials

(* The ensure functions (:629-696, :699-807, :810-918) never replace a     *)
(* password that a database may run with, however stale the copy is they   *)
(* decide from; only another client can take it away.                      *)
PasswordsKept ==
  [][/\ engine \in {"redis", "mongodb", "clickhouse"}
     /\ live[Generated].password # 0
     /\ live'[Generated].password # live[Generated].password
     => budget'.losses < budget.losses]_vars

(* The copies (:1093-1106, :1364-1386, :1531-1557, :1736-1764): a target   *)
(* with all three keys spells in its URL the password it also holds.       *)
URLHasPassword == HasCredentials(live["target"]) => live["target"].inURL = live["target"].password

(* As long as nobody destroys a password, what clients read is what the    *)
(* database uses: a target with credentials agrees with the source, over   *)
(* failed, repeated and stale passes (:699-807, :1006-1090, :1256-1361,    *)
(* :1423-1528, :1628-1733).                                                *)
Agreement ==
  budget.losses = MaxLosses /\ engine # "redis" /\ HasCredentials(live["target"]) =>
    live["target"].password = live["source"].password

Quiet == pc = "idle" /\ ~queued /\ \A o \in Objects : fresh[o]

(* The platform has kept its hands off since the start.                    *)
Undisturbed == budget.losses = MaxLosses /\ budget.touches = MaxTouches

(* At rest a database that the controller generates credentials for has    *)
(* them (:592-611).                                                        *)
QuietMeansProvisioned ==
  /\ Quiet /\ Undisturbed
  /\ engine \in {"mongodb", "clickhouse"} \/ (engine = "redis" /\ named)
  => live[Generated].exists /\ Complete(live[Generated])

Delivered == live["target"].exists /\ HasCredentials(live["target"])

(* MySQL's and ClickHouse's credentials are copied by every pass (:1235,   *)
(* :1607): at rest they have arrived and the cluster has the spec asked    *)
(* for, after any failures, although nothing watches secrets or clusters.  *)
(* After a return to an earlier spec a stale copy may pass for the cluster.*)
QuietMeansDelivered ==
  Quiet /\ Undisturbed /\ engine \in {"mysql", "clickhouse"} =>
    /\ live["cluster"].exists /\ (returned \/ live["cluster"].spec = spec)
    /\ named => Delivered

(* They do arrive, and stay: no pass waits for what only a later pass would*)
(* make (:1266-1294, :1633-1661).                                          *)
Arrives ==
  named /\ engine \in {"mysql", "clickhouse"} => <>[](Undisturbed => Delivered)

(* The calls a pass may still make, at most.                               *)
CallsLeft ==
  CASE pc = "idle"        -> 0
    [] pc = "status"      -> 1
    [] pc = "write"       -> 2
    [] pc = "await"       -> 2 + (MaxWaits - attempt)
    [] pc = "cluster"     -> 2 + MaxWaits + (MaxRetries - attempt)
    [] pc = "ensureWrite" -> 3 + MaxWaits + MaxRetries
    [] pc = "ensureAwait" -> 3 + MaxWaits + MaxRetries + (MaxWaits - attempt)
    [] pc = "ensure"      -> 4 + 2 * MaxWaits + MaxRetries

(* Each call leaves the pass fewer to make, whatever it returns, and       *)
(* nothing that happens meanwhile gives it more: waits for a secret that   *)
(* may never come (:1014-1042, :1264-1292, :1431-1459, :1636-1664) and     *)
(* retries of a conflict (:944, :1202, :1574) hold the only worker for a   *)
(* bounded number of calls.                                                *)
PassesEnd ==
  [][pc # "idle" => CallsLeft' <= CallsLeft /\ (Worker => CallsLeft' < CallsLeft)]_vars

-----------------------------------------------------------------------------
(* The contract the database path implements.  Redis has no secret of its  *)
(* own besides the target.                                                 *)
SourcePassword == live[Generated].password

TargetPassword == IF engine = "redis" THEN 0 ELSE live["target"].password

TargetComplete == engine # "redis" /\ HasCredentials(live["target"])

Contract ==
  INSTANCE CredentialsContract WITH
    source <- SourcePassword, target <- TargetPassword, complete <- TargetComplete

(* Every step of passes, caches, operators and other clients is one of the *)
(* contract or leaves it alone (:585-626, :629-918, :1006-1764): no stale  *)
(* read, repeated wait or crash makes a second password next to a first or *)
(* rewrites what is complete.                                              *)
ContractImplemented == Contract!Spec

-----------------------------------------------------------------------------
(* Comments the code does not keep.                                        *)

(* ensureMongoDBSecret, "If we have a target secret, copy the credentials" *)
(* (:749, :796): at rest, a named target has them.                         *)
MongoDelivered == Quiet /\ Undisturbed /\ engine = "mongodb" /\ named => Delivered

(* reconcilePostgresql, "If we have a target secret, try to copy           *)
(* credentials" (:978): at rest, an existing target has them.              *)
PostgresDelivered ==
  Quiet /\ Undisturbed /\ engine = "postgres" /\ named /\ live["target"].exists => Delivered

=============================================================================
