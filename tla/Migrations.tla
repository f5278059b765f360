----------------------------- MODULE Migrations -----------------------------
(***************************************************************************)
(* pkg/store/postgres/schema.go: New brings the schema up to date before   *)
(* the store is used.  Every replica of a rollout does so on its own       *)
(* against the one database, with no lock around the whole: each missing   *)
(* migration is applied in a transaction of its own, which also inserts    *)
(* the version into schema_migrations, whose primary key is the version.   *)
(***************************************************************************)
EXTENDS Integers, FiniteSets

CONSTANTS
    Replicas,
    Supports,       \* replica -> currentSchemaVersion of its binary
    MaxCrashes      \* bound on the pods killed while they migrate

VARIABLES
    recorded,       \* versions in schema_migrations
    ran,            \* version -> times its SQL has been committed
    pc,             \* replica -> "start", "next", "recorded", "open", "refused" or "failed"
    at,             \* replica -> the version it works on
    crashes

vars == <<recorded, ran, pc, at, crashes>>

Versions == 1..CHOOSE n \in {Supports[r] : r \in Replicas} :
                \A r \in Replicas : Supports[r] <= n

Init ==
    /\ recorded = {}
    /\ ran = [v \in Versions |-> 0]
    /\ pc = [r \in Replicas |-> "start"]
    /\ at = [r \in Replicas |-> 0]
    /\ crashes = 0

Goto(r, label) == pc' = [pc EXCEPT ![r] = label]

CurrentVersion == CHOOSE n \in recorded \cup {0} : \A v \in recorded : v <= n

\* Read MAX(version) once; a schema newer than the binary is refused.
ReadVersion(r) ==
    /\ pc[r] = "start"
    /\ at' = [at EXCEPT ![r] = CurrentVersion + 1]
    /\ Goto(r, IF CurrentVersion > Supports[r] THEN "refused"
               ELSE IF CurrentVersion = Supports[r] THEN "open" ELSE "next")
    /\ UNCHANGED <<recorded, ran, crashes>>

\* As if a version somebody else has recorded were taken as this one's work.
InsertIgnoringConflict(r) ==
    /\ pc[r] = "next"
    /\ \A o \in Replicas \ {r} : pc[o] = "recorded" => at[o] # at[r]
    /\ Goto(r, "recorded")
    /\ UNCHANGED <<recorded, ran, at, crashes>>

\* applyMigration runs the SQL and inserts the version.  An open transaction
\* with the same version makes the insert wait, a committed one makes it fail:
\* then all of it is rolled back and New returns the error.
ApplyMigration(r) ==
    /\ pc[r] = "next"
    /\ \A o \in Replicas \ {r} : pc[o] = "recorded" => at[o] # at[r]
    /\ Goto(r, IF at[r] \in recorded THEN "failed" ELSE "recorded")
    /\ UNCHANGED <<recorded, ran, at, crashes>>

\* The SQL and the version become visible together.
CommitMigration(r) ==
    /\ pc[r] = "recorded"
    /\ recorded' = recorded \cup {at[r]}
    /\ ran' = [ran EXCEPT ![at[r]] = @ + 1]
    /\ at' = [at EXCEPT ![r] = @ + 1]
    /\ Goto(r, IF at[r] = Supports[r] THEN "open" ELSE "next")
    /\ UNCHANGED crashes

\* New failed and the process exits: its pod is started again.
Restart(r) ==
    /\ pc[r] = "failed"
    /\ Goto(r, "start")
    /\ UNCHANGED <<recorded, ran, at, crashes>>

\* The pod dies, or the database does; an open transaction is rolled back.
Crash(r) ==
    /\ pc[r] \in {"next", "recorded"} /\ crashes < MaxCrashes
    /\ crashes' = crashes + 1
    /\ Goto(r, "failed")
    /\ UNCHANGED <<recorded, ran, at>>

Step(r) == ReadVersion(r) \/ ApplyMigration(r) \/ CommitMigration(r) \/ Restart(r)

Next == \E r \in Replicas : Step(r) \/ Crash(r)

Fairness == \A r \in Replicas : WF_vars(Step(r))

Spec == Init /\ [][Next]_vars /\ Fairness

-----------------------------------------------------------------------------

\* Whatever the replicas interleave and wherever they die, no migration's SQL
\* takes effect twice or without its version, versions are recorded without a
\* gap, and a store that New returned has every migration its binary knows.
MigratedOnce ==
    /\ \A v \in Versions : ran[v] = IF v \in recorded THEN 1 ELSE 0
    /\ recorded = 1..Cardinality(recorded)
    /\ \A r \in Replicas : pc[r] = "open" => 1..Supports[r] \subseteq recorded

\* Every replica ends with an open store, unless its binary is too old for
\* what another has made of the schema: losing a race costs a restart.
ReplicasSettle == <>[](\A r \in Replicas : pc[r] \in {"open", "refused"})
=============================================================================
