---------------------------- MODULE AgentModels ----------------------------
(***************************************************************************)
(* The rows of model_connections, which agents are bound to and LiteLLM    *)
(* routes are made from (src/internal/platform/postgres/db/                *)
(* agent_admin.sql.go).  A configuration stands for the columns that go    *)
(* into its checksum; checksums are taken to tell configurations apart.    *)
(***************************************************************************)
CONSTANTS Models, Configs

ASSUME ModelsAssumption == Models # {} /\ Configs # {}

VARIABLE connection     \* model_connections: status and configuration

Rows == [status : {"none", "active", "disabled", "archived"}, config : Configs]

\* What GetAgentModel returns: a row that was archived is read as disabled.
Readings == [status : {"active", "disabled"}, config : Configs]

ModelsInit == connection = [m \in Models |-> [status |-> "none", config |-> CHOOSE c \in Configs : TRUE]]

Stored(m) == connection[m].status # "none"

Reading(m) == [status |-> IF connection[m].status = "active" THEN "active" ELSE "disabled",
               config |-> connection[m].config]

\* UpsertAgentModel writes every column, and takes a row out of the archive.
UpsertModel(m, row) == connection' = [connection EXCEPT ![m] = row]

ArchiveModel(m) == connection' = [connection EXCEPT ![m].status = "archived"]
=============================================================================
