---------------------------- MODULE Credentials ----------------------------
(***************************************************************************)
(* The credentials of an account, from the two places they come from -     *)
(* /addaccount and a block of config.yaml - into the accounts table, and   *)
(* from there, with the block's values as defaults, into the adapter       *)
(* (internal/registry/seed.go, buildAdapter in registry.go). Three tables  *)
(* of field names have to agree: the schema (Fields), what is taken from a *)
(* block (credsFromBlock) and what an adapter is built from.               *)
(*                                                                         *)
(* A value is empty, a number, or any other text. When the row is loaded   *)
(* is the concern of Registry: here it is loaded before it is looked at.   *)
(***************************************************************************)
CONSTANTS
  Entries(_),   \* the credentials administrators enter for a type
  Blocks(_)     \* the blocks config.yaml may hold for a type

VARIABLES
  typ,          \* the provider type of the account
  block,        \* the block config.yaml has for it, Fields -> Values
  row,          \* the credentials stored, or NoRow
  adapter       \* what the live adapter was built with, or NoAdapter

vars == <<typ, block, row, adapter>>

Types == {"timeweb", "vkcloud", "selectel", "gcore", "mws", "ruvds", "beget"}
Values == {"", "number", "text"}

\* Nothing stored, nothing built, a build that failed: no field of a type.
NoRow == [none |-> "row"]
NoAdapter == [none |-> "adapter"]
Failed == [none |-> "error"]

-----------------------------------------------------------------------------
(* The schema.                                                             *)

Required(t) ==
  CASE t = "timeweb"  -> {"token"}
    [] t = "vkcloud"  -> {"app_credential_id", "app_credential_secret", "floating_network_id"}
    [] t = "selectel" -> {"account_id", "service_user", "service_password", "project_id",
                          "floating_network_id"}
    [] t = "gcore"    -> {"api_token", "project_id", "region_id"}
    [] t = "mws"      -> {"token", "project_id", "network_id", "subnetwork_id"}
    [] OTHER          -> {"token", "server_id"}

Optional(t) ==
  CASE t = "timeweb"               -> {"availability_zone"}
    [] t \in {"vkcloud", "selectel"} -> {"auth_url", "region"}
    [] t \in {"gcore", "beget"}      -> {"api_url"}
    [] OTHER                       -> {}

Fields(t) == Required(t) \cup Optional(t)

\* A map lookup: a missing key reads as the empty string.
At(creds, f) == IF f \in DOMAIN creds THEN creds[f] ELSE ""

RegionIsNumber(t, creds) ==
  t = "gcore" /\ At(creds, "region_id") # "" => At(creds, "region_id") = "number"

\* A bug: an unknown key is let through.
ValidateCredsLoosely(t, creds) ==
  /\ \A f \in Required(t) : At(creds, f) # ""
  /\ RegionIsNumber(t, creds)

\* A bug: no look at what region_id holds.
ValidateCredsByName(t, creds) ==
  /\ \A f \in Required(t) : At(creds, f) # ""
  /\ DOMAIN creds \subseteq Fields(t)

ValidateCreds(t, creds) ==
  /\ \A f \in Required(t) : At(creds, f) # ""
  /\ DOMAIN creds \subseteq Fields(t)
  /\ RegionIsNumber(t, creds)

\* The fields read from a block of each type.
Taken(t) ==
  CASE t = "timeweb"  -> {"token", "availability_zone"}
    [] t = "vkcloud"  -> {"app_credential_id", "app_credential_secret",
                          "floating_network_id", "auth_url", "region"}
    [] t = "selectel" -> {"account_id", "service_user", "service_password", "project_id",
                          "floating_network_id", "auth_url", "region"}
    [] t = "gcore"    -> {"api_token", "project_id", "region_id", "api_url"}
    [] t = "mws"      -> {"token", "project_id", "network_id", "subnetwork_id"}
    [] t = "ruvds"    -> {"token", "server_id"}
    [] t = "beget"    -> {"token", "server_id", "api_url"}

\* A bug: only the required fields are taken over.
CredsFromBlockPartly(t, b) == [f \in {f \in Required(t) : b[f] # ""} |-> b[f]]

\* The fields that are set; a region id of 0 is not.
CredsFromBlock(t, b) == [f \in {f \in Taken(t) : b[f] # ""} |-> b[f]]

\* A block has every field, what is entered any; values are texts.
ASSUME CredentialsAssumption ==
  \A t \in Types :
    /\ Blocks(t) \subseteq [Fields(t) -> Values]
    /\ \A creds \in Entries(t) : \A f \in DOMAIN creds : creds[f] \in Values

-----------------------------------------------------------------------------
(* Building the adapter.                                                   *)

\* The fields buildAdapter completes from the block.
Defaulted(t) == Optional(t) \cup
  CASE t \in {"vkcloud", "selectel"} -> {"floating_network_id"}
    [] t = "gcore"                   -> {"region_id"}
    [] OTHER                         -> {}

\* A bug: the block wins over the account.
FieldValueOfBlock(t, creds, b, f) ==
  IF f \in Defaulted(t) /\ b[f] # "" THEN b[f] ELSE At(creds, f)

FieldValue(t, creds, b, f) ==
  IF At(creds, f) = "" /\ f \in Defaulted(t) THEN b[f] ELSE At(creds, f)

BuildFails(t, creds) ==
  \/ t = "timeweb" /\ At(creds, "token") = ""
  \/ ~RegionIsNumber(t, creds)

BuildAdapter(t, creds, b) ==
  IF BuildFails(t, creds) THEN Failed
  ELSE [f \in Fields(t) |-> FieldValue(t, creds, b, f)]

-----------------------------------------------------------------------------
TypeOK ==
  /\ typ \in Types
  /\ block \in [Fields(typ) -> Values]
  /\ row = NoRow \/ (DOMAIN row \subseteq Fields(typ) /\ \A f \in DOMAIN row : row[f] \in Values)
  /\ adapter \in {NoAdapter, Failed} \cup [Fields(typ) -> Values]

Init ==
  /\ typ \in Types
  /\ block \in Blocks(typ)
  /\ row = NoRow /\ adapter = NoAdapter

\* SeedFromConfig, for an enabled block.
Seed ==
  /\ row = NoRow
  /\ ValidateCreds(typ, CredsFromBlock(typ, block))
  /\ row' = CredsFromBlock(typ, block)
  /\ UNCHANGED <<typ, block, adapter>>

\* /addaccount, for a new account or an old one.
AddAccount(creds) ==
  /\ ValidateCreds(typ, creds)
  /\ row' = creds
  /\ adapter' = NoAdapter
  /\ UNCHANGED <<typ, block>>

Reload ==
  /\ row # NoRow
  /\ adapter' = BuildAdapter(typ, row, block)
  /\ UNCHANGED <<typ, block, row>>

\* A restart with another block; the table is not seeded again.
ChangeConfig ==
  /\ row # NoRow
  /\ block' \in Blocks(typ)
  /\ adapter' = NoAdapter
  /\ UNCHANGED <<typ, row>>

Next ==
  \/ Seed
  \/ \E creds \in Entries(typ) : AddAccount(creds)
  \/ Reload
  \/ ChangeConfig

Spec == Init /\ [][Next]_vars

-----------------------------------------------------------------------------
(* What is stored can be used: no account that /addaccount accepted or the *)
(* seed took over is skipped by Reload (registry.go:67), and its adapter   *)
(* has every required field, whatever the block says by then.              *)
StoredBuilds ==
  /\ adapter # Failed
  /\ adapter # NoAdapter => \A f \in Required(typ) : adapter[f] # ""

(* An account keeps its own values: nothing that was stored is left out of *)
(* the adapter or replaced by the block's value. What it omits of the      *)
(* optional fields is the block's value of today (seed.go:20 "fall back to *)
(* config.yaml type defaults when omitted").                               *)
OwnValuesThenDefaults ==
  adapter \notin {NoAdapter, Failed} =>
    \A f \in Fields(typ) :
      /\ At(row, f) # "" => adapter[f] = row[f]
      /\ At(row, f) = "" => adapter[f] = block[f]

(* Seeding loses nothing (seed.go:83 "extracts per-account connection      *)
(* fields", seed.go:138 "This preserves the env/.env bootstrap"): an       *)
(* account seeded from a block is built as the block says, and goes on     *)
(* being built so when the values later disappear from config.yaml.        *)
SeededLikeConfig ==
  [][row = NoRow /\ row' = CredsFromBlock(typ, block)
       => \A b \in {block, [f \in Fields(typ) |-> ""]} :
            BuildAdapter(typ, row', b) = block]_vars
=============================================================================
