------------------------------- MODULE Access -------------------------------
(***************************************************************************)
(* Who may use the bot (internal/bot/acl.go): administrators and a static  *)
(* list from config.yaml, and a whitelist that administrators change with  *)
(* /adduser and /deluser while the bot runs. The whitelist is a table and  *)
(* a copy of it in memory; a command writes the table first and the copy   *)
(* afterwards, and the commands of two updates may overlap.                *)
(***************************************************************************)
CONSTANTS
  Handlers,   \* goroutines handling /adduser and /deluser
  Users,      \* Telegram user ids
  Nobody,     \* no user
  Faults      \* "crash"

ASSUME AccessAssumption == Nobody \notin Users

VARIABLES
  admins,     \* ACL.admins, from config.yaml
  static,     \* ACL.static, from config.yaml
  table,      \* the allowed_users table
  dynamic,    \* ACL.dynamic
  pc,         \* where each handler stands: "idle", "add" or "remove"
  arg,        \* the user it works on
  contended   \* history: users two handlers worked on at the same time

config == <<admins, static>>
vars == <<config, table, dynamic, pc, arg, contended>>

TypeOK ==
  /\ admins \in SUBSET Users /\ static \in SUBSET Users
  /\ table \in SUBSET Users /\ dynamic \in SUBSET Users
  /\ pc \in [Handlers -> {"idle", "add", "remove"}]
  /\ arg \in [Handlers -> Users \cup {Nobody}]
  /\ contended \in SUBSET Users
  /\ \A h \in Handlers : arg[h] = Nobody <=> pc[h] = "idle"

\* The process starts with the whitelist earlier ones left behind; a failed
\* first Reload ends it.
Init ==
  /\ admins \in SUBSET Users /\ static \in SUBSET Users
  /\ table \in SUBSET Users /\ dynamic = table
  /\ pc = [h \in Handlers |-> "idle"]
  /\ arg = [h \in Handlers |-> Nobody]
  /\ contended = {}

\* No rule at all: IsAllowed answers true to everyone.
Open == admins = {} /\ static = {} /\ dynamic = {}

IsAllowed(u) == u \in admins \cup static \cup dynamic \/ Open

\* A bug: the command checks no more than the middleware.
MayAdministerIfAllowed(u) == IsAllowed(u)

\* requireAdmin, behind authMiddleware.
MayAdminister(u) == IsAllowed(u) /\ u \in admins

-----------------------------------------------------------------------------
InProgress(u) == {h \in Handlers : arg[h] = u}

Begin(h, label, u) ==
  /\ pc[h] = "idle"
  /\ pc' = [pc EXCEPT ![h] = label]
  /\ arg' = [arg EXCEPT ![h] = u]
  /\ contended' = IF InProgress(u) = {} THEN contended ELSE contended \cup {u}
  /\ UNCHANGED <<config, dynamic>>

\* A bug: the handler keeps the user.
EndKeepsUser(h) ==
  /\ pc' = [pc EXCEPT ![h] = "idle"]
  /\ UNCHANGED <<arg, config, table, contended>>

End(h) ==
  /\ pc' = [pc EXCEPT ![h] = "idle"]
  /\ arg' = [arg EXCEPT ![h] = Nobody]
  /\ UNCHANGED <<config, table, contended>>

\* ACL.Add and ACL.Remove, first half; a failed statement ends the handler
\* with nothing changed.
AddRow(h, sender, u) ==
  MayAdminister(sender) /\ Begin(h, "add", u) /\ table' = table \cup {u}

RemoveRow(h, sender, u) ==
  MayAdminister(sender) /\ Begin(h, "remove", u) /\ table' = table \ {u}

\* Second half, under ACL.mu.
AddToMemory(h) == pc[h] = "add" /\ End(h) /\ dynamic' = dynamic \cup {arg[h]}

\* A bug: the copy in memory is forgotten.
RemoveFromTableOnly(h) == pc[h] = "remove" /\ End(h) /\ UNCHANGED dynamic

RemoveFromMemory(h) == pc[h] = "remove" /\ End(h) /\ dynamic' = dynamic \ {arg[h]}

\* The process stops and starts again: ACL.Reload.
Crash ==
  /\ "crash" \in Faults
  /\ dynamic' = table
  /\ pc' = [h \in Handlers |-> "idle"]
  /\ arg' = [h \in Handlers |-> Nobody]
  /\ contended' = {}
  /\ UNCHANGED <<config, table>>

HandlerStep(h) ==
  \/ \E sender, u \in Users : AddRow(h, sender, u) \/ RemoveRow(h, sender, u)
  \/ AddToMemory(h) \/ RemoveFromMemory(h)

Next == (\E h \in Handlers : HandlerStep(h)) \/ Crash

Spec == Init /\ [][Next]_vars

-----------------------------------------------------------------------------
(* acl.go:58 "If no admins, static or dynamic users are configured at all, *)
(* access is open": a bot that is not open does not become open while it   *)
(* runs, nor by a restart. Only administrators empty the whitelist, and    *)
(* where there is one, access is restricted.                               *)
NeverOpensUp == [][Open' => Open]_vars

(* acl.go:76 and 87: once no command for a user is in progress, the bot    *)
(* admits the user exactly if the table says so, and so after a restart    *)
(* too. This holds for each user on its own, whatever goes on for others,  *)
(* unless two commands for that very user have overlapped.                 *)
MemoryMatchesTable ==
  \A u \in Users \ contended : InProgress(u) = {} => (u \in dynamic <=> u \in table)
=============================================================================
