-------------------------------- MODULE Admin --------------------------------
(***************************************************************************)
(* The admin service: users, merchants, one configuration key and the      *)
(* owners of API quotas, written by administrators, and the audit log.     *)
(*                                                                         *)
(* Every route authenticates (it reads the row of the token's user), asks  *)
(* for the role admin, runs one method of a service, then writes one entry *)
(* of audit_logs in a statement of its own.  Every statement is a point    *)
(* where other requests run; no two share a transaction.                   *)
(*                                                                         *)
(* merchants.created_by, system_config.updated_by, audit_logs.user_id and  *)
(* the owners of api_quotas are foreign keys without ON DELETE: a row they *)
(* name cannot be deleted, and they cannot name a deleted row.  Only what  *)
(* these keys and the roles depend on is kept of a row; that emails are    *)
(* unique only refuses requests, which Abort covers.  Quotas models the    *)
(* limits and the counts.                                                  *)
(***************************************************************************)
EXTENDS Naturals

CONSTANTS
  Users,       \* ids of users
  Admins,      \* those who are there at the start, all administrators
  Merchants,   \* ids of merchants
  Types,       \* types a configuration may have
  Values,      \* values it may have, each named for what it is
  Requests,    \* slots for concurrent requests
  MaxWrites    \* bound on successful writes

ASSUME AdminAssumption ==
  /\ Admins \subseteq Users /\ Admins # {}
  /\ Types \subseteq {"string", "number", "boolean", "json"}
  /\ Values \subseteq {"text", "number", "boolean"}
  /\ {"none", "absent", "deleted"} \cap (Users \cup Merchants) = {}
  /\ Users \cap Merchants = {}
  /\ MaxWrites \in Nat

VARIABLES
  users,     \* the role in each row of `users`
  merchants, \* the rows of `merchants`: who created each
  config,    \* the row of `system_config`, or NoConfig
  quotas,    \* the owners of a row of `api_quotas`
  audit,     \* the users some entry of `audit_logs` names
  requests,  \* the requests in progress
  refused,   \* history: whose entry the foreign key refused
  failed,    \* history: whose entry was not written for another reason
  ousted,    \* history: someone took his own rights, or took rights by a request let
             \* in before he lost his
  crossed,   \* history: the configuration was last written on a stale check
  writes     \* how many writes have succeeded

tables == <<users, merchants, config, quotas>>
history == <<refused, failed, ousted, crossed>>
vars == <<tables, audit, requests, history, writes>>

Role == {"absent", "user", "admin", "deleted"}
Present(u) == users[u] \in {"user", "admin"}

NoConfig == [value |-> "none", type |-> "none", updated_by |-> "none"]
Config == [value : Values, type : Types, updated_by : Users]

\* validateValueType
Fits(value, type) ==
  \/ type = "string" \/ type = value
  \/ (type = "json" /\ value # "text")

\* at: the statement the request issues next; value, type: what it writes to the
\* configuration; stale (history): the row has changed since it was checked;
\* lost (history): the actor, an administrator when he was let in, is not one any
\* more.
Request == [at : {"idle", "ready", "insertConfig", "checkType", "writeConfig", "audit"},
            actor : Users \cup {"none"}, value : Values \cup {"none"},
            type : Types \cup {"none"}, stale : BOOLEAN, lost : BOOLEAN]

Idle == [at |-> "idle", actor |-> "none", value |-> "none", type |-> "none",
         stale |-> FALSE, lost |-> FALSE]

Init ==
  /\ users = [u \in Users |-> IF u \in Admins THEN "admin" ELSE "absent"]
  /\ merchants = [m \in Merchants |-> "absent"]
  /\ config = NoConfig
  /\ quotas = {} /\ audit = {}
  /\ requests = [h \in Requests |-> Idle]
  /\ refused = {} /\ failed = {}
  /\ ousted = FALSE /\ crossed = FALSE
  /\ writes = 0

Created(m) == merchants[m] \notin {"absent", "deleted"}

Named(u) == (\E m \in Merchants : merchants[m] = u) \/ config.updated_by = u

\* Mutant: the rows of audit_logs go with their user.
ReferencedBesidesAudit(u) == Named(u) \/ u \in quotas

\* A row of another table names u.
Referenced(u) == Named(u) \/ u \in quotas \/ u \in audit

\* Mutant: any user the token names is let in.
AuthenticateAnyone(h, u) ==
  /\ requests[h] = Idle
  /\ Present(u)
  /\ requests' = [requests EXCEPT ![h] = [Idle EXCEPT !.at = "ready", !.actor = u]]
  /\ UNCHANGED <<tables, audit, history, writes>>

\* authenticate and requireAdmin.
Authenticate(h, u) ==
  /\ requests[h] = Idle
  /\ users[u] = "admin"
  /\ requests' = [requests EXCEPT ![h] = [Idle EXCEPT !.at = "ready", !.actor = u]]
  /\ UNCHANGED <<tables, audit, history, writes>>

\* A write has succeeded: the request goes on to its audit entry.
Audits(h) == [requests[h] EXCEPT !.at = "audit", !.value = "none",
                                 !.type = "none", !.stale = FALSE, !.lost = FALSE]

Succeed(h) ==
  /\ writes < MaxWrites /\ writes' = writes + 1
  /\ requests' = [requests EXCEPT ![h] = Audits(h)]
  /\ UNCHANGED <<audit, refused, failed>>

\* The same, of a write that leaves user u with a role, or none: requests he has
\* in progress know nothing of it.
SucceedOnRole(h, u, role) ==
  /\ writes < MaxWrites /\ writes' = writes + 1
  /\ requests' = [g \in Requests |->
       IF g = h THEN Audits(h)
       ELSE IF requests[g].actor = u /\ requests[g].at # "audit"
            THEN [requests[g] EXCEPT !.lost = (role # "admin")]
            ELSE requests[g]]
  /\ UNCHANGED <<audit, refused, failed>>

\* The same, of a write to the configuration.
SucceedOnConfig(h) ==
  /\ writes < MaxWrites /\ writes' = writes + 1
  /\ requests' = [g \in Requests |->
       IF g = h THEN Audits(h)
       ELSE [requests[g] EXCEPT !.stale = requests[g].at \in {"checkType", "writeConfig"}]]
  /\ UNCHANGED <<audit, refused, failed, users, merchants, quotas, ousted>>

-----------------------------------------------------------------------------
(* Users.                                                                   *)

CreateUser(h, u, role) ==
  /\ requests[h].at = "ready"
  /\ users[u] = "absent"
  /\ users' = [users EXCEPT ![u] = role]
  /\ Succeed(h)
  /\ UNCHANGED <<merchants, config, quotas, ousted, crossed>>

\* Whether h takes the rights of its own actor, or any by rights he has lost
\* since he was let in.
Ousts(h, u) == u = requests[h].actor \/ requests[h].lost

\* One UPDATE; updates that leave the role alone are those with role = users[u].
UpdateUser(h, u, role) ==
  /\ requests[h].at = "ready"
  /\ Present(u)
  /\ users' = [users EXCEPT ![u] = role]
  /\ ousted' = (ousted \/ (users[u] = "admin" /\ role # "admin" /\ Ousts(h, u)))
  /\ SucceedOnRole(h, u, role)
  /\ UNCHANGED <<merchants, config, quotas, crossed>>

DeleteUser(h, u) ==
  /\ requests[h].at = "ready"
  /\ Present(u) /\ ~Referenced(u)
  /\ users' = [users EXCEPT ![u] = "deleted"]
  /\ ousted' = (ousted \/ (users[u] = "admin" /\ Ousts(h, u)))
  /\ SucceedOnRole(h, u, "deleted")
  /\ UNCHANGED <<merchants, config, quotas, crossed>>

-----------------------------------------------------------------------------
(* Merchants.                                                               *)

CreateMerchant(h, m) ==
  /\ requests[h].at = "ready"
  /\ merchants[m] = "absent" /\ Present(requests[h].actor)
  /\ merchants' = [merchants EXCEPT ![m] = requests[h].actor]
  /\ Succeed(h)
  /\ UNCHANGED <<users, config, quotas, ousted, crossed>>

\* created_by is not among the columns updateMerchant sets.
UpdateMerchant(h, m) ==
  /\ requests[h].at = "ready"
  /\ Created(m)
  /\ Succeed(h)
  /\ UNCHANGED <<tables, ousted, crossed>>

DeleteMerchant(h, m) ==
  /\ requests[h].at = "ready"
  /\ Created(m) /\ m \notin quotas
  /\ merchants' = [merchants EXCEPT ![m] = "deleted"]
  /\ Succeed(h)
  /\ UNCHANGED <<users, config, quotas, ousted, crossed>>

-----------------------------------------------------------------------------
(* Quotas: a row has one owner, who must exist (rows of both a user and a    *)
(* merchant, or of nobody, which createQuota also inserts, are left out).   *)

AddQuota(h, o) ==
  /\ requests[h].at = "ready"
  /\ o \notin quotas
  /\ o \in Users => Present(o)
  /\ o \in Merchants => Created(o)
  /\ quotas' = quotas \cup {o}
  /\ Succeed(h)
  /\ UNCHANGED <<users, merchants, config, ousted, crossed>>

ChangeQuota(h, o) ==
  /\ requests[h].at = "ready"
  /\ o \in quotas
  /\ Succeed(h)
  /\ UNCHANGED <<tables, ousted, crossed>>

RemoveQuota(h, o) ==
  /\ requests[h].at = "ready"
  /\ o \in quotas
  /\ quotas' = quotas \ {o}
  /\ Succeed(h)
  /\ UNCHANGED <<users, merchants, config, ousted, crossed>>

-----------------------------------------------------------------------------
(* The configuration.                                                       *)

Await(h, at, value, type) ==
  /\ requests' = [requests EXCEPT ![h].at = at, ![h].value = value, ![h].type = type,
                                  ![h].stale = FALSE]
  /\ UNCHANGED <<tables, audit, history, writes>>

CreateConfig(h, value, type) ==
  /\ requests[h].at = "ready"
  /\ config = NoConfig
  /\ Fits(value, type)
  /\ Await(h, "insertConfig", value, type)

\* The INSERT, refused when the key is taken by now (UNIQUE).
InsertConfig(h) ==
  LET r == requests[h] IN
  /\ r.at = "insertConfig"
  /\ config = NoConfig /\ Present(r.actor)
  /\ config' = [value |-> r.value, type |-> r.type, updated_by |-> r.actor]
  /\ crossed' = FALSE
  /\ SucceedOnConfig(h)

\* updateConfig with a value: the row is read, and the value checked against the
\* new type, or else against the row's.
UpdateValue(h, value, type) ==
  /\ requests[h].at = "ready"
  /\ config # NoConfig
  /\ Fits(value, IF type = "none" THEN config.type ELSE type)
  /\ Await(h, IF type = "none" THEN "writeConfig" ELSE "checkType", value, type)

\* Mutant: a new type is not checked against the stored value.
UpdateTypeBlindly(h, value, type) ==
  /\ \/ requests[h].at = "ready" /\ value = "none"
     \/ requests[h].at = "checkType" /\ <<value, type>> = <<requests[h].value, requests[h].type>>
  /\ type # "none"
  /\ Await(h, "writeConfig", value, type)

\* updateConfig with a type: the row is read (again, when a value came too) and
\* the value stored now must fit; if there is no row the UPDATE will tell.
UpdateType(h, value, type) ==
  /\ \/ requests[h].at = "ready" /\ value = "none"
     \/ requests[h].at = "checkType" /\ <<value, type>> = <<requests[h].value, requests[h].type>>
  /\ type # "none"
  /\ config # NoConfig => Fits(config.value, type)
  /\ Await(h, "writeConfig", value, type)

\* updateConfig with neither goes straight to the UPDATE.
UpdateOther(h) ==
  /\ requests[h].at = "ready"
  /\ Await(h, "writeConfig", "none", "none")

\* An update without any field changes nothing and is logged like the others.
UpdateNothing(h) ==
  /\ requests[h].at = "ready"
  /\ config # NoConfig
  /\ Succeed(h)
  /\ UNCHANGED <<tables, ousted, crossed>>

\* Mutant: the request ends without its audit entry.
WriteConfigUnlogged(h) ==
  LET r == requests[h] IN
  /\ r.at = "writeConfig"
  /\ config # NoConfig /\ Present(r.actor)
  /\ config' = [config EXCEPT !.updated_by = r.actor]
  /\ requests' = [requests EXCEPT ![h] = Idle]
  /\ UNCHANGED <<audit, refused, failed, users, merchants, quotas, ousted, crossed, writes>>

WriteConfig(h) ==
  LET r == requests[h] IN
  /\ r.at = "writeConfig"
  /\ config # NoConfig /\ Present(r.actor)
  /\ config' = [value |-> IF r.value = "none" THEN config.value ELSE r.value,
                type |-> IF r.type = "none" THEN config.type ELSE r.type,
                updated_by |-> r.actor]
  /\ crossed' = CASE r.value = "none" /\ r.type = "none" -> crossed
                  [] r.value # "none" /\ r.type # "none" -> FALSE
                  [] OTHER -> r.stale
  /\ SucceedOnConfig(h)

DeleteConfig(h) ==
  /\ requests[h].at = "ready"
  /\ config # NoConfig
  /\ config' = NoConfig
  /\ crossed' = FALSE
  /\ SucceedOnConfig(h)

-----------------------------------------------------------------------------
(* The audit entry, and the ways a request ends early.                      *)

CreateAuditLog(h) ==
  LET u == requests[h].actor IN
  /\ requests[h].at = "audit"
  /\ audit' = IF Present(u) THEN audit \cup {u} ELSE audit
  /\ refused' = IF Present(u) THEN refused ELSE refused \cup {u}
  /\ requests' = [requests EXCEPT ![h] = Idle]
  /\ UNCHANGED <<tables, failed, ousted, crossed, writes>>

\* Refused, failed or cut off by a crash: before its write the request has
\* changed nothing; after it, the entry is missing.
Abort(h) ==
  /\ requests[h] # Idle
  /\ failed' = IF requests[h].at = "audit" THEN failed \cup {requests[h].actor} ELSE failed
  /\ requests' = [requests EXCEPT ![h] = Idle]
  /\ UNCHANGED <<tables, audit, refused, ousted, crossed, writes>>

UserStep(h) ==
  \E u \in Users :
    \/ Authenticate(h, u) \/ DeleteUser(h, u)
    \/ \E role \in {"user", "admin"} : CreateUser(h, u, role) \/ UpdateUser(h, u, role)

MerchantStep(h) ==
  \E m \in Merchants : CreateMerchant(h, m) \/ UpdateMerchant(h, m) \/ DeleteMerchant(h, m)

QuotaStep(h) ==
  \E o \in Users \cup Merchants : AddQuota(h, o) \/ ChangeQuota(h, o) \/ RemoveQuota(h, o)

ConfigStep(h) ==
  \/ InsertConfig(h) \/ UpdateNothing(h) \/ UpdateOther(h) \/ WriteConfig(h)
  \/ DeleteConfig(h)
  \/ \E value \in Values, type \in Types : CreateConfig(h, value, type)
  \/ \E value \in Values, type \in Types \cup {"none"} : UpdateValue(h, value, type)
  \/ \E value \in Values \cup {"none"}, type \in Types : UpdateType(h, value, type)

Next ==
  \E h \in Requests :
    \/ UserStep(h) \/ MerchantStep(h) \/ QuotaStep(h) \/ ConfigStep(h)
    \/ CreateAuditLog(h) \/ Abort(h)

Spec == Init /\ [][Next]_vars

-----------------------------------------------------------------------------
(* Properties                                                              *)

\* Every variable has its type.
TypeOK ==
  /\ users \in [Users -> Role]
  /\ merchants \in [Merchants -> Users \cup {"absent", "deleted"}]
  /\ config \in Config \cup {NoConfig}
  /\ quotas \subseteq Users \cup Merchants
  /\ audit \subseteq Users /\ refused \subseteq Users /\ failed \subseteq Users
  /\ requests \in [Requests -> Request]
  /\ ousted \in BOOLEAN /\ crossed \in BOOLEAN
  /\ writes \in 0..MaxWrites

\* The log loses an entry to the deletion of its actor only if it has no entry of
\* him at all: one entry of an administrator keeps his row, and so all the later
\* ones (the entry is written after the change it tells of has been committed).
AuditLostOnlyWithItsActor ==
  \A u \in refused : users[u] = "deleted" /\ u \notin audit

\* Whoever a merchant or the configuration names as its author is in the log, or
\* is about to be, unless a query failed: his name in that row keeps the INSERT
\* of the entry from being refused.
AuthorsAreLogged ==
  \A u \in Users : Named(u) =>
    \/ u \in audit \cup failed
    \/ \E h \in Requests : requests[h].at = "audit" /\ requests[h].actor = u

\* The value of the configuration fits its type, although updateConfig checks and
\* writes in different statements, unless one column was written by a request
\* that had checked it against a row changed since.
ConfigFitsItsType ==
  TypeOK /\ (config # NoConfig /\ ~crossed => Fits(config.value, config.type))

\* Nobody but an administrator takes an administrator's role, and administrators
\* cannot remove each other until none is left: that takes someone who removes
\* himself, or a request let in before its actor lost the role.
SomeAdminRemains == (\E u \in Users : users[u] = "admin") \/ ousted
==============================================================================
