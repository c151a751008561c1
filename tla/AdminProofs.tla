------------------------------ MODULE AdminProofs ------------------------------
(***************************************************************************)
(* Proofs about the admin service: Admin for any number of users,          *)
(* merchants, requests and writes, and in the second part Quotas for any   *)
(* limits, requests and days.                                              *)
(***************************************************************************)
EXTENDS Admin, Quotas, FiniteSetTheorems, TLAPS

(* A request belongs to a user who was there when it began.                 *)

ActorsExisted ==
  \A h \in Requests : requests[h].at # "idle" =>
    requests[h].actor \in Users /\ users[requests[h].actor] # "absent"

(* Foreign keys name users who are there.                                   *)

NamedArePresent ==
  /\ \A u \in audit : Present(u)
  /\ \A u \in Users : Named(u) => Present(u)

(* What a request about to write the configuration knows: the value and the *)
(* type it brings fit, or what it brings fits the row unless it is stale.   *)

ChecksHold ==
  \A h \in Requests :
    LET r == requests[h] IN
    /\ r.at \in {"insertConfig", "checkType"} =>
         r.value \in Values /\ r.type \in Types /\ Fits(r.value, r.type)
    /\ r.at = "writeConfig" /\ r.value # "none" /\ r.type # "none" => Fits(r.value, r.type)
    /\ r.at = "writeConfig" /\ (r.value = "none" \/ r.type = "none") =>
         \/ r.value = "none" /\ r.type = "none"
         \/ r.stale
         \/ r.value # "none" /\ r.type = "none" /\ config # NoConfig /\ Fits(r.value, config.type)
         \/ r.value = "none" /\ r.type # "none" /\ (config # NoConfig => Fits(config.value, r.type))

(* A request let in that has not lost its rights has those of an            *)
(* administrator.                                                           *)

RolesAreKnown ==
  \A h \in Requests : requests[h].at \notin {"idle", "audit"} /\ ~requests[h].lost =>
    users[requests[h].actor] = "admin"

-----------------------------------------------------------------------------
(* Types.                                                                   *)

LEMMA IdleTyped ==
  /\ Idle \in Request /\ Idle.at = "idle" /\ Idle.actor = "none"
  /\ Idle.value = "none" /\ Idle.type = "none" /\ Idle.stale = FALSE /\ Idle.lost = FALSE
BY DEF Idle, Request

LEMMA NoConfigIsNone == NoConfig \notin Config /\ NoConfig.updated_by \notin Users
BY AdminAssumption DEF NoConfig, Config

LEMMA AdminInitTyped == Init => TypeOK
<1> SUFFICES ASSUME Init PROVE TypeOK
  OBVIOUS
<1>1. requests \in [Requests -> Request] /\ users \in [Users -> Role]
  BY IdleTyped DEF Init, Role
<1>2. writes \in 0..MaxWrites
  BY AdminAssumption DEF Init
<1>3. QED
  BY <1>1, <1>2 DEF Init, TypeOK

LEMMA FieldsTyped ==
  ASSUME NEW r \in Request
  PROVE  /\ \A b \in BOOLEAN : [r EXCEPT !.stale = b] \in Request
         /\ \A at \in {"insertConfig", "checkType", "writeConfig"},
               value \in Values \cup {"none"}, type \in Types \cup {"none"} :
               [r EXCEPT !.at = at, !.value = value, !.type = type, !.stale = FALSE] \in Request
BY DEF Request

LEMMA AuditsTyped ==
  ASSUME TypeOK, NEW h \in Requests
  PROVE  Audits(h) \in Request /\ Audits(h).at = "audit" /\ Audits(h).actor = requests[h].actor
BY DEF TypeOK, Audits, Request

\* What a change of a user's role does to the requests.
LEMMA RoleChange ==
  ASSUME TypeOK, NEW h \in Requests, NEW u, NEW role, SucceedOnRole(h, u, role),
         NEW g \in Requests
  PROVE  /\ requests'[g] \in Request
         /\ requests'[g].actor = requests[g].actor
         /\ IF g = h THEN requests'[g].at = "audit"
            ELSE /\ requests'[g].at = requests[g].at
                 /\ requests'[g].value = requests[g].value
                 /\ requests'[g].type = requests[g].type
                 /\ requests'[g].stale = requests[g].stale
                 /\ requests'[g].lost =
                      IF requests[g].actor = u /\ requests[g].at # "audit"
                      THEN role # "admin" ELSE requests[g].lost
<1>1. PICK r \in Request : r = requests[g]
  BY DEF TypeOK
<1>2. requests'[g] = IF g = h THEN Audits(h)
                     ELSE IF r.actor = u /\ r.at # "audit"
                          THEN [r EXCEPT !.lost = (role # "admin")] ELSE r
  BY <1>1 DEF SucceedOnRole
<1>3. (role # "admin") \in BOOLEAN
  OBVIOUS
<1>4. \A b \in BOOLEAN :
        /\ [r EXCEPT !.lost = b] \in Request
        /\ [r EXCEPT !.lost = b].actor = r.actor /\ [r EXCEPT !.lost = b].at = r.at
        /\ [r EXCEPT !.lost = b].value = r.value /\ [r EXCEPT !.lost = b].type = r.type
        /\ [r EXCEPT !.lost = b].stale = r.stale /\ [r EXCEPT !.lost = b].lost = b
  BY DEF Request
<1>5. CASE g = h
  BY <1>1, <1>2, <1>5, AuditsTyped
<1>6. CASE g # h
  <2>1. CASE r.actor = u /\ r.at # "audit"
    <3>1. PICK b \in BOOLEAN : b = (role # "admin")
      BY <1>3
    <3>2. requests'[g] = [r EXCEPT !.lost = b]
      BY <1>2, <1>6, <2>1, <3>1
    <3> QED BY <1>1, <1>4, <1>6, <2>1, <3>1, <3>2
  <2>2. CASE ~(r.actor = u /\ r.at # "audit")
    BY <1>1, <1>2, <1>6, <2>2
  <2> QED BY <2>1, <2>2
<1> QED BY <1>5, <1>6

LEMMA SucceedTyped ==
  ASSUME TypeOK, NEW h \in Requests,
         Succeed(h) \/ SucceedOnConfig(h) \/ (\E u, role : SucceedOnRole(h, u, role))
  PROVE  /\ writes' \in 0..MaxWrites
         /\ audit' \subseteq Users /\ refused' \subseteq Users /\ failed' \subseteq Users
         /\ requests' \in [Requests -> Request]
<1>1. writes' \in 0..MaxWrites
  BY AdminAssumption DEF TypeOK, Succeed, SucceedOnConfig, SucceedOnRole
<1>2. audit' \subseteq Users /\ refused' \subseteq Users /\ failed' \subseteq Users
  BY DEF TypeOK, Succeed, SucceedOnConfig, SucceedOnRole
<1>3. CASE Succeed(h)
  BY <1>1, <1>2, <1>3, AuditsTyped DEF TypeOK, Succeed
<1>4. CASE SucceedOnConfig(h)
  <2>1. \A g \in Requests :
          [requests[g] EXCEPT !.stale = requests[g].at \in {"checkType", "writeConfig"}] \in Request
    <3> TAKE g \in Requests
    <3>1. (requests[g].at \in {"checkType", "writeConfig"}) \in BOOLEAN
      OBVIOUS
    <3>2. requests[g] \in Request
      BY DEF TypeOK
    <3>3. QED
      BY <3>1, <3>2, FieldsTyped, Zenon
  <2>2. requests' \in [Requests -> Request]
    BY <1>4, <2>1, AuditsTyped DEF SucceedOnConfig
  <2>3. QED
    BY <1>1, <1>2, <2>2
<1>5. ASSUME NEW u, NEW role, SucceedOnRole(h, u, role)
      PROVE  requests' \in [Requests -> Request]
  <2>1. \A g \in Requests : requests'[g] \in Request
    BY <1>5, RoleChange
  <2> QED BY <1>5, <2>1 DEF SucceedOnRole
<1>6. QED
  BY <1>1, <1>2, <1>3, <1>4, <1>5

LEMMA AwaitTyped ==
  ASSUME TypeOK, NEW h \in Requests, NEW at \in {"insertConfig", "checkType", "writeConfig"},
         NEW value \in Values \cup {"none"}, NEW type \in Types \cup {"none"},
         Await(h, at, value, type)
  PROVE  TypeOK'
<1>1. requests[h] \in Request
  BY DEF TypeOK
<1>2. [requests[h] EXCEPT !.at = at, !.value = value, !.type = type, !.stale = FALSE] \in Request
  BY <1>1, FieldsTyped, Zenon
<1>3. requests' \in [Requests -> Request]
  BY <1>2 DEF TypeOK, Await
<1>4. QED
  BY <1>3 DEF TypeOK, Await, tables, history

LEMMA UserStepTyped ==
  ASSUME TypeOK, NEW h \in Requests, UserStep(h), ActorsExisted
  PROVE  TypeOK'
<1>1. ASSUME NEW u \in Users, Authenticate(h, u) PROVE TypeOK'
  BY <1>1, IdleTyped DEF TypeOK, Authenticate, Request, Idle, tables, history
<1>2. ASSUME NEW u \in Users, NEW role \in {"user", "admin"}, CreateUser(h, u, role)
      PROVE  TypeOK'
  BY <1>2, SucceedTyped DEF TypeOK, CreateUser, Role
<1>3. ASSUME NEW u \in Users, NEW role \in {"user", "admin"}, UpdateUser(h, u, role)
      PROVE  TypeOK'
  <2>1. ousted' \in BOOLEAN
    BY <1>3 DEF UpdateUser
  <2> QED BY <1>3, <2>1, SucceedTyped DEF TypeOK, UpdateUser, Role
<1>4. ASSUME NEW u \in Users, DeleteUser(h, u) PROVE TypeOK'
  <2>1. ousted' \in BOOLEAN
    BY <1>4 DEF DeleteUser
  <2> QED BY <1>4, <2>1, SucceedTyped DEF TypeOK, DeleteUser, Role
<1>5. QED
  BY <1>1, <1>2, <1>3, <1>4 DEF UserStep

LEMMA MerchantStepTyped ==
  ASSUME TypeOK, NEW h \in Requests, MerchantStep(h), ActorsExisted
  PROVE  TypeOK'
<1>1. ASSUME NEW m \in Merchants, CreateMerchant(h, m) PROVE TypeOK'
  BY <1>1, SucceedTyped DEF TypeOK, ActorsExisted, CreateMerchant
<1>2. ASSUME NEW m \in Merchants, UpdateMerchant(h, m) PROVE TypeOK'
  BY <1>2, SucceedTyped DEF TypeOK, UpdateMerchant, tables
<1>3. ASSUME NEW m \in Merchants, DeleteMerchant(h, m) PROVE TypeOK'
  BY <1>3, SucceedTyped DEF TypeOK, DeleteMerchant
<1>4. QED
  BY <1>1, <1>2, <1>3 DEF MerchantStep

LEMMA QuotaStepTyped ==
  ASSUME TypeOK, NEW h \in Requests, QuotaStep(h)
  PROVE  TypeOK'
<1>1. ASSUME NEW o \in Users \cup Merchants, AddQuota(h, o) PROVE TypeOK'
  BY <1>1, SucceedTyped DEF TypeOK, AddQuota
<1>2. ASSUME NEW o \in Users \cup Merchants, ChangeQuota(h, o) PROVE TypeOK'
  BY <1>2, SucceedTyped DEF TypeOK, ChangeQuota, tables
<1>3. ASSUME NEW o \in Users \cup Merchants, RemoveQuota(h, o) PROVE TypeOK'
  BY <1>3, SucceedTyped DEF TypeOK, RemoveQuota
<1>4. QED
  BY <1>1, <1>2, <1>3 DEF QuotaStep

LEMMA ConfigStepTyped ==
  ASSUME TypeOK, NEW h \in Requests, ConfigStep(h), ActorsExisted, ChecksHold
  PROVE  TypeOK'
<1> USE DEF ConfigStep
<1>1. ASSUME InsertConfig(h) PROVE TypeOK'
  <2>1. /\ requests[h].value \in Values /\ requests[h].type \in Types
        /\ requests[h].actor \in Users
    BY <1>1 DEF InsertConfig, ChecksHold, ActorsExisted
  <2>2. config' \in Config
    BY <1>1, <2>1 DEF InsertConfig, Config
  <2>3. QED
    BY <1>1, <2>2, SucceedTyped DEF TypeOK, InsertConfig, SucceedOnConfig
<1>2. ASSUME UpdateNothing(h) PROVE TypeOK'
  BY <1>2, SucceedTyped DEF TypeOK, UpdateNothing, tables
<1>3. ASSUME UpdateOther(h) PROVE TypeOK'
  BY <1>3, AwaitTyped DEF UpdateOther
<1>4. ASSUME WriteConfig(h) PROVE TypeOK'
  <2>1. /\ requests[h].value \in Values \cup {"none"}
        /\ requests[h].type \in Types \cup {"none"}
        /\ requests[h].actor \in Users
    BY <1>4 DEF WriteConfig, TypeOK, Request, ActorsExisted
  <2>2. config \in Config
    BY <1>4 DEF WriteConfig, TypeOK
  <2>3. config' \in Config
    BY <1>4, <2>1, <2>2 DEF WriteConfig, Config
  <2>4. crossed' \in BOOLEAN
    <3>1. requests[h].stale \in BOOLEAN /\ crossed \in BOOLEAN
      BY DEF TypeOK, Request
    <3>2. QED
      BY <1>4, <3>1 DEF WriteConfig
  <2>5. QED
    BY <1>4, <2>3, <2>4, SucceedTyped DEF TypeOK, WriteConfig, SucceedOnConfig
<1>5. ASSUME DeleteConfig(h) PROVE TypeOK'
  BY <1>5, SucceedTyped DEF TypeOK, DeleteConfig, SucceedOnConfig
<1>6. ASSUME NEW value \in Values, NEW type \in Types, CreateConfig(h, value, type)
      PROVE  TypeOK'
  BY <1>6, AwaitTyped DEF CreateConfig
<1>7. ASSUME NEW value \in Values, NEW type \in Types \cup {"none"}, UpdateValue(h, value, type)
      PROVE  TypeOK'
  BY <1>7, AwaitTyped DEF UpdateValue
<1>8. ASSUME NEW value \in Values \cup {"none"}, NEW type \in Types, UpdateType(h, value, type)
      PROVE  TypeOK'
  BY <1>8, AwaitTyped DEF UpdateType
<1>9. QED
  BY <1>1, <1>2, <1>3, <1>4, <1>5, <1>6, <1>7, <1>8

LEMMA AuditStepTyped ==
  ASSUME TypeOK, NEW h \in Requests, CreateAuditLog(h) \/ Abort(h), ActorsExisted
  PROVE  TypeOK'
<1>1. CASE CreateAuditLog(h)
  BY <1>1, IdleTyped DEF TypeOK, CreateAuditLog, ActorsExisted, tables
<1>2. CASE Abort(h)
  BY <1>2, IdleTyped DEF TypeOK, Abort, ActorsExisted, tables
<1>3. QED
  BY <1>1, <1>2

-----------------------------------------------------------------------------
(* Actors.                                                                  *)

\* A step that takes no user out of the table for good and lets no request
\* change its actor.
KeepsActors ==
  /\ \A u \in Users : users[u] # "absent" => users'[u] # "absent"
  /\ \A g \in Requests : requests'[g].at # "idle" =>
       requests[g].at # "idle" /\ requests'[g].actor = requests[g].actor

LEMMA RequestsKeepActors ==
  ASSUME TypeOK, NEW h \in Requests, requests[h].at # "idle",
         \/ Succeed(h) \/ SucceedOnConfig(h) \/ \E u, role : SucceedOnRole(h, u, role)
         \/ requests' = [requests EXCEPT ![h] = Idle]
         \/ \E at, value, type : Await(h, at, value, type)
  PROVE  \A g \in Requests : requests'[g].at # "idle" =>
           requests[g].at # "idle" /\ requests'[g].actor = requests[g].actor
<1> TAKE g \in Requests
<1>1. requests \in [Requests -> Request]
  BY DEF TypeOK
<1>2. CASE Succeed(h)
  BY <1>1, <1>2, AuditsTyped DEF Succeed, Request
<1>3. CASE SucceedOnConfig(h)
  BY <1>1, <1>3, AuditsTyped DEF SucceedOnConfig, Request
<1>4. CASE requests' = [requests EXCEPT ![h] = Idle]
  BY <1>1, <1>4, IdleTyped
<1>5. CASE \E at, value, type : Await(h, at, value, type)
  <2>1. PICK at, value, type : Await(h, at, value, type)
    BY <1>5
  <2>2. requests' = [requests EXCEPT ![h] =
          [requests[h] EXCEPT !.at = at, !.value = value, !.type = type, !.stale = FALSE]]
    BY <2>1, <1>1 DEF Await
  <2>3. requests[h] \in Request
    BY <1>1
  <2>4. [requests[h] EXCEPT !.at = at, !.value = value, !.type = type, !.stale = FALSE].actor
          = requests[h].actor
    BY <2>3 DEF Request
  <2>5. QED
    BY <2>2, <2>4, <1>1
<1>6. ASSUME NEW u, NEW role, SucceedOnRole(h, u, role)
      PROVE  requests'[g].at # "idle" =>
               requests[g].at # "idle" /\ requests'[g].actor = requests[g].actor
  BY <1>6, RoleChange
<1>7. QED
  BY <1>2, <1>3, <1>4, <1>5, <1>6

LEMMA StepsKeepActors ==
  ASSUME TypeOK, NEW h \in Requests,
         \/ UserStep(h) /\ ~(\E u \in Users : Authenticate(h, u))
         \/ MerchantStep(h) \/ QuotaStep(h) \/ ConfigStep(h)
         \/ CreateAuditLog(h) \/ Abort(h)
  PROVE  KeepsActors
<1>1. \A u \in Users : users[u] # "absent" => users'[u] # "absent"
  <2>1. CASE UserStep(h) /\ ~(\E u \in Users : Authenticate(h, u))
    BY <2>1 DEF TypeOK, UserStep, CreateUser, UpdateUser, DeleteUser
  <2>2. CASE MerchantStep(h)
    BY <2>2 DEF MerchantStep, CreateMerchant, UpdateMerchant, DeleteMerchant, tables
  <2>3. CASE QuotaStep(h)
    BY <2>3 DEF QuotaStep, AddQuota, ChangeQuota, RemoveQuota, tables
  <2>4. CASE ConfigStep(h)
    BY <2>4 DEF ConfigStep, InsertConfig, UpdateNothing, UpdateOther, WriteConfig, DeleteConfig,
                CreateConfig, UpdateValue, UpdateType, Await, SucceedOnConfig, tables
  <2>5. CASE CreateAuditLog(h) \/ Abort(h)
    BY <2>5 DEF CreateAuditLog, Abort, tables
  <2>6. QED
    BY <2>1, <2>2, <2>3, <2>4, <2>5
<1>2. \A g \in Requests : requests'[g].at # "idle" =>
        requests[g].at # "idle" /\ requests'[g].actor = requests[g].actor
  <2>1. CASE UserStep(h) /\ ~(\E u \in Users : Authenticate(h, u))
    <3>1. requests[h].at = "ready"
          /\ (Succeed(h) \/ \E u, role : SucceedOnRole(h, u, role))
      BY <2>1, Zenon DEF UserStep, CreateUser, UpdateUser, DeleteUser
    <3>2. QED
      BY <3>1, RequestsKeepActors
  <2>2. CASE MerchantStep(h) \/ QuotaStep(h)
    <3>1. requests[h].at = "ready" /\ Succeed(h)
      BY <2>2 DEF MerchantStep, CreateMerchant, UpdateMerchant, DeleteMerchant,
                  QuotaStep, AddQuota, ChangeQuota, RemoveQuota
    <3>2. QED
      BY <3>1, RequestsKeepActors
  <2>3. CASE ConfigStep(h)
    <3>1. /\ requests[h].at # "idle"
          /\ \/ Succeed(h) \/ SucceedOnConfig(h)
             \/ \E at, value, type : Await(h, at, value, type)
      BY <2>3 DEF ConfigStep, InsertConfig, UpdateNothing, UpdateOther, WriteConfig, DeleteConfig,
                  CreateConfig, UpdateValue, UpdateType
    <3>2. QED
      BY <3>1, RequestsKeepActors
  <2>4. CASE CreateAuditLog(h) \/ Abort(h)
    <3>1. requests' = [requests EXCEPT ![h] = Idle]
      BY <2>4 DEF CreateAuditLog, Abort
    <3>2. QED
      BY <3>1, IdleTyped DEF TypeOK
  <2>5. QED
    BY <2>1, <2>2, <2>3, <2>4
<1>3. QED
  BY <1>1, <1>2 DEF KeepsActors

LEMMA ActorsStep ==
  ASSUME TypeOK, ActorsExisted, NEW h \in Requests,
         \/ UserStep(h) \/ MerchantStep(h) \/ QuotaStep(h) \/ ConfigStep(h)
         \/ CreateAuditLog(h) \/ Abort(h)
  PROVE  ActorsExisted'
<1>1. CASE \E u \in Users : Authenticate(h, u)
  BY <1>1, IdleTyped DEF TypeOK, ActorsExisted, Authenticate, Idle, tables
<1>2. CASE ~(\E u \in Users : Authenticate(h, u))
  BY <1>2, StepsKeepActors DEF ActorsExisted, KeepsActors
<1>3. QED
  BY <1>1, <1>2

-----------------------------------------------------------------------------
(* The audit log.                                                           *)

\* Who is named after a write was named before, or is the author of the write.
NamesOnly(h) == \A u \in Users : Named(u)' => Named(u) \/ u = requests[h].actor

LEMMA WritesNameTheirAuthor ==
  ASSUME TypeOK, ActorsExisted, NamedArePresent, NEW h \in Requests,
         UserStep(h) \/ MerchantStep(h) \/ QuotaStep(h) \/ ConfigStep(h)
  PROVE  NamesOnly(h) /\ NamedArePresent'
<1> USE DEF NamesOnly, NamedArePresent, Named, Present
<1>1. CASE UserStep(h)
  <2>1. UNCHANGED <<merchants, config, audit>>
    BY <1>1 DEF UserStep, Authenticate, CreateUser, UpdateUser, DeleteUser, Succeed,
                SucceedOnRole, tables
  <2>2. \A u \in Users : Present(u) /\ (Named(u) \/ u \in audit) => Present(u)'
    BY <1>1 DEF TypeOK, UserStep, Authenticate, CreateUser, UpdateUser, DeleteUser, Referenced, tables
  <2>3. QED
    BY <2>1, <2>2 DEF TypeOK
<1>2. CASE MerchantStep(h)
  <2>1. UNCHANGED <<users, config, audit>>
    BY <1>2 DEF MerchantStep, CreateMerchant, UpdateMerchant, DeleteMerchant, Succeed, tables
  <2>2. \A m \in Merchants :
          \/ merchants'[m] = merchants[m] \/ merchants'[m] = "deleted"
          \/ merchants'[m] = requests[h].actor /\ Present(requests[h].actor)
    BY <1>2 DEF TypeOK, MerchantStep, CreateMerchant, UpdateMerchant, DeleteMerchant, tables
  <2>3. "deleted" \notin Users
    BY AdminAssumption
  <2>4. QED
    BY <2>1, <2>2, <2>3
<1>3. CASE QuotaStep(h)
  BY <1>3 DEF QuotaStep, AddQuota, ChangeQuota, RemoveQuota, Succeed, tables
<1>4. CASE ConfigStep(h)
  <2>1. UNCHANGED <<users, merchants, audit>>
    BY <1>4 DEF ConfigStep, InsertConfig, UpdateNothing, UpdateOther, WriteConfig, DeleteConfig,
                CreateConfig, UpdateValue, UpdateType, Await, Succeed, SucceedOnConfig, tables
  <2>2. \/ config'.updated_by = config.updated_by \/ config' = NoConfig
        \/ config'.updated_by = requests[h].actor /\ Present(requests[h].actor)
    <3>1. CASE InsertConfig(h) \/ WriteConfig(h)
      <4>1. /\ InsertConfig(h) => config'.updated_by = requests[h].actor
            /\ WriteConfig(h) => config'.updated_by = requests[h].actor
        <5>1. ASSUME InsertConfig(h) PROVE config'.updated_by = requests[h].actor
          BY <5>1 DEF InsertConfig
        <5>2. ASSUME WriteConfig(h) PROVE config'.updated_by = requests[h].actor
          BY <5>2 DEF WriteConfig
        <5>3. QED
          BY <5>1, <5>2
      <4>2. Present(requests[h].actor)
        BY <3>1 DEF InsertConfig, WriteConfig
      <4>3. QED
        BY <3>1, <4>1, <4>2
    <3>2. CASE DeleteConfig(h)
      BY <3>2 DEF DeleteConfig
    <3>3. CASE UNCHANGED config
      BY <3>3
    <3>4. QED
      BY <1>4, <3>1, <3>2, <3>3
      DEF ConfigStep, UpdateNothing, UpdateOther, CreateConfig, UpdateValue, UpdateType, Await, tables
  <2>3. NoConfig.updated_by \notin Users
    BY NoConfigIsNone
  <2>4. QED
    BY <2>1, <2>2, <2>3
<1>5. QED
  BY <1>1, <1>2, <1>3, <1>4

\* The entries a request may still write, of those the log needs.
LEMMA PendingEntriesKept ==
  ASSUME TypeOK, NEW h \in Requests,
         UserStep(h) \/ MerchantStep(h) \/ QuotaStep(h) \/ ConfigStep(h)
  PROVE  /\ \A g \in Requests : requests[g].at = "audit" =>
              requests'[g].at = "audit" /\ requests'[g].actor = requests[g].actor
         /\ \/ UNCHANGED <<merchants, config>>
            \/ requests'[h].at = "audit" /\ requests'[h].actor = requests[h].actor
         /\ UNCHANGED <<audit, refused, failed>>
<1>1. requests \in [Requests -> Request]
  BY DEF TypeOK
<1>2. CASE Succeed(h) /\ requests[h].at # "audit"
  BY <1>1, <1>2, AuditsTyped DEF Succeed
<1>3. CASE SucceedOnConfig(h) /\ requests[h].at # "audit"
  BY <1>1, <1>3, AuditsTyped DEF SucceedOnConfig, Request
<1>4. CASE /\ requests[h].at # "audit" /\ UNCHANGED <<merchants, config, audit, refused, failed>>
           /\ \E r : requests' = [requests EXCEPT ![h] = r]
  BY <1>1, <1>4
<1>5. CASE UserStep(h)
  <2>1. \/ Succeed(h) /\ requests[h].at = "ready" /\ UNCHANGED <<merchants, config>>
        \/ /\ \E u, role : SucceedOnRole(h, u, role)
           /\ requests[h].at = "ready" /\ UNCHANGED <<merchants, config>>
        \/ \E u \in Users : Authenticate(h, u)
    BY <1>5, Zenon DEF UserStep, CreateUser, UpdateUser, DeleteUser
  <2>2. ASSUME NEW u \in Users, Authenticate(h, u)
        PROVE  /\ requests[h].at # "audit" /\ UNCHANGED <<merchants, config, audit, refused, failed>>
               /\ \E r : requests' = [requests EXCEPT ![h] = r]
    BY <2>2, IdleTyped DEF Authenticate, tables, history
  <2>3. ASSUME NEW u, NEW role, SucceedOnRole(h, u, role), requests[h].at = "ready"
        PROVE  /\ \A g \in Requests : requests[g].at = "audit" =>
                    requests'[g].at = "audit" /\ requests'[g].actor = requests[g].actor
               /\ UNCHANGED <<audit, refused, failed>>
    BY <2>3, RoleChange DEF SucceedOnRole
  <2>4. QED
    BY <2>1, <2>2, <2>3, <1>2, <1>4
<1>6. CASE MerchantStep(h) \/ QuotaStep(h)
  <2>1. Succeed(h) /\ requests[h].at = "ready"
    BY <1>6 DEF MerchantStep, CreateMerchant, UpdateMerchant, DeleteMerchant,
                QuotaStep, AddQuota, ChangeQuota, RemoveQuota
  <2>2. QED
    BY <2>1, <1>2
<1>7. CASE ConfigStep(h)
  <2>1. /\ requests[h].at # "audit"
        /\ \/ Succeed(h) \/ SucceedOnConfig(h)
           \/ \E at, value, type : Await(h, at, value, type)
    BY <1>7 DEF ConfigStep, InsertConfig, UpdateNothing, UpdateOther, WriteConfig, DeleteConfig,
                CreateConfig, UpdateValue, UpdateType
  <2>2. ASSUME NEW at, NEW value, NEW type, Await(h, at, value, type)
        PROVE  /\ UNCHANGED <<merchants, config, audit, refused, failed>>
               /\ \E r : requests' = [requests EXCEPT ![h] = r]
    BY <2>2, <1>1 DEF Await, tables, history
  <2>3. QED
    BY <2>1, <2>2, <1>2, <1>3, <1>4
<1>8. QED
  BY <1>5, <1>6, <1>7

LEMMA LogStep ==
  ASSUME TypeOK, ActorsExisted, NamedArePresent, AuthorsAreLogged, AuditLostOnlyWithItsActor,
         NEW h \in Requests,
         \/ UserStep(h) \/ MerchantStep(h) \/ QuotaStep(h) \/ ConfigStep(h)
         \/ CreateAuditLog(h) \/ Abort(h)
  PROVE  NamedArePresent' /\ AuthorsAreLogged' /\ AuditLostOnlyWithItsActor'
<1>1. CASE UserStep(h) \/ MerchantStep(h) \/ QuotaStep(h) \/ ConfigStep(h)
  <2>1. NamedArePresent'
    BY <1>1, WritesNameTheirAuthor
  <2>2. AuthorsAreLogged'
    <3> SUFFICES ASSUME NEW u \in Users, Named(u)'
                 PROVE  \/ u \in audit' \cup failed'
                        \/ \E g \in Requests : requests'[g].at = "audit" /\ requests'[g].actor = u
      BY DEF AuthorsAreLogged
    <3>1. CASE Named(u)
      BY <3>1, <1>1, PendingEntriesKept DEF AuthorsAreLogged
    <3>2. CASE ~Named(u)
      <4>1. u = requests[h].actor
        BY <3>2, <1>1, WritesNameTheirAuthor DEF NamesOnly
      <4>2. ~(UNCHANGED <<merchants, config>>)
        BY <3>2 DEF Named
      <4>3. QED
        BY <4>1, <4>2, <1>1, PendingEntriesKept
    <3>3. QED
      BY <3>1, <3>2
  <2>3. AuditLostOnlyWithItsActor'
    <3>1. \A u \in Users : users[u] = "deleted" => users'[u] = "deleted"
      BY <1>1 DEF TypeOK, Present, UserStep, Authenticate, CreateUser, UpdateUser, DeleteUser,
                  MerchantStep, CreateMerchant, UpdateMerchant, DeleteMerchant,
                  QuotaStep, AddQuota, ChangeQuota, RemoveQuota,
                  ConfigStep, InsertConfig, UpdateNothing, UpdateOther, WriteConfig, DeleteConfig,
                  CreateConfig, UpdateValue, UpdateType, Await, SucceedOnConfig, tables
    <3>2. QED
      BY <3>1, <1>1, PendingEntriesKept DEF AuditLostOnlyWithItsActor, TypeOK
  <2>4. QED
    BY <2>1, <2>2, <2>3
<1>2. CASE CreateAuditLog(h)
  <2> DEFINE u == requests[h].actor
  <2>1. u \in Users /\ users[u] # "absent"
    BY <1>2 DEF CreateAuditLog, ActorsExisted
  <2>2. UNCHANGED <<users, merchants, config, failed>>
    BY <1>2 DEF CreateAuditLog, tables
  <2>3. NamedArePresent'
    BY <1>2, <2>2 DEF NamedArePresent, Named, Present, CreateAuditLog
  <2>4. AuthorsAreLogged'
    <3> SUFFICES ASSUME NEW v \in Users, Named(v)
                 PROVE  \/ v \in audit' \cup failed'
                        \/ \E g \in Requests : requests'[g].at = "audit" /\ requests'[g].actor = v
      BY <2>2 DEF AuthorsAreLogged, Named
    <3>1. Present(v)
      BY DEF NamedArePresent
    <3>2. CASE v = u
      BY <3>1, <3>2, <1>2 DEF CreateAuditLog
    <3>3. CASE v # u
      BY <3>3, <1>2, <2>2 DEF CreateAuditLog, AuthorsAreLogged, TypeOK
    <3>4. QED
      BY <3>2, <3>3
  <2>5. AuditLostOnlyWithItsActor'
    BY <1>2, <2>1, <2>2 DEF CreateAuditLog, AuditLostOnlyWithItsActor, NamedArePresent, Present,
                            TypeOK, Role
  <2>6. QED
    BY <2>3, <2>4, <2>5
<1>3. CASE Abort(h)
  <2>1. UNCHANGED <<users, merchants, config, audit, refused>>
    BY <1>3 DEF Abort, tables
  <2>2. AuthorsAreLogged'
    BY <1>3, <2>1 DEF AuthorsAreLogged, Named, Abort, TypeOK
  <2>3. QED
    BY <2>1, <2>2 DEF NamedArePresent, Named, Present, AuditLostOnlyWithItsActor
<1>4. QED
  BY <1>1, <1>2, <1>3

-----------------------------------------------------------------------------
(* The configuration.                                                       *)

ConfigFits == config # NoConfig /\ ~crossed => Fits(config.value, config.type)

LEMMA ValuesAreNotNone == "none" \notin Values /\ "none" \notin Types
BY AdminAssumption

\* A step that leaves the configuration alone and at most moves h to a state that
\* ChecksHold allows.
LEMMA ChecksKept ==
  ASSUME TypeOK, ChecksHold, NEW h \in Requests, NEW state \in Request,
         requests' = [requests EXCEPT ![h] = state], UNCHANGED config,
         state.at \notin {"insertConfig", "checkType", "writeConfig"}
  PROVE  ChecksHold'
BY DEF ChecksHold, TypeOK, Fits

LEMMA SucceedKeepsChecks ==
  ASSUME TypeOK, ChecksHold, NEW h \in Requests, Succeed(h), UNCHANGED config
  PROVE  ChecksHold'
BY AuditsTyped, ChecksKept DEF Succeed

LEMMA RoleKeepsChecks ==
  ASSUME TypeOK, ChecksHold, NEW h \in Requests, NEW u, NEW role, SucceedOnRole(h, u, role),
         UNCHANGED config
  PROVE  ChecksHold'
BY RoleChange DEF ChecksHold, Fits

\* After a write of the configuration every other check of it is stale.
LEMMA ConfigWriteKeepsChecks ==
  ASSUME TypeOK, ChecksHold, NEW h \in Requests, SucceedOnConfig(h)
  PROVE  ChecksHold'
<1> SUFFICES ASSUME NEW g \in Requests
             PROVE  LET r == requests'[g] IN
                    /\ r.at \in {"insertConfig", "checkType"} =>
                         r.value \in Values /\ r.type \in Types /\ Fits(r.value, r.type)
                    /\ r.at = "writeConfig" /\ r.value # "none" /\ r.type # "none" =>
                         Fits(r.value, r.type)
                    /\ r.at = "writeConfig" => r.stale
  BY DEF ChecksHold
<1>1. CASE g = h
  BY <1>1, AuditsTyped DEF SucceedOnConfig
<1>2. CASE g # h
  <2>1. requests'[g] = [requests[g] EXCEPT !.stale = requests[g].at \in {"checkType", "writeConfig"}]
    BY <1>2 DEF SucceedOnConfig
  <2>2. requests[g] \in Request
    BY DEF TypeOK
  <2>3. /\ requests'[g].at = requests[g].at /\ requests'[g].value = requests[g].value
        /\ requests'[g].type = requests[g].type
        /\ requests'[g].stale = (requests[g].at \in {"checkType", "writeConfig"})
    BY <2>1, <2>2 DEF Request
  <2>4. QED
    BY <2>3 DEF ChecksHold, Fits
<1>3. QED
  BY <1>1, <1>2

LEMMA AwaitKeepsChecks ==
  ASSUME TypeOK, ChecksHold, NEW h \in Requests,
         NEW at \in {"insertConfig", "checkType", "writeConfig"},
         NEW value \in Values \cup {"none"}, NEW type \in Types \cup {"none"},
         Await(h, at, value, type),
         at \in {"insertConfig", "checkType"} => value # "none" /\ type # "none",
         value # "none" /\ type # "none" => Fits(value, type),
         value # "none" /\ type = "none" => config # NoConfig /\ Fits(value, config.type),
         value = "none" /\ type # "none" => (config # NoConfig => Fits(config.value, type))
  PROVE  ChecksHold'
<1> DEFINE state == [requests[h] EXCEPT !.at = at, !.value = value, !.type = type, !.stale = FALSE]
<1>1. requests[h] \in Request /\ requests \in [Requests -> Request]
  BY DEF TypeOK
<1>2. state.at = at /\ state.value = value /\ state.type = type
  BY <1>1 DEF Request
<1>3. requests' = [requests EXCEPT ![h] = state] /\ config' = config
  BY <1>1 DEF Await, tables
<1> HIDE DEF state
<1> SUFFICES ASSUME NEW g \in Requests
             PROVE  LET r == requests'[g] IN
    /\ r.at \in {"insertConfig", "checkType"} =>
         r.value \in Values /\ r.type \in Types /\ Fits(r.value, r.type)
    /\ r.at = "writeConfig" /\ r.value # "none" /\ r.type # "none" => Fits(r.value, r.type)
    /\ r.at = "writeConfig" /\ (r.value = "none" \/ r.type = "none") =>
         \/ r.value = "none" /\ r.type = "none"
         \/ r.stale
         \/ r.value # "none" /\ r.type = "none" /\ config # NoConfig /\ Fits(r.value, config.type)
         \/ r.value = "none" /\ r.type # "none" /\ (config # NoConfig => Fits(config.value, r.type))
  BY <1>3 DEF ChecksHold, Fits
<1>4. CASE g = h
  <2>1. requests'[g] = state
    BY <1>1, <1>3, <1>4
  <2>2. QED
    BY <2>1, <1>2 DEF Fits
<1>5. CASE g # h
  <2>1. requests'[g] = requests[g]
    BY <1>1, <1>3, <1>5
  <2>2. QED
    BY <2>1 DEF ChecksHold
<1>6. QED
  BY <1>4, <1>5

LEMMA ConfigStepKeepsChecks ==
  ASSUME TypeOK, ChecksHold, ConfigFits, NEW h \in Requests, ConfigStep(h)
  PROVE  ChecksHold' /\ ConfigFits'
<1> USE DEF ConfigStep
<1>1. ASSUME InsertConfig(h) PROVE ChecksHold' /\ ConfigFits'
  BY <1>1, ConfigWriteKeepsChecks DEF InsertConfig, ChecksHold, ConfigFits, Fits
<1>2. ASSUME UpdateNothing(h) PROVE ChecksHold' /\ ConfigFits'
  BY <1>2, SucceedKeepsChecks DEF UpdateNothing, ConfigFits, tables, Fits
<1>3. ASSUME UpdateOther(h) PROVE ChecksHold' /\ ConfigFits'
  BY <1>3, AwaitKeepsChecks DEF UpdateOther, ConfigFits, Await, tables, history, Fits
<1>4. ASSUME WriteConfig(h) PROVE ChecksHold' /\ ConfigFits'
  <2>1. ChecksHold'
    BY <1>4, ConfigWriteKeepsChecks DEF WriteConfig
  <2>2. /\ requests[h].stale \in BOOLEAN /\ crossed \in BOOLEAN
        /\ requests[h].value \in Values \cup {"none"} /\ requests[h].type \in Types \cup {"none"}
    BY DEF TypeOK, Request
  <2> DEFINE v == requests[h].value
             t == requests[h].type
  <2>3. /\ config # NoConfig /\ requests[h].at = "writeConfig"
        /\ config'.value = IF v = "none" THEN config.value ELSE v
        /\ config'.type = IF t = "none" THEN config.type ELSE t
    BY <1>4 DEF WriteConfig
  <2>4. CASE v = "none" /\ t = "none"
    <3>1. crossed' = crossed
      BY <1>4, <2>4 DEF WriteConfig
    <3>2. QED
      BY <2>1, <2>3, <2>4, <3>1 DEF ConfigFits, Fits
  <2>5. CASE v # "none" /\ t # "none"
    BY <2>1, <2>3, <2>5 DEF ChecksHold, ConfigFits, Fits
  <2>6. CASE (v = "none") # (t = "none")
    <3>1. crossed' = requests[h].stale
      BY <1>4, <2>6 DEF WriteConfig
    <3>2. QED
      BY <2>1, <2>2, <2>3, <2>6, <3>1 DEF ChecksHold, ConfigFits, Fits
  <2>7. QED
    BY <2>4, <2>5, <2>6
<1>5. ASSUME DeleteConfig(h) PROVE ChecksHold' /\ ConfigFits'
  BY <1>5, ConfigWriteKeepsChecks DEF DeleteConfig, ConfigFits
<1>6. ASSUME NEW value \in Values, NEW type \in Types, CreateConfig(h, value, type)
      PROVE  ChecksHold' /\ ConfigFits'
  BY <1>6, AwaitKeepsChecks, ValuesAreNotNone
  DEF CreateConfig, ConfigFits, Await, tables, history, Fits
<1>7. ASSUME NEW value \in Values, NEW type \in Types \cup {"none"}, UpdateValue(h, value, type)
      PROVE  ChecksHold' /\ ConfigFits'
  BY <1>7, AwaitKeepsChecks, ValuesAreNotNone
  DEF UpdateValue, ConfigFits, Await, tables, history, Fits
<1>8. ASSUME NEW value \in Values \cup {"none"}, NEW type \in Types, UpdateType(h, value, type)
      PROVE  ChecksHold' /\ ConfigFits'
  <2>1. value # "none" => Fits(value, type)
    BY <1>8 DEF UpdateType, ChecksHold
  <2>2. QED
    BY <1>8, <2>1, AwaitKeepsChecks, ValuesAreNotNone
    DEF UpdateType, ConfigFits, Await, tables, history, Fits
<1>9. QED
  BY <1>1, <1>2, <1>3, <1>4, <1>5, <1>6, <1>7, <1>8

LEMMA ConfigFitsStep ==
  ASSUME TypeOK, ChecksHold, ConfigFits, NEW h \in Requests,
         \/ UserStep(h) \/ MerchantStep(h) \/ QuotaStep(h) \/ ConfigStep(h)
         \/ CreateAuditLog(h) \/ Abort(h)
  PROVE  ChecksHold' /\ ConfigFits'
<1>1. CASE ConfigStep(h)
  BY <1>1, ConfigStepKeepsChecks
<1>2. CASE \E u \in Users : Authenticate(h, u)
  <2>1. PICK u \in Users : Authenticate(h, u)
    BY <1>2
  <2>2. /\ [Idle EXCEPT !.at = "ready", !.actor = u] \in Request
        /\ [Idle EXCEPT !.at = "ready", !.actor = u].at = "ready"
    BY DEF Idle, Request
  <2>3. ChecksHold'
    BY <2>1, <2>2, ChecksKept DEF Authenticate, tables
  <2>4. QED
    BY <2>1, <2>3 DEF Authenticate, ConfigFits, Fits, tables, history
<1>3. CASE CreateAuditLog(h) \/ Abort(h)
  <2>1. ChecksHold'
    BY <1>3, IdleTyped, ChecksKept DEF CreateAuditLog, Abort, tables
  <2>2. QED
    BY <1>3, <2>1 DEF CreateAuditLog, Abort, ConfigFits, Fits, tables
<1>4. CASE /\ UserStep(h) \/ MerchantStep(h) \/ QuotaStep(h)
           /\ ~(\E u \in Users : Authenticate(h, u))
  <2>1. /\ Succeed(h) \/ \E u, role : SucceedOnRole(h, u, role)
        /\ UNCHANGED <<config, crossed>>
    BY <1>4, Zenon DEF UserStep, CreateUser, UpdateUser, DeleteUser,
                MerchantStep, CreateMerchant, UpdateMerchant, DeleteMerchant,
                QuotaStep, AddQuota, ChangeQuota, RemoveQuota, tables
  <2>2. QED
    BY <2>1, SucceedKeepsChecks, RoleKeepsChecks DEF ConfigFits, Fits
<1>5. QED
  BY <1>1, <1>2, <1>3, <1>4

-----------------------------------------------------------------------------
(* The last administrator.                                                  *)

(* A request that is let in, or that a step moves on, has the rights it is  *)
(* taken to have: whoever takes them marks the requests of that user.       *)

LEMMA RolesKept ==
  ASSUME TypeOK, RolesAreKnown, NEW h \in Requests, users' = users,
         \A g \in Requests \ {h} :
           /\ requests'[g].at = requests[g].at /\ requests'[g].actor = requests[g].actor
           /\ requests'[g].lost = requests[g].lost,
         \/ requests'[h].at \in {"idle", "audit"}
         \/ /\ requests[h].at \notin {"idle", "audit"}
            /\ requests'[h].actor = requests[h].actor /\ requests'[h].lost = requests[h].lost
         \/ users[requests'[h].actor] = "admin"
  PROVE  RolesAreKnown'
<1> SUFFICES ASSUME NEW g \in Requests, requests'[g].at \notin {"idle", "audit"},
                    ~requests'[g].lost
             PROVE  users[requests'[g].actor] = "admin"
  BY DEF RolesAreKnown
<1>1. CASE g = h
  BY <1>1 DEF RolesAreKnown
<1>2. CASE g # h
  BY <1>2 DEF RolesAreKnown
<1> QED BY <1>1, <1>2

LEMMA AwaitKeepsRoles ==
  ASSUME TypeOK, RolesAreKnown, NEW h \in Requests, NEW at, NEW value, NEW type,
         requests[h].at \notin {"idle", "audit"}, Await(h, at, value, type)
  PROVE  RolesAreKnown'
<1>1. PICK r \in Request : r = requests[h]
  BY DEF TypeOK
<1> DEFINE s == [r EXCEPT !.at = at, !.value = value, !.type = type, !.stale = FALSE]
<1>2. s.actor = r.actor /\ s.lost = r.lost
  BY DEF Request
<1>3. requests' = [requests EXCEPT ![h] = s] /\ users' = users
  BY <1>1 DEF Await, TypeOK, tables
<1> HIDE DEF s
<1>4. requests'[h] = s /\ \A g \in Requests \ {h} : requests'[g] = requests[g]
  BY <1>3 DEF TypeOK
<1> QED BY <1>1, <1>2, <1>3, <1>4, RolesKept

LEMMA RolesStep ==
  ASSUME TypeOK, ActorsExisted, RolesAreKnown, NEW h \in Requests,
         \/ UserStep(h) \/ MerchantStep(h) \/ QuotaStep(h) \/ ConfigStep(h)
         \/ CreateAuditLog(h) \/ Abort(h)
  PROVE  RolesAreKnown'
<1>1. ASSUME NEW u \in Users, Authenticate(h, u) PROVE RolesAreKnown'
  <2>1. /\ requests'[h] = [Idle EXCEPT !.at = "ready", !.actor = u]
        /\ \A g \in Requests \ {h} : requests'[g] = requests[g]
        /\ users' = users /\ users[u] = "admin"
    BY <1>1 DEF Authenticate, TypeOK, tables
  <2>2. requests'[h].actor = u
    BY <2>1 DEF Idle
  <2> QED BY <2>1, <2>2, RolesKept
<1>2. ASSUME Succeed(h), users' = users PROVE RolesAreKnown'
  <2>1. /\ requests'[h].at = "audit"
        /\ \A g \in Requests \ {h} : requests'[g] = requests[g]
    BY <1>2, AuditsTyped DEF Succeed, TypeOK
  <2> QED BY <1>2, <2>1, RolesKept
<1>3. ASSUME SucceedOnConfig(h) PROVE RolesAreKnown'
  <2>1. requests'[h].at = "audit" /\ users' = users
    BY <1>3, AuditsTyped DEF SucceedOnConfig, TypeOK
  <2>2. ASSUME NEW g \in Requests \ {h}
        PROVE  /\ requests'[g].at = requests[g].at /\ requests'[g].actor = requests[g].actor
               /\ requests'[g].lost = requests[g].lost
    <3>1. requests[g] \in Request
      BY DEF TypeOK
    <3>2. requests'[g] = [requests[g] EXCEPT !.stale = requests[g].at \in {"checkType", "writeConfig"}]
      BY <1>3 DEF SucceedOnConfig
    <3> QED BY <3>1, <3>2 DEF Request
  <2> QED BY <2>1, <2>2, RolesKept
<1>4. ASSUME NEW u \in Users, NEW role, SucceedOnRole(h, u, role),
             users' = [users EXCEPT ![u] = role]
      PROVE  RolesAreKnown'
  <2> SUFFICES ASSUME NEW g \in Requests, requests'[g].at \notin {"idle", "audit"},
                      ~requests'[g].lost
               PROVE  users'[requests'[g].actor] = "admin"
    BY DEF RolesAreKnown
  <2>1. /\ g # h /\ requests'[g].at = requests[g].at
        /\ requests'[g].actor = requests[g].actor
        /\ requests'[g].lost = IF requests[g].actor = u THEN role # "admin" ELSE requests[g].lost
    BY <1>4, RoleChange
  <2>2. requests[g].actor \in Users
    BY <2>1 DEF ActorsExisted
  <2>3. CASE requests[g].actor = u
    BY <1>4, <2>1, <2>2, <2>3 DEF TypeOK
  <2>4. CASE requests[g].actor # u
    BY <1>4, <2>1, <2>2, <2>4 DEF TypeOK, RolesAreKnown
  <2> QED BY <2>3, <2>4
<1>5. ASSUME NEW u \in Users, NEW role \in {"user", "admin"}, CreateUser(h, u, role)
      PROVE  RolesAreKnown'
  <2> SUFFICES ASSUME NEW g \in Requests, requests'[g].at \notin {"idle", "audit"},
                      ~requests'[g].lost
               PROVE  users'[requests'[g].actor] = "admin"
    BY DEF RolesAreKnown
  <2>1. g # h /\ requests'[g] = requests[g]
    BY <1>5, AuditsTyped DEF CreateUser, Succeed, TypeOK
  <2>2. users[requests[g].actor] = "admin" /\ requests[g].actor \in Users
    BY <2>1 DEF ActorsExisted, RolesAreKnown
  <2> QED BY <1>5, <2>1, <2>2 DEF CreateUser, TypeOK
<1>6. CASE UserStep(h)
  BY <1>1, <1>4, <1>5, <1>6 DEF UserStep, UpdateUser, DeleteUser
<1>7. CASE MerchantStep(h) \/ QuotaStep(h)
  BY <1>2, <1>7 DEF MerchantStep, CreateMerchant, UpdateMerchant, DeleteMerchant,
                    QuotaStep, AddQuota, ChangeQuota, RemoveQuota, tables
<1>8. CASE ConfigStep(h)
  <2>1. \/ Succeed(h) /\ users' = users
        \/ SucceedOnConfig(h)
        \/ /\ requests[h].at \notin {"idle", "audit"}
           /\ \E at, value, type : Await(h, at, value, type)
    BY <1>8, Zenon DEF ConfigStep, InsertConfig, UpdateNothing, UpdateOther, WriteConfig,
                DeleteConfig, CreateConfig, UpdateValue, UpdateType, tables
  <2> QED BY <1>2, <1>3, <2>1, AwaitKeepsRoles
<1>9. CASE CreateAuditLog(h) \/ Abort(h)
  <2>1. requests' = [requests EXCEPT ![h] = Idle] /\ users' = users
    BY <1>9 DEF CreateAuditLog, Abort, tables
  <2>2. requests'[h].at = "idle" /\ \A g \in Requests \ {h} : requests'[g] = requests[g]
    BY <2>1, IdleTyped DEF TypeOK
  <2> QED BY <2>1, <2>2, RolesKept
<1> QED BY <1>6, <1>7, <1>8, <1>9

LEMMA AdminStep ==
  ASSUME TypeOK, ActorsExisted, RolesAreKnown, SomeAdminRemains, NEW h \in Requests,
         \/ UserStep(h) \/ MerchantStep(h) \/ QuotaStep(h) \/ ConfigStep(h)
         \/ CreateAuditLog(h) \/ Abort(h)
  PROVE  SomeAdminRemains'
<1>1. ASSUME NEW u \in Users, Authenticate(h, u) PROVE SomeAdminRemains'
  BY <1>1 DEF SomeAdminRemains, Authenticate, tables, history
<1>2. ASSUME NEW u \in Users, NEW role \in {"user", "admin"}, CreateUser(h, u, role)
      PROVE  SomeAdminRemains'
  BY <1>2 DEF TypeOK, SomeAdminRemains, CreateUser
<1>3. ASSUME NEW u \in Users, NEW role \in {"user", "admin"}, UpdateUser(h, u, role)
      PROVE  SomeAdminRemains'
  <2>1. requests[h].actor \in Users
    BY <1>3 DEF UpdateUser, ActorsExisted
  <2>2. \/ users[requests[h].actor] = "admin"
        \/ requests[h].lost
    BY <1>3 DEF UpdateUser, RolesAreKnown
  <2>3. QED
    BY <1>3, <2>1, <2>2 DEF TypeOK, SomeAdminRemains, UpdateUser, Ousts
<1>4. ASSUME NEW u \in Users, DeleteUser(h, u) PROVE SomeAdminRemains'
  <2>1. requests[h].actor \in Users
    BY <1>4 DEF DeleteUser, ActorsExisted
  <2>2. \/ users[requests[h].actor] = "admin"
        \/ requests[h].lost
    BY <1>4 DEF DeleteUser, RolesAreKnown
  <2>3. QED
    BY <1>4, <2>1, <2>2 DEF TypeOK, SomeAdminRemains, DeleteUser, Ousts
<1>5. CASE \/ MerchantStep(h) \/ QuotaStep(h) \/ ConfigStep(h)
           \/ CreateAuditLog(h) \/ Abort(h)
  <2>1. UNCHANGED <<users, ousted>>
    BY <1>5 DEF MerchantStep, CreateMerchant, UpdateMerchant, DeleteMerchant,
                QuotaStep, AddQuota, ChangeQuota, RemoveQuota,
                ConfigStep, InsertConfig, UpdateNothing, UpdateOther, WriteConfig, DeleteConfig,
                CreateConfig, UpdateValue, UpdateType, Await, SucceedOnConfig, CreateAuditLog, Abort,
                tables, history
  <2>2. QED
    BY <2>1 DEF SomeAdminRemains
<1>6. QED
  BY <1>1, <1>2, <1>3, <1>4, <1>5 DEF UserStep

-----------------------------------------------------------------------------
(* The theorems.                                                            *)

AdminIInv ==
  /\ TypeOK /\ ActorsExisted /\ NamedArePresent /\ ChecksHold /\ RolesAreKnown
  /\ AuditLostOnlyWithItsActor /\ AuthorsAreLogged /\ ConfigFits /\ SomeAdminRemains

LEMMA AdminInitIInv == Init => AdminIInv
<1> SUFFICES ASSUME Init PROVE AdminIInv
  OBVIOUS
<1>1. TypeOK
  BY AdminInitTyped
<1>2. ActorsExisted /\ ChecksHold /\ RolesAreKnown
  BY IdleTyped DEF Init, ActorsExisted, ChecksHold, RolesAreKnown
<1>3. \A u \in Users : ~Named(u)
  BY AdminAssumption, NoConfigIsNone DEF Init, Named
<1>4. SomeAdminRemains
  BY AdminAssumption DEF Init, SomeAdminRemains
<1>5. QED
  BY <1>1, <1>2, <1>3, <1>4
  DEF AdminIInv, Init, NamedArePresent, AuditLostOnlyWithItsActor, AuthorsAreLogged, ConfigFits

LEMMA AdminNextIInv == AdminIInv /\ [Next]_vars => AdminIInv'
<1> SUFFICES ASSUME AdminIInv, [Next]_vars PROVE AdminIInv'
  OBVIOUS
<1> USE DEF AdminIInv
<1>1. CASE Next
  <2>1. PICK h \in Requests :
          \/ UserStep(h) \/ MerchantStep(h) \/ QuotaStep(h) \/ ConfigStep(h)
          \/ CreateAuditLog(h) \/ Abort(h)
    BY <1>1 DEF Next
  <2>2. TypeOK'
    BY <2>1, UserStepTyped, MerchantStepTyped, QuotaStepTyped, ConfigStepTyped, AuditStepTyped
  <2>3. ActorsExisted'
    BY <2>1, ActorsStep
  <2>4. NamedArePresent' /\ AuthorsAreLogged' /\ AuditLostOnlyWithItsActor'
    BY <2>1, LogStep
  <2>5. ChecksHold' /\ ConfigFits'
    BY <2>1, ConfigFitsStep
  <2>6. SomeAdminRemains' /\ RolesAreKnown'
    BY <2>1, AdminStep, RolesStep
  <2>7. QED
    BY <2>2, <2>3, <2>4, <2>5, <2>6
<1>2. CASE UNCHANGED vars
  BY <1>2 DEF vars, tables, history, TypeOK, ActorsExisted, NamedArePresent, Named, Present,
              ChecksHold, Fits, AuditLostOnlyWithItsActor, AuthorsAreLogged, ConfigFits,
              SomeAdminRemains, RolesAreKnown
<1>3. QED
  BY <1>1, <1>2

(* The strengthened invariant holds for any number of users, merchants and  *)
(* requests.                                                                *)
THEOREM AdminInvariant == Spec => []AdminIInv
BY AdminInitIInv, AdminNextIInv, PTL DEF Spec

(* The audit log loses an entry to the deletion of its actor only if it has *)
(* no entry of him at all, however many administrators race.                *)
THEOREM AuditIsLostWithItsActor == Spec => []AuditLostOnlyWithItsActor
<1>1. AdminIInv => AuditLostOnlyWithItsActor
  BY DEF AdminIInv
<1>2. QED
  BY <1>1, AdminInvariant, PTL

(* Whoever is named as an author is in the log, or about to be, unless a    *)
(* query failed.                                                            *)
THEOREM AuthorsAreAlwaysLogged == Spec => []AuthorsAreLogged
<1>1. AdminIInv => AuthorsAreLogged
  BY DEF AdminIInv
<1>2. QED
  BY <1>1, AdminInvariant, PTL

(* The configuration fits its type unless it was written on a stale check.  *)
THEOREM ConfigurationFits == Spec => []ConfigFitsItsType
<1>1. AdminIInv => ConfigFitsItsType
  BY DEF AdminIInv, ConfigFits, ConfigFitsItsType
<1>2. QED
  BY <1>1, AdminInvariant, PTL

(* An administrator remains until someone takes his own role, or another's  *)
(* by a request let in before he lost his: whoever is let in is an          *)
(* administrator, and stays one unless another request takes the role.      *)
THEOREM AnAdministratorRemains == Spec => []SomeAdminRemains
<1>1. AdminIInv => SomeAdminRemains
  BY DEF AdminIInv
<1>2. QED
  BY <1>1, AdminInvariant, PTL

-----------------------------------------------------------------------------
(***************************************************************************)
(* Quotas: a count is of its period, and a limit is passed by no more than *)
(* the requests that were let through together.                            *)
(*                                                                         *)
(* The second is not inductive alone: a check of an owner whose quota is   *)
(* not active lets him through without looking at the counts.  LaxIsKnown  *)
(* adds that a quota still taken as strict is active.  The first needs      *)
(* ResetsAreDone: a request that has looked at the limits has seen to the   *)
(* resets that were due, so a later reset of the period finds none due.     *)
(***************************************************************************)

\* A quota whose limits count is enforced.
LaxIsKnown == Exists /\ ~lax => quota.is_active

QuotasIInv == CountsAreOfThePeriod /\ ResetsAreDone /\ LaxIsKnown /\ OverrunIsBounded

-----------------------------------------------------------------------------

LEMMA RequestsAreCounted ==
  /\ Cardinality(Checks) \in Nat \ {0}
  /\ \A S \in SUBSET Checks :
       /\ Cardinality(S) \in Nat /\ Cardinality(S) <= Cardinality(Checks)
       /\ \A h \in Checks \ S : Cardinality(S) <= Cardinality(Checks) - 1
<1>1. Cardinality(Checks) \in Nat
  BY QuotasAssumption, FS_CardinalityType
<1>2. Cardinality(Checks) # 0
  BY QuotasAssumption, FS_EmptySet
<1>3. ASSUME NEW S \in SUBSET Checks
      PROVE  Cardinality(S) \in Nat /\ Cardinality(S) <= Cardinality(Checks)
  BY <1>3, QuotasAssumption, FS_Subset, FS_CardinalityType
<1>4. ASSUME NEW S \in SUBSET Checks, NEW h \in Checks \ S
      PROVE  Cardinality(S) <= Cardinality(Checks) - 1
  <2>1. S \in SUBSET (Checks \ {h})
    OBVIOUS
  <2>2. Cardinality(Checks \ {h}) = Cardinality(Checks) - 1 /\ IsFiniteSet(Checks \ {h})
    BY <1>4, QuotasAssumption, FS_RemoveElement
  <2>3. QED
    BY <2>1, <2>2, FS_Subset
<1>5. QED
  BY <1>1, <1>2, <1>3, <1>4

LEMMA NextResetTyped ==
  ASSUME NEW w \in Window, NEW d \in 0..MaxDay
  PROVE  NextReset(w, d) \in 1..(MaxDay + DaysPerMonth)
<1>1. DaysPerMonth \in Nat \ {0} /\ MaxDay \in Nat /\ d \in Nat
  BY QuotasAssumption
<1>2. CASE w = "daily"
  BY <1>1, <1>2 DEF NextReset
<1>3. CASE w # "daily"
  <2> DEFINE q == d \div DaysPerMonth
  <2>1. q \in Nat /\ q * DaysPerMonth <= d
    BY <1>1
  <2>2. (q + 1) * DaysPerMonth = q * DaysPerMonth + DaysPerMonth
    BY <1>1, <2>1
  <2>3. q * DaysPerMonth \in Nat
    BY <1>1, <2>1
  <2> HIDE DEF q
  <2>4. (q + 1) * DaysPerMonth \in 1..(MaxDay + DaysPerMonth)
    BY <1>1, <2>1, <2>2, <2>3
  <2>5. QED
    BY <1>3, <2>4 DEF NextReset, q
<1>4. QED
  BY <1>2, <1>3

\* A period ends after its days, and at the first end after any of them.
LEMMA PeriodsEnd ==
  ASSUME NEW w \in Window
  PROVE  /\ \A d \in Nat : NextReset(w, d) \in Nat /\ NextReset(w, d) > d
         /\ \A d, n \in Nat : NextReset(w, d) > n => NextReset(w, n) <= NextReset(w, d)
<1>1. CASE w = "daily"
  BY <1>1 DEF NextReset
<1>2. CASE w # "daily"
  <2>1. PICK L \in Nat \ {0} : L = DaysPerMonth
    BY QuotasAssumption
  <2>2. \A d \in Nat : NextReset(w, d) = (d \div L + 1) * L
    BY <1>2, <2>1 DEF NextReset
  <2>3. ASSUME NEW d \in Nat
        PROVE  /\ d \div L \in Nat /\ (d \div L) * L \in Nat /\ (d \div L) * L <= d
               /\ (d \div L + 1) * L = (d \div L) * L + L
               /\ d < (d \div L) * L + L
    BY <2>3
  <2>4. ASSUME NEW k \in Nat, NEW j \in Nat, k <= j
        PROVE  k * L <= j * L /\ k * L \in Nat /\ j * L \in Nat
    <3>1. PICK i \in Nat : j = k + i
      BY <2>4
    <3>2. j * L = k * L + i * L /\ i * L \in Nat /\ k * L \in Nat
      BY <3>1
    <3> QED BY <3>2
  <2>5. ASSUME NEW d \in Nat, NEW n \in Nat, NextReset(w, d) > n
        PROVE  NextReset(w, n) <= NextReset(w, d)
    <3>1. PICK q \in Nat, r \in Nat : q = d \div L /\ r = n \div L
      BY <2>3
    <3>2. (q + 1) * L > n /\ r * L <= n
      BY <2>2, <2>3, <2>5, <3>1
    <3>3. ~(q + 1 <= r)
      <4>1. SUFFICES ASSUME q + 1 <= r PROVE FALSE
        OBVIOUS
      <4>2. (q + 1) * L <= r * L /\ (q + 1) * L \in Nat /\ r * L \in Nat
        BY <2>4, <4>1
      <4> QED BY <3>2, <4>2
    <3>4. r + 1 <= q + 1
      BY <3>3
    <3>5. (r + 1) * L <= (q + 1) * L
      BY <2>4, <3>4
    <3> QED BY <2>2, <3>1, <3>5
  <2>6. ASSUME NEW d \in Nat PROVE NextReset(w, d) \in Nat /\ NextReset(w, d) > d
    BY <2>2, <2>3
  <2> QED BY <2>5, <2>6
<1> QED BY <1>1, <1>2

\* Where a request that moves leaves those that use.
LEMMA UsingAfter ==
  ASSUME QuotaTypeOK, NEW h \in Checks, NEW at, NEW d, Goto(h, at, d)
  PROVE  Using' = IF at = "use" THEN Using \cup {h} ELSE Using \ {h}
BY DEF QuotaTypeOK, Goto, Using

LEMMA InitIInv == QuotaInit => QuotasIInv
<1> SUFFICES ASSUME QuotaInit PROVE QuotasIInv
  OBVIOUS
<1>1. ~Exists
  BY DEF QuotaInit, Exists
<1>2. QuotaTypeOK
  <2>1. /\ checks \in [Checks -> Check] /\ today \in 0..MaxDay
        /\ uses \in [Window -> 0..MaxUses] /\ fresh \in [Window -> 0..MaxUses]
    BY QuotasAssumption DEF QuotaInit, NoCheck, Check, Zero
  <2>2. QED
    BY <2>1 DEF QuotaInit, QuotaTypeOK
<1>3. ResetsAreDone
  BY <1>1 DEF QuotaInit, ResetsAreDone, NoCheck
<1>4. QED
  BY <1>1, <1>2, <1>3 DEF QuotasIInv, CountsAreOfThePeriod, LaxIsKnown, OverrunIsBounded

-----------------------------------------------------------------------------
(* Counts are of the period.                                                *)

LEMMA NoQuotaIsNone == \A q \in Quota : q # NoQuota
<1>1. ASSUME NEW q \in Quota PROVE q # NoQuota
  <2>1. DOMAIN q = {"limit", "count", "reset", "is_active"}
    BY DEF Quota
  <2>2. DOMAIN NoQuota = {"is_active"}
    BY DEF NoQuota
  <2>3. QED
    BY <2>1, <2>2
<1>2. QED
  BY <1>1

\* Where nothing but `checks` and perhaps `lax` changes.
LEMMA MovesKeepCounts ==
  ASSUME CountsAreOfThePeriod, UNCHANGED <<today, quota, uses, fresh>>,
         checks' \in [Checks -> Check], lax' \in BOOLEAN
  PROVE  CountsAreOfThePeriod'
BY DEF CountsAreOfThePeriod, QuotaTypeOK, Exists, Due

LEMMA GotoTyped ==
  ASSUME QuotaTypeOK, NEW h \in Checks, NEW d \in 0..MaxDay,
         NEW at \in {"idle", "daily", "readDaily", "monthly", "readMonthly", "use"},
         Goto(h, at, d)
  PROVE  checks' \in [Checks -> Check]
BY DEF QuotaTypeOK, Goto, Check

LEMMA CreateKeepsCounts ==
  ASSUME CountsAreOfThePeriod, NEW limit \in [Window -> Limits \cup {Default}],
         NEW active \in BOOLEAN, CreateQuota(limit, active)
  PROVE  CountsAreOfThePeriod'
<1>1. quota' \in Quota
  <2>1. Given(limit) \in [Window -> Limits \cup {Default}] /\ Zero \in [Window -> 0..MaxUses]
    BY QuotasAssumption DEF Given, Zero
  <2>2. [w \in Window |-> NextReset(w, today)] \in [Window -> 1..(MaxDay + DaysPerMonth)]
    BY NextResetTyped DEF CountsAreOfThePeriod, QuotaTypeOK
  <2>3. QED
    BY <2>1, <2>2 DEF CreateQuota, Quota
<1>2. /\ uses' = Zero /\ fresh' = Zero /\ quota'.count = Zero /\ Zero \in [Window -> 0..MaxUses]
      /\ \A w \in Window : Zero[w] = 0
  BY QuotasAssumption DEF CreateQuota, Zero
<1>3. today' = today /\ checks' = checks /\ lax' \in BOOLEAN
  BY DEF CreateQuota
<1>4. QED
  BY <1>1, <1>2, <1>3 DEF CountsAreOfThePeriod, QuotaTypeOK

LEMMA UpdateKeepsCounts ==
  ASSUME CountsAreOfThePeriod, NEW limit \in [Window -> Limits \cup {Default}],
         NEW active \in BOOLEAN, UpdateQuota(limit, active)
  PROVE  CountsAreOfThePeriod'
<1>1. quota \in Quota
  BY DEF UpdateQuota, CountsAreOfThePeriod, QuotaTypeOK, Exists
<1>2. quota' \in Quota /\ quota'.count = quota.count /\ quota'.reset = quota.reset
  BY <1>1 DEF UpdateQuota, Quota
<1>3. lax' \in BOOLEAN /\ UNCHANGED <<today, checks, uses, fresh>>
  BY DEF UpdateQuota, CountsAreOfThePeriod, QuotaTypeOK
<1>4. QED
  BY <1>2, <1>3 DEF UpdateQuota, CountsAreOfThePeriod, QuotaTypeOK, Due

LEMMA QuotaTyped ==
  ASSUME NEW q \in Quota, NEW w \in Window
  PROVE  q.count[w] \in Nat /\ q.limit[w] \in Nat
<1>1. q.count \in [Window -> 0..MaxUses] /\ q.limit \in [Window -> Limits \cup {Default}]
  BY DEF Quota
<1>2. Limits \cup {Default} \subseteq Nat /\ 0..MaxUses \subseteq Nat
  BY QuotasAssumption
<1>3. q.count[w] \in 0..MaxUses /\ q.limit[w] \in Limits \cup {Default}
  BY <1>1
<1>4. QED
  BY <1>2, <1>3

LEMMA ResetKeepsCounts ==
  ASSUME CountsAreOfThePeriod, ResetsAreDone, NEW h \in Checks, NEW w \in Window,
         ResetCounts(h, w)
  PROVE  CountsAreOfThePeriod'
<1>1. checks[h].now \in 0..MaxDay
  BY DEF CountsAreOfThePeriod, QuotaTypeOK, Check
<1>2. checks' \in [Checks -> Check] /\ UNCHANGED <<today, uses, fresh, lax>>
  BY <1>1, GotoTyped DEF ResetCounts, CountsAreOfThePeriod
<1>3. CASE ~(Exists /\ Due(w, today))
  BY <1>2, <1>3, MovesKeepCounts DEF ResetCounts, CountsAreOfThePeriod, QuotaTypeOK
<1>4. CASE Exists /\ Due(w, today)
  <2>1. quota \in Quota /\ today \in 0..MaxDay
    BY <1>4 DEF CountsAreOfThePeriod, QuotaTypeOK, Exists
  <2>2. quota' = [quota EXCEPT !.count[w] = 0, !.reset[w] = NextReset(w, today)]
    BY <1>4 DEF ResetCounts
  <2>3. NextReset(w, today) \in 1..(MaxDay + DaysPerMonth) /\ 0 \in 0..MaxUses
    BY <2>1, NextResetTyped, QuotasAssumption
  <2>4. /\ quota.count \in [Window -> 0..MaxUses]
        /\ quota.reset \in [Window -> 1..(MaxDay + DaysPerMonth)]
    BY <2>1 DEF Quota
  <2>5. /\ quota'.count = [quota.count EXCEPT ![w] = 0]
        /\ quota'.reset = [quota.reset EXCEPT ![w] = NextReset(w, today)]
        /\ quota'.limit = quota.limit /\ quota'.is_active = quota.is_active
    BY <2>1, <2>2 DEF Quota
  <2>6. quota' \in Quota
    BY <2>1, <2>2, <2>3, <2>4 DEF Quota
  <2>7. ASSUME NEW v \in Window
        PROVE  fresh'[v] <= quota'.count[v] /\ (Due(v, today)' \/ quota'.count[v] <= uses'[v])
    <3>1. CASE v = w
      <4>1. fresh[w] = 0 /\ uses[w] \in Nat
        BY <1>4, QuotasAssumption DEF ResetsAreDone, CountsAreOfThePeriod, QuotaTypeOK
      <4>2. quota'.count[w] = 0
        BY <2>4, <2>5
      <4> QED BY <1>2, <3>1, <4>1, <4>2
    <3>2. CASE v # w
      <4>1. fresh[v] <= quota.count[v] /\ (Due(v, today) \/ quota.count[v] <= uses[v])
        BY <1>4 DEF CountsAreOfThePeriod
      <4>2. quota'.count[v] = quota.count[v] /\ quota'.reset[v] = quota.reset[v]
        BY <2>1, <2>2, <2>4, <2>5, <3>2
      <4>3. QED
        BY <1>2, <4>1, <4>2 DEF Due
    <3>3. QED
      BY <3>1, <3>2
  <2>8. QED
    BY <1>2, <2>6, <2>7 DEF CountsAreOfThePeriod, QuotaTypeOK
<1>5. QED
  BY <1>3, <1>4

LEMMA IncrementKeepsCounts ==
  ASSUME CountsAreOfThePeriod, NEW h \in Checks, IncrementUsage(h)
  PROVE  CountsAreOfThePeriod'
<1>1. checks' \in [Checks -> Check] /\ UNCHANGED <<today, lax>>
  BY GotoTyped, QuotasAssumption DEF IncrementUsage, CountsAreOfThePeriod
<1>2. CASE ~Exists
  BY <1>1, <1>2, MovesKeepCounts DEF IncrementUsage, CountsAreOfThePeriod, QuotaTypeOK
<1>3. CASE Exists
  <2>1. /\ quota \in Quota /\ MaxUses \in Nat
        /\ uses \in [Window -> 0..MaxUses] /\ fresh \in [Window -> 0..MaxUses]
    BY <1>3, QuotasAssumption DEF CountsAreOfThePeriod, QuotaTypeOK, Exists
  <2>2. /\ \A w \in Window : quota.count[w] < MaxUses /\ uses[w] < MaxUses
        /\ quota' = [quota EXCEPT !.count = [w \in Window |-> @[w] + 1]]
        /\ uses' = [w \in Window |-> uses[w] + 1]
        /\ fresh' = [w \in Window |->
             IF SamePeriod(w, checks[h].now, today) THEN fresh[w] + 1 ELSE fresh[w]]
    BY <1>3 DEF IncrementUsage
  <2>3. quota.count \in [Window -> 0..MaxUses]
    BY <2>1 DEF Quota
  <2>4. quota'.count = [w \in Window |-> quota.count[w] + 1] /\ quota'.reset = quota.reset
    BY <2>1, <2>2 DEF Quota
  <2>5. quota'.count \in [Window -> 0..MaxUses]
    BY <2>1, <2>2, <2>3, <2>4
  <2>6. quota' \in Quota
    BY <2>1, <2>2, <2>4, <2>5 DEF Quota
  <2>7. ASSUME NEW w \in Window
        PROVE  /\ uses'[w] \in 0..MaxUses /\ fresh'[w] \in 0..MaxUses
               /\ fresh'[w] <= quota'.count[w]
               /\ Due(w, today)' \/ quota'.count[w] <= uses'[w]
    <3>1. fresh[w] <= quota.count[w] /\ (Due(w, today) \/ quota.count[w] <= uses[w])
      BY <1>3 DEF CountsAreOfThePeriod
    <3>2. Due(w, today)' <=> Due(w, today)
      BY <1>1, <2>4 DEF Due
    <3>3. fresh'[w] = fresh[w] + 1 \/ fresh'[w] = fresh[w]
      BY <2>2
    <3>4. /\ uses'[w] = uses[w] + 1 /\ quota'.count[w] = quota.count[w] + 1
          /\ quota.count[w] < MaxUses /\ uses[w] < MaxUses
          /\ quota.count[w] \in Nat /\ uses[w] \in Nat /\ fresh[w] \in Nat
      BY <2>1, <2>2, <2>3, <2>4
    <3>5. QED
      BY <2>1, <3>1, <3>2, <3>3, <3>4
  <2>8. uses' \in [Window -> 0..MaxUses] /\ fresh' \in [Window -> 0..MaxUses]
    BY <2>2, <2>7
  <2>9. QED
    BY <1>1, <2>6, <2>7, <2>8 DEF CountsAreOfThePeriod, QuotaTypeOK
<1>4. QED
  BY <1>2, <1>3

-----------------------------------------------------------------------------
(* Resets are done before a use.                                            *)

\* What ResetsAreDone knows of the days.
LEMMA DaysTyped ==
  ASSUME QuotaTypeOK
  PROVE  /\ today \in Nat /\ \A h \in Checks : checks[h].now \in Nat
         /\ Exists => /\ quota \in Quota
                      /\ \A w \in Window : quota.reset[w] \in Nat /\ quota.reset[w] > 0
<1>1. today \in Nat /\ \A h \in Checks : checks[h].now \in Nat
  BY QuotasAssumption DEF QuotaTypeOK, Check
<1>2. ASSUME Exists
      PROVE  quota \in Quota
             /\ \A w \in Window : quota.reset[w] \in Nat /\ quota.reset[w] > 0
  <2>1. quota \in Quota
    BY <1>2 DEF QuotaTypeOK, Exists
  <2>2. quota.reset \in [Window -> 1..(MaxDay + DaysPerMonth)]
    BY <2>1 DEF Quota
  <2> QED BY <2>1, <2>2, QuotasAssumption
<1> QED BY <1>1, <1>2

\* A step that moves one request and leaves the row and the clock alone.
LEMMA MoveKeepsResets ==
  ASSUME QuotaTypeOK, ResetsAreDone, NEW h \in Checks, NEW at, NEW d, Goto(h, at, d),
         UNCHANGED <<today, quota, fresh>>, d <= today,
         Exists => \A w \in Window :
           \/ at \in {"idle", "daily"}
           \/ w = "monthly" /\ at \in {"readDaily", "monthly"}
           \/ quota.reset[w] > d
  PROVE  ResetsAreDone'
<1>1. /\ checks'[h].at = at /\ checks'[h].now = d
      /\ \A g \in Checks \ {h} : checks'[g] = checks[g]
  BY DEF QuotaTypeOK, Goto
<1>2. \A g \in Checks : checks'[g].now <= today'
  BY <1>1 DEF ResetsAreDone
<1>3. ASSUME Exists', NEW w \in Window
      PROVE  /\ \E e \in 0..today' : quota'.reset[w] = NextReset(w, e)
             /\ Due(w, today)' => fresh'[w] = 0
  BY <1>3 DEF ResetsAreDone, Exists, Due
<1>4. ASSUME Exists', NEW w \in Window, NEW g \in Checks
      PROVE  Cleared(g, w)'
  BY <1>1, <1>4 DEF ResetsAreDone, Exists, Cleared
<1> QED BY <1>2, <1>3, <1>4 DEF ResetsAreDone

LEMMA ResetKeepsResets ==
  ASSUME QuotaTypeOK, ResetsAreDone, NEW h \in Checks, NEW w \in Window, ResetCounts(h, w)
  PROVE  ResetsAreDone'
<1> DEFINE at == IF w = "daily" THEN "readDaily" ELSE "readMonthly"
           now == checks[h].now
<1>1. /\ Goto(h, at, now) /\ UNCHANGED <<today, fresh>> /\ checks[h].at = w
      /\ now <= today /\ now \in Nat /\ today \in Nat
  BY DaysTyped DEF ResetCounts, ResetsAreDone
<1>2. Exists => \A v \in Window : v # w =>
        \/ v = "monthly" /\ at = "readDaily"
        \/ quota.reset[v] > now
  BY <1>1 DEF Window, ResetsAreDone, Cleared
<1>3. CASE ~(Exists /\ Due(w, today))
  <2>1. quota' = quota
    BY <1>3 DEF ResetCounts
  <2>2. Exists => quota.reset[w] > now
    BY <1>1, <1>3, DaysTyped DEF Due
  <2> QED BY <1>1, <1>2, <2>1, <2>2, MoveKeepsResets
<1>4. CASE Exists /\ Due(w, today)
  <2>1. quota \in Quota /\ \A v \in Window : quota.reset[v] \in Nat
    BY <1>4, DaysTyped
  <2>2. quota' = [quota EXCEPT !.count[w] = 0, !.reset[w] = NextReset(w, today)]
    BY <1>4 DEF ResetCounts
  <2>3. quota.reset \in [Window -> 1..(MaxDay + DaysPerMonth)]
    BY <2>1 DEF Quota
  <2>4. quota'.reset = [quota.reset EXCEPT ![w] = NextReset(w, today)]
    BY <2>1, <2>2 DEF Quota
  <2>5. NextReset(w, today) > today /\ NextReset(w, today) \in Nat
    BY <1>1, PeriodsEnd
  <2>6. /\ quota'.reset[w] = NextReset(w, today)
        /\ \A v \in Window : v # w => quota'.reset[v] = quota.reset[v]
        /\ \A v \in Window : quota'.reset[v] >= quota.reset[v] /\ quota'.reset[v] \in Nat
    BY <1>1, <1>4, <2>1, <2>3, <2>4, <2>5 DEF Due
  <2>7. /\ checks'[h].at = at /\ checks'[h].now = now
        /\ \A g \in Checks \ {h} : checks'[g] = checks[g]
    BY <1>1 DEF QuotaTypeOK, Goto
  <2>8. \A g \in Checks : checks'[g].now <= today'
    BY <1>1, <2>7 DEF ResetsAreDone
  <2>9. ASSUME NEW v \in Window
        PROVE  /\ \E e \in 0..today' : quota'.reset[v] = NextReset(v, e)
               /\ Due(v, today)' => fresh'[v] = 0
    <3>1. CASE v = w
      <4>1. ~Due(v, today)'
        BY <1>1, <2>5, <2>6, <3>1 DEF Due
      <4>2. today \in 0..today'
        BY <1>1
      <4> QED BY <2>6, <3>1, <4>1, <4>2
    <3>2. CASE v # w
      BY <1>1, <1>4, <2>6, <3>2 DEF ResetsAreDone, Due
    <3> QED BY <3>1, <3>2
  <2>10. ASSUME NEW v \in Window, NEW g \in Checks PROVE Cleared(g, v)'
    <3>1. CASE g # h
      <4>1. Cleared(g, v) /\ checks'[g] = checks[g] /\ checks[g].now \in Nat
        BY <1>4, <2>7, <3>1, DaysTyped DEF ResetsAreDone
      <4> QED BY <2>1, <2>6, <4>1 DEF Cleared
    <3>2. CASE g = h /\ v = w
      <4>1. quota'.reset[v] > checks'[g].now
        BY <1>1, <2>5, <2>6, <2>7, <3>2
      <4> QED BY <4>1 DEF Cleared
    <3>3. CASE g = h /\ v # w
      BY <1>2, <1>4, <2>6, <2>7, <3>3 DEF Cleared
    <3> QED BY <3>1, <3>2, <3>3
  <2> QED BY <2>8, <2>9, <2>10 DEF ResetsAreDone
<1> QED BY <1>3, <1>4

\* A use that is counted as one of the period finds no reset due.
LEMMA IncrementKeepsResets ==
  ASSUME QuotaTypeOK, ResetsAreDone, NEW h \in Checks, IncrementUsage(h)
  PROVE  ResetsAreDone'
<1>1. /\ Goto(h, "idle", 0) /\ checks[h].at = "use" /\ today' = today
      /\ today \in Nat /\ checks[h].now \in Nat
  BY DaysTyped DEF IncrementUsage
<1>2. CASE ~Exists
  BY <1>1, <1>2, MoveKeepsResets DEF IncrementUsage
<1>3. CASE Exists
  <2>1. quota \in Quota /\ \A w \in Window : quota.reset[w] \in Nat
    BY <1>3, DaysTyped
  <2>2. /\ quota' = [quota EXCEPT !.count = [w \in Window |-> @[w] + 1]]
        /\ fresh' = [w \in Window |->
             IF SamePeriod(w, checks[h].now, today) THEN fresh[w] + 1 ELSE fresh[w]]
    BY <1>3 DEF IncrementUsage
  <2>3. quota'.reset = quota.reset
    BY <2>1, <2>2 DEF Quota
  <2>4. /\ checks'[h].at = "idle" /\ checks'[h].now = 0
        /\ \A g \in Checks \ {h} : checks'[g] = checks[g]
    BY <1>1 DEF QuotaTypeOK, Goto
  <2>5. ASSUME NEW w \in Window
        PROVE  Due(w, today) => fresh'[w] = 0
    <3> SUFFICES ASSUME Due(w, today) PROVE fresh'[w] = 0
      OBVIOUS
    <3>1. fresh[w] = 0 /\ Cleared(h, w)
      BY <1>3 DEF ResetsAreDone
    <3>2. quota.reset[w] > checks[h].now /\ quota.reset[w] <= today
      BY <1>1, <3>1 DEF Cleared, Due
    <3>3. PICK d \in 0..today : quota.reset[w] = NextReset(w, d)
      BY <1>3 DEF ResetsAreDone
    <3>4. PICK n \in Nat : n = checks[h].now
      BY <1>1
    <3>5. NextReset(w, n) <= NextReset(w, d)
      BY <1>1, <3>2, <3>3, <3>4, PeriodsEnd
    <3>6. NextReset(w, today) > today /\ NextReset(w, today) \in Nat /\ NextReset(w, n) \in Nat
      BY <1>1, PeriodsEnd
    <3>7. NextReset(w, n) # NextReset(w, today)
      BY <1>1, <2>1, <3>2, <3>3, <3>5, <3>6
    <3> QED BY <2>2, <3>1, <3>4, <3>7 DEF SamePeriod
  <2>6. \A g \in Checks : checks'[g].now <= today'
    BY <1>1, <2>4 DEF ResetsAreDone
  <2>7. ASSUME NEW w \in Window
        PROVE  \E d \in 0..today' : quota'.reset[w] = NextReset(w, d)
    BY <1>1, <1>3, <2>3 DEF ResetsAreDone
  <2>8. ASSUME NEW w \in Window PROVE Due(w, today)' => fresh'[w] = 0
    BY <1>1, <2>3, <2>5 DEF Due
  <2>9. ASSUME NEW w \in Window, NEW g \in Checks PROVE Cleared(g, w)'
    BY <1>3, <2>3, <2>4 DEF ResetsAreDone, Cleared
  <2> QED BY <2>6, <2>7, <2>8, <2>9 DEF ResetsAreDone
<1> QED BY <1>2, <1>3

\* A period that ends makes the reset due, and begins without uses.
LEMMA TickKeepsResets ==
  ASSUME QuotaTypeOK, ResetsAreDone, Tick
  PROVE  ResetsAreDone'
<1>1. /\ today \in Nat /\ today' = today + 1 /\ UNCHANGED <<quota, checks>>
      /\ fresh' = [w \in Window |-> IF SamePeriod(w, today, today + 1) THEN fresh[w] ELSE 0]
  BY DaysTyped DEF Tick
<1>2. \A g \in Checks : checks'[g].now <= today'
  BY <1>1, DaysTyped DEF ResetsAreDone
<1>3. ASSUME Exists', NEW w \in Window
      PROVE  /\ \E d \in 0..today' : quota'.reset[w] = NextReset(w, d)
             /\ Due(w, today)' => fresh'[w] = 0
             /\ \A g \in Checks : Cleared(g, w)'
  <2>1. PICK d \in 0..today : quota.reset[w] = NextReset(w, d)
    BY <1>1, <1>3 DEF ResetsAreDone, Exists
  <2>2. d \in 0..today' /\ quota'.reset[w] = NextReset(w, d)
    BY <1>1, <2>1
  <2>3. \A g \in Checks : Cleared(g, w)'
    BY <1>1, <1>3 DEF ResetsAreDone, Exists, Cleared
  <2>4. ASSUME Due(w, today)' PROVE fresh'[w] = 0
    <3>1. NextReset(w, d) <= today + 1 /\ NextReset(w, d) \in Nat
      BY <1>1, <2>1, <2>4, PeriodsEnd DEF Due
    <3>2. CASE Due(w, today)
      <4>1. fresh[w] = 0
        BY <1>1, <1>3, <3>2 DEF ResetsAreDone, Exists
      <4> QED BY <1>1, <4>1
    <3>3. CASE ~Due(w, today)
      <4>1. NextReset(w, d) > today
        BY <1>1, <2>1, <3>1, <3>3 DEF Due
      <4>2. NextReset(w, today) <= NextReset(w, d)
        BY <1>1, <2>1, <4>1, PeriodsEnd
      <4>3. NextReset(w, today + 1) > today + 1 /\ NextReset(w, today) \in Nat
            /\ NextReset(w, today + 1) \in Nat
        BY <1>1, PeriodsEnd
      <4>4. ~SamePeriod(w, today, today + 1)
        BY <1>1, <3>1, <4>2, <4>3 DEF SamePeriod
      <4> QED BY <1>1, <4>4
    <3> QED BY <3>2, <3>3
  <2> QED BY <2>2, <2>3, <2>4
<1> QED BY <1>2, <1>3 DEF ResetsAreDone

\* A period that ends takes its counts with it, unless the reset is due.
LEMMA TickKeepsCounts ==
  ASSUME CountsAreOfThePeriod, ResetsAreDone, Tick
  PROVE  CountsAreOfThePeriod'
<1>1. /\ today \in Nat /\ today' = today + 1 /\ today' \in 0..MaxDay
      /\ UNCHANGED <<quota, checks, lax>> /\ QuotaTypeOK
  BY QuotasAssumption DEF Tick, CountsAreOfThePeriod, QuotaTypeOK
<1>2. /\ uses' = [w \in Window |-> IF SamePeriod(w, today, today + 1) THEN uses[w] ELSE 0]
      /\ fresh' = [w \in Window |-> IF SamePeriod(w, today, today + 1) THEN fresh[w] ELSE 0]
  BY DEF Tick
<1>3. /\ \A w \in Window : uses[w] \in 0..MaxUses /\ fresh[w] \in 0..MaxUses
      /\ 0 \in 0..MaxUses
  BY <1>1, QuotasAssumption DEF QuotaTypeOK
<1>4. uses' \in [Window -> 0..MaxUses] /\ fresh' \in [Window -> 0..MaxUses]
  BY <1>2, <1>3
<1>5. ASSUME Exists', NEW w \in Window
      PROVE  /\ fresh'[w] <= quota'.count[w]
             /\ Due(w, today)' \/ quota'.count[w] <= uses'[w]
  <2>1. /\ quota \in Quota /\ quota.reset[w] \in Nat
        /\ fresh[w] <= quota.count[w] /\ (Due(w, today) \/ quota.count[w] <= uses[w])
    BY <1>1, <1>5, DaysTyped DEF CountsAreOfThePeriod, Exists
  <2>2. quota.count[w] \in Nat /\ fresh[w] \in Nat
    BY <1>3, <2>1, QuotaTyped, QuotasAssumption
  <2>3. CASE SamePeriod(w, today, today + 1)
    BY <1>1, <1>2, <2>1, <2>2, <2>3 DEF Due
  <2>4. CASE ~SamePeriod(w, today, today + 1)
    <3>1. fresh'[w] = 0
      BY <1>2, <2>4
    <3>2. PICK d \in 0..today : quota.reset[w] = NextReset(w, d)
      BY <1>1, <1>5 DEF ResetsAreDone, Exists
    <3>3. NextReset(w, d) <= today + 1
      <4>1. SUFFICES ASSUME NextReset(w, d) > today + 1 PROVE FALSE
        BY <1>1, <2>1, <3>2
      <4>2. d \in Nat /\ d <= today /\ today + 1 \in Nat
        BY <1>1
      <4>3. /\ NextReset(w, today) > today /\ NextReset(w, today + 1) > today + 1
            /\ NextReset(w, today) \in Nat /\ NextReset(w, today + 1) \in Nat
            /\ NextReset(w, d) \in Nat
        BY <1>1, <4>2, PeriodsEnd
      <4>4. NextReset(w, today + 1) <= NextReset(w, d)
        BY <4>1, <4>2, PeriodsEnd
      <4>5. NextReset(w, d) <= NextReset(w, today)
        BY <1>1, <4>2, <4>3, PeriodsEnd
      <4>6. NextReset(w, today) <= NextReset(w, today + 1)
        BY <1>1, <4>2, <4>3, PeriodsEnd
      <4> QED BY <2>4, <4>3, <4>4, <4>5, <4>6 DEF SamePeriod
    <3>4. Due(w, today)'
      BY <1>1, <3>2, <3>3 DEF Due
    <3> QED BY <1>1, <2>2, <3>1, <3>4
  <2> QED BY <2>3, <2>4
<1> QED BY <1>1, <1>4, <1>5 DEF CountsAreOfThePeriod, QuotaTypeOK

-----------------------------------------------------------------------------
(* Overruns.                                                                *)

\* Where nobody joins those that use, nothing can be overrun.
LEMMA FewerUse ==
  ASSUME QuotasIInv, Using' \subseteq Using, UNCHANGED <<quota, lax>>
  PROVE  LaxIsKnown' /\ OverrunIsBounded'
<1>1. Using \in SUBSET Checks /\ IsFiniteSet(Using)
  BY QuotasAssumption, FS_Subset DEF Using
<1>2. Cardinality(Using') <= Cardinality(Using) /\ Cardinality(Using') \in Nat /\ Cardinality(Using) \in Nat
  BY <1>1, FS_Subset, FS_CardinalityType
<1>3. LaxIsKnown'
  BY DEF QuotasIInv, LaxIsKnown, Exists
<1>4. ASSUME Exists', ~lax', NEW w \in Window
      PROVE  quota'.count[w] + Cardinality(Using') <= quota'.limit[w] + Cardinality(Checks) - 1
  <2>1. quota \in Quota
    BY <1>4 DEF QuotasIInv, CountsAreOfThePeriod, QuotaTypeOK, Exists
  <2>2. quota.count[w] \in Nat /\ quota.limit[w] \in Nat
    BY <2>1, QuotaTyped
  <2>3. quota.count[w] + Cardinality(Using) <= quota.limit[w] + Cardinality(Checks) - 1
    BY <1>4 DEF QuotasIInv, OverrunIsBounded, Exists
  <2>4. QED
    BY <1>2, <2>2, <2>3, RequestsAreCounted
<1>5. QED
  BY <1>3, <1>4 DEF OverrunIsBounded

\* Whoever looks at the counts is let through below the limits.
LEMMA DecideIsSafe ==
  ASSUME QuotasIInv, NEW h \in Checks, checks[h].now \in 0..MaxDay, Exists,
         Decide(h), UNCHANGED <<quota, lax>>
  PROVE  LaxIsKnown' /\ OverrunIsBounded'
<1>1. CASE ~Allowed
  <2>1. Using' \subseteq Using
    BY <1>1, UsingAfter DEF Decide, QuotasIInv, CountsAreOfThePeriod
  <2>2. QED
    BY <2>1, FewerUse
<1>2. CASE Allowed
  <2>1. Using' \in SUBSET Checks
    BY <1>2, UsingAfter DEF Decide, QuotasIInv, CountsAreOfThePeriod, Using
  <2>2. LaxIsKnown'
    BY DEF QuotasIInv, LaxIsKnown, Exists
  <2>3. quota \in Quota
    BY DEF QuotasIInv, CountsAreOfThePeriod, QuotaTypeOK, Exists
  <2>4. ASSUME NEW w \in Window
        PROVE  quota'.count[w] + Cardinality(Using') <= quota'.limit[w] + Cardinality(Checks) - 1
    <3>1. quota.count[w] \in Nat /\ quota.limit[w] \in Nat /\ quota.limit[w] > quota.count[w]
      BY <1>2, <2>3, QuotaTyped DEF Allowed, Remains
    <3>2. Cardinality(Using') \in Nat /\ Cardinality(Using') <= Cardinality(Checks)
      BY <2>1, RequestsAreCounted
    <3>3. QED
      BY <3>1, <3>2, RequestsAreCounted
  <2>5. QED
    BY <2>2, <2>4 DEF OverrunIsBounded
<1>3. QED
  BY <1>1, <1>2

\* Without a quota, or with one taken as lax, nothing is promised.
LEMMA LaxIsSafe ==
  ASSUME ~Exists' \/ lax'
  PROVE  LaxIsKnown' /\ OverrunIsBounded'
BY DEF LaxIsKnown, OverrunIsBounded

LEMMA AdministrateIInv ==
  ASSUME QuotasIInv, Administrate
  PROVE  QuotasIInv'
<1>1. ASSUME NEW limit \in [Window -> Limits \cup {Default}], NEW active \in BOOLEAN,
             CreateQuota(limit, active)
      PROVE  QuotasIInv'
  <2>1. CountsAreOfThePeriod'
    BY <1>1, CreateKeepsCounts DEF QuotasIInv
  <2>2. LaxIsKnown'
    BY <1>1 DEF CreateQuota, LaxIsKnown
  <2>3. ASSUME ~lax', NEW w \in Window
        PROVE  quota'.count[w] + Cardinality(Using') <= quota'.limit[w] + Cardinality(Checks) - 1
    <3>1. Using' = {}
      BY <1>1, <2>3 DEF CreateQuota, Using
    <3>2. quota'.count[w] = 0 /\ quota'.limit[w] \in Nat
      BY <1>1, QuotasAssumption DEF CreateQuota, Zero, Given
    <3>3. Cardinality(Using') = 0
      BY <3>1, FS_EmptySet
    <3>4. QED
      BY <3>2, <3>3, RequestsAreCounted
  <2>4. ResetsAreDone'
    <3>1. /\ quota'.reset = [w \in Window |-> NextReset(w, today)] /\ fresh' = Zero
          /\ UNCHANGED <<today, checks>>
          /\ today \in Nat /\ \A h \in Checks : checks[h].now \in Nat /\ checks[h].now <= today
      BY <1>1, DaysTyped DEF CreateQuota, QuotasIInv, CountsAreOfThePeriod, ResetsAreDone
    <3>2. \A w \in Window : /\ quota'.reset[w] = NextReset(w, today)
                             /\ NextReset(w, today) > today /\ NextReset(w, today) \in Nat
      BY <3>1, PeriodsEnd
    <3>3. \A w \in Window, h \in Checks : quota'.reset[w] > checks'[h].now
      BY <3>1, <3>2
    <3>4. \A w \in Window : fresh'[w] = 0 /\ today \in 0..today'
      BY <3>1 DEF Zero
    <3> QED BY <3>1, <3>2, <3>3, <3>4 DEF ResetsAreDone, Cleared
  <2>5. QED
    BY <2>1, <2>2, <2>3, <2>4 DEF QuotasIInv, OverrunIsBounded
<1>2. ASSUME NEW limit \in [Window -> Limits \cup {Default}], NEW active \in BOOLEAN,
             UpdateQuota(limit, active)
      PROVE  QuotasIInv'
  <2>1. CountsAreOfThePeriod'
    BY <1>2, UpdateKeepsCounts DEF QuotasIInv
  <2>2. quota \in Quota
    BY <1>2 DEF UpdateQuota, QuotasIInv, CountsAreOfThePeriod, QuotaTypeOK, Exists
  <2>3. /\ quota'.count = quota.count /\ quota'.limit = limit /\ quota'.is_active = active
        /\ Using' = Using
    BY <1>2, <2>2 DEF UpdateQuota, Quota, Using
  <2>4. LaxIsKnown'
    BY <1>2, <2>3 DEF UpdateQuota, LaxIsKnown
  <2>5. ASSUME ~lax', NEW w \in Window
        PROVE  quota'.count[w] + Cardinality(Using') <= quota'.limit[w] + Cardinality(Checks) - 1
    <3>1. ~lax /\ ~(limit[w] < quota.limit[w])
      BY <1>2, <2>5 DEF UpdateQuota
    <3>2. quota.count[w] + Cardinality(Using) <= quota.limit[w] + Cardinality(Checks) - 1
      BY <1>2, <3>1 DEF UpdateQuota, QuotasIInv, OverrunIsBounded
    <3>3. quota.count[w] \in Nat /\ quota.limit[w] \in Nat /\ limit[w] \in Nat
      BY <2>2, QuotaTyped, QuotasAssumption
    <3>4. Cardinality(Using) \in Nat
      BY RequestsAreCounted DEF Using
    <3>5. QED
      BY <2>3, <3>1, <3>2, <3>3, <3>4, RequestsAreCounted
  <2>6. ResetsAreDone'
    <3>1. quota'.reset = quota.reset /\ Exists /\ UNCHANGED <<today, checks, fresh>>
      BY <1>2, <2>2 DEF UpdateQuota, Quota
    <3> QED BY <3>1 DEF QuotasIInv, ResetsAreDone, Due, Cleared
  <2>7. QED
    BY <2>1, <2>4, <2>5, <2>6 DEF QuotasIInv, OverrunIsBounded
<1>3. ASSUME DeleteQuota PROVE QuotasIInv'
  <2>1. /\ ~Exists' /\ quota' = NoQuota
        /\ uses' \in [Window -> 0..MaxUses] /\ fresh' \in [Window -> 0..MaxUses]
    BY <1>3, QuotasAssumption DEF DeleteQuota, Exists, Zero
  <2>2. CountsAreOfThePeriod'
    BY <1>3, <2>1 DEF DeleteQuota, QuotasIInv, CountsAreOfThePeriod, QuotaTypeOK
  <2>3. ResetsAreDone'
    BY <1>3, <2>1 DEF DeleteQuota, QuotasIInv, ResetsAreDone
  <2>4. QED
    BY <2>1, <2>2, <2>3, LaxIsSafe DEF QuotasIInv
<1>4. QED
  BY <1>1, <1>2, <1>3 DEF Administrate

LEMMA RequestKeeps ==
  ASSUME QuotasIInv, NEW h \in Checks,
         \/ CheckQuota(h) \/ Reread(h) \/ IncrementUsage(h) \/ DropCheck(h)
         \/ \E w \in Window : ResetCounts(h, w)
  PROVE  CountsAreOfThePeriod' /\ LaxIsKnown' /\ OverrunIsBounded'
<1>1. QuotaTypeOK /\ checks[h].now \in 0..MaxDay /\ today \in 0..MaxDay /\ 0 \in 0..MaxDay
  BY QuotasAssumption DEF QuotasIInv, CountsAreOfThePeriod, QuotaTypeOK, Check
<1>2. ASSUME checks' \in [Checks -> Check], UNCHANGED <<today, quota, uses, fresh, lax>>
      PROVE  CountsAreOfThePeriod'
  BY <1>1, <1>2, MovesKeepCounts DEF QuotasIInv, QuotaTypeOK
<1>3. ASSUME CheckQuota(h) PROVE CountsAreOfThePeriod' /\ LaxIsKnown' /\ OverrunIsBounded'
  <2>1. checks' \in [Checks -> Check]
    BY <1>1, <1>3, GotoTyped DEF CheckQuota, Decide
  <2>2. CountsAreOfThePeriod'
    BY <1>2, <1>3, <2>1 DEF CheckQuota
  <2>3. CASE ~Exists \/ ~quota.is_active
    <3>1. ~Exists' \/ lax'
      BY <1>3, <2>3 DEF CheckQuota, Exists, QuotasIInv, LaxIsKnown
    <3>2. QED
      BY <2>2, <3>1, LaxIsSafe DEF QuotasIInv
  <2>4. CASE Decide(h) /\ Exists /\ quota.is_active
    BY <1>1, <1>3, <2>2, <2>4, DecideIsSafe DEF CheckQuota, QuotasIInv
  <2>5. CASE Goto(h, "daily", today) \/ Goto(h, "monthly", today)
    <3>1. Using' \subseteq Using
      BY <1>1, <2>5, UsingAfter
    <3>2. QED
      BY <1>3, <2>2, <3>1, FewerUse DEF CheckQuota, QuotasIInv
  <2>6. QED
    BY <1>3, <2>3, <2>4, <2>5 DEF CheckQuota
<1>4. ASSUME Reread(h) PROVE CountsAreOfThePeriod' /\ LaxIsKnown' /\ OverrunIsBounded'
  <2>1. checks' \in [Checks -> Check]
    BY <1>1, <1>4, GotoTyped DEF Reread, Decide
  <2>2. CountsAreOfThePeriod'
    BY <1>2, <1>4, <2>1 DEF Reread
  <2>3. CASE ~Exists
    <3>1. ~Exists'
      BY <1>4, <2>3 DEF Reread, Exists
    <3>2. QED
      BY <2>2, <3>1, LaxIsSafe DEF QuotasIInv
  <2>4. CASE Decide(h) /\ Exists
    BY <1>1, <1>4, <2>2, <2>4, DecideIsSafe DEF Reread, QuotasIInv
  <2>5. CASE Goto(h, "monthly", checks[h].now)
    <3>1. Using' \subseteq Using
      BY <1>1, <2>5, UsingAfter
    <3>2. QED
      BY <1>4, <2>2, <3>1, FewerUse DEF Reread, QuotasIInv
  <2>6. QED
    BY <1>4, <2>3, <2>4, <2>5 DEF Reread
<1>5. ASSUME IncrementUsage(h) PROVE CountsAreOfThePeriod' /\ LaxIsKnown' /\ OverrunIsBounded'
  <2>1. CountsAreOfThePeriod'
    BY <1>5, IncrementKeepsCounts DEF QuotasIInv
  <2>2. Using' = Using \ {h} /\ h \in Using /\ lax' = lax
    BY <1>1, <1>5, UsingAfter DEF IncrementUsage, Using
  <2>3. CASE ~Exists
    <3>1. ~Exists'
      BY <1>5, <2>3 DEF IncrementUsage, Exists
    <3>2. QED
      BY <2>1, <3>1, LaxIsSafe DEF QuotasIInv
  <2>4. CASE Exists
    <3>1. quota \in Quota
      BY <1>1, <2>4 DEF QuotaTypeOK, Exists
    <3>2. quota' = [quota EXCEPT !.count = [w \in Window |-> @[w] + 1]]
      BY <1>5, <2>4 DEF IncrementUsage
    <3>3. /\ quota'.count = [w \in Window |-> quota.count[w] + 1]
          /\ quota'.limit = quota.limit /\ quota'.is_active = quota.is_active
      BY <3>1, <3>2 DEF Quota
    <3>4. LaxIsKnown'
      BY <2>2, <2>4, <3>3 DEF LaxIsKnown, QuotasIInv
    <3>5. Cardinality(Using') = Cardinality(Using) - 1
      <4>1. IsFiniteSet(Using)
        BY QuotasAssumption, FS_Subset DEF Using
      <4>2. QED
        BY <2>2, <4>1, FS_RemoveElement
    <3>6. ASSUME ~lax', NEW w \in Window
          PROVE  quota'.count[w] + Cardinality(Using') <= quota'.limit[w] + Cardinality(Checks) - 1
      <4>1. quota.count[w] + Cardinality(Using) <= quota.limit[w] + Cardinality(Checks) - 1
        BY <2>2, <2>4, <3>6 DEF QuotasIInv, OverrunIsBounded
      <4>2. quota.count[w] \in Nat /\ quota.limit[w] \in Nat /\ Cardinality(Using) \in Nat
        BY <3>1, QuotaTyped, RequestsAreCounted DEF Using
      <4>3. QED
        BY <3>3, <3>5, <4>1, <4>2, RequestsAreCounted
    <3>7. QED
      BY <2>1, <3>4, <3>6 DEF QuotasIInv, OverrunIsBounded
  <2>5. QED
    BY <2>3, <2>4
<1>6. ASSUME DropCheck(h) PROVE CountsAreOfThePeriod' /\ LaxIsKnown' /\ OverrunIsBounded'
  <2>1. checks' \in [Checks -> Check]
    BY <1>1, <1>6, GotoTyped DEF DropCheck
  <2>2. Using' \subseteq Using
    BY <1>1, <1>6, UsingAfter DEF DropCheck
  <2>3. QED
    BY <1>2, <1>6, <2>1, <2>2, FewerUse DEF DropCheck, QuotasIInv
<1>7. ASSUME NEW w \in Window, ResetCounts(h, w) PROVE CountsAreOfThePeriod' /\ LaxIsKnown' /\ OverrunIsBounded'
  <2>1. CountsAreOfThePeriod'
    BY <1>7, ResetKeepsCounts DEF QuotasIInv
  <2>2. Using' = Using /\ h \in Checks \ Using /\ lax' = lax
    BY <1>1, <1>7, UsingAfter DEF ResetCounts, Using, Window
  <2>3. CASE ~(Exists /\ Due(w, today))
    BY <1>7, <2>1, <2>2, <2>3, FewerUse DEF ResetCounts, QuotasIInv
  <2>4. CASE Exists /\ Due(w, today)
    <3>1. quota \in Quota
      BY <1>1, <2>4 DEF QuotaTypeOK, Exists
    <3>2. quota' = [quota EXCEPT !.count[w] = 0, !.reset[w] = NextReset(w, today)]
      BY <1>7, <2>4 DEF ResetCounts
    <3>3. /\ quota'.count = [quota.count EXCEPT ![w] = 0]
          /\ quota'.limit = quota.limit /\ quota'.is_active = quota.is_active
      BY <3>1, <3>2 DEF Quota
    <3>4. LaxIsKnown'
      BY <2>2, <2>4, <3>3 DEF LaxIsKnown, QuotasIInv
    <3>5. Cardinality(Using) \in Nat /\ Cardinality(Using) <= Cardinality(Checks) - 1
      BY <2>2, RequestsAreCounted DEF Using
    <3>6. ASSUME ~lax', NEW v \in Window
          PROVE  quota'.count[v] + Cardinality(Using') <= quota'.limit[v] + Cardinality(Checks) - 1
      <4>1. quota.count[v] + Cardinality(Using) <= quota.limit[v] + Cardinality(Checks) - 1
        BY <2>2, <2>4, <3>6 DEF QuotasIInv, OverrunIsBounded
      <4>2. quota.count \in [Window -> 0..MaxUses] /\ quota.limit[v] \in Nat
        BY <3>1, QuotasAssumption DEF Quota
      <4>3. quota'.count[v] = 0 \/ quota'.count[v] = quota.count[v]
        BY <3>3, <4>2
      <4>4. QED
        BY <2>2, <3>3, <3>5, <4>1, <4>2, <4>3, RequestsAreCounted
    <3>7. QED
      BY <2>1, <3>4, <3>6 DEF QuotasIInv, OverrunIsBounded
  <2>5. QED
    BY <2>3, <2>4
<1>8. QED
  BY <1>3, <1>4, <1>5, <1>6, <1>7

LEMMA RequestResets ==
  ASSUME QuotasIInv, NEW h \in Checks,
         \/ CheckQuota(h) \/ Reread(h) \/ IncrementUsage(h) \/ DropCheck(h)
         \/ \E w \in Window : ResetCounts(h, w)
  PROVE  ResetsAreDone'
<1>1. /\ QuotaTypeOK /\ ResetsAreDone /\ today \in Nat /\ checks[h].now \in Nat
      /\ checks[h].now <= today
      /\ Exists => \A w \in Window : quota.reset[w] \in Nat /\ quota.reset[w] > 0
  BY DaysTyped DEF QuotasIInv, CountsAreOfThePeriod, ResetsAreDone
<1>2. CASE CheckQuota(h)
  <2>1. UNCHANGED <<today, quota, fresh>> /\ 0 <= today /\ today <= today
    BY <1>1, <1>2 DEF CheckQuota
  <2>2. CASE Goto(h, "use", 0)
    BY <1>1, <2>1, <2>2, MoveKeepsResets
  <2>3. CASE Goto(h, "daily", today)
    BY <1>1, <2>1, <2>3, MoveKeepsResets
  <2>4. CASE Goto(h, "monthly", today) /\ ~Due("daily", today)
    <3>1. Exists => quota.reset["daily"] > today
      BY <1>1, <2>4 DEF Due, Window
    <3>2. Exists => \A w \in Window : w = "monthly" \/ quota.reset[w] > today
      BY <3>1 DEF Window
    <3> QED BY <1>1, <2>1, <2>4, <3>2, MoveKeepsResets
  <2>5. CASE Decide(h) /\ ~Due("daily", today) /\ ~Due("monthly", today)
    <3>1. CASE Goto(h, "idle", 0)
      BY <1>1, <2>1, <3>1, MoveKeepsResets
    <3>2. CASE Goto(h, "use", checks[h].now)
      <4>1. Exists => \A w \in Window : quota.reset[w] > checks[h].now
        BY <1>1, <2>5 DEF Due, Window
      <4> QED BY <1>1, <2>1, <3>2, <4>1, MoveKeepsResets
    <3> QED BY <2>5, <3>1, <3>2 DEF Decide
  <2> QED BY <1>2, <2>2, <2>3, <2>4, <2>5 DEF CheckQuota
<1>3. CASE Reread(h)
  <2>1. UNCHANGED <<today, quota, fresh>> /\ 0 <= today
    BY <1>1, <1>3 DEF Reread
  <2>2. CASE Goto(h, "use", 0)
    BY <1>1, <2>1, <2>2, MoveKeepsResets
  <2>3. checks[h].at \in {"readDaily", "readMonthly"}
        /\ (Exists => quota.reset["daily"] > checks[h].now)
    BY <1>1, <1>3 DEF Reread, ResetsAreDone, Cleared, Window
  <2>4. CASE Goto(h, "monthly", checks[h].now)
    <3>1. Exists => \A w \in Window : w = "monthly" \/ quota.reset[w] > checks[h].now
      BY <2>3 DEF Window
    <3> QED BY <1>1, <2>1, <2>4, <3>1, MoveKeepsResets
  <2>5. CASE Decide(h) /\ (checks[h].at = "readDaily" => ~Due("monthly", checks[h].now))
    <3>1. CASE Goto(h, "idle", 0)
      BY <1>1, <2>1, <3>1, MoveKeepsResets
    <3>2. CASE Goto(h, "use", checks[h].now)
      <4>1. Exists => quota.reset["monthly"] > checks[h].now
        <5>1. CASE checks[h].at = "readDaily"
          BY <1>1, <2>5, <5>1 DEF Due, Window
        <5>2. CASE checks[h].at = "readMonthly"
          BY <1>1, <5>2 DEF ResetsAreDone, Cleared, Window
        <5> QED BY <2>3, <5>1, <5>2
      <4>2. Exists => \A w \in Window : quota.reset[w] > checks[h].now
        BY <2>3, <4>1 DEF Window
      <4> QED BY <1>1, <2>1, <3>2, <4>2, MoveKeepsResets
    <3> QED BY <2>5, <3>1, <3>2 DEF Decide
  <2> QED BY <1>3, <2>2, <2>4, <2>5 DEF Reread
<1>4. CASE DropCheck(h)
  BY <1>1, <1>4, MoveKeepsResets DEF DropCheck
<1>5. CASE IncrementUsage(h)
  BY <1>1, <1>5, IncrementKeepsResets
<1>6. ASSUME NEW w \in Window, ResetCounts(h, w) PROVE ResetsAreDone'
  BY <1>1, <1>6, ResetKeepsResets
<1> QED BY <1>2, <1>3, <1>4, <1>5, <1>6

LEMMA RequestIInv ==
  ASSUME QuotasIInv, NEW h \in Checks,
         \/ CheckQuota(h) \/ Reread(h) \/ IncrementUsage(h) \/ DropCheck(h)
         \/ \E w \in Window : ResetCounts(h, w)
  PROVE  QuotasIInv'
BY RequestKeeps, RequestResets DEF QuotasIInv

LEMMA NextIInv == QuotasIInv /\ [QuotaNext]_quotaVars => QuotasIInv'
<1> SUFFICES ASSUME QuotasIInv, [QuotaNext]_quotaVars PROVE QuotasIInv'
  OBVIOUS
<1>1. ASSUME Tick PROVE QuotasIInv'
  <2>1. CountsAreOfThePeriod' /\ ResetsAreDone'
    BY <1>1, TickKeepsCounts, TickKeepsResets DEF QuotasIInv, CountsAreOfThePeriod
  <2>2. Using' \subseteq Using /\ UNCHANGED <<quota, lax>>
    BY <1>1 DEF Tick, Using
  <2>3. QED
    BY <2>1, <2>2, FewerUse DEF QuotasIInv
<1>2. CASE UNCHANGED quotaVars
  BY <1>2 DEF quotaVars, QuotasIInv, CountsAreOfThePeriod, QuotaTypeOK, Exists, Due,
              LaxIsKnown, OverrunIsBounded, Using, ResetsAreDone, Cleared
<1>3. QED
  BY <1>1, <1>2, AdministrateIInv, RequestIInv DEF QuotaNext

-----------------------------------------------------------------------------

\* The strengthened invariant holds for any number of checks, any limits and
\* months of any length.
THEOREM QuotasInvariant == QuotaSpec => []QuotasIInv
<1>1. QuotaInit => QuotasIInv
  BY InitIInv
<1>2. QuotasIInv /\ [QuotaNext]_quotaVars => QuotasIInv'
  BY NextIInv
<1>3. QED
  BY <1>1, <1>2, PTL DEF QuotaSpec

\* No reset, however many checks run it at once, drops a use of a request that
\* checked in the period that runs, nor leaves one of an earlier period in the
\* count (QuotaService.checkQuota, resetDailyCounts and resetMonthlyCounts).
THEOREM ResetsKeepThePeriod == QuotaSpec => []CountsAreOfThePeriod
<1>1. QuotasIInv => CountsAreOfThePeriod
  BY DEF QuotasIInv
<1>2. QED
  BY <1>1, QuotasInvariant, PTL

\* A limit that is enforced and not lowered is passed by fewer uses than there
\* are requests at a time (QuotaService.checkQuota and incrementUsage).
THEOREM LimitsHoldNearly == QuotaSpec => []OverrunIsBounded
<1>1. QuotasIInv => OverrunIsBounded
  BY DEF QuotasIInv
<1>2. QED
  BY <1>1, QuotasInvariant, PTL
==============================================================================
