---------------------------- MODULE AccountsProofs ----------------------------
(* Proofs about Accounts: its types, that a tenant keeps a default instance, *)
(* and that it keeps an owner unless two changes of its roles overlapped.    *)
(* At the end those about UserSessions, what a user signs in to: its types,  *)
(* that a session goes only for a reason, and that one that has gone never   *)
(* comes back.                                                               *)
EXTENDS Accounts, UserSessions, TLAPS

USE AccountsAssumption, SessionsAssumption

(* A request has the local variables of its step. *)
LEMMA Fields ==
    ASSUME NEW r \in Request
    PROVE  /\ r.step \in RowStep => r.of \in Emails
           /\ r.step = "insert" => r.of \in Emails /\ r.isDefault \in BOOLEAN
           /\ r.step \in RoleStep =>
                 r.of \in Emails /\ r.who \in Emails /\ r.wants \in Role
           /\ r.step = "target" => r.by \in Emails /\ r.rights \in Role
BY DEF Request, Idle, RowStep, RoleStep

LEMMA BecomesTyped ==
    ASSUME TypeOK, NEW a \in Actors, NEW r \in Request, Becomes(a, r)
    PROVE  req' \in [Actors -> Request]
BY DEF TypeOK, Becomes

LEMMA OvertakesTyped ==
    ASSUME TypeOK, NEW a \in Actors, NEW t, Overtakes(a, t)
    PROVE  stale' \subseteq Actors
BY DEF TypeOK, Overtakes

LEMMA RoleTyped ==
    ASSUME TypeOK, NEW t \in Emails, NEW u \in Emails, NEW r \in Role,
           role' = [role EXCEPT ![t][u] = r]
    PROVE  role' \in [Emails -> [Emails -> Role \cup {NoRole}]]
BY DEF TypeOK

LEMMA InitTypes == Init => TypeOK
BY DEF Init, TypeOK, Request

LEMMA InsertTypes ==
    ASSUME TypeOK, NEW t \in Emails, NEW d \in BOOLEAN, InsertInstance(t, d)
    PROVE  /\ defaults' \in [Emails -> 0 .. 1]
           /\ others' \in [Emails -> 0 .. MaxInstances]
BY DEF TypeOK, InsertInstance

LEMMA StepTypes == TypeOK /\ [Next]_vars => TypeOK'
<1> SUFFICES ASSUME TypeOK, [Next]_vars PROVE TypeOK'
  OBVIOUS
<1> USE DEF memberVars
<1>1. ASSUME NEW a \in Actors, NEW e \in Emails, SignUp(a, e) PROVE TypeOK'
  <2>1. [step |-> "tenant", of |-> e] \in Request
    BY DEF Request, RowStep
  <2> QED BY <1>1, <2>1, BecomesTyped DEF SignUp, TypeOK
<1>2. ASSUME NEW a \in Actors, NEW e \in Emails, Bootstrap(a, e) PROVE TypeOK'
  <2>1. [step |-> "instance", of |-> e] \in Request
    BY DEF Request, RowStep
  <2> QED BY <1>2, <2>1, BecomesTyped DEF Bootstrap, TypeOK
<1>3. ASSUME NEW a \in Actors, NEW e \in Emails, CreateInstance(a, e) PROVE TypeOK'
  <2>1. [step |-> "insert", of |-> e, isDefault |-> IsDefault(e)] \in Request
    BY DEF Request, IsDefault
  <2> QED BY <1>3, <2>1, BecomesTyped DEF CreateInstance, TypeOK
<1>4. ASSUME NEW a \in Actors, NEW t \in Emails, NEW u \in Emails, NEW v \in Emails,
             NEW r \in Role, AddTenantMember(a, u, t, v, r)
      PROVE TypeOK'
  <2>1. RoleRequest("find", t, v, r) \in Request
    BY DEF Request, RoleRequest, RoleStep
  <2> QED BY <1>4, <2>1, BecomesTyped DEF AddTenantMember, TypeOK
<1>5. ASSUME NEW a \in Actors, NEW t \in Emails, NEW u \in Emails, NEW v \in Emails,
             NEW r \in Role, UpdateTenantMemberRole(a, u, t, v, r)
      PROVE TypeOK'
  <2>1. role[t][u] \in Role
    BY <1>5 DEF UpdateTenantMemberRole, TypeOK
  <2>2. [step |-> "target", of |-> t, who |-> v, wants |-> r, by |-> u,
         rights |-> role[t][u]] \in Request
    BY <2>1 DEF Request
  <2> QED BY <1>5, <2>2, BecomesTyped DEF UpdateTenantMemberRole, TypeOK
<1>6. ASSUME NEW a \in Actors, InsertTenant(a) PROVE TypeOK'
  <2>1. req[a].of \in Emails
    BY <1>6, Fields DEF InsertTenant, At, RowStep, TypeOK
  <2>2. [step |-> "membership", of |-> req[a].of] \in Request /\ Idle \in Request
    BY <2>1 DEF Request, RowStep
  <2> QED BY <1>6, <2>1, <2>2, BecomesTyped DEF InsertTenant, Onward, TypeOK
<1>7. ASSUME NEW a \in Actors, InsertMembership(a) PROVE TypeOK'
  <2>1. req[a].of \in Emails
    BY <1>7, Fields DEF InsertMembership, At, RowStep, TypeOK
  <2>2. [step |-> "instance", of |-> req[a].of] \in Request
    BY <2>1 DEF Request, RowStep
  <2>3. role' \in [Emails -> [Emails -> Role \cup {NoRole}]]
    BY <1>7, <2>1, RoleTyped DEF InsertMembership, Role
  <2> QED BY <1>7, <2>1, <2>2, <2>3, BecomesTyped, OvertakesTyped
          DEF InsertMembership, Onward, TypeOK
<1>8. ASSUME NEW a \in Actors, InsertDefault(a) PROVE TypeOK'
  <2>1. req[a].of \in Emails
    BY <1>8, Fields DEF InsertDefault, At, RowStep, TypeOK
  <2>2. Idle \in Request
    BY DEF Request
  <2> QED BY <1>8, <2>1, <2>2, BecomesTyped, InsertTypes DEF InsertDefault, TypeOK
<1>9. ASSUME NEW a \in Actors, InsertRead(a) PROVE TypeOK'
  <2>1. req[a].of \in Emails /\ req[a].isDefault \in BOOLEAN
    BY <1>9, Fields DEF InsertRead, At, TypeOK
  <2>2. Idle \in Request
    BY DEF Request
  <2> QED BY <1>9, <2>1, <2>2, BecomesTyped, InsertTypes DEF InsertRead, TypeOK
<1>10. ASSUME NEW a \in Actors, FindUser(a) PROVE TypeOK'
  <2>1. RoleRequest("add", req[a].of, req[a].who, req[a].wants) \in Request
    BY <1>10, Fields DEF FindUser, At, Request, RoleStep, RoleRequest, TypeOK
  <2> QED BY <1>10, <2>1, BecomesTyped DEF FindUser, TypeOK
<1>11. ASSUME NEW a \in Actors, FindMember(a) PROVE TypeOK'
  <2>1. RoleRequest("update", req[a].of, req[a].who, req[a].wants) \in Request
    BY <1>11, Fields DEF FindMember, At, Request, RoleStep, RoleRequest, TypeOK
  <2> QED BY <1>11, <2>1, BecomesTyped DEF FindMember, TypeOK
<1>12. ASSUME NEW a \in Actors, StoreRole(a) PROVE TypeOK'
  <2>1. req[a].of \in Emails /\ req[a].who \in Emails /\ req[a].wants \in Role
    BY <1>12, Fields DEF StoreRole, InsertMember, UpdateRole, PutRole, At, RoleStep, TypeOK
  <2>2. Idle \in Request
    BY DEF Request
  <2>3. role' \in [Emails -> [Emails -> Role \cup {NoRole}]]
    BY <1>12, <2>1, RoleTyped DEF StoreRole, InsertMember, UpdateRole, PutRole
  <2> QED BY <1>12, <2>1, <2>2, <2>3, BecomesTyped, OvertakesTyped
          DEF StoreRole, InsertMember, UpdateRole, PutRole, TypeOK
<1>13. ASSUME NEW a \in Actors, Fails(a) PROVE TypeOK'
  <2>1. Idle \in Request
    BY DEF Request
  <2> QED BY <1>13, <2>1, BecomesTyped DEF Fails, TypeOK
<1>14. CASE UNCHANGED vars
  BY <1>14 DEF vars, TypeOK
<1> QED BY <1>1, <1>2, <1>3, <1>4, <1>5, <1>6, <1>7, <1>8, <1>9, <1>10, <1>11, <1>12,
           <1>13, <1>14 DEF Next, Begins, Goes

(* The variables have their types: no tenant has two default instances, nor   *)
(* more others than the bound.                                             *)
THEOREM AccountTypes == Spec => []TypeOK
<1>1. QED BY InitTypes, StepTypes, PTL DEF Spec
-----------------------------------------------------------------------------
(* An instance about to be stored as not the default found a default. *)
Defaulted ==
    /\ OneDefault
    /\ \A a \in Actors :
          At(a, "insert") /\ ~req[a].isDefault => defaults[req[a].of] = 1

LEMMA InitDefaulted == Init => Defaulted
BY DEF Init, Defaulted, OneDefault, At, Idle

(* The index and the check keep that of the table, whoever inserts. *)
LEMMA InsertKeeps ==
    ASSUME TypeOK, OneDefault, NEW t \in Emails, NEW d \in BOOLEAN,
           InsertInstance(t, d), ~d => defaults[t] = 1
    PROVE  /\ OneDefault'
           /\ \A e \in Emails : defaults[e] = 1 => defaults'[e] = 1
BY DEF TypeOK, OneDefault, InsertInstance

LEMMA StepDefaulted == TypeOK /\ Defaulted /\ [Next]_vars => Defaulted'
<1> SUFFICES ASSUME TypeOK, Defaulted, [Next]_vars PROVE Defaulted'
  OBVIOUS
<1> USE DEF memberVars
(* The steps that touch no instance and begin no insert. *)
<1>1. ASSUME NEW a \in Actors, NEW r, r.step # "insert", Becomes(a, r),
             UNCHANGED <<defaults, others>>
      PROVE Defaulted'
  BY <1>1 DEF Becomes, Defaulted, OneDefault, At, TypeOK
<1>2. ASSUME NEW a \in Actors, NEW e \in Emails, SignUp(a, e) \/ Bootstrap(a, e)
      PROVE Defaulted'
  BY <1>2, <1>1 DEF SignUp, Bootstrap
<1>3. ASSUME NEW a \in Actors, NEW e \in Emails, CreateInstance(a, e) PROVE Defaulted'
  <2>1. ~IsDefault(e) => defaults[e] = 1
    BY DEF IsDefault, Defaulted, OneDefault, TypeOK
  <2> QED BY <1>3, <2>1 DEF CreateInstance, Becomes, Defaulted, OneDefault, At, TypeOK
<1>4. ASSUME NEW a \in Actors, NEW t \in Emails, NEW u \in Emails, NEW v \in Emails,
             NEW r \in Role,
             AddTenantMember(a, u, t, v, r) \/ UpdateTenantMemberRole(a, u, t, v, r)
      PROVE Defaulted'
  BY <1>4, <1>1 DEF AddTenantMember, UpdateTenantMemberRole, RoleRequest
<1>5. ASSUME NEW a \in Actors, InsertTenant(a) \/ InsertMembership(a) PROVE Defaulted'
  BY <1>5, <1>1 DEF InsertTenant, InsertMembership, Onward, Idle
<1>6. ASSUME NEW a \in Actors, InsertDefault(a) PROVE Defaulted'
  <2>1. req[a].of \in Emails
    BY <1>6, Fields DEF InsertDefault, At, RowStep, TypeOK
  <2>2. OneDefault' /\ \A e \in Emails : defaults[e] = 1 => defaults'[e] = 1
    BY <1>6, <2>1, InsertKeeps DEF InsertDefault, Defaulted
  <2>3. \A b \in Actors : req[b].step = "insert" => req[b].of \in Emails
    BY Fields DEF TypeOK
  <2> QED BY <1>6, <2>2, <2>3 DEF InsertDefault, Becomes, Idle, Defaulted, At, TypeOK
<1>7. ASSUME NEW a \in Actors, InsertRead(a) PROVE Defaulted'
  <2>1. req[a].of \in Emails /\ req[a].isDefault \in BOOLEAN
    BY <1>7, Fields DEF InsertRead, At, TypeOK
  <2>2. OneDefault' /\ \A e \in Emails : defaults[e] = 1 => defaults'[e] = 1
    BY <1>7, <2>1, InsertKeeps DEF InsertRead, Defaulted
  <2>3. \A b \in Actors : req[b].step = "insert" => req[b].of \in Emails
    BY Fields DEF TypeOK
  <2> QED BY <1>7, <2>2, <2>3 DEF InsertRead, Becomes, Idle, Defaulted, At, TypeOK
<1>8. ASSUME NEW a \in Actors, FindUser(a) \/ FindMember(a) PROVE Defaulted'
  BY <1>8, <1>1 DEF FindUser, FindMember, RoleRequest
<1>9. ASSUME NEW a \in Actors, StoreRole(a) \/ Fails(a) PROVE Defaulted'
  BY <1>9, <1>1 DEF StoreRole, InsertMember, UpdateRole, PutRole, Fails, Idle
<1>10. CASE UNCHANGED vars
  BY <1>10 DEF vars, Defaulted, OneDefault, At
<1> QED BY <1>2, <1>3, <1>4, <1>5, <1>6, <1>7, <1>8, <1>9, <1>10 DEF Next, Begins, Goes

(* A tenant with instances has one default instance, whatever sign-ups and    *)
(* creations of instances overlapped or failed.                             *)
THEOREM OneDefaultKept == Spec => []OneDefault
<1>1. Defaulted => OneDefault
  BY DEF Defaulted
<1>2. QED BY <1>1, InitDefaulted, StepDefaulted, AccountTypes, PTL DEF Spec
-----------------------------------------------------------------------------
HasOwner(t) == \E u \in Emails : role[t][u] = "owner"
OwnerBeside(t, v) == \E u \in Emails : u # v /\ role[t][u] = "owner"

(* What a request that was not overtaken knows of its tenant: the sender has  *)
(* the rights that were read, and the role about to be stored does not      *)
(* replace the last owner's.                                               *)
Knows(a) ==
    /\ At(a, "target") => role[req[a].of][req[a].by] = req[a].rights
    /\ At(a, "update") =>
          \/ role[req[a].of][req[a].who] # "owner"
          \/ OwnerBeside(req[a].of, req[a].who)

Owned ==
    /\ OwnerKept
    /\ \A a \in Actors \ stale : Knows(a)

LEMMA InitOwned == Init => Owned
BY DEF Init, Owned, OwnerKept, Knows, At, Idle

(* A step that stores no role leaves what the others know, *)
LEMMA OthersKnow ==
    ASSUME TypeOK, Owned, NEW a \in Actors, NEW r, Becomes(a, r),
           UNCHANGED <<role, founded, raced>>, stale \ {a} \subseteq stale',
           a \notin stale' => Knows(a)'
    PROVE  Owned'
<1>1. OwnerKept'
  BY DEF Owned, OwnerKept
<1>2. ASSUME NEW b \in Actors \ stale', b # a PROVE Knows(b)'
  <2>1. Knows(b) /\ req'[b] = req[b]
    BY <1>2 DEF Owned, Becomes, TypeOK
  <2> QED BY <2>1 DEF Knows, At, OwnerBeside
<1> QED BY <1>1, <1>2 DEF Owned

(* and so does one that stores a role of another tenant. *)
LEMMA OvertakenKnow ==
    ASSUME TypeOK, Owned, NEW a \in Actors, NEW r, Becomes(a, r),
           r.step \notin {"target", "update"}, NEW t \in Emails, Overtakes(a, t),
           \A e \in Emails \ {t} : role'[e] = role[e]
    PROVE  \A b \in Actors \ stale' : Knows(b)'
<1> SUFFICES ASSUME NEW b \in Actors \ stale' PROVE Knows(b)'
  OBVIOUS
<1>1. CASE b = a
  BY <1>1 DEF Becomes, Knows, At, TypeOK
<1>2. CASE b # a
  <2>1. Knows(b) /\ req'[b] = req[b] /\ ~(req[b].step \in RoleStep /\ req[b].of = t)
    BY <1>2 DEF Owned, Becomes, Overtakes, TypeOK
  <2>2. req[b].step \in {"target", "update"} => role'[req[b].of] = role[req[b].of]
    BY <2>1, Fields DEF RoleStep, TypeOK
  <2> QED BY <2>1, <2>2 DEF Knows, At, OwnerBeside
<1> QED BY <1>1, <1>2

LEMMA MembershipOwned ==
    ASSUME TypeOK, Owned, NEW a \in Actors, InsertMembership(a)
    PROVE  Owned'
<1> DEFINE t == req[a].of
<1>1. t \in Emails
  BY Fields DEF InsertMembership, At, RowStep, TypeOK
<1>2. /\ role'[t][t] = "owner"
      /\ \A e \in Emails \ {t} : role'[e] = role[e]
      /\ founded' = founded \cup {t} /\ raced' = raced
      /\ Overtakes(a, t)
  BY <1>1 DEF InsertMembership, TypeOK
<1>3. OwnerKept'
  <2> SUFFICES ASSUME NEW e \in founded', e \notin raced'
               PROVE  \E u \in Emails : role'[e][u] = "owner"
    BY DEF OwnerKept
  <2> QED BY <1>1, <1>2 DEF Owned, OwnerKept, TypeOK
<1>4. \A b \in Actors \ stale' : Knows(b)'
  <2>1. Becomes(a, [step |-> "instance", of |-> t])
    BY DEF InsertMembership, Onward
  <2> QED BY <1>1, <1>2, <2>1, OvertakenKnow
<1> QED BY <1>3, <1>4 DEF Owned

LEMMA StoreOwned ==
    ASSUME TypeOK, Owned, NEW a \in Actors, StoreRole(a)
    PROVE  Owned'
<1> DEFINE t == req[a].of
           v == req[a].who
<1>1. t \in Emails /\ v \in Emails /\ req[a].wants \in Role
  BY Fields DEF StoreRole, InsertMember, UpdateRole, PutRole, At, RoleStep, TypeOK
<1>2. /\ \A e \in Emails \ {t} : role'[e] = role[e]
      /\ \A u \in Emails \ {v} : role'[t][u] = role[t][u]
      /\ founded' = founded
      /\ raced' = IF a \in stale THEN raced \cup {t} ELSE raced
      /\ Overtakes(a, t)
  BY <1>1 DEF StoreRole, InsertMember, UpdateRole, PutRole, TypeOK
<1>3. a \notin stale => role[t][v] # "owner" \/ OwnerBeside(t, v)
  BY DEF StoreRole, InsertMember, UpdateRole, PutRole, Owned, Knows, At, NoRole
<1>4. OwnerKept'
  <2> SUFFICES ASSUME NEW e \in founded, e \notin raced'
               PROVE  \E u \in Emails : role'[e][u] = "owner"
    BY <1>2 DEF OwnerKept
  <2>1. e \in Emails /\ e \notin raced
    BY <1>2 DEF TypeOK
  <2>2. PICK o \in Emails : role[e][o] = "owner"
    BY <2>1 DEF Owned, OwnerKept
  <2>3. CASE e # t
    BY <2>1, <2>2, <2>3, <1>2
  <2>4. CASE e = t
    <3>1. a \notin stale
      BY <1>2, <2>4
    <3>2. PICK u \in Emails : u # v /\ role[t][u] = "owner"
      BY <1>3, <3>1, <2>2, <2>4 DEF OwnerBeside
    <3> QED BY <1>2, <3>2, <2>4
  <2> QED BY <2>3, <2>4
<1>5. \A b \in Actors \ stale' : Knows(b)'
  <2>1. Becomes(a, Idle) /\ Idle.step \notin {"target", "update"}
    BY DEF StoreRole, InsertMember, UpdateRole, PutRole, Idle
  <2> QED BY <1>1, <1>2, <2>1, OvertakenKnow
<1> QED BY <1>4, <1>5 DEF Owned

(* What FindMember checks is what the change of the role relies on. *)
LEMMA FindMemberOwned ==
    ASSUME TypeOK, Owned, NEW a \in Actors, FindMember(a)
    PROVE  Owned'
<1> DEFINE q == req[a]
<1>1. q.by \in Emails /\ q.of \in Emails /\ q.who \in Emails
  BY Fields DEF FindMember, At, RoleStep, TypeOK
<1>2. a \notin stale => role[q.of][q.who] # "owner" \/ OwnerBeside(q.of, q.who)
  BY <1>1 DEF FindMember, Owned, Knows, MayManage, OwnerBeside, At
<1>3. Becomes(a, RoleRequest("update", q.of, q.who, q.wants))
      /\ UNCHANGED <<role, founded, raced, stale>>
  BY DEF FindMember, memberVars
<1>4. a \notin stale' => Knows(a)'
  BY <1>2, <1>3 DEF Knows, At, Becomes, RoleRequest, OwnerBeside, TypeOK
<1> QED BY <1>3, <1>4, OthersKnow

LEMMA StepOwned == TypeOK /\ Owned /\ [Next]_vars => Owned'
<1> SUFFICES ASSUME TypeOK, Owned, [Next]_vars PROVE Owned'
  OBVIOUS
<1> USE DEF memberVars
(* The steps that store no role and begin no change of one. *)
<1>1. ASSUME NEW a \in Actors, NEW r, Becomes(a, r), r.step \notin {"target", "update"},
             UNCHANGED <<role, founded, raced>>, stale \ {a} \subseteq stale'
      PROVE Owned'
  <2>1. Knows(a)'
    BY <1>1 DEF Becomes, Knows, At, TypeOK
  <2> QED BY <1>1, <2>1, OthersKnow
<1>2. ASSUME NEW a \in Actors, NEW e \in Emails,
             SignUp(a, e) \/ Bootstrap(a, e) \/ CreateInstance(a, e)
      PROVE Owned'
  BY <1>2, <1>1 DEF SignUp, Bootstrap, CreateInstance
<1>3. ASSUME NEW a \in Actors, NEW t \in Emails, NEW u \in Emails, NEW v \in Emails,
             NEW r \in Role, AddTenantMember(a, u, t, v, r)
      PROVE Owned'
  BY <1>3, <1>1 DEF AddTenantMember, RoleRequest
<1>4. ASSUME NEW a \in Actors, NEW t \in Emails, NEW u \in Emails, NEW v \in Emails,
             NEW r \in Role, UpdateTenantMemberRole(a, u, t, v, r)
      PROVE Owned'
  <2>1. Knows(a)'
    BY <1>4 DEF UpdateTenantMemberRole, Becomes, Knows, At, TypeOK
  <2> QED BY <1>4, <2>1, OthersKnow DEF UpdateTenantMemberRole
<1>5. ASSUME NEW a \in Actors, InsertTenant(a) \/ InsertDefault(a) \/ InsertRead(a)
      PROVE Owned'
  BY <1>5, <1>1 DEF InsertTenant, InsertDefault, InsertRead, Onward, Idle
<1>6. ASSUME NEW a \in Actors, FindUser(a) PROVE Owned'
  BY <1>6, <1>1 DEF FindUser, RoleRequest
<1>7. ASSUME NEW a \in Actors, Fails(a) PROVE Owned'
  BY <1>7, <1>1 DEF Fails, Idle
<1>8. CASE UNCHANGED vars
  BY <1>8 DEF vars, Owned, OwnerKept, Knows, At, OwnerBeside
<1> QED BY <1>2, <1>3, <1>4, <1>5, <1>6, <1>7, <1>8, MembershipOwned, StoreOwned,
           FindMemberOwned DEF Next, Begins, Goes

(* A tenant that has had an owner keeps one, unless two changes of its roles  *)
(* overlapped.                                                             *)
THEOREM AnOwnerKept == Spec => []OwnerKept
<1>1. Owned => OwnerKept
  BY DEF Owned
<1>2. QED BY <1>1, InitOwned, StepOwned, AccountTypes, PTL DEF Spec

-----------------------------------------------------------------------------
(* The dashboard sessions.  Their state is apart from the accounts'.         *)

(* The initial state has the types. *)
LEMMA InitSessions == SessionInit => SessionTypeOK
BY DEF SessionInit, SessionTypeOK, Gen, Step

(* Each action of the goroutines, of time and of the requests keeps the types. *)
LEMMA StepSessions == SessionTypeOK /\ [SessionNext]_sessionVars => SessionTypeOK'
<1> SUFFICES ASSUME SessionTypeOK, [SessionNext]_sessionVars PROVE SessionTypeOK'
  OBVIOUS
<1> USE DEF SessionTypeOK, Gen, Step
<1>1. ASSUME NEW s \in Sessions, Login(s) PROVE SessionTypeOK'
  BY <1>1 DEF Login, Mints, historyVars
<1>2. ASSUME NEW s \in Sessions, Touch(s) PROVE SessionTypeOK'
  BY <1>2 DEF Touch, Renews, historyVars
<1>3. ASSUME NEW s \in Sessions, AccessExpires(s) \/ RefreshExpires(s)
      PROVE SessionTypeOK'
  BY <1>3 DEF AccessExpires, RefreshExpires, historyVars
<1>4. ASSUME NEW a \in Requests, Presents(a) PROVE SessionTypeOK'
  <2> PICK s \in Sessions, g \in Gen :
          Validate(a, s, g) \/ ValidateExpired(a, s, g)
          \/ Refresh(a, s, g) \/ RefreshExpired(a, s, g)
    BY <1>4 DEF Presents
  <2>1. CASE Validate(a, s, g)
    BY <2>1 DEF Validate, Finds, rowVars, historyVars
  <2>2. CASE ValidateExpired(a, s, g)
    BY <2>2 DEF ValidateExpired, Finds, GoTo, rowVars, historyVars
  <2>3. CASE Refresh(a, s, g)
    BY <2>3 DEF Refresh, Finds, GoTo, rowVars, historyVars
  <2>4. CASE RefreshExpired(a, s, g)
    BY <2>4 DEF RefreshExpired, Finds, GoTo, rowVars, historyVars
  <2> QED BY <2>1, <2>2, <2>3, <2>4
<1>5. ASSUME NEW a \in Requests, Purge(a) \/ Logout(a) PROVE SessionTypeOK'
  BY <1>5 DEF Purge, Logout, DeleteByID, GoTo, historyVars
<1>6. ASSUME NEW a \in Requests, Rotate(a) PROVE SessionTypeOK'
  BY <1>6 DEF Rotate, Mints, RotateTokens, Renews, GoTo, rowVars
<1>7. ASSUME NEW a \in Requests, RequestFails(a) PROVE SessionTypeOK'
  BY <1>7 DEF RequestFails, GoTo, rowVars, historyVars
<1>8. CASE UNCHANGED sessionVars
  BY <1>8 DEF sessionVars, rowVars, historyVars
<1> QED BY <1>1, <1>2, <1>3, <1>4, <1>5, <1>6, <1>7, <1>8 DEF SessionNext

(* The variables have their types, and gen stays within the bound on the      *)
(* generations.                                                            *)
THEOREM SessionRowTypes == SessionSpec => []SessionTypeOK
<1>1. QED BY InitSessions, StepSessions, PTL DEF SessionSpec
-----------------------------------------------------------------------------
(* A request that has found a session found one that was logged in, and when *)
(* it is about to delete it because it had expired, a token of it is expired *)
(* still, or a renewal has overtaken it.                                   *)
Reasoned ==
    /\ \A a \in Requests : ~SessionAt(a, "idle") => made[on[a]] > 0
    /\ \A a \in Requests :
          SessionAt(a, "purge") => on[a] \notin accessOK \cap refreshOK \/ a \in overtaken

(* No request has found a session at first. *)
LEMMA InitReasoned == SessionInit => Reasoned
BY DEF SessionInit, Reasoned, SessionAt

(* Who renews a session has every request about to delete it overtaken. *)
LEMMA StepReasoned == SessionTypeOK /\ Reasoned /\ [SessionNext]_sessionVars => Reasoned'
<1> SUFFICES ASSUME SessionTypeOK, Reasoned, [SessionNext]_sessionVars PROVE Reasoned'
  OBVIOUS
<1> USE DEF SessionTypeOK, Gen, Step, Reasoned, SessionAt
<1>1. ASSUME NEW s \in Sessions, Login(s) PROVE Reasoned'
  BY <1>1 DEF Login, Mints, historyVars
<1>2. ASSUME NEW s \in Sessions, Touch(s) PROVE Reasoned'
  BY <1>2 DEF Touch, Renews
<1>3. ASSUME NEW s \in Sessions, AccessExpires(s) \/ RefreshExpires(s) PROVE Reasoned'
  BY <1>3 DEF AccessExpires, RefreshExpires, historyVars
<1>4. ASSUME NEW a \in Requests, Presents(a) PROVE Reasoned'
  <2> PICK s \in Sessions, g \in Gen :
          Validate(a, s, g) \/ ValidateExpired(a, s, g)
          \/ Refresh(a, s, g) \/ RefreshExpired(a, s, g)
    BY <1>4 DEF Presents
  <2>1. CASE Validate(a, s, g)
    BY <2>1 DEF Validate, Finds, rowVars, historyVars
  <2>2. CASE ValidateExpired(a, s, g)
    BY <2>2 DEF ValidateExpired, Finds, GoTo, rowVars, historyVars
  <2>3. CASE Refresh(a, s, g)
    BY <2>3 DEF Refresh, Finds, GoTo, rowVars, historyVars
  <2>4. CASE RefreshExpired(a, s, g)
    BY <2>4 DEF RefreshExpired, Finds, GoTo, rowVars, historyVars
  <2> QED BY <2>1, <2>2, <2>3, <2>4
<1>5. ASSUME NEW a \in Requests, Purge(a) PROVE Reasoned'
  BY <1>5 DEF Purge, DeleteByID, GoTo
<1>6. ASSUME NEW a \in Requests, Logout(a) PROVE Reasoned'
  BY <1>6 DEF Logout, DeleteByID, GoTo
<1>7. ASSUME NEW a \in Requests, Rotate(a) PROVE Reasoned'
  <2>1. \A s \in Sessions : made'[s] > 0 <=> made[s] > 0
    BY <1>7 DEF Rotate, Mints
  <2>2. \A s \in Sessions :
           s \in accessOK' \cap refreshOK' => s \in accessOK \cap refreshOK \/ s = on[a]
    BY <1>7 DEF Rotate, RotateTokens, rowVars
  <2> QED BY <1>7, <2>1, <2>2 DEF Rotate, GoTo, Renews
<1>8. ASSUME NEW a \in Requests, RequestFails(a) PROVE Reasoned'
  BY <1>8 DEF RequestFails, GoTo, rowVars
<1>9. CASE UNCHANGED sessionVars
  BY <1>9 DEF sessionVars, rowVars, historyVars
<1> QED BY <1>1, <1>2, <1>3, <1>4, <1>5, <1>6, <1>7, <1>8, <1>9 DEF SessionNext

(* One step deletes no session without a reason. *)
LEMMA StepGoes ==
    SessionTypeOK /\ Reasoned /\ [SessionNext]_sessionVars =>
       \A s \in live \ live' :
          \/ s \in ended'
          \/ s \notin accessOK \cap refreshOK
          \/ \E a \in overtaken \ overtaken' : on[a] = s
<1> SUFFICES ASSUME SessionTypeOK, Reasoned, [SessionNext]_sessionVars,
                    NEW s \in live \ live'
             PROVE  \/ s \in ended'
                    \/ s \notin accessOK \cap refreshOK
                    \/ \E a \in overtaken \ overtaken' : on[a] = s
  OBVIOUS
<1>1. ASSUME NEW r \in Sessions,
             Login(r) \/ Touch(r) \/ AccessExpires(r) \/ RefreshExpires(r)
      PROVE FALSE
  BY <1>1 DEF Login, Touch, AccessExpires, RefreshExpires
<1>2. ASSUME NEW a \in Requests, Presents(a) PROVE FALSE
  BY <1>2 DEF Presents, Validate, ValidateExpired, Refresh, RefreshExpired, rowVars
<1>3. ASSUME NEW a \in Requests, Rotate(a) \/ RequestFails(a) PROVE FALSE
  BY <1>3 DEF Rotate, RequestFails, RotateTokens, rowVars
<1>4. ASSUME NEW a \in Requests, Purge(a)
      PROVE \/ s \notin accessOK \cap refreshOK
            \/ \E b \in overtaken \ overtaken' : on[b] = s
  BY <1>4 DEF Purge, DeleteByID, Reasoned, SessionTypeOK
<1>5. ASSUME NEW a \in Requests, Logout(a) PROVE s \in ended'
  BY <1>5 DEF Logout, DeleteByID
<1>6. CASE UNCHANGED sessionVars
  BY <1>6 DEF sessionVars, rowVars
<1> QED BY <1>1, <1>2, <1>3, <1>4, <1>5, <1>6 DEF SessionNext

(* No failing request and no crossing of refreshes deletes a session that has *)
(* not expired: only its Logout does, or one whom a renewal has overtaken.   *)
THEOREM SessionGoesForReason == SessionSpec => GoesForReason
<1>1. SessionTypeOK /\ Reasoned /\ [SessionNext]_sessionVars =>
         [\A s \in live \ live' :
             \/ s \in ended'
             \/ s \notin accessOK \cap refreshOK
             \/ \E a \in overtaken \ overtaken' : on[a] = s]_sessionVars
  BY StepGoes
<1>2. QED
  BY <1>1, InitReasoned, StepReasoned, SessionRowTypes, PTL DEF SessionSpec, GoesForReason
-----------------------------------------------------------------------------
(* One step puts back no row that was there before. *)
LEMMA StepGone ==
    SessionTypeOK /\ [SessionNext]_sessionVars =>
       \A s \in Sessions : made[s] > 0 /\ s \notin live => s \notin live'
<1> SUFFICES ASSUME SessionTypeOK, [SessionNext]_sessionVars,
                    NEW s \in Sessions, made[s] > 0, s \notin live
             PROVE  s \notin live'
  OBVIOUS
<1>1. ASSUME NEW r \in Sessions,
             Login(r) \/ Touch(r) \/ AccessExpires(r) \/ RefreshExpires(r)
      PROVE s \notin live'
  BY <1>1 DEF Login, Touch, AccessExpires, RefreshExpires
<1>2. ASSUME NEW a \in Requests, Presents(a) PROVE s \notin live'
  BY <1>2 DEF Presents, Validate, ValidateExpired, Refresh, RefreshExpired, rowVars
<1>3. ASSUME NEW a \in Requests, Purge(a) \/ Logout(a) \/ Rotate(a) \/ RequestFails(a)
      PROVE s \notin live'
  BY <1>3 DEF Purge, Logout, Rotate, RequestFails, DeleteByID, RotateTokens, rowVars
<1>4. CASE UNCHANGED sessionVars
  BY <1>4 DEF sessionVars, rowVars
<1> QED BY <1>1, <1>2, <1>3, <1>4 DEF SessionNext

(* A session that has gone never comes back, whatever refreshes and Touch    *)
(* goroutines of it were under way.                                        *)
THEOREM SessionGoneStays == SessionSpec => GoneStays
<1>1. SessionTypeOK /\ [SessionNext]_sessionVars =>
         [\A s \in Sessions : made[s] > 0 /\ s \notin live => s \notin live']_sessionVars
  BY StepGone
<1>2. QED BY <1>1, SessionRowTypes, PTL DEF SessionSpec, GoneStays
===============================================================================
