------------------------------- MODULE Accounts -------------------------------
(***************************************************************************)
(* Accounts: SignUp, AddTenantMember and UpdateTenantMemberRole of          *)
(* internal/usecase/user_auth.go, BootstrapTenant of                        *)
(* internal/usecase/auth.go and Create of internal/usecase/instance.go, on  *)
(* the rows of internal/repository (user, tenant, tenant_user, instance).   *)
(*                                                                         *)
(* No request runs in a transaction: each statement is a step of its own,   *)
(* what it has read is used later, and what it has inserted stays when a     *)
(* later one fails.  A user and a tenant are named by the e-mail of their    *)
(* sign-up, which is unique in both tables.  The subscription's row is that  *)
(* of module Subscription, and no check here reads it or an API key: that    *)
(* their insertion fails is a failure between two steps of this module.     *)
(***************************************************************************)
EXTENDS Naturals, FiniteSets

CONSTANTS Actors,        \* requests
          Emails,        \* of users, and of tenants
          Managed,       \* bound: the tenants that change after they are founded
          MaxInstances   \* bound on the instances of one tenant, the default apart

ASSUME AccountsAssumption == Managed \subseteq Emails /\ MaxInstances \in Nat

Role == {"owner", "admin", "operator"}    \* a viewer has the rights of an operator here
NoRole == "none"

VARIABLES
    users,      \* SUBSET Emails: the rows of users
    tenants,    \* SUBSET Emails: the rows of tenants
    role,       \* [Emails -> [Emails -> Role or NoRole]]: tenant_users, by
                \*   tenant and user
    defaults,   \* [Emails -> Nat]: the default instances of a tenant
    others,     \* [Emails -> Nat]: its other instances
    req,        \* [Actors -> Request]: where a request is, and its local variables
    founded,    \* history, SUBSET Emails: the tenants that have had an owner
    stale,      \* history, SUBSET Actors: those for whose tenant a role was
                \*   stored since they began to read
    raced       \* history, SUBSET Emails: the tenants a stale actor stored a role of

memberVars == <<role, founded, stale, raced>>
vars == <<users, tenants, defaults, others, req, memberVars>>

RoleStep == {"find", "add", "target", "update"}
RowStep == {"tenant", "membership", "instance"}
Idle == [step |-> "idle"]

Request ==
    {Idle}
    \cup [step : RowStep, of : Emails]
    \cup [step : {"insert"}, of : Emails, isDefault : BOOLEAN]
    \cup [step : RoleStep \ {"target"}, of : Emails, who : Emails, wants : Role]
    \cup [step : {"target"}, of : Emails, who : Emails, wants : Role,
          by : Emails, rights : Role]

Init ==
    /\ users = {} /\ tenants = {}
    /\ role = [t \in Emails |-> [u \in Emails |-> NoRole]]
    /\ defaults = [t \in Emails |-> 0]
    /\ others = [t \in Emails |-> 0]
    /\ req = [a \in Actors |-> Idle]
    /\ founded = {} /\ stale = {} /\ raced = {}

At(a, step) == req[a].step = step
Becomes(a, r) == req' = [req EXCEPT ![a] = r]
Onward(a, step) == Becomes(a, [step |-> step, of |-> req[a].of])

(* The actor stores a role of the tenant: what others have read is stale. *)
Overtakes(a, t) ==
    stale' = (stale \ {a}) \cup
                {b \in Actors \ {a} : req[b].step \in RoleStep /\ req[b].of = t}
-----------------------------------------------------------------------------
(* SignUp, one INSERT a step.                                              *)

SignUp(a, e) ==
    /\ At(a, "idle")
    /\ e \notin users
    /\ users' = users \cup {e}
    /\ Becomes(a, [step |-> "tenant", of |-> e])
    /\ UNCHANGED <<tenants, defaults, others, memberVars>>

(* The tenant's e-mail may be taken by one that was bootstrapped: the        *)
(* request ends in ErrConflict, and its user stays.                         *)
InsertTenant(a) ==
    /\ At(a, "tenant")
    /\ IF req[a].of \in tenants
       THEN Becomes(a, Idle) /\ UNCHANGED tenants
       ELSE tenants' = tenants \cup {req[a].of} /\ Onward(a, "membership")
    /\ UNCHANGED <<users, defaults, others, memberVars>>

InsertMembership(a) ==
    /\ At(a, "membership")
    /\ LET t == req[a].of IN
          /\ role' = [role EXCEPT ![t][t] = "owner"]
          /\ founded' = founded \cup {t}
          /\ Overtakes(a, t)
    /\ Onward(a, "instance")
    /\ UNCHANGED <<users, tenants, defaults, others, raced>>

(* BootstrapTenant: the same without a user. *)
Bootstrap(a, e) ==
    /\ At(a, "idle")
    /\ e \notin tenants
    /\ tenants' = tenants \cup {e}
    /\ Becomes(a, [step |-> "instance", of |-> e])
    /\ UNCHANGED <<users, defaults, others, memberVars>>

(* Variant: the index is not there. *)
InsertInstanceUnindexed(t, isDefault) ==
    IF isDefault THEN defaults' = [defaults EXCEPT ![t] = @ + 1] /\ UNCHANGED others
    ELSE others' = [others EXCEPT ![t] = @ + 1] /\ UNCHANGED defaults

(* The unique index on the default instance of a tenant refuses a second. *)
InsertInstance(t, isDefault) ==
    IF isDefault
    THEN /\ defaults[t] = 0
         /\ defaults' = [defaults EXCEPT ![t] = 1]
         /\ UNCHANGED others
    ELSE /\ others[t] < MaxInstances
         /\ others' = [others EXCEPT ![t] = @ + 1]
         /\ UNCHANGED defaults

(* The last row of both but for the session (module UserSessions) or API key. *)
InsertDefault(a) ==
    /\ At(a, "instance")
    /\ Becomes(a, Idle)
    /\ InsertInstance(req[a].of, TRUE)
    /\ UNCHANGED <<users, tenants, memberVars>>
-----------------------------------------------------------------------------
(* Create of an instance: the first one that is found is the default.      *)

IsDefault(t) == defaults[t] + others[t] = 0

CreateInstance(a, t) ==
    /\ At(a, "idle")
    /\ t \in tenants
    /\ Becomes(a, [step |-> "insert", of |-> t, isDefault |-> IsDefault(t)])
    /\ UNCHANGED <<users, tenants, defaults, others, memberVars>>

InsertRead(a) ==
    /\ At(a, "insert")
    /\ InsertInstance(req[a].of, req[a].isDefault)
    /\ Becomes(a, Idle)
    /\ UNCHANGED <<users, tenants, memberVars>>
-----------------------------------------------------------------------------
(* The members of a tenant.                                                *)

(* validateRoleManagement: may one with the rights make r of what was was? *)
MayManage(rights, r, was) ==
    \/ rights = "owner"
    \/ rights = "admin" /\ {r, was} \cap {"owner", "admin"} = {}

RoleRequest(step, t, v, r) == [step |-> step, of |-> t, who |-> v, wants |-> r]

(* AddTenantMember reads the sender's role, then the user and whether it is  *)
(* a member, then inserts: unless it is one by then (UNIQUE).               *)
AddTenantMember(a, u, t, v, r) ==
    /\ At(a, "idle")
    /\ role[t][u] # NoRole
    /\ MayManage(role[t][u], r, NoRole)
    /\ Becomes(a, RoleRequest("find", t, v, r))
    /\ UNCHANGED <<users, tenants, defaults, others, memberVars>>

FindUser(a) ==
    /\ At(a, "find")
    /\ req[a].who \in users
    /\ role[req[a].of][req[a].who] = NoRole
    /\ Becomes(a, RoleRequest("add", req[a].of, req[a].who, req[a].wants))
    /\ UNCHANGED <<users, tenants, defaults, others, memberVars>>

(* UpdateTenantMemberRole reads the sender's role, then the member's. *)
UpdateTenantMemberRole(a, u, t, v, r) ==
    /\ At(a, "idle")
    /\ role[t][u] # NoRole
    /\ Becomes(a, [step |-> "target", of |-> t, who |-> v, wants |-> r,
                   by |-> u, rights |-> role[t][u]])
    /\ UNCHANGED <<users, tenants, defaults, others, memberVars>>

(* Variant: the sender may change its own role. *)
FindMemberOwn(a) ==
    /\ At(a, "target")
    /\ LET q == req[a] IN
          /\ role[q.of][q.who] # NoRole
          /\ MayManage(q.rights, q.wants, role[q.of][q.who])
          /\ Becomes(a, RoleRequest("update", q.of, q.who, q.wants))
    /\ UNCHANGED <<users, tenants, defaults, others, memberVars>>

FindMember(a) ==
    /\ At(a, "target")
    /\ LET q == req[a] IN
          /\ role[q.of][q.who] # NoRole
          /\ q.who # q.by
          /\ MayManage(q.rights, q.wants, role[q.of][q.who])
          /\ Becomes(a, RoleRequest("update", q.of, q.who, q.wants))
    /\ UNCHANGED <<users, tenants, defaults, others, memberVars>>

PutRole(a) ==
    LET t == req[a].of IN
       /\ role' = [role EXCEPT ![t][req[a].who] = req[a].wants]
       /\ raced' = IF a \in stale THEN raced \cup {t} ELSE raced
       /\ Overtakes(a, t)
       /\ Becomes(a, Idle)
       /\ UNCHANGED <<users, tenants, defaults, others, founded>>

(* INSERT INTO tenant_users: refused to one that has become a member. *)
InsertMember(a) ==
    /\ At(a, "add")
    /\ role[req[a].of][req[a].who] = NoRole
    /\ PutRole(a)

(* UPDATE tenant_users SET role WHERE id: whatever the role is by then. *)
UpdateRole(a) ==
    /\ At(a, "update")
    /\ PutRole(a)

StoreRole(a) == InsertMember(a) \/ UpdateRole(a)
-----------------------------------------------------------------------------
(* A check or a statement fails, a row is refused, or the process ends: what *)
(* is stored stays.                                                        *)
Fails(a) ==
    /\ ~At(a, "idle")
    /\ Becomes(a, Idle)
    /\ stale' = stale \ {a}
    /\ UNCHANGED <<users, tenants, defaults, others, role, founded, raced>>

Begins(a) ==
    \/ \E e \in Emails : SignUp(a, e) \/ Bootstrap(a, e)
    \/ \E t \in Managed : CreateInstance(a, t)
    \/ \E t \in Managed, u, v \in Emails, r \in Role :
          AddTenantMember(a, u, t, v, r) \/ UpdateTenantMemberRole(a, u, t, v, r)

Goes(a) ==
    \/ InsertTenant(a) \/ InsertMembership(a) \/ InsertDefault(a)
    \/ InsertRead(a)
    \/ FindUser(a) \/ FindMember(a) \/ StoreRole(a)
    \/ Fails(a)

Next == \E a \in Actors : Begins(a) \/ Goes(a)

Spec == Init /\ [][Next]_vars
-----------------------------------------------------------------------------
TypeOK ==
    /\ users \subseteq Emails /\ tenants \subseteq Emails
    /\ role \in [Emails -> [Emails -> Role \cup {NoRole}]]
    /\ defaults \in [Emails -> 0 .. 1]
    /\ others \in [Emails -> 0 .. MaxInstances]
    /\ req \in [Actors -> Request]
    /\ founded \subseteq Emails /\ raced \subseteq Emails
    /\ stale \subseteq Actors

(* A tenant that has had an owner has one, unless two changes of its roles   *)
(* overlapped: no request alone, by an owner or an admin, takes the last one *)
(* away.  (UpdateTenantMemberRole, validateRoleManagement.)                 *)
OwnerKept ==
    \A t \in founded : (\E u \in Emails : role[t][u] = "owner") \/ t \in raced

(* A tenant with instances has one default instance, whatever sign-ups and    *)
(* creations of instances overlapped or failed: the one that is used when a  *)
(* request names none.  (Create of usecase/instance.go and the unique index.) *)
OneDefault ==
    \A t \in Emails :
       /\ defaults[t] <= 1
       /\ others[t] > 0 => defaults[t] = 1
=============================================================================
