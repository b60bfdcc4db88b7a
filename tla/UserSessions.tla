----------------------------- MODULE UserSessions -----------------------------
(***************************************************************************)
(* The dashboard sessions: Login, Logout, RefreshSession and               *)
(* ValidateSessionToken of internal/usecase/user_auth.go with the          *)
(* middleware that calls them, on the rows of                              *)
(* internal/repository/user_session.go.                                    *)
(*                                                                         *)
(* Every statement works on one row by its id.  A token is found by its      *)
(* hash, and what the request then does with the row (delete it, rotate its *)
(* tokens, extend it) comes later, whatever happened to it in between.      *)
(*                                                                         *)
(* The access token and the refresh token of a session are made and replaced *)
(* together: a generation stands for both.                                  *)
(***************************************************************************)
EXTENDS Naturals

CONSTANTS Requests,  \* requests, one at a time on each
          Sessions,  \* ids of sessions, each used once
          MaxGen     \* bound on the generations of one session

ASSUME SessionsAssumption == MaxGen \in Nat \ {0}

VARIABLES
    live,      \* SUBSET Sessions: the rows
    gen,       \* [Sessions -> Nat]: the generation of the row's tokens
    made,      \* [Sessions -> Nat]: the latest generation answered, 0 before Login
    accessOK,  \* SUBSET Sessions: expires_at is to come
    refreshOK, \* SUBSET Sessions: refresh_expires_at is to come
    touches,   \* SUBSET Sessions: those with a Touch started and not yet done
    pc,        \* [Requests -> Step]
    on,        \* [Requests -> Sessions]: the session the request has found
    ended,     \* history, SUBSET Sessions: those that a Logout has deleted
    overtaken  \* history, SUBSET Requests: those about to delete a session as
               \*   expired that has been renewed since they found it so

rowVars == <<live, gen, accessOK, refreshOK>>
historyVars == <<ended, overtaken>>
sessionVars == <<rowVars, made, touches, pc, on, historyVars>>

Step == {"idle", "purge", "logout", "rotate"}
Gen == 0 .. MaxGen

SessionInit ==
    /\ live = {} /\ accessOK = {} /\ refreshOK = {}
    /\ gen = [s \in Sessions |-> 0]
    /\ made = [s \in Sessions |-> 0]
    /\ touches = {}
    /\ pc = [a \in Requests |-> "idle"]
    /\ on \in [Requests -> Sessions]
    /\ \A a, b \in Requests : on[a] = on[b]
    /\ ended = {} /\ overtaken = {}

SessionAt(a, step) == pc[a] = step
GoTo(a, step) == pc' = [pc EXCEPT ![a] = step]

(* The row's tokens are now a new pair, which the answer takes along. *)
Mints(s) ==
    /\ made[s] < MaxGen
    /\ made' = [made EXCEPT ![s] = @ + 1]

(* The session is good again, whatever those about to delete it have read. *)
Renews(s) ==
    overtaken' = overtaken \cup {a \in Requests : SessionAt(a, "purge") /\ on[a] = s}
-----------------------------------------------------------------------------
(* Login, and the end of SignUp: createSession. *)
Login(s) ==
    /\ made[s] = 0
    /\ Mints(s)
    /\ live' = live \cup {s}
    /\ gen' = [gen EXCEPT ![s] = made'[s]]
    /\ accessOK' = accessOK \cup {s}
    /\ refreshOK' = refreshOK \cup {s}
    /\ UNCHANGED <<touches, pc, on, historyVars>>

(* GetByHash and GetByRefreshHash: a token of generation g finds its row     *)
(* unless the row has gone or has other tokens by now.                      *)
Finds(a, s, g) ==
    /\ SessionAt(a, "idle")
    /\ g \in 1 .. made[s]
    /\ s \in live
    /\ gen[s] = g
    /\ on' = [on EXCEPT ![a] = s]

(* ValidateSessionToken: the access token is good, a goroutine will extend  *)
(* it, and the request goes on: to Logout, or to another handler, which     *)
(* leaves the row alone.                                                   *)
Validate(a, s, g) ==
    /\ Finds(a, s, g)
    /\ s \in accessOK
    /\ touches' = touches \cup {s}
    /\ pc' \in {pc, [pc EXCEPT ![a] = "logout"]}
    /\ UNCHANGED <<rowVars, made, historyVars>>

(* The access token has expired: the session is to be deleted. *)
ValidateExpired(a, s, g) ==
    /\ Finds(a, s, g)
    /\ s \notin accessOK
    /\ GoTo(a, "purge")
    /\ UNCHANGED <<rowVars, made, touches, historyVars>>

Refresh(a, s, g) ==
    /\ Finds(a, s, g)
    /\ s \in refreshOK
    /\ GoTo(a, "rotate")
    /\ UNCHANGED <<rowVars, made, touches, historyVars>>

RefreshExpired(a, s, g) ==
    /\ Finds(a, s, g)
    /\ s \notin refreshOK
    /\ GoTo(a, "purge")
    /\ UNCHANGED <<rowVars, made, touches, historyVars>>

(* DELETE ... WHERE id: the tokens find nothing any more. *)
DeleteByID(s) ==
    /\ live' = live \ {s}
    /\ UNCHANGED <<gen, accessOK, refreshOK>>

Purge(a) ==
    /\ SessionAt(a, "purge")
    /\ DeleteByID(on[a])
    /\ GoTo(a, "idle")
    /\ overtaken' = overtaken \ {a}
    /\ UNCHANGED <<made, touches, on, ended>>

Logout(a) ==
    /\ SessionAt(a, "logout")
    /\ DeleteByID(on[a])
    /\ GoTo(a, "idle")
    /\ ended' = ended \cup {on[a]}
    /\ UNCHANGED <<made, touches, on, overtaken>>

(* Variant: the row is inserted when there is none. *)
RotateTokensUpserting(s) ==
    /\ live' = live \cup {s}
    /\ gen' = [gen EXCEPT ![s] = made'[s]]
    /\ accessOK' = accessOK \cup {s}
    /\ refreshOK' = refreshOK \cup {s}

(* UPDATE ... WHERE id: of no row when it has gone, which is no error. *)
RotateTokens(s) ==
    IF s \in live
    THEN /\ gen' = [gen EXCEPT ![s] = made'[s]]
         /\ accessOK' = accessOK \cup {s}
         /\ refreshOK' = refreshOK \cup {s}
         /\ UNCHANGED live
    ELSE UNCHANGED rowVars

(* The new tokens are stored and answered. *)
Rotate(a) ==
    /\ SessionAt(a, "rotate")
    /\ Mints(on[a])
    /\ RotateTokens(on[a])
    /\ Renews(on[a])
    /\ GoTo(a, "idle")
    /\ UNCHANGED <<touches, on, ended>>

(* Variant: a request that fails takes its session along. *)
FailsClosed(a) ==
    /\ ~SessionAt(a, "idle")
    /\ DeleteByID(on[a])
    /\ GoTo(a, "idle")
    /\ overtaken' = overtaken \ {a}
    /\ UNCHANGED <<made, touches, on, ended>>

(* A statement fails, the user may not sign in (any more), or the process    *)
(* ends: the row stays as it is.                                           *)
RequestFails(a) ==
    /\ ~SessionAt(a, "idle")
    /\ GoTo(a, "idle")
    /\ overtaken' = overtaken \ {a}
    /\ UNCHANGED <<rowVars, made, touches, on, ended>>
-----------------------------------------------------------------------------
(* The goroutine of ValidateSessionToken extends the access token; of several *)
(* for one session one is done, and it may fail.                            *)
Touch(s) ==
    /\ s \in touches
    /\ \/ accessOK' = accessOK \cup ({s} \cap live) /\ Renews(s)
       \/ UNCHANGED <<accessOK, overtaken>>
    /\ touches' \in {touches, touches \ {s}}
    /\ UNCHANGED <<live, gen, refreshOK, made, pc, on, ended>>

(* Time passes. *)
AccessExpires(s) ==
    /\ s \in live \cap accessOK
    /\ accessOK' = accessOK \ {s}
    /\ UNCHANGED <<live, gen, refreshOK, made, touches, pc, on, historyVars>>

RefreshExpires(s) ==
    /\ s \in live \cap refreshOK
    /\ refreshOK' = refreshOK \ {s}
    /\ UNCHANGED <<live, gen, accessOK, made, touches, pc, on, historyVars>>
-----------------------------------------------------------------------------
Presents(a) ==
    \E s \in Sessions, g \in Gen :
       Validate(a, s, g) \/ ValidateExpired(a, s, g)
       \/ Refresh(a, s, g) \/ RefreshExpired(a, s, g)

SessionNext ==
    \/ \E s \in Sessions : Login(s) \/ Touch(s) \/ AccessExpires(s) \/ RefreshExpires(s)
    \/ \E a \in Requests : Presents(a) \/ Purge(a) \/ Logout(a) \/ Rotate(a) \/ RequestFails(a)

SessionSpec == SessionInit /\ [][SessionNext]_sessionVars
-----------------------------------------------------------------------------
SessionTypeOK ==
    /\ live \subseteq Sessions
    /\ gen \in [Sessions -> Gen]
    /\ made \in [Sessions -> Gen]
    /\ accessOK \subseteq Sessions /\ refreshOK \subseteq Sessions
    /\ touches \subseteq Sessions
    /\ pc \in [Requests -> Step]
    /\ on \in [Requests -> Sessions]
    /\ ended \subseteq Sessions /\ overtaken \subseteq Requests

(* A session that was logged out, or deleted otherwise, never comes back,    *)
(* whatever refreshes and Touch goroutines of it were under way.            *)
(* (DeleteByID, RotateTokens and Touch of repository/user_session.go.)      *)
GoneStays ==
    [][\A s \in Sessions : made[s] > 0 /\ s \notin live => s \notin live']_sessionVars

(* A session goes only by its Logout or while one of its tokens has expired, *)
(* whatever requests fail and refreshes cross, but for one race: a request    *)
(* found it expired, a refresh or a Touch renewed it, and the first request  *)
(* deletes it nevertheless.                                                *)
(* (ValidateSessionToken, RefreshSession, Logout of usecase/user_auth.go.)  *)
GoesForReason ==
    [][\A s \in live \ live' :
          \/ s \in ended'
          \/ s \notin accessOK \cap refreshOK
          \/ \E a \in overtaken \ overtaken' : on[a] = s]_sessionVars

(* README.md:739 "o app renova sessao automaticamente com refresh cookie":   *)
(* a session whose refresh token has not expired goes only by its Logout,   *)
(* so that the app can renew it when the access token has expired.          *)
RefreshRenews ==
    [][\A s \in live : s \in refreshOK /\ s \notin live' => s \in ended']_sessionVars
=============================================================================
