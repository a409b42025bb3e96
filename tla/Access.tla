------------------------------- MODULE Access -------------------------------
(***************************************************************************)
(* AuthService behind its routes: the bootstrap of the administrator, and  *)
(* the sessions that log in, are used and log out.                         *)
(*                                                                         *)
(* A request is one transaction of get_database, which commits after its   *)
(* yield.  Of the versions of FastAPI that pyproject.toml admits the older *)
(* ones run that before the response is sent, and those from 0.118 on run  *)
(* it afterwards: an answer may come after the commit it tells of, before  *)
(* it, or before a commit that fails.                                      *)
(*                                                                         *)
(* Every account the routes can make is an administrator of bootstrap, so  *)
(* a user is named by the request that made it, as a session is.           *)
(***************************************************************************)
EXTENDS Naturals

CONSTANTS Requests, NoOne, Lifetime, Horizon, MaxFaults

VARIABLES users,      \* committed rows of users
          sessions,   \* rows of auth_sessions, and those only their transaction sees
          bootstrap,  \* the transaction that holds the advisory lock
          call,       \* the requests: how far each is, and whose token it has
          answered,   \* requests whose success was answered
          now,
          faults

vars == <<users, sessions, bootstrap, call, answered, now, faults>>

\* A request that ends without a commit that matters is "over".
Pending == {"created", "opened", "revoking"}
Steps   == {"idle", "locked", "done", "over"} \cup Pending
Session == [user : Requests, expires : 1..Horizon + Lifetime,
            state : {"unseen", "open", "revoked"}]

Init == /\ users = {} /\ answered = {}
        /\ sessions = <<>>
        /\ bootstrap = NoOne
        /\ call = [r \in Requests |-> [step |-> "idle", cookie |-> r]]
        /\ now = 1
        /\ faults = 0

Fault == faults < MaxFaults /\ faults' = faults + 1

At(r, step)   == call[r].step = step
GoTo(r, step) == call' = [call EXCEPT ![r].step = step]
Unlock(r)     == bootstrap' = IF bootstrap = r THEN NoOne ELSE bootstrap

\* create_session, which only the transaction sees as yet; and what others see of it.
NewSession(user) == [user |-> user, expires |-> now + Lifetime, state |-> "unseen"]
With(r, session) == [t \in DOMAIN sessions \cup {r} |-> IF t = r THEN session ELSE sessions[t]]
Turn(t, state)   == sessions' = [sessions EXCEPT ![t].state = state]
Without(r)       == sessions' = [t \in DOMAIN sessions \ {r} |-> sessions[t]]

\* Sessions whose token a browser has.
Cookies == {r \in answered : call[r].cookie = r}

\* resolve_session: the session of the cookie is usable.
Resolves(t) == /\ t \in DOMAIN sessions
               /\ sessions[t].state = "open"
               /\ sessions[t].expires > now
               /\ sessions[t].user \in users

-----------------------------------------------------------------------------
\* Mutant of Lock: the advisory lock is not taken.
LockNothing(r) ==
    /\ At(r, "idle")
    /\ GoTo(r, "locked")
    /\ UNCHANGED <<users, sessions, bootstrap, answered, now, faults>>

\* create_first_admin waits for the advisory lock of bootstrap.
Lock(r) ==
    /\ At(r, "idle")
    /\ bootstrap = NoOne
    /\ bootstrap' = r
    /\ GoTo(r, "locked")
    /\ UNCHANGED <<users, sessions, answered, now, faults>>

\* No administrator and the right token: user and session are inserted.
CreateFirstAdmin(r) ==
    /\ At(r, "locked")
    /\ users = {}
    /\ sessions' = With(r, NewSession(r))
    /\ GoTo(r, "created")
    /\ UNCHANGED <<users, bootstrap, answered, now, faults>>

\* An administrator exists, the token is wrong or the name invalid: 409.
BootstrapUnavailable(r) ==
    /\ At(r, "locked")
    /\ Unlock(r)
    /\ GoTo(r, "over")
    /\ UNCHANGED <<users, sessions, answered, now, faults>>

CommitBootstrap(r) ==
    /\ At(r, "created")
    /\ users' = users \cup {r}
    /\ Turn(r, "open")
    /\ Unlock(r)
    /\ GoTo(r, "done")
    /\ UNCHANGED <<answered, now, faults>>

\* login: the right password of a user; what it inserts depends on no other row.
Login(r, user) ==
    /\ At(r, "idle")
    /\ user \in users
    /\ sessions' = With(r, NewSession(user))
    /\ GoTo(r, "opened")
    /\ UNCHANGED <<users, bootstrap, answered, now, faults>>

CommitLogin(r) ==
    /\ At(r, "opened")
    /\ Turn(r, "open")
    /\ GoTo(r, "done")
    /\ UNCHANGED <<users, bootstrap, answered, now, faults>>

\* A route of a user who is logged in.
Visit(r, t) ==
    /\ At(r, "idle")
    /\ t \in Cookies
    /\ Resolves(t)
    /\ call' = [call EXCEPT ![r] = [step |-> "over", cookie |-> t]]
    /\ UNCHANGED <<users, sessions, bootstrap, answered, now, faults>>

\* logout resolves the session and finds it not yet revoked.
Logout(r, t) ==
    /\ At(r, "idle")
    /\ t \in Cookies
    /\ Resolves(t)
    /\ call' = [call EXCEPT ![r] = [step |-> "revoking", cookie |-> t]]
    /\ UNCHANGED <<users, sessions, bootstrap, answered, now, faults>>

\* Mutant of CommitLogout: the cookie is deleted, but the row stays as it was.
ForgetLogout(r) ==
    /\ At(r, "revoking")
    /\ GoTo(r, "done")
    /\ UNCHANGED <<users, sessions, bootstrap, answered, now, faults>>

\* The commit of revoked_at, over that of a logout that was quicker.
CommitLogout(r) ==
    /\ At(r, "revoking")
    /\ Turn(call[r].cookie, "revoked")
    /\ GoTo(r, "done")
    /\ UNCHANGED <<users, bootstrap, answered, now, faults>>

\* The response is sent, before the commit or after it; it may never arrive.
Answer(r) ==
    /\ call[r].step \in Pending \cup {"done"}
    /\ r \notin answered
    /\ answered' = answered \cup {r}
    /\ UNCHANGED <<users, sessions, bootstrap, call, now, faults>>

\* The database or the process fails: the transaction is rolled back, whatever
\* was answered.
RollBack(r) ==
    /\ Fault
    /\ call[r].step \in {"locked"} \cup Pending
    /\ Without(r)
    /\ Unlock(r)
    /\ GoTo(r, "over")
    /\ UNCHANGED <<users, answered, now>>

Tick == /\ now < Horizon
        /\ now' = now + 1
        /\ UNCHANGED <<users, sessions, bootstrap, call, answered, faults>>

-----------------------------------------------------------------------------
Next == \/ \E r \in Requests : \/ Lock(r) \/ CreateFirstAdmin(r) \/ BootstrapUnavailable(r)
                               \/ CommitBootstrap(r) \/ CommitLogin(r) \/ CommitLogout(r)
                               \/ Answer(r) \/ RollBack(r)
        \/ \E r, t \in Requests : Login(r, t) \/ Visit(r, t) \/ Logout(r, t)
        \/ Tick

Spec == Init /\ [][Next]_vars

-----------------------------------------------------------------------------
(* Properties.                                                             *)

Assumption == /\ Horizon \in Nat \ {0} /\ Lifetime \in Nat \ {0}
              /\ MaxFaults \in Nat
              /\ NoOne \notin Requests

TypeOK == /\ users \cup answered \subseteq Requests
          /\ DOMAIN sessions \subseteq Requests
          /\ \A t \in DOMAIN sessions : sessions[t] \in Session
          /\ bootstrap \in Requests \cup {NoOne}
          /\ call \in [Requests -> [step : Steps, cookie : Requests]]
          /\ now \in 1..Horizon
          /\ faults \in 0..MaxFaults

\* Who is let in by a session has one that was committed, is not expired, and no
\* logout of which was committed.  A logout of it may have been answered if its
\* commit is still to come or something failed.
LetsIn(t) ==
    /\ At(t, "done")
    /\ sessions[t].user \in users
    /\ sessions[t].expires > now
    /\ \A q \in Requests \ {t} : call[q].cookie = t =>
          /\ ~At(q, "done")
          /\ q \in answered => (At(q, "revoking") \/ faults > 0)

\* However many first visitors bootstrap at once, one administrator is made; and
\* however logins, visits and logouts of a session overlap and are answered before
\* or after their commits, it lets in only while it is committed, not expired and
\* not revoked: after a logout was answered, only before its commit or if that failed.
AccessStaysClosed ==
    [][/\ \A u, v \in users' : u = v
       /\ \A r \in Requests, t \in Requests :
             (r # t /\ At(r, "idle") /\ call'[r].cookie = t) => LetsIn(t)]_vars

\* The advisory lock covers the search for an administrator and its insert.
BootstrapInv ==
    /\ \A r \in Requests : call[r].step \in {"locked", "created"} => bootstrap = r
    /\ \A r \in Requests : At(r, "created") => users = {}
    /\ \A u, v \in users : u = v

\* A session is seen when the request that made it has committed, and revoked
\* when a logout of it has; what was answered is committed, pending or has failed.
SessionInv ==
    /\ \A r \in Requests :
          /\ call[r].step \in {"idle", "locked", "created", "opened"} => call[r].cookie = r
          /\ call[r].step \in {"created", "opened"} => r \in DOMAIN sessions
          /\ At(r, "revoking") => /\ call[r].cookie \in DOMAIN sessions
                                  /\ sessions[call[r].cookie].state # "unseen"
          /\ (At(r, "done") /\ call[r].cookie # r) =>
                /\ call[r].cookie \in DOMAIN sessions
                /\ sessions[call[r].cookie].state = "revoked"
    /\ \A t \in DOMAIN sessions : IF sessions[t].state = "unseen"
                                   THEN call[t].step \in {"created", "opened"}
                                   ELSE At(t, "done")
    /\ \A r \in answered : \/ call[r].step \in Pending \cup {"done"}
                           \/ (At(r, "over") /\ faults > 0)

IInv == TypeOK /\ BootstrapInv /\ SessionInv
=============================================================================
