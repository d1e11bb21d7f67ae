------------------------------ MODULE Console ------------------------------
(***************************************************************************)
(* Accounts, sessions and approved actions: internal/auth, internal/       *)
(* actions, their handlers in internal/server, and the CLI commands setup  *)
(* and reset --auth, which open the same database from another process.    *)
(*                                                                         *)
(* A request is authenticated once (require) and runs its transaction      *)
(* later, when the account, the session or the row it is about may have    *)
(* changed. A login and a change of password verify a password before, and *)
(* outside, the transaction that relies on it. Row identifiers are what    *)
(* SQLite assigns: one more than the largest, so that reset --auth lets    *)
(* them start again. Passwords are told apart by a serial number.          *)
(***************************************************************************)
EXTENDS Integers, FiniteSets

CONSTANTS Request,       \* concurrent requests
          MaxUser, MaxToken, MaxAction, MaxPassword, \* bounds: rows
          MaxReset,      \* bound: resets, restarts and failing transactions
          AccountRole,   \* roles that administrators give to accounts
          Version,       \* server versions, by the kinds of actions they know
          TokenRequired, \* the listener or the operator asks for a setup token
          None

ASSUME BoundsAssumption ==
    /\ {MaxUser, MaxToken, MaxAction, MaxPassword} \subseteq Nat \ {0}
    /\ MaxReset \in Nat /\ TokenRequired \in BOOLEAN
ASSUME RoleAssumption ==
    "admin" \in AccountRole /\ AccountRole \subseteq {"viewer", "operator", "admin"}

User == 1..MaxUser
Token == 1..MaxToken
Action == 1..MaxAction
Role == {"viewer", "operator", "admin"}
Kind == {"rerun_check", "silence_route"}
ASSUME VersionAssumption == Version \subseteq SUBSET Kind

VARIABLES users,     \* users: role and password, or None
          sessions,  \* sessions: user, the password it was opened with, how
          actions,   \* action_requests, or None
          token,     \* bootstrap_tokens: the row of the token in use
          required,  \* bootstrapTokenRequired of the running server
          reqs,      \* what each request has done so far
          serial,    \* passwords set so far
          faults,    \* resets, restarts and failing transactions so far
          definitions, \* the kinds of actions the running server knows
          used,      \* history: setups with the token since it was stored
          lost,      \* history: actions whose execution was cut short
          founded    \* history: how the first of the accounts was created

vars == <<users, sessions, actions, token, required, reqs, serial,
          faults, definitions, used, lost, founded>>

Account == [role : AccountRole, pw : 1..MaxPassword]
Session == [user : User, pw : 1..MaxPassword, excused : BOOLEAN]
Row == [kind : Kind, by : User, approver : User \cup {None}, claims : 0..2,
        state : {"pending", "approved", "executing", "completed", "failed"}]

ASSUME NoneAssumption ==
    None \notin Account /\ None \notin Session /\ None \notin Row /\ None \notin User

Idle == [op |-> "none"]
\* A request: who it acts for, and what it read and has not used yet.
Progress ==
    {Idle}
    \cup [op : {"setup", "login"}, actor : User, pw : 1..MaxPassword]
    \cup [op : {"viewer", "change"}, actor : User, token : Token]
    \cup [op : {"operator", "admin"}, actor : User, token : {None}]
    \cup [op : {"claim", "executing"}, actor : User, action : Action]

TypeOK ==
    /\ users \in [User -> Account \cup {None}]
    /\ sessions \in [Token -> Session \cup {None}]
    /\ \A t \in Token : sessions[t] # None => users[sessions[t].user] # None
    /\ actions \in [Action -> Row \cup {None}]
    /\ \A a \in Action : actions[a] # None => users[actions[a].by] # None
    /\ reqs \in [Request -> Progress]
    /\ token \in {"none", "usable", "consumed"} /\ required \in BOOLEAN
    /\ serial \in 0..MaxPassword /\ faults \in 0..MaxReset
    /\ definitions \subseteq Kind
    /\ used \in 0..2 /\ lost \subseteq Action /\ founded \in {"none", "setup", "stale"}

\* provisionBootstrap, at the start of the server.
Provisioned(empty) == required' = (empty /\ TokenRequired)
TokenStored(empty) == token' = IF empty /\ TokenRequired THEN "usable" ELSE token

Init ==
    /\ users = [u \in User |-> None] /\ sessions = [t \in Token |-> None]
    /\ actions = [a \in Action |-> None]
    /\ token = (IF TokenRequired THEN "usable" ELSE "none")
    /\ required = TokenRequired
    /\ reqs = [r \in Request |-> Idle]
    /\ serial = 0 /\ faults = 0 /\ definitions = Kind
    /\ used = 0 /\ lost = {} /\ founded = "none"

----------------------------------------------------------------------------
(* Rows                                                                    *)

\* The row an INSERT creates: one more than the largest.
NextRow(f) == CHOOSE i \in 1..(Cardinality(DOMAIN f) + 1) :
                 /\ i = 1 \/ f[i - 1] # None
                 /\ \A j \in DOMAIN f : j >= i => f[j] = None

\* Tokens are random; which one is free does not matter.
NewToken == CHOOSE t \in Token : sessions[t] = None
Without(T) == [t \in Token |-> IF t \in T THEN None ELSE sessions[t]]
SessionsOf(u) == {t \in Token : sessions[t] # None /\ sessions[t].user = u}
Empty == \A u \in User : users[u] = None
Admins == {u \in User : users[u] # None /\ users[u].role = "admin"}

\* audit.Insert refers to the account of the request: it has to exist.
Audited(u) == users[u] # None

NewPassword == serial < MaxPassword /\ serial' = serial + 1
End(r) == reqs' = [reqs EXCEPT ![r] = Idle]

----------------------------------------------------------------------------
(* Setup and sign-in                                                       *)

\* The transaction of Setup: the account and the token together (Defect: a
\* consumed token is good enough).
FirstAdminDefect(needs) ==
    /\ Empty /\ NewPassword
    /\ IF needs THEN token # "none" /\ token' = "consumed" /\ used' = used + 1
       ELSE UNCHANGED <<token, used>>
    /\ users' = [users EXCEPT ![1] = [role |-> "admin", pw |-> serial + 1]]
    /\ founded' = "setup"
FirstAdmin(needs) ==
    /\ Empty /\ NewPassword
    /\ IF needs THEN token = "usable" /\ token' = "consumed" /\ used' = used + 1
       ELSE UNCHANGED <<token, used>>
    /\ users' = [users EXCEPT ![1] = [role |-> "admin", pw |-> serial + 1]]
    /\ founded' = "setup"

\* handleSetup: then it signs the administrator in.
Setup(r) ==
    /\ reqs[r] = Idle /\ FirstAdmin(required)
    /\ reqs' = [reqs EXCEPT ![r] = [op |-> "setup", actor |-> 1, pw |-> serial + 1]]
    /\ UNCHANGED <<sessions, actions, required, faults, definitions, lost>>

\* runSetup of the CLI: a Manager of its own, which asks for no token.
SetupCLI ==
    /\ FirstAdmin(FALSE)
    /\ UNCHANGED <<sessions, actions, required, reqs, faults, definitions,
                   lost>>

\* Login up to the answer of AuthenticatePassword; after a Setup it is called
\* with that password. A wrong password, and the throttle that follows five of
\* them, refuse: nothing that is modelled changes.
Verify(r, u) ==
    /\ users[u] # None
    /\ reqs[r] # Idle =>
          reqs[r].op = "setup" /\ reqs[r].actor = u /\ reqs[r].pw = users[u].pw
    /\ reqs' = [reqs EXCEPT ![r] = [op |-> "login", actor |-> u, pw |-> users[u].pw]]
    /\ UNCHANGED <<users, sessions, actions, token, required, serial, faults,
                   definitions, used, lost, founded>>

\* The transaction of Login. The password may have been replaced meanwhile.
OpenSession(r) ==
    /\ reqs[r].op = "login" /\ Audited(reqs[r].actor)
    /\ \E t \in Token : sessions[t] = None
    /\ sessions' = [sessions EXCEPT ![NewToken] =
          [user |-> reqs[r].actor, pw |-> reqs[r].pw,
           excused |-> users[reqs[r].actor].pw # reqs[r].pw]]
    /\ End(r)
    /\ UNCHANGED <<users, actions, token, required, serial, faults,
                   definitions, used, lost, founded>>

\* Authenticate: the row has run out.
Expire(t) ==
    /\ sessions[t] # None /\ sessions' = Without({t})
    /\ UNCHANGED <<users, actions, token, required, reqs, serial, faults,
                   definitions, used, lost, founded>>

----------------------------------------------------------------------------
(* Requests of signed-in users                                             *)

rank(role) == CASE role = "admin" -> 3 [] role = "operator" -> 2 [] OTHER -> 1

\* require: Authenticate, and the role the account has now. Routes that ask for
\* the same role are one: which it was, its transaction tells.
Require(r, role, t) ==
    /\ reqs[r] = Idle /\ sessions[t] # None
    /\ rank(users[sessions[t].user].role) >= rank(role)
    /\ reqs' = [reqs EXCEPT ![r] = [op |-> role, actor |-> sessions[t].user,
          token |-> IF role = "viewer" THEN t ELSE None]]
    /\ UNCHANGED <<users, sessions, actions, token, required, serial, faults,
                   definitions, used, lost, founded>>

\* The transaction of a request: its audit row refers to the account.
In(r, op) == reqs[r].op = op /\ Audited(reqs[r].actor)

\* handleLogout, Logout.
Logout(r) ==
    /\ In(r, "viewer") /\ sessions' = Without({reqs[r].token})
    /\ End(r)
    /\ UNCHANGED <<users, actions, token, required, serial, faults,
                   definitions, used, lost, founded>>

\* handleCreateUser, CreateUser: the audit row is inserted after the account and
\* may refer to it, if the account of the request is gone.
CreateUser(r, role) ==
    /\ reqs[r].op = "admin" /\ NextRow(users) \in User /\ NewPassword
    /\ users' = [users EXCEPT ![NextRow(users)] = [role |-> role, pw |-> serial + 1]]
    /\ users'[reqs[r].actor] # None
    /\ founded' = IF Empty THEN "stale" ELSE founded
    /\ End(r)
    /\ UNCHANGED <<sessions, actions, token, required, faults, definitions,
                   used, lost>>

\* handleSetUserRole, SetRole: not one's own account, not the last
\* administrator (Defect: without the second).
SetRoleDefect(r, u, role) ==
    /\ In(r, "admin") /\ users[u] # None
    /\ u = reqs[r].actor => role = "admin"
    /\ users' = [users EXCEPT ![u].role = role]
    /\ End(r)
    /\ UNCHANGED <<sessions, actions, token, required, serial, faults,
                   definitions, used, lost, founded>>
SetRole(r, u, role) ==
    /\ In(r, "admin") /\ users[u] # None
    /\ u = reqs[r].actor => role = "admin"
    /\ (u \in Admins /\ role # "admin") => Cardinality(Admins) > 1
    /\ users' = [users EXCEPT ![u].role = role]
    /\ End(r)
    /\ UNCHANGED <<sessions, actions, token, required, serial, faults,
                   definitions, used, lost, founded>>

\* handleResetUserPassword, ResetPassword (Defect: the sessions stay).
ResetPasswordDefect(r, u) ==
    /\ In(r, "admin") /\ users[u] # None /\ NewPassword
    /\ users' = [users EXCEPT ![u].pw = serial + 1]
    /\ End(r)
    /\ UNCHANGED <<sessions, actions, token, required, faults, definitions,
                   used, lost, founded>>
ResetPassword(r, u) ==
    /\ In(r, "admin") /\ users[u] # None /\ NewPassword
    /\ users' = [users EXCEPT ![u].pw = serial + 1]
    /\ sessions' = Without(SessionsOf(u))
    /\ End(r)
    /\ UNCHANGED <<actions, token, required, faults, definitions, used, lost,
                   founded>>

\* handleRevokeUserSessions, RevokeSessions.
RevokeSessions(r, u) ==
    /\ In(r, "admin") /\ sessions' = Without(SessionsOf(u))
    /\ End(r)
    /\ UNCHANGED <<users, actions, token, required, serial, faults,
                   definitions, used, lost, founded>>

\* handleChangeOwnPassword, ChangePassword: the present password is read and
\* compared, later the transaction keeps the session of the request.
CheckPassword(r) ==
    /\ reqs[r].op = "viewer" /\ users[reqs[r].actor] # None
    /\ reqs' = [reqs EXCEPT ![r].op = "change"]
    /\ UNCHANGED <<users, sessions, actions, token, required, serial, faults,
                   definitions, used, lost, founded>>
ChangePassword(r) ==
    /\ In(r, "change") /\ NewPassword
    /\ LET u == reqs[r].actor
           t == reqs[r].token
       IN  /\ users' = [users EXCEPT ![u].pw = serial + 1]
           /\ sessions' = [Without(SessionsOf(u)) EXCEPT ![t] =
                 IF sessions[t] = None THEN None
                 ELSE [sessions[t] EXCEPT !.excused = TRUE]]
    /\ End(r)
    /\ UNCHANGED <<actions, token, required, faults, definitions, used, lost,
                   founded>>

----------------------------------------------------------------------------
(* Approved actions                                                        *)

\* registerActions.
NeedsApproval(kind) == kind = "silence_route"

\* handleRequestAction, Request.
RequestAction(r, kind) ==
    /\ In(r, "operator") /\ kind \in definitions /\ NextRow(actions) \in Action
    /\ actions' = [actions EXCEPT ![NextRow(actions)] =
          [kind |-> kind, by |-> reqs[r].actor, approver |-> None, claims |-> 0,
           state |-> IF NeedsApproval(kind) THEN "pending" ELSE "approved"]]
    /\ End(r)
    /\ UNCHANGED <<users, sessions, token, required, serial, faults,
                   definitions, used, lost, founded>>

\* handleApproveAction, Approve: not one's own request.
Approve(r, a) ==
    /\ In(r, "admin") /\ actions[a] # None /\ actions[a].state = "pending"
    /\ actions[a].by # reqs[r].actor
    /\ actions' = [actions EXCEPT ![a].state = "approved",
                                  ![a].approver = reqs[r].actor]
    /\ End(r)
    /\ UNCHANGED <<users, sessions, token, required, serial, faults,
                   definitions, used, lost, founded>>

\* Execute reads the row, claims it, executes, and records the outcome; if the
\* server has no definition for it, it returns after the claim (Defect: the
\* claim relies on the state that was read).
ReadAction(r, a) ==
    /\ reqs[r].op = "operator" /\ actions[a] # None
    /\ actions[a].state = "approved"
    /\ reqs' = [reqs EXCEPT ![r] = [op |-> "claim", actor |-> reqs[r].actor,
                                    action |-> a]]
    /\ UNCHANGED <<users, sessions, actions, token, required, serial, faults,
                   definitions, used, lost, founded>>
ClaimDefect(r) ==
    /\ reqs[r].op = "claim" /\ actions[reqs[r].action] # None
    /\ actions' = [actions EXCEPT ![reqs[r].action].state = "executing",
                                  ![reqs[r].action].claims = @ + 1]
    /\ IF actions[reqs[r].action].kind \in definitions
       THEN reqs' = [reqs EXCEPT ![r].op = "executing"] /\ UNCHANGED lost
       ELSE End(r) /\ lost' = lost \cup {reqs[r].action}
    /\ UNCHANGED <<users, sessions, token, required, serial, faults,
                   definitions, used, founded>>
Claim(r) ==
    /\ reqs[r].op = "claim" /\ actions[reqs[r].action] # None
    /\ actions[reqs[r].action].state = "approved"
    /\ actions' = [actions EXCEPT ![reqs[r].action].state = "executing",
                                  ![reqs[r].action].claims = @ + 1]
    /\ IF actions[reqs[r].action].kind \in definitions
       THEN reqs' = [reqs EXCEPT ![r].op = "executing"] /\ UNCHANGED lost
       ELSE End(r) /\ lost' = lost \cup {reqs[r].action}
    /\ UNCHANGED <<users, sessions, token, required, serial, faults,
                   definitions, used, founded>>

\* d.Execute has returned; a failure is an outcome too (Defect: it ends the
\* request).
OutcomeDefect(r, state) ==
    /\ In(r, "executing")
    /\ actions' = [a \in Action |->
          IF a = reqs[r].action /\ actions[a] # None
             /\ actions[a].state = "executing" /\ state = "completed"
          THEN [actions[a] EXCEPT !.state = state] ELSE actions[a]]
    /\ End(r)
    /\ UNCHANGED <<users, sessions, token, required, serial, faults,
                   definitions, used, lost, founded>>
Outcome(r, state) ==
    /\ In(r, "executing")
    /\ actions' = [a \in Action |->
          IF a = reqs[r].action /\ actions[a] # None
             /\ actions[a].state = "executing"
          THEN [actions[a] EXCEPT !.state = state] ELSE actions[a]]
    /\ End(r)
    /\ UNCHANGED <<users, sessions, token, required, serial, faults,
                   definitions, used, lost, founded>>

----------------------------------------------------------------------------
(* Failures                                                                *)

Executing(R) == {a \in Action : \E r \in R :
                    reqs[r].op = "executing" /\ reqs[r].action = a}

\* A handler refuses, its transaction fails, or its client has gone. An action
\* that was claimed stays as it is.
Refused(r) ==
    /\ reqs[r] # Idle /\ reqs[r].op # "executing"
    /\ End(r)
    /\ UNCHANGED <<users, sessions, actions, token, required, serial, faults,
                   definitions, used, lost, founded>>
OutcomeLost(r) ==
    /\ reqs[r].op = "executing"
    /\ IF Audited(reqs[r].actor) THEN faults < MaxReset /\ faults' = faults + 1
       ELSE UNCHANGED faults
    /\ lost' = lost \cup Executing({r})
    /\ End(r)
    /\ UNCHANGED <<users, sessions, actions, token, required, serial,
                   definitions, used, founded>>

\* The server stops and starts again, perhaps in another version, which may know
\* other kinds of actions (registerActions).
Restart ==
    /\ faults < MaxReset /\ faults' = faults + 1
    /\ reqs' = [r \in Request |-> Idle]
    /\ lost' = lost \cup Executing(Request)
    /\ Provisioned(Empty) /\ TokenStored(Empty)
    /\ definitions' \in Version
    /\ used' = IF Empty /\ TokenRequired THEN 0 ELSE used
    /\ UNCHANGED <<users, sessions, actions, serial, founded>>

\* runReset --auth of the CLI, with the server running or not (Defect: the
\* action requests stay).
ResetAuthDefect ==
    /\ faults < MaxReset /\ faults' = faults + 1
    /\ users' = [u \in User |-> None] /\ sessions' = [t \in Token |-> None]
    /\ founded' = "none"
    /\ UNCHANGED <<actions, token, required, reqs, serial, definitions, used,
                   lost>>
ResetAuth ==
    /\ faults < MaxReset /\ faults' = faults + 1
    /\ users' = [u \in User |-> None] /\ sessions' = [t \in Token |-> None]
    /\ founded' = "none"
    /\ actions' = [a \in Action |-> None] /\ lost' = {}
    /\ UNCHANGED <<token, required, reqs, serial, definitions, used>>

\* The routes of the console.
SignIn(r) ==
    \/ \E u \in User : Verify(r, u)
    \/ OpenSession(r) \/ Logout(r)
    \/ \E role \in Role, t \in Token : Require(r, role, t)
UserRequest(r) ==
    \/ \E role \in AccountRole : CreateUser(r, role)
    \/ \E u \in User, role \in AccountRole : SetRole(r, u, role)
    \/ \E u \in User : ResetPassword(r, u) \/ RevokeSessions(r, u)
    \/ CheckPassword(r) \/ ChangePassword(r)
ActionRequest(r) ==
    \/ \E kind \in Kind : RequestAction(r, kind)
    \/ \E a \in Action : Approve(r, a) \/ ReadAction(r, a)
    \/ Claim(r) \/ \E state \in {"completed", "failed"} : Outcome(r, state)

Next ==
    \/ \E r \in Request :
       \/ Setup(r) \/ SignIn(r) \/ UserRequest(r) \/ ActionRequest(r)
       \/ Refused(r) \/ OutcomeLost(r)
    \/ \E t \in Token : Expire(t)
    \/ SetupCLI \/ Restart \/ ResetAuth

Spec == Init /\ [][Next]_vars

----------------------------------------------------------------------------
(* Properties                                                              *)

\* An installation that was set up has an administrator until its accounts are
\* reset, whatever two administrators do to each other at the same time (SetRole
\* counts inside its transaction). One that was not set up is the other case: a
\* request of the first administrator that was authenticated before reset --auth
\* and creates an account after it creates the first one, of any role.
AdminRemains == founded = "setup" => Admins # {}

\* Every session was opened with the password its account has now, but for
\* the session that changed it and sign-ins that were under way when it was
\* changed (ResetPassword and ChangePassword delete the others).
SessionsFollowPassword ==
    \A t \in Token : sessions[t] # None =>
        sessions[t].excused \/ sessions[t].pw = users[sessions[t].user].pw

\* A stored setup token creates one administrator, also when the accounts are
\* reset and the setup page is open again (Setup consumes it with the INSERT).
TokenUsedOnce == used <= 1

\* An action is claimed once, and one that needs an approval only after an
\* administrator other than its requester gave it (Approve, Execute).
ClaimedOnceAndApproved ==
    \A a \in Action : actions[a] # None /\ actions[a].claims > 0 =>
        /\ actions[a].claims = 1
        /\ NeedsApproval(actions[a].kind) =>
              actions[a].approver \notin {None, actions[a].by}

\* An action in state executing is being executed, unless its request was cut
\* short or its server had no definition for it: those two leave it there, and
\* every other way Execute ends records an outcome, a failed execution included.
ExecutingIsHeld ==
    \A a \in Action : actions[a] # None /\ actions[a].state = "executing" =>
        a \in lost \cup Executing(Request)

----------------------------------------------------------------------------
(* The invariants from which these follow for every instance.              *)

\* A token that can still be used was used by nobody since it was stored.
TokenInv == TokenUsedOnce /\ (token = "usable" => used = 0)

\* The state of an action tells how often it was claimed, and past pending one
\* that needs an approval has it.
ClaimInv ==
    \A a \in Action : actions[a] # None =>
        /\ actions[a].claims = IF actions[a].state \in {"pending", "approved"}
                              THEN 0 ELSE 1
        /\ NeedsApproval(actions[a].kind) /\ actions[a].state # "pending" =>
              actions[a].approver \notin {None, actions[a].by}

=============================================================================
