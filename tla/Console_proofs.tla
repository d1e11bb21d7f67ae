--------------------------- MODULE Console_proofs ---------------------------
(***************************************************************************)
(* Proofs about Console: its tables are well formed, and accounts, tokens, *)
(* sessions and approved actions keep what the console promises, for every *)
(* number of concurrent requests, accounts, sessions and actions.          *)
(***************************************************************************)
EXTENDS Console, FiniteSetTheorems, WellFoundedInduction, TLAPS

\* The bounds as the arithmetic steps need them.
LEMMA Constants ==
    /\ MaxUser \in Nat /\ MaxUser >= 1 /\ 1 \in User
    /\ MaxToken \in Nat /\ MaxAction \in Nat /\ MaxPassword \in Nat
    /\ MaxReset \in Nat /\ "admin" \in AccountRole
  BY BoundsAssumption, RoleAssumption DEF User

----------------------------------------------------------------------------
(* Rows and requests *)

\* An INSERT never takes the identifier of a row that is there.
LEMMA NextRowFree ==
    ASSUME NEW N \in Nat, NEW S, NEW f \in [1..N -> S], NextRow(f) \in 1..N
    PROVE  f[NextRow(f)] = None
<1> DEFINE T == {i \in 1..(N + 1) : \A j \in 1..N : j >= i => f[j] = None}
<1>1. N + 1 \in T
  OBVIOUS
<1>2. PICK x \in T : \A y \in T : ~(y < x)
  <2> DEFINE R == OpToRel(<, Nat)
  <2>1. \A y, z \in Nat : y < z => <<y, z>> \in R
    BY DEF OpToRel
  <2>2. IsWellFoundedOn(R, Nat)
    BY NatLessThanWellFounded
  <2>3. T \subseteq Nat
    OBVIOUS
  <2> HIDE DEF R, T
  <2>4. \E x \in T : \A y \in T : ~(<<y, x>> \in R)
    BY <1>1, <2>2, <2>3, WFMin
  <2> QED
    BY <2>1, <2>3, <2>4
<1>4. x = 1 \/ f[x - 1] # None
  <2> SUFFICES ASSUME x # 1 PROVE f[x - 1] # None
    OBVIOUS
  <2>1. x - 1 \in 1..(N + 1) /\ x - 1 \notin T
    BY <1>2
  <2>2. PICK j \in 1..N : j >= x - 1 /\ f[j] # None
    BY <2>1
  <2>3. ~(j >= x)
    BY <2>2
  <2>4. j = x - 1
    BY <2>2, <2>3
  <2> QED
    BY <2>2, <2>4
<1>5. DOMAIN f = 1..N /\ Cardinality(1..N) = N
  BY FS_Interval
<1>6. \E i \in 1..(Cardinality(DOMAIN f) + 1) :
         /\ i = 1 \/ f[i - 1] # None
         /\ \A j \in DOMAIN f : j >= i => f[j] = None
  <2>1. \A j \in 1..N : j >= x => f[j] = None
    OBVIOUS
  <2>2. x \in 1..(Cardinality(DOMAIN f) + 1)
    BY <1>5
  <2> QED
    BY <1>4, <1>5, <2>1, <2>2
<1>7. \A j \in DOMAIN f : j >= NextRow(f) => f[j] = None
  BY <1>6 DEF NextRow
<1> QED
  BY <1>5, <1>7

\* What a request holds, by the step it has reached.
LEMMA RequestFacts ==
    ASSUME TypeOK, NEW r \in Request
    PROVE  /\ reqs[r] # Idle <=> reqs[r].op # "none"
           /\ reqs[r] # Idle => reqs[r].actor \in User
           /\ reqs[r].op \in {"setup", "login"} => reqs[r].pw \in 1..MaxPassword
           /\ reqs[r].op \in {"viewer", "change"} =>
                 reqs[r] \in [op : {"viewer", "change"}, actor : User, token : Token]
           /\ reqs[r].op \in {"claim", "executing"} =>
                 reqs[r] \in [op : {"claim", "executing"}, actor : User, action : Action]
  BY DEF TypeOK, Progress, Idle

\* A request that is answered, or goes on to another step.
LEMMA RequestMoves ==
    ASSUME TypeOK, NEW r \in Request, NEW p \in Progress,
           reqs' = [reqs EXCEPT ![r] = p]
    PROVE  reqs' \in [Request -> Progress]
  BY DEF TypeOK

LEMMA EndType ==
    ASSUME TypeOK, NEW r \in Request, End(r)
    PROVE  reqs' \in [Request -> Progress]
  BY RequestMoves DEF End, Progress

\* Deleting sessions leaves the others as they are.
LEMMA WithoutType ==
    ASSUME TypeOK, NEW T
    PROVE  /\ Without(T) \in [Token -> Session \cup {None}]
           /\ \A t \in Token : Without(T)[t] # None =>
                 Without(T)[t] = sessions[t] /\ t \notin T
  BY DEF TypeOK, Without

\* The first account: no session and no action refers to one before it.
LEMMA FirstAdminFacts ==
    ASSUME TypeOK, NEW needs \in BOOLEAN, FirstAdmin(needs)
    PROVE  /\ users' \in [User -> Account \cup {None}] /\ 1 \in Admins'
           /\ \A t \in Token : sessions[t] = None
           /\ \A a \in Action : actions[a] = None
           /\ serial' \in 0..MaxPassword /\ serial + 1 \in 1..MaxPassword
           /\ token' \in {"none", "usable", "consumed"}
           /\ founded' = "setup"
<1>1. serial + 1 \in 1..MaxPassword /\ serial' = serial + 1
  BY Constants DEF FirstAdmin, NewPassword, TypeOK
<1>2. users' = [users EXCEPT ![1] = [role |-> "admin", pw |-> serial + 1]]
  BY DEF FirstAdmin
<1>3. [role |-> "admin", pw |-> serial + 1] \in Account
  BY <1>1, Constants DEF Account
<1>4. users' \in [User -> Account \cup {None}] /\ 1 \in Admins'
  BY <1>2, <1>3, Constants, NoneAssumption DEF TypeOK, Admins
<1>5. /\ \A t \in Token : sessions[t] = None
      /\ \A a \in Action : actions[a] = None
  BY DEF FirstAdmin, Empty, TypeOK, Session, Row
<1>6. token' \in {"none", "usable", "consumed"} /\ founded' = "setup"
  BY DEF FirstAdmin, TypeOK
<1> QED
  BY <1>1, <1>4, <1>5, <1>6

\* A change of one row of the accounts keeps every account that was there.
LEMMA AccountChanged ==
    ASSUME TypeOK, NEW u \in User, NEW x \in Account,
           users' = [users EXCEPT ![u] = x]
    PROVE  /\ users' \in [User -> Account \cup {None}]
           /\ \A v \in User : users[v] # None => users'[v] # None
           /\ users'[u] = x /\ \A v \in User \ {u} : users'[v] = users[v]
  BY NoneAssumption DEF TypeOK

----------------------------------------------------------------------------
(* Types *)

LEMMA InitType == Init => TypeOK
<1> SUFFICES ASSUME Init PROVE TypeOK
  OBVIOUS
<1>1. reqs \in [Request -> Progress]
  BY DEF Init, Progress
<1> QED
  BY <1>1, BoundsAssumption DEF Init, TypeOK

LEMMA TypeStep ==
    TypeOK /\ TokenInv /\ ClaimInv /\ [Next]_vars => TypeOK'
<1> SUFFICES ASSUME TypeOK, TokenInv, ClaimInv, [Next]_vars PROVE TypeOK'
  OBVIOUS
<1> USE Constants
<1>1. ASSUME NEW r \in Request, Setup(r) PROVE TypeOK'
  <2>1. FirstAdmin(required) /\ required \in BOOLEAN
    BY <1>1 DEF Setup, TypeOK
  <2>2. reqs' \in [Request -> Progress]
    <3>1. [op |-> "setup", actor |-> 1, pw |-> serial + 1] \in Progress
      BY <2>1, FirstAdminFacts DEF Progress
    <3> QED
      BY <1>1, <3>1, RequestMoves DEF Setup
  <2>3. used' \in 0..2
    BY <2>1 DEF FirstAdmin, TokenInv, TypeOK
  <2> QED
    BY <1>1, <2>1, <2>2, <2>3, FirstAdminFacts DEF Setup, TypeOK
<1>2. CASE SetupCLI
  <2>1. FirstAdmin(FALSE) /\ UNCHANGED used
    BY <1>2 DEF SetupCLI, FirstAdmin
  <2> QED
    BY <1>2, <2>1, FirstAdminFacts DEF SetupCLI, TypeOK
<1>3. ASSUME NEW r \in Request, NEW u \in User, Verify(r, u) PROVE TypeOK'
  <2>1. users[u] \in Account
    BY <1>3 DEF Verify, TypeOK
  <2>2. [op |-> "login", actor |-> u, pw |-> users[u].pw] \in Progress
    BY <2>1 DEF Progress, Account
  <2>3. reqs' \in [Request -> Progress]
    BY <1>3, <2>2, RequestMoves DEF Verify
  <2> QED
    BY <1>3, <2>3 DEF Verify, TypeOK
<1>4. ASSUME NEW r \in Request, OpenSession(r) PROVE TypeOK'
  <2>1. NewToken \in Token
    BY <1>4 DEF OpenSession, NewToken
  <2> DEFINE s == [user |-> reqs[r].actor, pw |-> reqs[r].pw,
                   excused |-> users[reqs[r].actor].pw # reqs[r].pw]
  <2>2. s \in Session /\ users[s.user] # None
    BY <1>4, RequestFacts DEF OpenSession, Session, Audited
  <2>3. sessions' = [sessions EXCEPT ![NewToken] = s]
    BY <1>4 DEF OpenSession
  <2> HIDE DEF s
  <2>4. sessions' \in [Token -> Session \cup {None}]
    BY <2>1, <2>2, <2>3 DEF TypeOK
  <2>5. \A t \in Token : sessions'[t] # None => users[sessions'[t].user] # None
    BY <2>1, <2>2, <2>3 DEF TypeOK
  <2>6. reqs' \in [Request -> Progress]
    BY <1>4, EndType DEF OpenSession
  <2> QED
    BY <1>4, <2>4, <2>5, <2>6 DEF OpenSession, TypeOK
<1>5. ASSUME NEW t \in Token, Expire(t) PROVE TypeOK'
  BY <1>5, WithoutType DEF Expire, TypeOK
<1>6. ASSUME NEW r \in Request, NEW role \in Role, NEW t \in Token,
             Require(r, role, t)
      PROVE  TypeOK'
  <2>1. sessions[t] \in Session
    BY <1>6 DEF Require, TypeOK
  <2>2. [op |-> role, actor |-> sessions[t].user,
         token |-> IF role = "viewer" THEN t ELSE None] \in Progress
    <3>1. CASE role = "viewer"
      BY <2>1, <3>1 DEF Session, Progress
    <3>2. CASE role # "viewer"
      BY <2>1, <3>2 DEF Session, Progress, Role
    <3> QED
      BY <3>1, <3>2
  <2>3. reqs' \in [Request -> Progress]
    BY <1>6, <2>2, RequestMoves DEF Require
  <2> QED
    BY <1>6, <2>3 DEF Require, TypeOK
<1>7. ASSUME NEW r \in Request, Logout(r) PROVE TypeOK'
  <2>1. reqs' \in [Request -> Progress]
    BY <1>7, EndType DEF Logout
  <2> QED
    BY <1>7, <2>1, WithoutType DEF Logout, TypeOK
<1>8. ASSUME NEW r \in Request, NEW role \in AccountRole, CreateUser(r, role)
      PROVE  TypeOK'
  <2>1. [role |-> role, pw |-> serial + 1] \in Account /\ serial' \in 0..MaxPassword
    BY <1>8 DEF CreateUser, NewPassword, Account, TypeOK
  <2>2. reqs' \in [Request -> Progress]
    BY <1>8, EndType DEF CreateUser
  <2>3. /\ users' \in [User -> Account \cup {None}]
        /\ \A v \in User : users[v] # None => users'[v] # None
    BY <1>8, <2>1, AccountChanged DEF CreateUser
  <2> QED
    BY <1>8, <2>1, <2>2, <2>3 DEF CreateUser, TypeOK, Session, Row
<1>9. ASSUME NEW r \in Request, NEW u \in User, NEW role \in AccountRole,
             SetRole(r, u, role)
      PROVE  TypeOK'
  <2>1. users[u] \in Account
    BY <1>9 DEF SetRole, TypeOK
  <2>2. /\ [users[u] EXCEPT !.role = role] \in Account
        /\ users' = [users EXCEPT ![u] = [users[u] EXCEPT !.role = role]]
    BY <1>9, <2>1 DEF SetRole, Account, TypeOK
  <2>3. reqs' \in [Request -> Progress]
    BY <1>9, EndType DEF SetRole
  <2>4. /\ users' \in [User -> Account \cup {None}]
        /\ \A v \in User : users[v] # None => users'[v] # None
    BY <2>2, AccountChanged
  <2> QED
    BY <1>9, <2>3, <2>4 DEF SetRole, TypeOK, Session, Row
<1>10. ASSUME NEW r \in Request, NEW u \in User, ResetPassword(r, u)
       PROVE  TypeOK'
  <2>1. users[u] \in Account /\ serial + 1 \in 1..MaxPassword
        /\ serial' \in 0..MaxPassword
    BY <1>10 DEF ResetPassword, NewPassword, TypeOK
  <2>2. /\ [users[u] EXCEPT !.pw = serial + 1] \in Account
        /\ users' = [users EXCEPT ![u] = [users[u] EXCEPT !.pw = serial + 1]]
    BY <1>10, <2>1 DEF ResetPassword, Account, TypeOK
  <2>3. reqs' \in [Request -> Progress]
    BY <1>10, EndType DEF ResetPassword
  <2>4. /\ users' \in [User -> Account \cup {None}]
        /\ \A v \in User : users[v] # None => users'[v] # None
    BY <2>2, AccountChanged
  <2>5. sessions' = Without(SessionsOf(u))
    BY <1>10 DEF ResetPassword
  <2>6. /\ sessions' \in [Token -> Session \cup {None}]
        /\ \A t \in Token : sessions'[t] # None => users'[sessions'[t].user] # None
    BY <2>4, <2>5, WithoutType DEF TypeOK, Session
  <2> QED
    BY <1>10, <2>1, <2>3, <2>4, <2>6 DEF ResetPassword, TypeOK, Row
<1>11. ASSUME NEW r \in Request, NEW u \in User, RevokeSessions(r, u)
       PROVE  TypeOK'
  <2>1. reqs' \in [Request -> Progress]
    BY <1>11, EndType DEF RevokeSessions
  <2> QED
    BY <1>11, <2>1, WithoutType DEF RevokeSessions, TypeOK
<1>12. ASSUME NEW r \in Request, CheckPassword(r) PROVE TypeOK'
  <2>1. reqs' \in [Request -> Progress]
    <3>1. /\ [reqs[r] EXCEPT !.op = "change"] \in Progress
          /\ reqs' = [reqs EXCEPT ![r] = [reqs[r] EXCEPT !.op = "change"]]
      BY <1>12, RequestFacts DEF CheckPassword, Progress, TypeOK
    <3> QED
      BY <3>1, RequestMoves
  <2> QED
    BY <1>12, <2>1 DEF CheckPassword, TypeOK
<1>13. ASSUME NEW r \in Request, ChangePassword(r) PROVE TypeOK'
  <2> PICK u, t : u = reqs[r].actor /\ t = reqs[r].token
    OBVIOUS
  <2>1. u \in User /\ t \in Token /\ users[u] \in Account
        /\ serial + 1 \in 1..MaxPassword /\ serial' \in 0..MaxPassword
    BY <1>13, RequestFacts DEF ChangePassword, In, Audited, NewPassword, TypeOK
  <2>2. /\ [users[u] EXCEPT !.pw = serial + 1] \in Account
        /\ users' = [users EXCEPT ![u] = [users[u] EXCEPT !.pw = serial + 1]]
    BY <1>13, <2>1 DEF ChangePassword, Account, TypeOK
  <2>3. reqs' \in [Request -> Progress]
    BY <1>13, EndType DEF ChangePassword
  <2>4. /\ users' \in [User -> Account \cup {None}]
        /\ \A v \in User : users[v] # None => users'[v] # None
    BY <2>1, <2>2, AccountChanged
  <2>5. sessions' = [Without(SessionsOf(u)) EXCEPT ![t] =
                       IF sessions[t] = None THEN None
                       ELSE [sessions[t] EXCEPT !.excused = TRUE]]
    BY <1>13 DEF ChangePassword
  <2>6. sessions[t] # None =>
           [sessions[t] EXCEPT !.excused = TRUE] \in Session
    BY <2>1 DEF TypeOK, Session
  <2>7. sessions' \in [Token -> Session \cup {None}]
    BY <2>1, <2>5, <2>6, WithoutType
  <2>8. \A s \in Token : sessions'[s] # None =>
           sessions[s] # None /\ sessions'[s].user = sessions[s].user
    BY <2>1, <2>5, WithoutType DEF TypeOK, Session
  <2>9. \A s \in Token : sessions'[s] # None => users'[sessions'[s].user] # None
    BY <2>4, <2>8 DEF TypeOK, Session
  <2> QED
    BY <1>13, <2>1, <2>3, <2>4, <2>7, <2>9 DEF ChangePassword, TypeOK, Row
<1>14. ASSUME NEW r \in Request, NEW kind \in Kind, RequestAction(r, kind)
       PROVE  TypeOK'
  <2> PICK a : a = NextRow(actions)
    OBVIOUS
  <2> DEFINE x == [kind |-> kind, by |-> reqs[r].actor, approver |-> None,
                   claims |-> 0,
                   state |-> IF NeedsApproval(kind) THEN "pending" ELSE "approved"]
  <2>1. reqs[r].actor \in User /\ users[reqs[r].actor] # None
    BY <1>14, RequestFacts DEF RequestAction, In, Audited
  <2>2. x \in Row /\ x.by = reqs[r].actor
    BY <2>1 DEF Row
  <2>3. a \in Action /\ actions' = [actions EXCEPT ![a] = x]
    BY <1>14 DEF RequestAction
  <2>4. reqs' \in [Request -> Progress]
    BY <1>14, EndType DEF RequestAction
  <2> HIDE DEF x
  <2>5. /\ actions' \in [Action -> Row \cup {None}]
        /\ \A b \in Action : actions'[b] # None => users[actions'[b].by] # None
    BY <2>1, <2>2, <2>3 DEF TypeOK
  <2> QED
    BY <1>14, <2>4, <2>5 DEF RequestAction, TypeOK
<1>15. ASSUME NEW r \in Request, NEW a \in Action, Approve(r, a) PROVE TypeOK'
  <2>1. actions[a] \in Row /\ reqs[r].actor \in User
    BY <1>15, RequestFacts DEF Approve, In, TypeOK
  <2>2. PICK x \in Row : x.by = actions[a].by /\ actions' = [actions EXCEPT ![a] = x]
    BY <1>15, <2>1 DEF Approve, Row, TypeOK
  <2>3. reqs' \in [Request -> Progress]
    BY <1>15, EndType DEF Approve
  <2>4. /\ actions' \in [Action -> Row \cup {None}]
        /\ \A b \in Action : actions'[b] # None => users[actions'[b].by] # None
    BY <1>15, <2>2 DEF TypeOK, Approve
  <2> QED
    BY <1>15, <2>3, <2>4 DEF Approve, TypeOK
<1>16. ASSUME NEW r \in Request, NEW a \in Action, ReadAction(r, a) PROVE TypeOK'
  <2>1. [op |-> "claim", actor |-> reqs[r].actor, action |-> a] \in Progress
    BY <1>16, RequestFacts DEF ReadAction, Progress
  <2>2. reqs' \in [Request -> Progress]
    BY <1>16, <2>1, RequestMoves DEF ReadAction
  <2> QED
    BY <1>16, <2>2 DEF ReadAction, TypeOK
<1>17. ASSUME NEW r \in Request, Claim(r) PROVE TypeOK'
  <2> PICK a : a = reqs[r].action
    OBVIOUS
  <2>1. a \in Action /\ actions[a] \in Row /\ actions[a].claims = 0
    BY <1>17, RequestFacts DEF Claim, TypeOK, ClaimInv
  <2>2. PICK x \in Row : x.by = actions[a].by /\ actions' = [actions EXCEPT ![a] = x]
    <3> DEFINE x == [actions[a] EXCEPT !.state = "executing", !.claims = 1]
    <3>1. x \in Row /\ x.by = actions[a].by
      <4>1. 1 \in 0..2
        OBVIOUS
      <4> QED
        BY <2>1, <4>1, Zenon DEF Row
    <3>2. actions' = [actions EXCEPT ![a] = x]
      BY <1>17, <2>1 DEF Claim, Row, TypeOK
    <3> QED
      BY <3>1, <3>2
  <2>3. reqs' \in [Request -> Progress] /\ lost' \subseteq Action
    <3>1. CASE actions[a].kind \in definitions
      <4>1. [reqs[r] EXCEPT !.op = "executing"] \in Progress
        BY <1>17, RequestFacts DEF Claim, Progress
      <4>2. reqs' = [reqs EXCEPT ![r] = [reqs[r] EXCEPT !.op = "executing"]]
            /\ UNCHANGED lost
        BY <1>17, <3>1 DEF Claim, TypeOK
      <4> QED
        BY <4>1, <4>2, RequestMoves DEF TypeOK
    <3>2. CASE actions[a].kind \notin definitions
      BY <1>17, <2>1, <3>2, EndType DEF Claim, TypeOK
    <3> QED
      BY <3>1, <3>2
  <2>4. /\ actions' \in [Action -> Row \cup {None}]
        /\ \A b \in Action : actions'[b] # None => users[actions'[b].by] # None
    BY <1>17, <2>1, <2>2 DEF TypeOK, Claim
  <2> QED
    BY <1>17, <2>3, <2>4 DEF Claim, TypeOK
<1>18. ASSUME NEW r \in Request, NEW state \in {"completed", "failed"},
              Outcome(r, state)
       PROVE  TypeOK'
  <2>1. \A a \in Action : actions[a] # None =>
           /\ [actions[a] EXCEPT !.state = state] \in Row
           /\ [actions[a] EXCEPT !.state = state].by = actions[a].by
    BY DEF TypeOK, Row
  <2>2. /\ actions' \in [Action -> Row \cup {None}]
        /\ \A b \in Action : actions'[b] # None => users[actions'[b].by] # None
    BY <1>18, <2>1 DEF TypeOK, Outcome
  <2>3. reqs' \in [Request -> Progress]
    BY <1>18, EndType DEF Outcome
  <2> QED
    BY <1>18, <2>2, <2>3 DEF Outcome, TypeOK
<1>19. ASSUME NEW r \in Request, Refused(r) \/ OutcomeLost(r) PROVE TypeOK'
  <2>1. reqs' \in [Request -> Progress]
    BY <1>19, EndType DEF Refused, OutcomeLost
  <2> QED
    BY <1>19, <2>1 DEF Refused, OutcomeLost, TypeOK, Executing
<1>20. CASE Restart
  <2>1. reqs' \in [Request -> Progress]
    BY <1>20 DEF Restart, Progress
  <2> QED
    BY <1>20, <2>1, BoundsAssumption, VersionAssumption
    DEF Restart, TypeOK, Executing, Provisioned, TokenStored, Empty
<1>21. CASE ResetAuth
  BY <1>21 DEF ResetAuth, TypeOK
<1>22. CASE UNCHANGED vars
  BY <1>22 DEF vars, TypeOK
<1> QED
  BY <1>1, <1>2, <1>3, <1>4, <1>5, <1>6, <1>7, <1>8, <1>9, <1>10, <1>11, <1>12,
     <1>13, <1>14, <1>15, <1>16, <1>17, <1>18, <1>19, <1>20, <1>21, <1>22
  DEF Next, SignIn, UserRequest, ActionRequest

----------------------------------------------------------------------------
(* The setup token *)

LEMMA TokenStep == TypeOK /\ TokenInv /\ [Next]_vars => TokenInv'
<1> SUFFICES ASSUME TypeOK, TokenInv, [Next]_vars PROVE TokenInv'
  OBVIOUS
<1> USE DEF TokenInv, TokenUsedOnce
<1>1. ASSUME NEW r \in Request, Setup(r) PROVE TokenInv'
  BY <1>1 DEF Setup, FirstAdmin, TypeOK
<1>2. CASE SetupCLI
  BY <1>2 DEF SetupCLI, FirstAdmin
<1>3. CASE Restart
  BY <1>3 DEF Restart, TokenStored
<1>4. ASSUME NEW r \in Request,
             SignIn(r) \/ UserRequest(r) \/ ActionRequest(r) \/ Refused(r)
             \/ OutcomeLost(r)
      PROVE  TokenInv'
  BY <1>4 DEF SignIn, Verify, OpenSession, Logout, Require, UserRequest,
     CreateUser, SetRole, ResetPassword, RevokeSessions, CheckPassword,
     ChangePassword, ActionRequest, RequestAction, Approve, ReadAction, Claim,
     Outcome, Refused, OutcomeLost
<1>5. CASE ResetAuth \/ UNCHANGED vars \/ \E t \in Token : Expire(t)
  BY <1>5 DEF ResetAuth, vars, Expire
<1> QED
  BY <1>1, <1>2, <1>3, <1>4, <1>5 DEF Next

----------------------------------------------------------------------------
(* Approved actions *)

\* A change of one row of the actions keeps ClaimInv if the new row has it.
LEMMA ActionChanged ==
    ASSUME TypeOK, ClaimInv, NEW a \in Action, NEW x \in Row,
           actions' = [actions EXCEPT ![a] = x],
           x.claims = IF x.state \in {"pending", "approved"} THEN 0 ELSE 1,
           NeedsApproval(x.kind) /\ x.state # "pending" =>
              x.approver \notin {None, x.by}
    PROVE  ClaimInv'
  BY DEF ClaimInv, TypeOK

LEMMA ClaimStep == TypeOK /\ ClaimInv /\ [Next]_vars => ClaimInv'
<1> SUFFICES ASSUME TypeOK, ClaimInv, [Next]_vars PROVE ClaimInv'
  OBVIOUS
<1>1. ASSUME NEW r \in Request, NEW kind \in Kind, RequestAction(r, kind)
      PROVE  ClaimInv'
  <2> PICK a : a = NextRow(actions)
    OBVIOUS
  <2> DEFINE x == [kind |-> kind, by |-> reqs[r].actor, approver |-> None,
                   claims |-> 0,
                   state |-> IF NeedsApproval(kind) THEN "pending" ELSE "approved"]
  <2>1. x \in Row
    BY <1>1, RequestFacts DEF RequestAction, In, Row
  <2>2. a \in Action /\ actions' = [actions EXCEPT ![a] = x]
    BY <1>1 DEF RequestAction
  <2>3. /\ x.claims = IF x.state \in {"pending", "approved"} THEN 0 ELSE 1
        /\ NeedsApproval(x.kind) => x.state = "pending"
    OBVIOUS
  <2> HIDE DEF x
  <2> QED
    BY <2>1, <2>2, <2>3, ActionChanged
<1>2. ASSUME NEW r \in Request, NEW a \in Action, Approve(r, a) PROVE ClaimInv'
  <2> PICK u : u = reqs[r].actor
    OBVIOUS
  <2> DEFINE x == [actions[a] EXCEPT !.state = "approved", !.approver = u]
  <2>1. actions[a] \in Row /\ u \in User /\ u # actions[a].by /\ u # None
    BY <1>2, RequestFacts, NoneAssumption DEF Approve, In, TypeOK
  <2>2. x \in Row /\ actions' = [actions EXCEPT ![a] = x]
    BY <1>2, <2>1 DEF Approve, Row, TypeOK
  <2>3. /\ x.claims = 0 /\ x.state = "approved"
        /\ x.approver \notin {None, x.by}
    BY <1>2, <2>1 DEF Approve, ClaimInv, Row
  <2> HIDE DEF x
  <2> QED
    BY <2>2, <2>3, ActionChanged
<1>3. ASSUME NEW r \in Request, Claim(r) PROVE ClaimInv'
  <2> PICK a : a = reqs[r].action
    OBVIOUS
  <2> DEFINE x == [actions[a] EXCEPT !.state = "executing", !.claims = 1]
  <2>1. a \in Action /\ actions[a] \in Row /\ actions[a].claims = 0
        /\ actions[a].state = "approved"
    BY <1>3, RequestFacts DEF Claim, TypeOK, ClaimInv
  <2>2. actions' = [actions EXCEPT ![a] = x]
    BY <1>3, <2>1 DEF Claim, Row, TypeOK
  <2>3. x \in Row
    <3>1. 1 \in 0..2
      OBVIOUS
    <3> QED
      BY <2>1, <3>1, Zenon DEF Row
  <2>4. /\ x.claims = 1 /\ x.state = "executing"
        /\ NeedsApproval(x.kind) => x.approver \notin {None, x.by}
    BY <1>3, <2>1 DEF Claim, ClaimInv, Row
  <2> HIDE DEF x
  <2> QED
    BY <2>1, <2>2, <2>3, <2>4, ActionChanged
<1>4. ASSUME NEW r \in Request, NEW state \in {"completed", "failed"},
             Outcome(r, state)
      PROVE  ClaimInv'
  <2> SUFFICES ASSUME NEW a \in Action, actions'[a] # None
               PROVE  /\ actions'[a].claims =
                           IF actions'[a].state \in {"pending", "approved"}
                           THEN 0 ELSE 1
                      /\ NeedsApproval(actions'[a].kind)
                         /\ actions'[a].state # "pending" =>
                            actions'[a].approver \notin {None, actions'[a].by}
    BY DEF ClaimInv
  <2>1. CASE actions'[a] = actions[a]
    BY <2>1 DEF ClaimInv
  <2>2. CASE actions'[a] # actions[a]
    <3>1. /\ actions[a] # None /\ actions[a].state = "executing"
          /\ actions'[a] = [actions[a] EXCEPT !.state = state]
      BY <1>4, <2>2 DEF Outcome
    <3>2. actions[a] \in Row
      BY <3>1 DEF TypeOK
    <3> QED
      BY <3>1, <3>2 DEF ClaimInv, Row
  <2> QED
    BY <2>1, <2>2
<1>5. ASSUME UNCHANGED actions PROVE ClaimInv'
  BY <1>5 DEF ClaimInv
<1>6. CASE ResetAuth
  BY <1>6 DEF ResetAuth, ClaimInv
<1>7. ASSUME NEW r \in Request,
             Setup(r) \/ SignIn(r) \/ UserRequest(r) \/ Refused(r) \/ OutcomeLost(r)
             \/ \E a \in Action : ReadAction(r, a)
      PROVE  UNCHANGED actions
  BY <1>7 DEF Setup, SignIn, Verify, OpenSession, Logout, Require, UserRequest,
     CreateUser, SetRole, ResetPassword, RevokeSessions, CheckPassword,
     ChangePassword, ReadAction, Refused, OutcomeLost
<1>8. CASE SetupCLI \/ Restart \/ UNCHANGED vars \/ \E t \in Token : Expire(t)
  BY <1>5, <1>8 DEF SetupCLI, Restart, vars, Expire
<1> QED
  BY <1>1, <1>2, <1>3, <1>4, <1>5, <1>6, <1>7, <1>8 DEF Next, ActionRequest

\* A step of a request that is not executing leaves the executing ones.
LEMMA StillHeld ==
    ASSUME TypeOK, NEW r \in Request, NEW p,
           reqs' = [reqs EXCEPT ![r] = p], reqs[r].op # "executing"
    PROVE  Executing(Request) \subseteq Executing(Request)'
  BY DEF Executing, TypeOK

LEMMA HeldStep ==
    TypeOK /\ ExecutingIsHeld /\ [Next]_vars => ExecutingIsHeld'
<1> SUFFICES ASSUME TypeOK, ExecutingIsHeld, [Next]_vars PROVE ExecutingIsHeld'
  OBVIOUS
<1>1. ASSUME UNCHANGED <<actions, lost>>,
             Executing(Request) \subseteq Executing(Request)'
      PROVE  ExecutingIsHeld'
  BY <1>1 DEF ExecutingIsHeld
<1>2. ASSUME NEW r \in Request,
             Setup(r) \/ SignIn(r) \/ UserRequest(r) \/ Refused(r)
             \/ \E a \in Action : ReadAction(r, a)
      PROVE  ExecutingIsHeld'
  <2>1. /\ UNCHANGED <<actions, lost>> /\ reqs[r].op # "executing"
        /\ \E p : reqs' = [reqs EXCEPT ![r] = p]
    <3>1. CASE Setup(r)
      <4>1. reqs' = [reqs EXCEPT ![r] = [op |-> "setup", actor |-> 1, pw |-> serial + 1]]
        BY <3>1 DEF Setup
      <4>2. UNCHANGED <<actions, lost>> /\ reqs[r].op # "executing"
        BY <3>1 DEF Setup, Idle
      <4> QED
        BY <4>1, <4>2
    <3>2. CASE SignIn(r)
      BY <3>2 DEF SignIn, Verify, OpenSession, Logout, Require, In, Idle, End
    <3>3. CASE \E role \in AccountRole : CreateUser(r, role)
      BY <3>3 DEF CreateUser, In, End
    <3>4. CASE \E u \in User, role \in AccountRole : SetRole(r, u, role)
      BY <3>4 DEF SetRole, In, End
    <3>5. CASE \E u \in User : ResetPassword(r, u) \/ RevokeSessions(r, u)
      BY <3>5 DEF ResetPassword, RevokeSessions, In, End
    <3>6. CASE CheckPassword(r)
      <4>1. reqs' = [reqs EXCEPT ![r] = [reqs[r] EXCEPT !.op = "change"]]
        BY <3>6 DEF CheckPassword, TypeOK
      <4> QED
        BY <3>6, <4>1 DEF CheckPassword
    <3>7. CASE ChangePassword(r)
      BY <3>7 DEF ChangePassword, In, End
    <3>8. CASE Refused(r)
      BY <3>8 DEF Refused, End
    <3>9. CASE \E a \in Action : ReadAction(r, a)
      BY <3>9 DEF ReadAction
    <3> QED
      BY <1>2, <3>1, <3>2, <3>3, <3>4, <3>5, <3>6, <3>7, <3>8, <3>9 DEF UserRequest
  <2>2. Executing(Request) \subseteq Executing(Request)'
    BY <2>1, StillHeld
  <2> QED
    BY <1>1, <2>1, <2>2
<1>3. ASSUME NEW r \in Request, NEW kind \in Kind, RequestAction(r, kind)
      PROVE  ExecutingIsHeld'
  <2>1. /\ UNCHANGED lost /\ reqs[r].op # "executing"
        /\ reqs' = [reqs EXCEPT ![r] = Idle]
    BY <1>3 DEF RequestAction, In, End
  <2>2. Executing(Request) \subseteq Executing(Request)'
    BY <2>1, StillHeld
  <2>3. \A b \in Action : actions'[b] = actions[b]
                          \/ actions'[b].state \in {"pending", "approved"}
    BY <1>3 DEF RequestAction, TypeOK
  <2> QED
    BY <2>1, <2>2, <2>3 DEF ExecutingIsHeld
<1>4. ASSUME NEW r \in Request, NEW a \in Action, Approve(r, a)
      PROVE  ExecutingIsHeld'
  <2>1. /\ UNCHANGED lost /\ reqs[r].op # "executing"
        /\ reqs' = [reqs EXCEPT ![r] = Idle]
    BY <1>4 DEF Approve, In, End
  <2>2. Executing(Request) \subseteq Executing(Request)'
    BY <2>1, StillHeld
  <2>3. \A b \in Action : actions'[b] = actions[b] \/ actions'[b].state = "approved"
    BY <1>4 DEF Approve, TypeOK, Row
  <2> QED
    BY <2>1, <2>2, <2>3 DEF ExecutingIsHeld
<1>5. ASSUME NEW r \in Request, Claim(r) PROVE ExecutingIsHeld'
  <2> PICK a : a = reqs[r].action
    OBVIOUS
  <2>1. a \in Action /\ reqs[r].op # "executing"
    BY <1>5, RequestFacts DEF Claim
  <2>2. /\ Executing(Request) \subseteq Executing(Request)'
        /\ lost \subseteq lost' /\ a \in lost' \cup Executing(Request)'
    <3>1. CASE actions[a].kind \in definitions
      <4>1. reqs' = [reqs EXCEPT ![r] = [reqs[r] EXCEPT !.op = "executing"]]
            /\ UNCHANGED lost
        BY <1>5, <3>1 DEF Claim, TypeOK
      <4>2. a \in Executing(Request)'
        BY <1>5, <2>1, <4>1, RequestFacts DEF Claim, Executing, TypeOK
      <4> QED
        BY <2>1, <4>1, <4>2, StillHeld
    <3>2. CASE actions[a].kind \notin definitions
      <4>1. reqs' = [reqs EXCEPT ![r] = Idle] /\ lost' = lost \cup {a}
        BY <1>5, <3>2 DEF Claim, End
      <4> QED
        BY <2>1, <4>1, StillHeld
    <3> QED
      BY <3>1, <3>2
  <2>3. \A b \in Action \ {a} : actions'[b] = actions[b]
    BY <1>5 DEF Claim, TypeOK
  <2> QED
    BY <2>2, <2>3 DEF ExecutingIsHeld
<1>6. ASSUME NEW r \in Request, NEW state \in {"completed", "failed"},
             Outcome(r, state)
      PROVE  ExecutingIsHeld'
  <2> SUFFICES ASSUME NEW b \in Action, actions'[b] # None,
                      actions'[b].state = "executing"
               PROVE  b \in lost' \cup Executing(Request)'
    BY DEF ExecutingIsHeld
  <2>1. reqs' = [reqs EXCEPT ![r] = Idle] /\ UNCHANGED lost
    BY <1>6 DEF Outcome, End
  <2>2. actions'[b] = actions[b] /\ b # reqs[r].action
    <3>1. ASSUME b = reqs[r].action, actions[b] # None,
                 actions[b].state = "executing"
          PROVE  FALSE
      <4>1. actions'[b] = [actions[b] EXCEPT !.state = state]
        BY <1>6, <3>1 DEF Outcome
      <4>2. actions[b] \in Row
        BY <3>1 DEF TypeOK
      <4> QED
        BY <4>1, <4>2 DEF Row
    <3> QED
      BY <1>6, <3>1 DEF Outcome
  <2>3. b \in lost \/ \E q \in Request : reqs[q].op = "executing" /\ reqs[q].action = b
    BY <2>2 DEF ExecutingIsHeld, Executing
  <2>4. \A q \in Request : reqs[q].action = b => reqs'[q] = reqs[q]
    BY <2>1, <2>2 DEF TypeOK
  <2> QED
    BY <2>1, <2>3, <2>4 DEF Executing
<1>7. ASSUME NEW r \in Request, OutcomeLost(r) PROVE ExecutingIsHeld'
  <2>1. /\ UNCHANGED actions /\ lost' = lost \cup Executing({r})
        /\ reqs' = [reqs EXCEPT ![r] = Idle]
    BY <1>7 DEF OutcomeLost, End
  <2>2. Executing(Request) \subseteq Executing({r}) \cup Executing(Request)'
    BY <2>1 DEF Executing, TypeOK
  <2> QED
    BY <2>1, <2>2 DEF ExecutingIsHeld
<1>8. CASE Restart
  BY <1>8 DEF Restart, ExecutingIsHeld
<1>9. CASE ResetAuth
  BY <1>9 DEF ResetAuth, ExecutingIsHeld
<1>10. CASE SetupCLI \/ UNCHANGED vars \/ \E t \in Token : Expire(t)
  <2>1. UNCHANGED <<actions, lost, reqs>>
    BY <1>10 DEF SetupCLI, vars, Expire
  <2> QED
    BY <1>1, <2>1 DEF Executing
<1> QED
  BY <1>2, <1>3, <1>4, <1>5, <1>6, <1>7, <1>8, <1>9, <1>10 DEF Next, ActionRequest

----------------------------------------------------------------------------
(* Administrators *)

LEMMA AdminsFinite == IsFiniteSet(Admins) /\ Cardinality(Admins) \in Nat
<1>1. Admins \subseteq 1..MaxUser /\ IsFiniteSet(1..MaxUser)
  BY Constants, FS_Interval DEF Admins, User
<1> QED
  BY <1>1, FS_Subset, FS_CardinalityType

\* If there are two administrators, there is one besides any given account.
LEMMA AnotherAdmin ==
    ASSUME NEW u \in Admins, Cardinality(Admins) > 1
    PROVE  \E v \in Admins : v # u
<1>1. Cardinality(Admins \ {u}) = Cardinality(Admins) - 1
  BY AdminsFinite, FS_RemoveElement
<1>2. Admins \ {u} # {}
  BY <1>1, AdminsFinite, FS_EmptySet
<1> QED
  BY <1>2

LEMMA AdminStep == TypeOK /\ AdminRemains /\ [Next]_vars => AdminRemains'
<1> SUFFICES ASSUME TypeOK, AdminRemains, [Next]_vars PROVE AdminRemains'
  OBVIOUS
<1>1. ASSUME NEW r \in Request, Setup(r) PROVE AdminRemains'
  <2>1. FirstAdmin(required) /\ required \in BOOLEAN
    BY <1>1 DEF Setup, TypeOK
  <2> QED
    BY <2>1, FirstAdminFacts DEF AdminRemains
<1>2. CASE SetupCLI
  BY <1>2, FirstAdminFacts DEF SetupCLI, AdminRemains
<1>3. ASSUME NEW r \in Request, NEW role \in AccountRole, CreateUser(r, role)
      PROVE  AdminRemains'
  <2> PICK n : n = NextRow(users)
    OBVIOUS
  <2>1. n \in User /\ users[n] = None
    BY <1>3, NextRowFree, Constants DEF CreateUser, TypeOK, User
  <2>2. users' = [users EXCEPT ![n] = [role |-> role, pw |-> serial + 1]]
    BY <1>3 DEF CreateUser
  <2>3. Admins \subseteq Admins'
    BY <2>1, <2>2 DEF Admins, TypeOK
  <2>4. founded' = "setup" => founded = "setup"
    BY <1>3 DEF CreateUser
  <2> QED
    BY <2>3, <2>4 DEF AdminRemains
<1>4. ASSUME NEW r \in Request, NEW u \in User, NEW role \in AccountRole,
             SetRole(r, u, role)
      PROVE  AdminRemains'
  <2>1. users[u] \in Account /\ UNCHANGED founded
    BY <1>4 DEF SetRole, TypeOK
  <2>2. /\ users' = [users EXCEPT ![u] = [users[u] EXCEPT !.role = role]]
        /\ [users[u] EXCEPT !.role = role].role = role
        /\ [users[u] EXCEPT !.role = role] \in Account
    BY <1>4, <2>1 DEF SetRole, Account, TypeOK
  <2>3. Admins \ {u} \subseteq Admins'
    BY <2>2 DEF Admins, TypeOK
  <2>4. CASE role = "admin"
    BY <2>2, <2>4, NoneAssumption DEF AdminRemains, Admins, TypeOK
  <2>5. CASE role # "admin" /\ u \in Admins
    BY <1>4, <2>3, <2>5, AnotherAdmin DEF SetRole, AdminRemains
  <2>6. CASE u \notin Admins
    BY <2>1, <2>3, <2>6 DEF AdminRemains
  <2> QED
    BY <2>4, <2>5, <2>6
<1>5. ASSUME NEW r \in Request, NEW u \in User, ResetPassword(r, u)
      PROVE  AdminRemains'
  <2>1. users[u] \in Account /\ UNCHANGED founded
    BY <1>5 DEF ResetPassword, TypeOK
  <2>2. Admins \subseteq Admins'
    <3>1. /\ users' = [users EXCEPT ![u] = [users[u] EXCEPT !.pw = serial + 1]]
          /\ [users[u] EXCEPT !.pw = serial + 1].role = users[u].role
          /\ [users[u] EXCEPT !.pw = serial + 1] \in Account
      BY <1>5, <2>1, Constants DEF ResetPassword, NewPassword, Account, TypeOK
    <3> QED
      BY <3>1, NoneAssumption DEF Admins, TypeOK
  <2> QED
    BY <2>1, <2>2 DEF AdminRemains
<1>6. ASSUME NEW r \in Request, ChangePassword(r) PROVE AdminRemains'
  <2> PICK u : u = reqs[r].actor
    OBVIOUS
  <2>1. u \in User /\ users[u] \in Account /\ UNCHANGED founded
    BY <1>6, RequestFacts DEF ChangePassword, In, Audited, TypeOK
  <2>2. Admins \subseteq Admins'
    <3>1. /\ users' = [users EXCEPT ![u] = [users[u] EXCEPT !.pw = serial + 1]]
          /\ [users[u] EXCEPT !.pw = serial + 1].role = users[u].role
          /\ [users[u] EXCEPT !.pw = serial + 1] \in Account
      BY <1>6, <2>1, Constants DEF ChangePassword, NewPassword, Account, TypeOK
    <3> QED
      BY <3>1, NoneAssumption DEF Admins, TypeOK
  <2> QED
    BY <2>1, <2>2 DEF AdminRemains
<1>7. CASE ResetAuth
  BY <1>7 DEF ResetAuth, AdminRemains
<1>8. ASSUME UNCHANGED <<users, founded>> PROVE AdminRemains'
  BY <1>8 DEF AdminRemains, Admins
<1>9. ASSUME NEW r \in Request,
             SignIn(r) \/ CheckPassword(r) \/ ActionRequest(r) \/ Refused(r)
             \/ OutcomeLost(r) \/ \E u \in User : RevokeSessions(r, u)
      PROVE  UNCHANGED <<users, founded>>
  BY <1>9 DEF SignIn, Verify, OpenSession, Logout, Require, RevokeSessions,
     CheckPassword, ActionRequest, RequestAction, Approve, ReadAction, Claim,
     Outcome, Refused, OutcomeLost
<1>10. CASE Restart \/ UNCHANGED vars \/ \E t \in Token : Expire(t)
  BY <1>8, <1>10 DEF Restart, vars, Expire
<1> QED
  BY <1>1, <1>2, <1>3, <1>4, <1>5, <1>6, <1>7, <1>8, <1>9, <1>10 DEF Next, UserRequest

----------------------------------------------------------------------------
(* Sessions *)

LEMMA SessionStep ==
    TypeOK /\ SessionsFollowPassword /\ [Next]_vars => SessionsFollowPassword'
<1> SUFFICES ASSUME TypeOK, SessionsFollowPassword, [Next]_vars
             PROVE  SessionsFollowPassword'
  OBVIOUS
<1> USE DEF SessionsFollowPassword
<1>1. ASSUME NEW r \in Request, Setup(r) PROVE SessionsFollowPassword'
  <2>1. FirstAdmin(required) /\ required \in BOOLEAN
    BY <1>1 DEF Setup, TypeOK
  <2> QED
    BY <1>1, <2>1, FirstAdminFacts DEF Setup
<1>2. CASE SetupCLI
  BY <1>2, FirstAdminFacts DEF SetupCLI
<1>3. ASSUME NEW r \in Request, OpenSession(r) PROVE SessionsFollowPassword'
  <2>1. NewToken \in Token
    BY <1>3 DEF OpenSession, NewToken
  <2>2. sessions' = [sessions EXCEPT ![NewToken] =
           [user |-> reqs[r].actor, pw |-> reqs[r].pw,
            excused |-> users[reqs[r].actor].pw # reqs[r].pw]] /\ UNCHANGED users
    BY <1>3 DEF OpenSession
  <2> QED
    BY <2>1, <2>2 DEF TypeOK
<1>4. ASSUME NEW T, sessions' = Without(T), UNCHANGED users
      PROVE  SessionsFollowPassword'
  BY <1>4, WithoutType
<1>5. ASSUME NEW r \in Request, NEW role \in AccountRole, CreateUser(r, role)
      PROVE  SessionsFollowPassword'
  <2> PICK n : n = NextRow(users)
    OBVIOUS
  <2>1. n \in User /\ users[n] = None
    BY <1>5, NextRowFree, Constants DEF CreateUser, TypeOK, User
  <2>2. /\ users' = [users EXCEPT ![n] = [role |-> role, pw |-> serial + 1]]
        /\ UNCHANGED sessions
    BY <1>5 DEF CreateUser
  <2>3. \A t \in Token : sessions[t] # None =>
           sessions[t].user \in User \ {n}
    BY <2>1 DEF TypeOK, Session
  <2> QED
    BY <2>2, <2>3 DEF TypeOK
<1>6. ASSUME NEW r \in Request, NEW u \in User, NEW role \in AccountRole,
             SetRole(r, u, role)
      PROVE  SessionsFollowPassword'
  <2>1. users[u] \in Account /\ UNCHANGED sessions
    BY <1>6 DEF SetRole, TypeOK
  <2>2. \A v \in User : users'[v].pw = users[v].pw
    BY <1>6, <2>1 DEF SetRole, TypeOK, Account
  <2> QED
    BY <2>1, <2>2 DEF TypeOK, Session
<1>7. ASSUME NEW r \in Request, NEW u \in User, ResetPassword(r, u)
      PROVE  SessionsFollowPassword'
  <2>1. /\ sessions' = Without(SessionsOf(u))
        /\ \A v \in User \ {u} : users'[v] = users[v]
    BY <1>7 DEF ResetPassword, TypeOK
  <2>2. \A t \in Token : sessions'[t] # None =>
           /\ sessions[t] # None /\ sessions'[t] = sessions[t]
           /\ sessions[t].user \in User \ {u}
    BY <2>1, WithoutType DEF SessionsOf, TypeOK, Session
  <2> QED
    BY <2>1, <2>2
<1>8. ASSUME NEW r \in Request, ChangePassword(r) PROVE SessionsFollowPassword'
  <2> PICK u, t : u = reqs[r].actor /\ t = reqs[r].token
    OBVIOUS
  <2>1. u \in User /\ t \in Token
    BY <1>8, RequestFacts DEF ChangePassword, In
  <2>2. /\ sessions' = [Without(SessionsOf(u)) EXCEPT ![t] =
                          IF sessions[t] = None THEN None
                          ELSE [sessions[t] EXCEPT !.excused = TRUE]]
        /\ \A v \in User \ {u} : users'[v] = users[v]
    BY <1>8 DEF ChangePassword, TypeOK
  <2>3. sessions'[t] # None => sessions'[t].excused
    BY <2>1, <2>2, WithoutType DEF TypeOK, Session
  <2>4. \A s \in Token \ {t} : sessions'[s] # None =>
           /\ sessions[s] # None /\ sessions'[s] = sessions[s]
           /\ sessions[s].user \in User \ {u}
    BY <2>2, WithoutType DEF SessionsOf, TypeOK, Session
  <2> QED
    BY <2>2, <2>3, <2>4
<1>9. CASE ResetAuth
  BY <1>9 DEF ResetAuth
<1>10. ASSUME UNCHANGED <<users, sessions>> PROVE SessionsFollowPassword'
  BY <1>10
<1>11. ASSUME NEW r \in Request,
              (\E u \in User : Verify(r, u)) \/ CheckPassword(r)
              \/ (\E role \in Role, t \in Token : Require(r, role, t))
              \/ ActionRequest(r) \/ Refused(r) \/ OutcomeLost(r)
       PROVE  UNCHANGED <<users, sessions>>
  BY <1>11 DEF Verify, CheckPassword, Require, ActionRequest, RequestAction,
     Approve, ReadAction, Claim, Outcome, Refused, OutcomeLost
<1>12. ASSUME NEW r \in Request,
              Logout(r) \/ \E u \in User : RevokeSessions(r, u)
       PROVE  SessionsFollowPassword'
  BY <1>4, <1>12 DEF Logout, RevokeSessions
<1>13. CASE Restart \/ UNCHANGED vars
  BY <1>10, <1>13 DEF Restart, vars
<1>14. CASE \E t \in Token : Expire(t)
  BY <1>4, <1>14 DEF Expire
<1> QED
  BY <1>1, <1>2, <1>3, <1>5, <1>6, <1>7, <1>8, <1>9, <1>10, <1>11, <1>12, <1>13,
     <1>14 DEF Next, SignIn, UserRequest

----------------------------------------------------------------------------
(* Results *)

\* The tables stay well formed: rows refer to accounts that exist, whatever
\* is reset, restarted or answered late.
THEOREM TypeCorrect == Spec => [](TypeOK /\ TokenInv /\ ClaimInv)
<1>1. Init => TypeOK /\ TokenInv /\ ClaimInv
  BY InitType DEF Init, TokenInv, TokenUsedOnce, ClaimInv
<1> QED
  BY <1>1, TypeStep, TokenStep, ClaimStep, PTL DEF Spec

\* An installation that was set up has an administrator until its accounts are
\* reset: SetRole counts them in its transaction, and an INSERT never replaces one
\* (CreateUser). Accounts that a request from before the reset created, without a
\* setup, are not covered.
THEOREM AdminTheorem == Spec => []AdminRemains
<1>1. Init => AdminRemains
  BY DEF Init, AdminRemains
<1> QED
  BY <1>1, AdminStep, TypeCorrect, PTL DEF Spec

\* A session outlives the password it was opened with only if it is the one
\* that changed it, or was being opened then (ResetPassword, ChangePassword).
THEOREM SessionTheorem == Spec => []SessionsFollowPassword
<1>1. Init => SessionsFollowPassword
  BY DEF Init, SessionsFollowPassword
<1> QED
  BY <1>1, SessionStep, TypeCorrect, PTL DEF Spec

\* A stored setup token creates one administrator (Setup).
THEOREM TokenTheorem == Spec => []TokenUsedOnce
<1>1. TokenInv => TokenUsedOnce
  BY DEF TokenInv
<1> QED
  BY <1>1, TypeCorrect, PTL

\* However many requests execute it, an action is claimed once, and with the
\* approval of another administrator if it needs one (Approve, Execute).
THEOREM ClaimTheorem == Spec => []ClaimedOnceAndApproved
<1>1. TypeOK /\ ClaimInv => ClaimedOnceAndApproved
  BY DEF ClaimInv, ClaimedOnceAndApproved, TypeOK, Row
<1> QED
  BY <1>1, TypeCorrect, PTL

\* An action in state executing is being executed, or its request was cut short,
\* or its server had no definition for it: every other way Execute ends records
\* an outcome.
THEOREM HeldTheorem == Spec => []ExecutingIsHeld
<1>1. Init => ExecutingIsHeld
  BY DEF Init, ExecutingIsHeld
<1> QED
  BY <1>1, HeldStep, TypeCorrect, PTL DEF Spec

=============================================================================
