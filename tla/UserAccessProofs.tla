---------------------------- MODULE UserAccessProofs ----------------------------
(***************************************************************************)
(* Proofs about UserAccess for any users, groups, tabs and bounds.         *)
(*                                                                         *)
(* That nobody appoints themselves rests on the table of routes: the only  *)
(* group for which adding a user is a secured route is Researcher, and an  *)
(* unsecured route is refused to everybody, with an old token or a new one.*)
(* The rest is about tabs: what one of them knows stays true while the     *)
(* others share its storage and other clients revoke its session.          *)
(***************************************************************************)
EXTENDS UserAccess, SequenceTheorems, TLAPS

(***************************************************************************)
(* Routes                                                                  *)
(***************************************************************************)
\* PUT /roles/:id has no operation but for the Researcher, and is not ignored.
LEMMA NotSecured ==
    /\ GetOperationsByRoute(Request("/roles/:id", "PUT")) = {}
    /\ ~IsRouteIgnored(Request("/roles/:id", "PUT"))
<1> DEFINE request == Request("/roles/:id", "PUT")
<1>1. \A row \in accountAndEnvironmentRoutes : row[1] # request
  BY DEF accountAndEnvironmentRoutes, Reads, Creates, Updates, Request
<1>2. \A row \in typeAndUserRoutes : row[1] # request
  BY DEF typeAndUserRoutes, Reads, Creates, Updates, Request
<1>3. ~IsRouteIgnored(request)  BY DEF IsRouteIgnored, routesIgnored, Request
<1> QED  BY <1>1, <1>2, <1>3 DEF GetOperationsByRoute, routesMap

\* Whatever token a caller has, a request that puts a user into a group is admitted
\* for the group Researcher only.
LEMMA OnlyResearcherByRoute ==
    ASSUME NEW g \in Role, NEW valid, NEW roles,
           Admitted(Request(RouteOf(g), "PUT"), valid, roles)
    PROVE  g = "Researcher"
<1> SUFFICES ASSUME g # "Researcher" PROVE FALSE
  OBVIOUS
<1>1. RouteOf(g) = "/roles/:id"  BY DEF RouteOf
<1>2. ~IsAuthorizedOnRoute(roles, Request("/roles/:id", "PUT"))
  BY NotSecured DEF IsAuthorizedOnRoute
<1>3. Answer(Request("/roles/:id", "PUT"), valid, roles) \in {"401", "403"}
  BY <1>2, NotSecured DEF Answer
<1> QED  BY <1>1, <1>3 DEF Admitted

(***************************************************************************)
(* The pool                                                                *)
(***************************************************************************)
\* What the operations of the plugin keep of the pool.
PoolKept ==
    /\ groups \subseteq Role /\ users \subseteq User /\ member \subseteq users \X groups
    /\ AdminsAreAppointed

\* A new user is in no group.
LEMMA CreateUserKeeps ==
    ASSUME PoolKept, NEW u \in User, CreateUser(u)  PROVE PoolKept'
BY DEF PoolKept, CreateUser, AdminsAreAppointed

\* A new group has no members.
LEMMA CreateRoleKeeps ==
    ASSUME PoolKept, NEW g \in Role, CreateRole(g)  PROVE PoolKept'
BY DEF PoolKept, CreateRole, AdminsAreAppointed

\* A user who is put into a group is not made Admin, or is the root user.
LEMMA AddUserKeeps ==
    ASSUME PoolKept, NEW u \in User, NEW g \in Role, g = "Admin" => u = Root,
           AddUserToRole(u, g)
    PROVE  PoolKept'
<1>1. member' \subseteq member \cup (IF CanAddUserToRole(u, g) THEN {<<u, g>>} ELSE {})
  BY DEF AddUserToRole
<1>2. \A m \in member' : m \in member \/ (m = <<u, g>> /\ u \in users /\ g \in groups)
  BY <1>1 DEF CanAddUserToRole
<1>3. member' \subseteq users \X groups  BY <1>2 DEF PoolKept
<1>4. \A v \in User : <<v, "Admin">> \in member' => v = Root
  <2> SUFFICES ASSUME NEW v \in User, <<v, "Admin">> \in member' PROVE v = Root
    OBVIOUS
  <2>1. CASE <<v, "Admin">> \in member  BY <2>1 DEF PoolKept, AdminsAreAppointed
  <2>2. CASE <<v, "Admin">> = <<u, g>>  BY <2>2
  <2> QED  BY <1>2, <2>1, <2>2
<1> QED  BY <1>3, <1>4 DEF PoolKept, AddUserToRole, AdminsAreAppointed

\* Other programs remove users, members and groups, and make groups.
LEMMA DirectKeeps ==
    ASSUME PoolKept, DirectStep  PROVE PoolKept'
<1>1. ASSUME NEW u \in User, DeleteUser(u) PROVE PoolKept'
  BY <1>1 DEF PoolKept, DeleteUser, AdminsAreAppointed
<1>2. ASSUME NEW u \in User, NEW g \in Role, RemoveUserFromRole(u, g) PROVE PoolKept'
  BY <1>2 DEF PoolKept, RemoveUserFromRole, AdminsAreAppointed
<1>3. ASSUME NEW g \in Role, DeleteRole(g) PROVE PoolKept'
  BY <1>3 DEF PoolKept, DeleteRole, AdminsAreAppointed
<1>4. ASSUME NEW g \in Role \ groups, CreateRole(g) PROVE PoolKept'
  BY <1>4, CreateRoleKeeps
<1> QED  BY <1>1, <1>2, <1>3, <1>4 DEF DirectStep

\* The script makes the root user an administrator, and nobody else.
LEMMA SetupKeeps ==
    ASSUME PoolKept, SetupStep \/ SetupInterrupted  PROVE PoolKept'
<1>1. CASE StartSetup \/ SetupInterrupted
  BY <1>1 DEF StartSetup, SetupInterrupted, PoolKept, AdminsAreAppointed
<1>2. CASE CreateAdminGroup \/ CreateResearcherGroup
  BY <1>2, CreateRoleKeeps, UserPoolAssumption
     DEF CreateAdminGroup, CreateResearcherGroup, CreateGroup
<1>3. CASE AdminCreateUser
  BY <1>3, CreateUserKeeps, UserPoolAssumption DEF AdminCreateUser
<1>4. CASE AdminAddUserToGroup
  <2>1. AddUserToRole(Root, "Admin")  BY <1>4 DEF AdminAddUserToGroup
  <2> QED  BY <2>1, AddUserKeeps, UserPoolAssumption
<1> QED  BY <1>1, <1>2, <1>3, <1>4 DEF SetupStep

\* The script's place and the two counters stay within their bounds.
Counters ==
    /\ setup \in {"stopped", "creatingAdmin", "creatingResearcher", "creatingUser",
                  "addingUser", "done"}
    /\ direct \in 0..MaxDirect /\ faults \in 0..MaxFaults

\* The script goes through its own places, and an interruption is counted.
LEMMA SetupCounts ==
    ASSUME Counters, SetupStep \/ SetupInterrupted  PROVE Counters'
<1>1. CASE SetupInterrupted
  BY <1>1, UserPoolAssumption DEF SetupInterrupted, Counters
<1>2. CASE SetupStep
  BY <1>2 DEF SetupStep, StartSetup, CreateAdminGroup, CreateResearcherGroup, CreateGroup,
     AdminCreateUser, AdminAddUserToGroup, SetupGoes, Counters
<1> QED  BY <1>1, <1>2

\* The type invariant of the pool and its property, as the lemmas have them.
LEMMA PoolIsKept == PoolTypeOK /\ AdminsAreAppointed <=> PoolKept /\ Counters
BY DEF PoolTypeOK, PoolKept, Counters

(***************************************************************************)
(* Storage and tabs                                                        *)
(***************************************************************************)
\* What Cognito and the browsers keep.
Storage ==
    /\ attempts \in Seq(AttemptState) /\ sessions \in Seq(SessionState)
    /\ tokens \in Seq(TokenState)
    /\ browser \in [User -> BrowserState]
    /\ StoredTogether

\* What the tabs are doing.
Tabs == tab \in [Tab -> TabState] /\ \A t \in Tab : Consistent(tab[t])

\* The inductive invariant in the parts that the lemmas are about.
LEMMA InvIsKept ==
    IInv <=> PoolKept /\ Counters /\ case \in Cases /\ Storage /\ Tabs
BY PoolIsKept DEF IInv, TypeOK, Storage, Tabs

\* What every step does to the numbers that tabs and browsers have.
Grows ==
    /\ case' = case
    /\ Len(attempts) <= Len(attempts') /\ Len(sessions) <= Len(sessions')
    /\ Len(tokens) <= Len(tokens')
    /\ Revoked \subseteq Revoked'

\* What is numbered is numbered from 1.
LEMMA Lengths ==
    ASSUME Storage
    PROVE  /\ Len(attempts) \in Nat /\ Len(sessions) \in Nat /\ Len(tokens) \in Nat
           /\ DOMAIN attempts = 1..Len(attempts)
           /\ DOMAIN sessions = 1..Len(sessions) /\ DOMAIN tokens = 1..Len(tokens)
BY LenProperties DEF Storage

\* What is of its type stays so when attempts, sessions and tokens are added.
LEMMA TypesGrow ==
    ASSUME Len(attempts) \in Nat, Len(attempts') \in Nat, Len(attempts) <= Len(attempts'),
           Len(sessions) \in Nat, Len(sessions') \in Nat, Len(sessions) <= Len(sessions'),
           Len(tokens) \in Nat, Len(tokens') \in Nat, Len(tokens) <= Len(tokens'),
           DOMAIN sessions = 1..Len(sessions), DOMAIN sessions' = 1..Len(sessions')
    PROVE  /\ TokenState \subseteq TokenState' /\ BrowserState \subseteq BrowserState'
           /\ TabState \subseteq TabState'
<1>1. /\ 0..Len(attempts) \subseteq 0..Len(attempts')
      /\ 0..Len(sessions) \subseteq 0..Len(sessions')
      /\ 0..Len(tokens) \subseteq 0..Len(tokens')
      /\ DOMAIN sessions \subseteq DOMAIN sessions'
  OBVIOUS
<1>2. TokenState \subseteq TokenState'  BY <1>1 DEF TokenState
<1>3. BrowserState \subseteq BrowserState'  BY <1>1 DEF BrowserState
<1>4. TabState \subseteq TabState'  BY <1>1 DEF TabState
<1> QED  BY <1>2, <1>3, <1>4

\* What a tab knows stays true when more sessions are revoked.
LEMMA ConsistentGrows ==
    ASSUME Revoked \subseteq Revoked', NEW x, Consistent(x)  PROVE Consistent(x)'
BY DEF Consistent

\* A step of one tab, or of none, leaves what the others know true.
LEMMA TabsKept ==
    ASSUME Storage, Storage', Tabs, Grows, NEW t \in Tab,
           \E x : /\ tab' = [tab EXCEPT ![t] = x]
                  /\ x \in TabState' /\ Consistent(x)'
    PROVE  Tabs'
<1>1. PICK x : tab' = [tab EXCEPT ![t] = x] /\ x \in TabState' /\ Consistent(x)'
  OBVIOUS
<1>2. TabState \subseteq TabState'
  <2>1. /\ Len(attempts') \in Nat /\ Len(sessions') \in Nat /\ Len(tokens') \in Nat
        /\ DOMAIN sessions' = 1..Len(sessions')
    BY LenProperties DEF Storage
  <2> QED  BY <2>1, Lengths, TypesGrow DEF Grows
<1>3. Tab' = Tab  BY DEF Tab, Grows
<1>4. tab' \in [Tab -> TabState']
  <2>1. tab \in [Tab -> TabState']  BY <1>2 DEF Tabs
  <2> QED  BY <1>1, <2>1
<1>5. \A u \in Tab : tab'[u] = IF u = t THEN x ELSE tab[u]
  BY <1>1 DEF Tabs
<1>6. ASSUME NEW u \in Tab PROVE Consistent(tab[u])'
  <2>1. PICK y : y = tab'[u]  OBVIOUS
  <2>2. Consistent(y)'
    <3>1. CASE u = t  BY <1>1, <1>5, <2>1, <3>1
    <3>2. CASE u # t
      <4>1. y = tab[u]  BY <1>5, <2>1, <3>2
      <4>2. Consistent(y)  BY <4>1 DEF Tabs
      <4> QED  BY <4>2, ConsistentGrows DEF Grows
    <3> QED  BY <3>1, <3>2
  <2> QED  BY <2>1, <2>2 DEF Consistent
<1> QED  BY <1>3, <1>4, <1>6 DEF Tabs

\* A step of no tab.
LEMMA TabsStay ==
    ASSUME Storage, Storage', Tabs, Grows, tab' = tab  PROVE Tabs'
<1>1. CASE Tab = {}  BY <1>1 DEF Tabs, Tab, Grows
<1>2. ASSUME NEW t \in Tab PROVE Tabs'
  <2>1. PICK x : x = tab[t]  OBVIOUS
  <2>2. tab' = [tab EXCEPT ![t] = x]  BY <2>1 DEF Tabs
  <2>3. x \in TabState /\ Consistent(x)  BY <2>1 DEF Tabs
  <2>4. TabState \subseteq TabState'
    <3>1. /\ Len(attempts') \in Nat /\ Len(sessions') \in Nat /\ Len(tokens') \in Nat
          /\ DOMAIN sessions' = 1..Len(sessions')
      BY LenProperties DEF Storage
    <3> QED  BY <3>1, Lengths, TypesGrow DEF Grows
  <2>5. Consistent(x)'  BY <2>3, ConsistentGrows DEF Grows
  <2> QED  BY <2>2, <2>3, <2>4, <2>5, TabsKept
<1> QED  BY <1>1, <1>2

\* A step that changes nothing that is stored.
LEMMA StorageStays ==
    ASSUME Storage, case' = case, UNCHANGED <<attempts, sessions, tokens, browser>>
    PROVE  Storage' /\ Grows
<1>1. Storage'
  BY DEF Storage, StoredTogether, TokenState, BrowserState
<1>2. Revoked' = Revoked  BY DEF Revoked
<1> QED  BY <1>1, <1>2, Lengths DEF Grows

\* A step that changes one tab and nothing else.
LEMMA OnlyTab ==
    ASSUME Storage, Tabs, UNCHANGED <<case, attempts, sessions, tokens, browser>>,
           NEW t \in Tab,
           \E x : tab' = [tab EXCEPT ![t] = x] /\ x \in TabState /\ Consistent(x)
    PROVE  Storage' /\ Tabs'
<1>1. Storage' /\ Grows  BY StorageStays
<1>2. TabState' = TabState  BY DEF TabState
<1>3. PICK x : tab' = [tab EXCEPT ![t] = x] /\ x \in TabState /\ Consistent(x)
  OBVIOUS
<1>4. Consistent(x)'  BY <1>1, <1>3, ConsistentGrows DEF Grows
<1> QED  BY <1>1, <1>2, <1>3, <1>4, TabsKept

\* Only sessions are revoked, and 0 is none.
LEMMA RevokedSessions ==
    ASSUME Storage  PROVE Revoked \subseteq DOMAIN sessions /\ 0 \notin Revoked
BY Lengths DEF Revoked

\* A tab at home knows nothing.
LEMMA HomeIsConsistent ==
    ASSUME Storage  PROVE Home \in TabState /\ Consistent(Home)
<1>1. Home \in TabState
  BY Lengths, UserPoolAssumption DEF Home, TabState, PC
<1>2. 0 \notin Revoked  BY Lengths DEF Revoked
<1> QED  BY <1>1, <1>2 DEF Home, Consistent

\* Going home, with nothing stored.
LEMMA GoesHomeKeeps ==
    ASSUME Storage, Tabs, UNCHANGED <<case, attempts, sessions, tokens, browser>>,
           NEW t \in Tab, GoesHome(t)
    PROVE  Storage' /\ Tabs'
BY HomeIsConsistent, OnlyTab DEF GoesHome

\* Going to a place where nothing is asked of what the tab knows.
LEMMA GoesToKeeps ==
    ASSUME Storage, Tabs, UNCHANGED <<case, attempts, sessions, tokens, browser>>,
           NEW t \in Tab, NEW pc \in {"back", "clearing", "assigning", "describing"},
           GoesTo(t, pc)
    PROVE  Storage' /\ Tabs'
<1>1. PICK old : old = tab[t] /\ old \in TabState /\ Consistent(old)
  BY DEF Tabs
<1> DEFINE x == [old EXCEPT !.pc = pc]
<1>2. tab' = [tab EXCEPT ![t] = x]  BY <1>1 DEF GoesTo
<1>3. x \in TabState  BY <1>1 DEF TabState, PC
<1>4. Consistent(x)  BY <1>1 DEF Consistent, TabState
<1> QED  BY <1>2, <1>3, <1>4, OnlyTab

\* The code is sent when its state is stored, and then its verifier is stored too.
LEMMA GetTokensKeeps ==
    ASSUME Storage, Tabs, NEW t \in Tab, Owner(t) \in User, GetTokens(t)
    PROVE  Storage' /\ Tabs'
<1>1. UNCHANGED <<case, attempts, sessions, tokens, browser>>  BY DEF GetTokens
<1>2. CASE GoesHome(t)  BY <1>1, <1>2, GoesHomeKeeps
<1>3. CASE /\ tab[t].attempt = Mine(t).state
           /\ tab' = [tab EXCEPT ![t].pc = "exchanging", ![t].sent = Mine(t).verifier]
  <2>1. PICK old : old = tab[t] /\ old \in TabState /\ Consistent(old)
    BY DEF Tabs
  <2>2. PICK mine : mine = Mine(t) /\ mine \in BrowserState
    BY DEF Storage, Mine
  <2>3. old.attempt = mine.state /\ mine.state = mine.verifier
    BY <1>3, <2>1, <2>2 DEF Storage, StoredTogether, Mine
  <2> DEFINE x == [old EXCEPT !.pc = "exchanging", !.sent = mine.verifier]
  <2>4. tab' = [tab EXCEPT ![t] = x]  BY <1>3, <2>1, <2>2
  <2>5. x \in TabState  BY <2>1, <2>2 DEF TabState, BrowserState, PC
  <2>6. Consistent(x)  BY <2>1, <2>3 DEF Consistent, TabState
  <2> QED  BY <1>1, <2>4, <2>5, <2>6, OnlyTab
<1> QED  BY <1>2, <1>3 DEF GetTokens

\* A failed exchange leaves the attempt in the address of the tab.
LEMMA ExchangeFailsKeeps ==
    ASSUME Storage, Tabs, NEW t \in Tab, ExchangeFails(t)  PROVE Storage' /\ Tabs'
<1>1. PICK old : old = tab[t] /\ old \in TabState  BY DEF Tabs
<1> DEFINE x == [Home EXCEPT !.pc = "back", !.attempt = old.attempt]
<1>2. tab' = [tab EXCEPT ![t] = x]  BY <1>1 DEF ExchangeFails
<1>3. Home \in TabState /\ Consistent(Home)  BY HomeIsConsistent
<1>4. x \in TabState  BY <1>1, <1>3 DEF TabState, PC
<1>5. Consistent(x)  BY <1>3 DEF Consistent, Home
<1> QED  BY <1>2, <1>4, <1>5, OnlyTab DEF ExchangeFails

\* A client with a refresh cookie revokes its session.
LEMMA LogoutKeeps ==
    ASSUME Storage, Tabs, NEW t \in Tab, Owner(t) \in User, Logout(t)
    PROVE  Storage' /\ Tabs'
<1>1. PICK old : old = tab[t] /\ old \in TabState /\ Consistent(old)
  BY DEF Tabs
<1>2. PICK cookie : cookie = Mine(t).refreshCookie /\ cookie \in 0..Len(sessions)
  BY DEF Storage, Mine, BrowserState
<1> DEFINE x == [old EXCEPT !.pc = IF cookie # 0 THEN "revoking" ELSE "clearing",
                            !.session = cookie]
<1>3. tab' = [tab EXCEPT ![t] = x]  BY <1>1, <1>2 DEF Logout
<1>4. x \in TabState  BY <1>1, <1>2 DEF TabState, PC
<1>5. Consistent(x)  BY <1>1 DEF Consistent, TabState
<1> QED  BY <1>3, <1>4, <1>5, OnlyTab DEF Logout

\* A failed revocation ends the logout or goes on to clear the cookies.
LEMMA RevokeFailsKeeps ==
    ASSUME Storage, Tabs, NEW t \in Tab, RevokeFails(t)  PROVE Storage' /\ Tabs'
BY GoesHomeKeeps, GoesToKeeps DEF RevokeFails

\* A tab that asks for a token sees which sessions are revoked.
LEMMA RefreshKeeps ==
    ASSUME Storage, Tabs, NEW t \in Tab, Owner(t) \in User, NEW ask \in BOOLEAN,
           Refresh(t, ask)
    PROVE  Storage' /\ Tabs'
<1>1. PICK cookie : /\ cookie = Mine(t).refreshCookie /\ cookie \in 0..Len(sessions)
                    /\ cookie # 0
  BY DEF Storage, Mine, BrowserState, Refresh
<1>2. PICK revoked : revoked = Revoked /\ revoked \subseteq DOMAIN sessions /\ 0 \notin revoked
  BY RevokedSessions
<1> DEFINE x == [Home EXCEPT !.pc = IF ask THEN "asking" ELSE "refreshing",
                             !.session = cookie, !.revoked = revoked]
<1>3. tab' = [tab EXCEPT ![t] = x]  BY <1>1, <1>2 DEF Refresh
<1>4. x \in TabState  BY <1>1, <1>2, HomeIsConsistent DEF TabState, PC
<1>5. Consistent(x)  BY <1>1, <1>2 DEF Consistent, Home
<1> QED  BY <1>3, <1>4, <1>5, OnlyTab DEF Refresh

\* Cognito is asked about the access token, and admits no revoked session.
LEMMA IsUserLoggedInKeeps ==
    ASSUME Storage, Tabs, NEW t \in Tab, Owner(t) \in User, IsUserLoggedIn(t)
    PROVE  Storage' /\ Tabs'
<1>1. PICK revoked : revoked = Revoked /\ revoked \subseteq DOMAIN sessions /\ 0 \notin revoked
  BY RevokedSessions
<1>2. PICK told : /\ told = IF Live(Mine(t).accessCookie)
                            THEN tokens[Mine(t).accessCookie].session ELSE 0
                  /\ told \in 0..Len(sessions) /\ told \notin revoked
  <2>1. CASE ~Live(Mine(t).accessCookie)  BY <1>1, <2>1, Lengths
  <2>2. CASE Live(Mine(t).accessCookie)
    <3>1. PICK cookie : cookie = Mine(t).accessCookie /\ cookie \in 1..Len(tokens)
      BY Lengths DEF Storage, Mine, BrowserState, IsUserLoggedIn
    <3>2. tokens[cookie] \in TokenState  BY <3>1, ElementOfSeq DEF Storage
    <3>3. tokens[cookie].session \in 0..Len(sessions)
      BY <3>2, Lengths DEF TokenState
    <3>4. tokens[cookie].session \notin Revoked  BY <2>2, <3>1 DEF Live
    <3> QED  BY <1>1, <2>2, <3>1, <3>3, <3>4
  <2> QED  BY <2>1, <2>2
<1> DEFINE x == [Home EXCEPT !.revoked = revoked, !.loggedIn = told]
<1>3. tab' = [tab EXCEPT ![t] = x]  BY <1>1, <1>2 DEF IsUserLoggedIn
<1>4. x \in TabState  BY <1>1, <1>2, HomeIsConsistent DEF TabState, PC
<1>5. Consistent(x)  BY <1>1, <1>2 DEF Consistent, Home
<1> QED  BY <1>3, <1>4, <1>5, OnlyTab DEF IsUserLoggedIn

(***************************************************************************)
(* Steps that change what is stored                                        *)
(***************************************************************************)
\* A browser's storage is overwritten.
LEMMA BrowserMoves ==
    ASSUME Storage, attempts' \in Seq(AttemptState), sessions' = sessions, tokens' = tokens,
           Len(attempts) <= Len(attempts'), case' = case,
           NEW u \in User,
           \E b : /\ browser' = [browser EXCEPT ![u] = b]
                  /\ b \in BrowserState' /\ b.state = b.verifier
    PROVE  Storage' /\ Grows
<1>1. PICK b : /\ browser' = [browser EXCEPT ![u] = b]
               /\ b \in BrowserState' /\ b.state = b.verifier
  OBVIOUS
<1>2. Len(attempts') \in Nat  BY LenProperties
<1>3. BrowserState \subseteq BrowserState'  BY <1>2, Lengths, TypesGrow
<1>4. browser' \in [User -> BrowserState']
  <2>1. browser \in [User -> BrowserState']  BY <1>3 DEF Storage
  <2> QED  BY <1>1, <2>1
<1>5. \A v \in User : browser'[v] = IF v = u THEN b ELSE browser[v]
  BY <1>1 DEF Storage
<1>6. StoredTogether'
  BY <1>1, <1>5 DEF StoredTogether, Storage
<1>7. TokenState' = TokenState  BY DEF TokenState
<1>8. Revoked' = Revoked  BY DEF Revoked
<1> QED  BY <1>4, <1>6, <1>7, <1>8, Lengths DEF Storage, Grows

\* A session or a token is made; attempts may be taken.
LEMMA SessionsMove ==
    ASSUME Storage, case' = case, browser' = browser,
           attempts' \in Seq(AttemptState), Len(attempts') = Len(attempts),
           sessions' \in Seq(SessionState), Len(sessions) <= Len(sessions'),
           tokens' \in Seq(TokenState'), Len(tokens) <= Len(tokens'),
           Revoked \subseteq Revoked'
    PROVE  Storage' /\ Grows
<1>1. Grows  BY Lengths DEF Grows
<1>2. /\ Len(attempts') \in Nat /\ Len(sessions') \in Nat /\ Len(tokens') \in Nat
      /\ DOMAIN sessions' = 1..Len(sessions')
  BY LenProperties
<1>3. BrowserState \subseteq BrowserState'  BY <1>2, Lengths, TypesGrow
<1>4. browser' \in [User -> BrowserState']  BY <1>3 DEF Storage
<1> QED  BY <1>1, <1>4 DEF Storage, StoredTogether

\* A new token is one of the session's, with the groups its user has.
LEMMA IssueKeeps ==
    ASSUME Storage, PoolKept,
           sessions' \in Seq(SessionState), Len(sessions) <= Len(sessions'),
           NEW s \in 1..Len(sessions'), Issue(s)
    PROVE  tokens' \in Seq(TokenState') /\ Len(tokens') = Len(tokens) + 1
<1>1. PICK roles : roles = RolesOf(sessions'[s].user) /\ roles \subseteq Role
  BY DEF RolesOf, PoolKept
<1> DEFINE token == [session |-> s, roles |-> roles, expired |-> FALSE]
<1>2. tokens' = Append(tokens, token)  BY <1>1 DEF Issue
<1>3. Len(sessions') \in Nat /\ DOMAIN sessions' = 1..Len(sessions')
  BY LenProperties
<1>4. TokenState \subseteq TokenState'
  <2>1. DOMAIN sessions \subseteq DOMAIN sessions'  BY <1>3, Lengths
  <2> QED  BY <2>1 DEF TokenState
<1>5. token \in TokenState'  BY <1>1, <1>3 DEF TokenState
<1>6. tokens \in Seq(TokenState')
  <2>1. PICK old, T : old = TokenState /\ T = TokenState'  OBVIOUS
  <2>2. tokens \in Seq(old)  BY <2>1 DEF Storage
  <2> QED  BY <1>4, <2>1, <2>2, SeqMonotonic
<1>7. PICK T : T = TokenState'  OBVIOUS
<1>8. Append(tokens, token) \in Seq(T) /\ Len(Append(tokens, token)) = Len(tokens) + 1
  BY <1>5, <1>6, <1>7
<1> QED  BY <1>2, <1>7, <1>8

\* A tab at home knows nothing after a step either.
LEMMA HomeStays ==
    ASSUME Storage, Storage', Grows  PROVE Home \in TabState' /\ Consistent(Home)'
<1>1. Home \in TabState /\ Consistent(Home)  BY HomeIsConsistent
<1>2. /\ Len(attempts') \in Nat /\ Len(sessions') \in Nat /\ Len(tokens') \in Nat
      /\ DOMAIN sessions' = 1..Len(sessions')
  BY LenProperties DEF Storage
<1>3. TabState \subseteq TabState'  BY <1>2, Lengths, TypesGrow DEF Grows
<1>4. PICK h : h = Home  OBVIOUS
<1>5. Consistent(h)'  BY <1>1, <1>4, ConsistentGrows DEF Grows
<1> QED  BY <1>1, <1>3, <1>4, <1>5 DEF Consistent, Home

\* State and verifier of a new attempt are stored together.
LEMMA SignInKeeps ==
    ASSUME Storage, Tabs, NEW t \in Tab, Owner(t) \in User, SignIn(t)
    PROVE  Storage' /\ Tabs'
<1>1. PICK n : n = Len(attempts) + 1 /\ n \in Nat  BY Lengths
<1>2. attempts' \in Seq(AttemptState) /\ Len(attempts') = n
  <2>1. [user |-> Owner(t), taken |-> FALSE] \in AttemptState  BY DEF AttemptState
  <2> QED  BY <1>1, <2>1 DEF SignIn, Storage
<1>3. PICK mine : mine = browser[Owner(t)] /\ mine \in BrowserState
  BY DEF Storage
<1> DEFINE b == [mine EXCEPT !.state = n, !.verifier = n]
<1>4. browser' = [browser EXCEPT ![Owner(t)] = b]  BY <1>1, <1>3 DEF SignIn
<1>5. 0..Len(attempts) \subseteq 0..Len(attempts') /\ n \in 0..Len(attempts')
  BY <1>1, <1>2, Lengths
<1>6. b \in BrowserState' /\ b.state = b.verifier
  <2>1. sessions' = sessions /\ tokens' = tokens  BY DEF SignIn
  <2> QED  BY <1>3, <1>5, <2>1 DEF BrowserState
<1>7. Storage' /\ Grows
  <2>1. \E c : /\ browser' = [browser EXCEPT ![Owner(t)] = c]
               /\ c \in BrowserState' /\ c.state = c.verifier
    BY <1>4, <1>6
  <2>2. sessions' = sessions /\ tokens' = tokens /\ case' = case  BY DEF SignIn
  <2>3. Len(attempts) <= Len(attempts')  BY <1>1, <1>2, Lengths
  <2> QED  BY <1>2, <2>1, <2>2, <2>3, BrowserMoves
<1> DEFINE x == [Home EXCEPT !.pc = "atIdp", !.attempt = n]
<1>8. tab' = [tab EXCEPT ![t] = x]  BY <1>1 DEF SignIn
<1>9. Home \in TabState' /\ Consistent(Home)'  BY <1>7, HomeStays
<1>10. x \in TabState'  BY <1>5, <1>9 DEF TabState, PC
<1>11. Consistent(x)'  BY <1>9 DEF Consistent, Home
<1> QED  BY <1>7, <1>8, <1>10, <1>11, TabsKept

\* The token endpoint makes a session and a token for an attempt that was not taken.
LEMMA ExchangeCodeKeeps ==
    ASSUME Storage, PoolKept, Tabs, NEW t \in Tab, Owner(t) \in User, ExchangeCode(t)
    PROVE  Storage' /\ Tabs'
<1>1. PICK old : old = tab[t] /\ old \in TabState /\ Consistent(old)
  BY DEF Tabs
<1>2. CASE GoesTo(t, "back") /\ UNCHANGED <<attempts, sessions, tokens>>
  BY <1>2, GoesToKeeps DEF ExchangeCode
<1>3. CASE /\ attempts' = [attempts EXCEPT ![tab[t].attempt].taken = TRUE]
           /\ sessions' = Append(sessions, [user |-> Owner(t), revoked |-> FALSE])
           /\ Issue(Len(sessions) + 1)
           /\ tab' = [tab EXCEPT ![t].pc = "describing",
                                 ![t].session = Len(sessions) + 1,
                                 ![t].token = Len(tokens) + 1]
  <2>1. PICK s, k : /\ s = Len(sessions) + 1 /\ s \in Nat \ {0}
                    /\ k = Len(tokens) + 1 /\ k \in Nat \ {0}
    BY Lengths
  <2>2. attempts' \in Seq(AttemptState) /\ Len(attempts') = Len(attempts)
    <3>1. CASE old.attempt \in 1..Len(attempts)
      <4>1. PICK a : a = attempts[old.attempt] /\ a \in AttemptState
        BY <3>1, ElementOfSeq DEF Storage
      <4>2. [a EXCEPT !.taken = TRUE] \in AttemptState  BY <4>1 DEF AttemptState
      <4>3. attempts' = [attempts EXCEPT ![old.attempt] = [a EXCEPT !.taken = TRUE]]
        BY <1>1, <1>3, <4>1
      <4>4. attempts \in Seq(AttemptState)  BY DEF Storage
      <4> QED  BY <3>1, <4>2, <4>3, <4>4, ExceptSeq
    <3>2. CASE old.attempt \notin 1..Len(attempts)
      <4>1. attempts \in [1..Len(attempts) -> AttemptState]
        BY LenProperties DEF Storage
      <4>2. attempts' = attempts  BY <1>1, <1>3, <3>2, <4>1
      <4> QED  BY <4>2 DEF Storage
    <3> QED  BY <3>1, <3>2
  <2> DEFINE session == [user |-> Owner(t), revoked |-> FALSE]
  <2>3. session \in SessionState  BY DEF SessionState
  <2>4. /\ sessions' \in Seq(SessionState) /\ Len(sessions') = s
        /\ \A i \in 1..Len(sessions) : sessions'[i] = sessions[i]
    BY <1>3, <2>1, <2>3, AppendProperties DEF Storage
  <2>5. tokens' \in Seq(TokenState') /\ Len(tokens') = k
    BY <1>3, <2>1, <2>4, IssueKeeps
  <2>6. Revoked \subseteq Revoked'
    <3>1. DOMAIN sessions' = 1..s  BY <2>4, LenProperties
    <3> QED  BY <2>1, <2>4, <3>1, Lengths DEF Revoked
  <2>7. Storage' /\ Grows
    <3>1. Len(sessions) <= Len(sessions') /\ Len(tokens) <= Len(tokens')
      BY <2>1, <2>4, <2>5, Lengths
    <3>2. case' = case /\ browser' = browser  BY DEF ExchangeCode
    <3> QED  BY <2>2, <2>4, <2>5, <2>6, <3>1, <3>2, SessionsMove
  <2> DEFINE x == [old EXCEPT !.pc = "describing", !.session = s, !.token = k]
  <2>8. tab' = [tab EXCEPT ![t] = x]  BY <1>1, <1>3, <2>1
  <2>9. x \in TabState'
    <3>1. DOMAIN sessions \subseteq DOMAIN sessions' /\ DOMAIN sessions' = 1..s
      BY <2>1, <2>4, Lengths, LenProperties
    <3>2. 0..Len(sessions) \subseteq 0..Len(sessions') /\ s \in 0..Len(sessions')
      BY <2>1, <2>4, Lengths
    <3>3. k \in 0..Len(tokens')  BY <2>1, <2>5
    <3> QED  BY <1>1, <2>2, <3>1, <3>2, <3>3 DEF TabState, PC
  <2>10. Consistent(x)'
    <3>1. Consistent(old)'  BY <1>1, <2>6, ConsistentGrows
    <3> QED  BY <1>1, <3>1 DEF Consistent, TabState
  <2> QED  BY <2>7, <2>8, <2>9, <2>10, TabsKept
<1> QED  BY <1>2, <1>3 DEF ExchangeCode

\* A tab that goes home after its browser's storage was overwritten.
LEMMA BrowserMovesHome ==
    ASSUME Storage, Tabs, UNCHANGED <<case, attempts, sessions, tokens>>,
           NEW t \in Tab, Owner(t) \in User, GoesHome(t),
           \E b : /\ browser' = [browser EXCEPT ![Owner(t)] = b]
                  /\ b \in BrowserState /\ b.state = b.verifier
    PROVE  Storage' /\ Tabs'
<1>1. Storage' /\ Grows
  <2>1. BrowserState' = BrowserState  BY DEF BrowserState
  <2>2. attempts' \in Seq(AttemptState) /\ Len(attempts) <= Len(attempts')
    BY Lengths DEF Storage
  <2> QED  BY <2>1, <2>2, BrowserMoves
<1>2. Home \in TabState' /\ Consistent(Home)'  BY <1>1, HomeStays
<1> QED  BY <1>1, <1>2, TabsKept DEF GoesHome

\* Tokens and cookies arrive; state and verifier are removed together.
LEMMA TokensArriveKeeps ==
    ASSUME Storage, Tabs, NEW t \in Tab, Owner(t) \in User, TokensArrive(t)
    PROVE  Storage' /\ Tabs'
<1>1. PICK old : old = tab[t] /\ old \in TabState  BY DEF Tabs
<1>2. PICK mine : mine = browser[Owner(t)] /\ mine \in BrowserState
  BY DEF Storage
<1> DEFINE b ==
      [state |-> 0, verifier |-> 0, accessToken |-> old.token,
       accessCookie |-> IF case.cookies THEN old.token ELSE mine.accessCookie,
       refreshCookie |-> IF case.cookies THEN old.session ELSE mine.refreshCookie]
<1>3. browser' = [browser EXCEPT ![Owner(t)] = b]
  BY <1>1, <1>2 DEF TokensArrive, Mine
<1>4. b \in BrowserState /\ b.state = b.verifier
  BY <1>1, <1>2, Lengths DEF BrowserState, TabState
<1>5. \E c : /\ browser' = [browser EXCEPT ![Owner(t)] = c]
             /\ c \in BrowserState /\ c.state = c.verifier
  BY <1>3, <1>4
<1> QED  BY <1>5, BrowserMovesHome DEF TokensArrive

\* The cookies are cleared; state and verifier stay as they are.
LEMMA LogoutAnsweredKeeps ==
    ASSUME Storage, Tabs, NEW t \in Tab, Owner(t) \in User, LogoutAnswered(t)
    PROVE  Storage' /\ Tabs'
<1>1. PICK mine : /\ mine = browser[Owner(t)] /\ mine \in BrowserState
                  /\ mine.state = mine.verifier
  BY DEF Storage, StoredTogether
<1> DEFINE b == [mine EXCEPT !.accessToken = 0, !.accessCookie = 0, !.refreshCookie = 0]
<1>2. browser' = [browser EXCEPT ![Owner(t)] = b]
  BY <1>1 DEF LogoutAnswered
<1>3. b \in BrowserState /\ b.state = b.verifier
  <2>1. 0 \in 0..Len(tokens) /\ 0 \in 0..Len(sessions)  BY Lengths
  <2>2. b \in BrowserState  BY <1>1, <2>1 DEF BrowserState
  <2>3. b.state = mine.state /\ b.verifier = mine.verifier
    BY <1>1 DEF BrowserState
  <2> QED  BY <1>1, <2>2, <2>3
<1>4. \E c : /\ browser' = [browser EXCEPT ![Owner(t)] = c]
             /\ c \in BrowserState /\ c.state = c.verifier
  BY <1>2, <1>3
<1> QED  BY <1>4, BrowserMovesHome DEF LogoutAnswered

\* Sessions are only ever revoked.
LEMMA SessionsRevoked ==
    ASSUME Storage, UNCHANGED <<case, attempts, tokens, browser>>,
           sessions' \in Seq(SessionState), Len(sessions') = Len(sessions),
           \A s \in 1..Len(sessions) : sessions[s].revoked => sessions'[s].revoked
    PROVE  Storage' /\ Grows
<1>1. DOMAIN sessions' = DOMAIN sessions  BY Lengths, LenProperties
<1>2. TokenState' = TokenState  BY <1>1 DEF TokenState
<1>3. Revoked \subseteq Revoked'  BY <1>1, Lengths DEF Revoked
<1>4. tokens' \in Seq(TokenState') /\ Len(tokens) <= Len(tokens')
  BY <1>2, Lengths DEF Storage
<1>5. attempts' \in Seq(AttemptState)  BY DEF Storage
<1> QED  BY <1>3, <1>4, <1>5, Lengths, SessionsMove

\* A revocation leaves what every tab saw revoked.
LEMMA RevokeTokenKeeps ==
    ASSUME Storage, Tabs, NEW t \in Tab, RevokeToken(t)
    PROVE  Storage' /\ Tabs'
<1>1. PICK old : /\ old = tab[t] /\ old \in TabState /\ Consistent(old)
                 /\ old.pc = "revoking"
  BY DEF Tabs, RevokeToken
<1>2. old.session \in 1..Len(sessions)
  BY <1>1, Lengths DEF Consistent, TabState
<1>3. PICK a : a = sessions[old.session] /\ a \in SessionState
  BY <1>2, ElementOfSeq DEF Storage
<1> DEFINE b == [a EXCEPT !.revoked = TRUE]
<1>4. b \in SessionState /\ b.revoked  BY <1>3 DEF SessionState
<1>5. sessions' = [sessions EXCEPT ![old.session] = b]
  BY <1>1, <1>3 DEF RevokeToken
<1>6. /\ sessions' \in Seq(SessionState) /\ Len(sessions') = Len(sessions)
      /\ \A s \in 1..Len(sessions) :
            sessions'[s] = IF s = old.session THEN b ELSE sessions[s]
  <2>1. sessions \in Seq(SessionState)  BY DEF Storage
  <2> HIDE DEF b
  <2> QED  BY <1>2, <1>4, <1>5, <2>1, ExceptSeq
<1>7. Storage' /\ Grows  BY <1>4, <1>6, SessionsRevoked DEF RevokeToken
<1> DEFINE x == [old EXCEPT !.pc = "clearing"]
<1>8. tab' = [tab EXCEPT ![t] = x]  BY <1>1 DEF RevokeToken, GoesTo
<1>9. x \in TabState'
  <2>1. DOMAIN sessions' = DOMAIN sessions  BY <1>6, Lengths, LenProperties
  <2>2. attempts' = attempts /\ tokens' = tokens  BY DEF RevokeToken
  <2>3. TabState' = TabState  BY <1>6, <2>1, <2>2 DEF TabState
  <2>4. x \in TabState  BY <1>1 DEF TabState, PC
  <2> QED  BY <2>3, <2>4
<1>10. Consistent(x)'
  <2>1. Consistent(old)'  BY <1>1, <1>7, ConsistentGrows DEF Grows
  <2> QED  BY <1>1, <2>1 DEF Consistent, TabState
<1> QED  BY <1>7, <1>8, <1>9, <1>10, TabsKept

\* A token is made for a session that is not revoked, so that the tab had not seen it
\* revoked either.
LEMMA RefreshAccessTokenKeeps ==
    ASSUME Storage, PoolKept, Tabs, NEW t \in Tab, RefreshAccessToken(t)
    PROVE  Storage' /\ Tabs'
<1>1. PICK old : /\ old = tab[t] /\ old \in TabState /\ Consistent(old)
                 /\ old.pc \in {"refreshing", "asking"}
  BY DEF Tabs, RefreshAccessToken
<1>2. CASE GoesHome(t) /\ UNCHANGED <<sessions, tokens>>
  BY <1>2, GoesHomeKeeps DEF RefreshAccessToken
<1>3. CASE /\ old.session \notin Revoked
           /\ UNCHANGED sessions /\ Issue(old.session)
           /\ tab' = [tab EXCEPT ![t].token = Len(tokens) + 1]
  <2>1. old.session \in 1..Len(sessions')
    BY <1>1, <1>3, Lengths DEF Consistent, TabState
  <2>2. PICK k : k = Len(tokens) + 1 /\ k \in Nat \ {0}  BY Lengths
  <2>3. sessions' \in Seq(SessionState) /\ Len(sessions) <= Len(sessions')
    BY <1>3, Lengths DEF Storage
  <2>4. tokens' \in Seq(TokenState') /\ Len(tokens') = k
    BY <1>3, <2>1, <2>2, <2>3, IssueKeeps
  <2>5. Storage' /\ Grows
    <3>1. Revoked' = Revoked  BY <1>3 DEF Revoked
    <3>2. attempts' = attempts /\ case' = case /\ browser' = browser
      BY DEF RefreshAccessToken
    <3>3. attempts' \in Seq(AttemptState) /\ Len(attempts') = Len(attempts)
      BY <3>2 DEF Storage
    <3>4. Len(tokens) <= Len(tokens')  BY <2>2, <2>4, Lengths
    <3> QED  BY <2>3, <2>4, <3>1, <3>2, <3>3, <3>4, SessionsMove
  <2> DEFINE x == [old EXCEPT !.token = k]
  <2>6. tab' = [tab EXCEPT ![t] = x]  BY <1>1, <1>3, <2>2
  <2>7. x \in TabState'
    <3>1. k \in 0..Len(tokens')  BY <2>2, <2>4
    <3>2. attempts' = attempts /\ sessions' = sessions
      BY <1>3 DEF RefreshAccessToken
    <3> QED  BY <1>1, <3>1, <3>2 DEF TabState
  <2>8. Consistent(x)'
    <3>1. Consistent(old)'  BY <1>1, <2>5, ConsistentGrows DEF Grows
    <3>2. old.session \notin old.revoked  BY <1>1, <1>3 DEF Consistent
    <3> QED  BY <1>1, <3>1, <3>2 DEF Consistent, TabState
  <2> QED  BY <2>5, <2>6, <2>7, <2>8, TabsKept
<1> QED  BY <1>1, <1>2, <1>3 DEF RefreshAccessToken

\* The answer says logged in about a session that the tab had not seen revoked.
LEMMA RefreshAnsweredKeeps ==
    ASSUME Storage, Tabs, NEW t \in Tab, Owner(t) \in User, RefreshAnswered(t)
    PROVE  Storage' /\ Tabs'
<1>1. PICK old : /\ old = tab[t] /\ old \in TabState /\ Consistent(old)
                 /\ old.pc \in {"refreshing", "asking"} /\ old.token # 0
  BY DEF Tabs, RefreshAnswered
<1>2. PICK mine : /\ mine = browser[Owner(t)] /\ mine \in BrowserState
                  /\ mine.state = mine.verifier
  BY DEF Storage, StoredTogether
<1> DEFINE b == [mine EXCEPT !.accessCookie = old.token]
<1>3. browser' = [browser EXCEPT ![Owner(t)] = b]
  BY <1>1, <1>2 DEF RefreshAnswered
<1>4. b \in BrowserState /\ b.state = b.verifier
  BY <1>1, <1>2 DEF BrowserState, TabState
<1>5. UNCHANGED <<case, attempts, sessions, tokens>>  BY DEF RefreshAnswered
<1>6. Storage' /\ Grows
  <2>1. BrowserState' = BrowserState  BY <1>5 DEF BrowserState
  <2>2. attempts' \in Seq(AttemptState) /\ Len(attempts) <= Len(attempts')
    BY <1>5, Lengths DEF Storage
  <2>3. \E c : /\ browser' = [browser EXCEPT ![Owner(t)] = c]
               /\ c \in BrowserState /\ c.state = c.verifier
    BY <1>3, <1>4
  <2> QED  BY <1>5, <2>1, <2>2, <2>3, BrowserMoves
<1>7. PICK told : /\ told = IF old.pc = "asking" THEN old.session ELSE 0
                  /\ told \in 0..Len(sessions) /\ told \notin old.revoked
  <2>1. old.session \notin old.revoked /\ old.revoked \subseteq Revoked
    BY <1>1 DEF Consistent
  <2>2. 0 \notin old.revoked  BY <2>1, RevokedSessions
  <2>3. old.session \in 0..Len(sessions) /\ 0 \in 0..Len(sessions)
    BY <1>1, Lengths DEF TabState
  <2> QED  BY <2>1, <2>2, <2>3
<1> DEFINE x == [Home EXCEPT !.revoked = old.revoked, !.loggedIn = told]
<1>8. tab' = [tab EXCEPT ![t] = x]  BY <1>1, <1>7 DEF RefreshAnswered
<1>9. x \in TabState
  BY <1>1, <1>7, HomeIsConsistent DEF TabState
<1>10. x \in TabState'  BY <1>5, <1>9 DEF TabState
<1>11. Consistent(x)
  <2>1. old.revoked \subseteq Revoked  BY <1>1 DEF Consistent
  <2> QED  BY <1>7, <2>1 DEF Consistent, Home
<1>12. Consistent(x)'
  <2> HIDE DEF x
  <2> QED  BY <1>6, <1>11, ConsistentGrows DEF Grows
<1> QED  BY <1>6, <1>8, <1>10, <1>12, TabsKept

\* A token that expires is of the same session, with the same groups.
LEMMA ExpireKeeps ==
    ASSUME Storage, Tabs, NEW k \in DOMAIN tokens, Expire(k)
    PROVE  Storage' /\ Tabs'
<1>1. k \in 1..Len(tokens)  BY Lengths
<1>2. PICK a : a = tokens[k] /\ a \in TokenState
  BY <1>1, ElementOfSeq DEF Storage
<1>3. PICK T : T = TokenState /\ T = TokenState'  BY DEF TokenState, Expire
<1> DEFINE b == [a EXCEPT !.expired = TRUE]
<1>4. b \in T  BY <1>2, <1>3 DEF TokenState
<1>5. tokens' = [tokens EXCEPT ![k] = b]  BY <1>2 DEF Expire
<1>6. tokens' \in Seq(T) /\ Len(tokens') = Len(tokens)
  <2>1. tokens \in Seq(T)  BY <1>3 DEF Storage
  <2> HIDE DEF b
  <2> QED  BY <1>1, <1>4, <1>5, <2>1, ExceptSeq
<1>7. Storage' /\ Grows
  <2>1. UNCHANGED <<case, attempts, sessions, browser>>  BY DEF Expire
  <2>2. Revoked' = Revoked  BY <2>1 DEF Revoked
  <2>3. attempts' \in Seq(AttemptState) /\ Len(attempts') = Len(attempts)
    BY <2>1 DEF Storage
  <2>4. sessions' \in Seq(SessionState) /\ Len(sessions) <= Len(sessions')
    BY <2>1, Lengths DEF Storage
  <2> QED  BY <1>3, <1>6, <2>1, <2>2, <2>3, <2>4, Lengths, SessionsMove
<1> QED  BY <1>7, TabsStay DEF Expire

\* Sessions of users who are deleted are revoked.
LEMMA DirectAccessKeeps ==
    ASSUME Storage, Tabs, DirectAccess  PROVE Storage' /\ Tabs'
<1>1. \A s \in 1..Len(sessions) :
         /\ sessions[s] \in SessionState
         /\ sessions'[s] = [sessions[s] EXCEPT !.revoked = @ \/ sessions[s].user \notin users']
  BY Lengths, ElementOfSeq DEF Storage, DirectAccess
<1>2. \A s \in 1..Len(sessions) :
         sessions'[s] \in SessionState /\ (sessions[s].revoked => sessions'[s].revoked)
  <2> SUFFICES ASSUME NEW s \in 1..Len(sessions)
               PROVE  /\ sessions'[s] \in SessionState
                      /\ sessions[s].revoked => sessions'[s].revoked
    OBVIOUS
  <2>1. PICK a : a = sessions[s] /\ a \in SessionState  BY <1>1
  <2>2. PICK gone \in BOOLEAN : gone = (sessions[s].user \notin users')  OBVIOUS
  <2>3. sessions'[s] = [a EXCEPT !.revoked = a.revoked \/ gone]  BY <1>1, <2>1, <2>2
  <2>4. a.revoked \in BOOLEAN  BY <2>1 DEF SessionState
  <2> QED  BY <2>1, <2>3, <2>4 DEF SessionState
<1>3. DOMAIN sessions' = 1..Len(sessions)  BY Lengths DEF DirectAccess
<1>4. sessions' \in [1..Len(sessions) -> SessionState]
  BY <1>2, <1>3, Lengths DEF DirectAccess
<1>5. sessions' \in Seq(SessionState) /\ Len(sessions') = Len(sessions)
  BY <1>4, Lengths
<1>6. Storage' /\ Grows  BY <1>2, <1>5, SessionsRevoked DEF DirectAccess
<1> QED  BY <1>6, TabsStay DEF DirectAccess

(***************************************************************************)
(* Calls of the routes                                                     *)
(***************************************************************************)
\* A route that puts a user into a group is called for the group Researcher only.
LEMMA OnlyResearcherIsCalled ==
    ASSUME NEW t, NEW g \in Role, MayCall(t, Request(RouteOf(g), "PUT"))
    PROVE  g = "Researcher"
<1>1. PICK token : token = tokens[Mine(t).accessToken]  OBVIOUS
<1>2. Admitted(Request(RouteOf(g), "PUT"), ~token.expired, token.roles)
  BY <1>1 DEF MayCall
<1> QED  BY <1>2, OnlyResearcherByRoute

\* Whatever user route is called with whatever token, nobody is made Admin.
LEMMA HandleKeeps ==
    ASSUME PoolKept, NEW t, NEW u \in User, NEW g \in Role, NEW request \in Requests(g),
           MayCall(t, request), Handle(request, u, g)
    PROVE  PoolKept'
<1>1. CASE request = Request(RouteOf(g), "PUT")
  <2>1. g = "Researcher"  BY <1>1, OnlyResearcherIsCalled
  <2>2. request[2] = "PUT" /\ request # Request("/users", "POST")
        /\ request # Request("/roles", "POST")
    BY <1>1 DEF Request
  <2>3. AddUserToRole(u, g)  BY <2>2 DEF Handle
  <2> QED  BY <2>1, <2>3, AddUserKeeps
<1>2. CASE request = Request("/users", "POST")
  <2>1. request[2] # "PUT" /\ request # Request("/roles", "POST")
    BY <1>2 DEF Request
  <2> QED  BY <1>2, <2>1, CreateUserKeeps DEF Handle
<1>3. CASE request = Request("/roles", "POST")
  <2>1. request[2] # "PUT" /\ request # Request("/users", "POST")
    BY <1>3 DEF Request
  <2> QED  BY <1>3, <2>1, CreateRoleKeeps DEF Handle
<1> QED  BY <1>1, <1>2, <1>3 DEF Requests

\* A step that leaves users, groups and members alone.
LEMMA PoolStays ==
    ASSUME PoolKept, UNCHANGED <<groups, users, member>>  PROVE PoolKept'
BY DEF PoolKept, AdminsAreAppointed

\* A call of a user route changes the pool only.
LEMMA CallUserRouteKeeps ==
    ASSUME PoolKept, Storage, Tabs, NEW t \in Tab, CallUserRoute(t)
    PROVE  PoolKept' /\ Storage' /\ Tabs'
<1>1. PoolKept'  BY HandleKeeps DEF CallUserRoute
<1>2. UNCHANGED <<case, attempts, sessions, tokens, browser, tab>>
  BY DEF CallUserRoute, accessVars
<1>3. Storage' /\ Grows  BY <1>2, StorageStays
<1> QED  BY <1>1, <1>2, <1>3, TabsStay

\* The form creates a user, or not, and goes on to the second request.
LEMMA SubmitFormKeeps ==
    ASSUME PoolKept, Storage, Tabs, NEW t \in Tab, NEW u \in User, SubmitForm(t, u)
    PROVE  PoolKept' /\ Storage' /\ Tabs'
<1>1. PoolKept'  BY CreateUserKeeps, PoolStays DEF SubmitForm
<1>2. PICK old : old = tab[t] /\ old \in TabState /\ Consistent(old)
  BY DEF Tabs
<1> DEFINE x == [old EXCEPT !.pc = "assigning", !.whom = u]
<1>3. tab' = [tab EXCEPT ![t] = x]  BY <1>2 DEF SubmitForm
<1>4. x \in TabState  BY <1>2 DEF TabState, PC
<1>5. Consistent(x)  BY <1>2 DEF Consistent, TabState
<1> QED  BY <1>1, <1>3, <1>4, <1>5, OnlyTab DEF SubmitForm

\* The second request of the form is about the group Researcher.
LEMMA AssignResearcherKeeps ==
    ASSUME PoolKept, Storage, Tabs, NEW t \in Tab, AssignResearcher(t)
    PROVE  PoolKept' /\ Storage' /\ Tabs'
<1>1. tab[t].whom \in User  BY DEF Tabs, TabState
<1>2. "Researcher" \in Role /\ "Researcher" # "Admin"  BY UserPoolAssumption
<1>3. PICK u : u = tab[t].whom /\ u \in User  BY <1>1
<1>4. AddUserToRole(u, "Researcher") \/ UNCHANGED <<groups, users, member>>
  BY <1>3 DEF AssignResearcher
<1>5. PoolKept'
  BY <1>2, <1>3, <1>4, AddUserKeeps, PoolStays
<1> QED  BY <1>5, GoesHomeKeeps DEF AssignResearcher

\* Nobody calls anything but the owner of a tab, who is a user.
LEMMA OwnersAreUsers ==
    ASSUME case \in Cases, NEW t \in Tab  PROVE Owner(t) \in User
BY CasesAssumption DEF Tab, Owner

\* The steps of a tab that call no user route.
Access(t) ==
    \/ SignIn(t) \/ IdpSignIn(t) \/ GetTokens(t)
    \/ ExchangeCode(t) \/ ExchangeFails(t) \/ TokensArrive(t)
    \/ Logout(t) \/ RevokeToken(t) \/ RevokeFails(t) \/ LogoutAnswered(t)
    \/ \E ask \in BOOLEAN : Refresh(t, ask)
    \/ RefreshAccessToken(t) \/ RefreshFails(t) \/ RefreshAnswered(t)
    \/ IsUserLoggedIn(t)

\* Signing in, keeping a session and signing out, step by step.
LEMMA AccessKeeps ==
    ASSUME PoolKept, Storage, Tabs, NEW t \in Tab, Owner(t) \in User, Access(t)
    PROVE  PoolKept' /\ Storage' /\ Tabs'
<1>1. UNCHANGED <<groups, users, member>>
  BY DEF Access, SignIn, IdpSignIn, GetTokens, ExchangeCode, ExchangeFails, TokensArrive,
     Logout, RevokeToken, RevokeFails, LogoutAnswered, Refresh, RefreshAccessToken,
     RefreshFails, RefreshAnswered, IsUserLoggedIn, PoolUnchanged, poolVars
<1>2. PoolKept'  BY <1>1, PoolStays
<1>3. CASE IdpSignIn(t)  BY <1>2, <1>3, GoesToKeeps DEF IdpSignIn
<1>4. CASE RefreshFails(t)  BY <1>2, <1>4, GoesHomeKeeps DEF RefreshFails
<1>5. CASE SignIn(t) \/ GetTokens(t) \/ ExchangeCode(t)
  BY <1>2, <1>5, SignInKeeps, GetTokensKeeps, ExchangeCodeKeeps
<1>6. CASE ExchangeFails(t) \/ TokensArrive(t) \/ Logout(t)
  BY <1>2, <1>6, ExchangeFailsKeeps, TokensArriveKeeps, LogoutKeeps
<1>7. CASE RevokeToken(t) \/ RevokeFails(t) \/ LogoutAnswered(t)
  BY <1>2, <1>7, RevokeTokenKeeps, RevokeFailsKeeps, LogoutAnsweredKeeps
<1>8. CASE RefreshAccessToken(t) \/ RefreshAnswered(t) \/ IsUserLoggedIn(t)
  BY <1>2, <1>8, RefreshAccessTokenKeeps, RefreshAnsweredKeeps, IsUserLoggedInKeeps
<1>9. CASE \E ask \in BOOLEAN : Refresh(t, ask)  BY <1>2, <1>9, RefreshKeeps
<1> QED  BY <1>2, <1>3, <1>4, <1>5, <1>6, <1>7, <1>8, <1>9 DEF Access

\* The steps of tabs leave the script alone and count what fails.
LEMMA TabCounts ==
    ASSUME Counters, NEW t \in Tab, TabStep(t)  PROVE Counters'
<1>1. \/ UNCHANGED <<setup, direct, faults>>
      \/ UNCHANGED <<setup, direct>> /\ faults < MaxFaults /\ faults' = faults + 1
  BY DEF TabStep, SignIn, IdpSignIn, GetTokens, ExchangeCode, ExchangeFails, TokensArrive,
     Logout, RevokeToken, RevokeFails, LogoutAnswered, Refresh, RefreshAccessToken,
     RefreshFails, RefreshAnswered, IsUserLoggedIn, PoolUnchanged, poolVars, Fails,
     CallUserRoute, SubmitForm, AssignResearcher
<1> QED  BY <1>1, UserPoolAssumption DEF Counters

(***************************************************************************)
(* The theorems                                                            *)
(***************************************************************************)
\* At first there is nobody and nothing.
LEMMA InitIInv == Init => IInv
<1> SUFFICES ASSUME Init PROVE IInv
  OBVIOUS
<1>1. PoolKept /\ Counters
  BY UserPoolAssumption DEF Init, PoolInit, PoolKept, Counters, AdminsAreAppointed
<1>2. Storage
  <2>1. Len(attempts) = 0 /\ Len(sessions) = 0 /\ Len(tokens) = 0
    BY DEF Init
  <2>2. EmptyBrowser \in BrowserState /\ EmptyBrowser.state = EmptyBrowser.verifier
    BY <2>1 DEF EmptyBrowser, BrowserState
  <2>3. browser \in [User -> BrowserState] /\ StoredTogether
    BY <2>2 DEF Init, StoredTogether
  <2>4. /\ attempts \in Seq(AttemptState) /\ sessions \in Seq(SessionState)
        /\ tokens \in Seq(TokenState)
    BY EmptySeq DEF Init
  <2> QED  BY <2>3, <2>4 DEF Storage
<1>3. Tabs
  <2>1. Home \in TabState /\ Consistent(Home)  BY <1>2, HomeIsConsistent
  <2> QED  BY <2>1 DEF Init, Tabs
<1> QED  BY <1>1, <1>2, <1>3, InvIsKept DEF Init

\* Every step keeps the inductive invariant.
LEMMA NextIInv == IInv /\ [Next]_vars => IInv'
<1> SUFFICES ASSUME IInv, [Next]_vars PROVE IInv'
  OBVIOUS
<1>1. PoolKept /\ Counters /\ case \in Cases /\ Storage /\ Tabs  BY InvIsKept
<1>2. SUFFICES PoolKept' /\ Counters' /\ case' = case /\ Storage' /\ Tabs'
  <2>1. case' \in Cases  BY <1>1, <1>2
  <2> QED  BY <1>2, <2>1 DEF IInv, TypeOK, PoolTypeOK, PoolKept, Counters, Storage, Tabs
<1>3. ASSUME UNCHANGED accessVars PROVE case' = case /\ Storage' /\ Tabs'
  <2>1. UNCHANGED <<case, attempts, sessions, tokens, browser, tab>>
    BY <1>3 DEF accessVars
  <2> QED  BY <1>1, <2>1, StorageStays, TabsStay
<1>4. CASE SetupStep /\ UNCHANGED accessVars
  BY <1>1, <1>3, <1>4, SetupKeeps, SetupCounts
<1>5. CASE SetupInterrupted /\ UNCHANGED accessVars
  BY <1>1, <1>3, <1>5, SetupKeeps, SetupCounts
<1>6. CASE DirectAccess
  <2>1. DirectStep /\ case' = case  BY <1>6 DEF DirectAccess
  <2>2. Counters'  BY <1>1, <2>1, UserPoolAssumption DEF DirectStep, Counters
  <2> QED  BY <1>1, <1>6, <2>1, <2>2, DirectKeeps, DirectAccessKeeps
<1>7. ASSUME NEW t \in Tab, TabStep(t)
      PROVE  PoolKept' /\ Counters' /\ case' = case /\ Storage' /\ Tabs'
  <2>1. Owner(t) \in User  BY <1>1, OwnersAreUsers
  <2>2. Counters'  BY <1>1, <1>7, TabCounts
  <2>3. case' = case
    BY <1>7 DEF TabStep, SignIn, IdpSignIn, GetTokens, ExchangeCode, ExchangeFails,
       TokensArrive, Logout, RevokeToken, RevokeFails, LogoutAnswered, Refresh,
       RefreshAccessToken, RefreshFails, RefreshAnswered, IsUserLoggedIn, CallUserRoute,
       SubmitForm, AssignResearcher, accessVars
  <2>4. Access(t) => PoolKept' /\ Storage' /\ Tabs'
    BY <1>1, <2>1, AccessKeeps
  <2>5. CallUserRoute(t) => PoolKept' /\ Storage' /\ Tabs'
    BY <1>1, CallUserRouteKeeps
  <2>6. (\E u \in User : SubmitForm(t, u)) => PoolKept' /\ Storage' /\ Tabs'
    BY <1>1, SubmitFormKeeps
  <2>7. AssignResearcher(t) => PoolKept' /\ Storage' /\ Tabs'
    BY <1>1, AssignResearcherKeeps
  <2>8. PoolKept' /\ Storage' /\ Tabs'
    BY <1>7, <2>4, <2>5, <2>6, <2>7 DEF TabStep, Access
  <2> QED  BY <2>2, <2>3, <2>8
<1>8. ASSUME NEW k \in DOMAIN tokens, Expire(k)
      PROVE  PoolKept' /\ Counters' /\ case' = case /\ Storage' /\ Tabs'
  <2>1. UNCHANGED <<groups, users, member, setup, direct, faults, case>>
    BY <1>8 DEF Expire, PoolUnchanged, poolVars
  <2>2. Counters'  BY <1>1, <2>1 DEF Counters
  <2> QED  BY <1>1, <1>8, <2>1, <2>2, PoolStays, ExpireKeeps
<1>9. CASE UNCHANGED vars
  <2>1. UNCHANGED <<groups, users, member, setup, direct, faults>> /\ UNCHANGED accessVars
    BY <1>9 DEF vars, accessVars
  <2>2. Counters'  BY <1>1, <2>1 DEF Counters
  <2> QED  BY <1>1, <1>3, <2>1, <2>2, PoolStays
<1> QED  BY <1>4, <1>5, <1>6, <1>7, <1>8, <1>9 DEF Next

\* The inductive invariant: what is kept is of its type and numbered consistently,
\* state and verifier are stored together, and what a tab knows about sessions and
\* its code stays true, for any users, groups, tabs and bounds.
THEOREM Invariance == Spec => []IInv
<1>1. Init => IInv  BY InitIInv
<1>2. IInv /\ [Next]_vars => IInv'  BY NextIInv
<1> QED  BY <1>1, <1>2, PTL DEF Spec

\* The routes of the user pool, the form and the script make nobody Admin but the
\* root user, with whatever tokens they are called and whatever is removed meanwhile.
THEOREM AdminsAppointed == Spec => []AdminsAreAppointed
<1>1. IInv => AdminsAreAppointed  BY DEF IInv
<1> QED  BY <1>1, Invariance, PTL

\* A tab sends its code with the verifier that the code was asked for with, for any
\* number of tabs of one browser.
THEOREM Paired == Spec => []ExchangePaired
<1>1. IInv => ExchangePaired  BY DEF IInv, Consistent, ExchangePaired
<1> QED  BY <1>1, Invariance, PTL

\* After a client has seen its session revoked, no answer of isUserLoggedIn says that
\* it is logged in with it, for any number of clients and sessions.
THEOREM LoggedOut == Spec => []LoggedOutStaysOut
<1>1. IInv => LoggedOutStaysOut  BY DEF IInv, Consistent, LoggedOutStaysOut
<1> QED  BY <1>1, Invariance, PTL

================================================================================
