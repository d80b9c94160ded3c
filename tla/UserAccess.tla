------------------------------ MODULE UserAccess ------------------------------
(***************************************************************************)
(* People who use the API: signing in with an authorization code and PKCE  *)
(* (AuthenticationContext.tsx, getTokensFromAuthorizationCode), keeping a  *)
(* session (refreshAccessToken, isUserLoggedIn), signing out (logoutUser)  *)
(* and calling the routes that change the user pool (userRoutes.ts and the *)
(* form of new.tsx).  The tabs of one person's browser share its storage   *)
(* and its cookies.                                                        *)
(*                                                                         *)
(* A sign-in attempt is a number: it stands for the state and the PKCE     *)
(* verifier made for it, and for the code Cognito answers it with.         *)
(***************************************************************************)
EXTENDS UserPool, Authorization, Sequences

CONSTANTS
    Cases,        \* bound: the combinations to explore: the tabs, whether the client
                  \* keeps cookies, whether the user routes are called, and how many
                  \* operations of other programs there are (at most MaxDirect)
    MaxAttempts,  \* bound: sign-in attempts
    MaxTokens     \* bound: access tokens

ASSUME CasesAssumption == \A c \in Cases : \A t \in c.tabs : t[1] \in User

VARIABLES
    case,      \* the case of this behaviour
    attempts,  \* sign-in attempts: whose, and whether Cognito took the code
    sessions,  \* refresh tokens: whose, and whether revoked
    tokens,    \* access tokens: of which session, with which groups, expired or not
    browser,   \* person -> local storage and cookies
    tab        \* tab -> what it is doing

accessVars == <<case, attempts, sessions, tokens, browser, tab>>
vars == <<groups, users, member, setup, direct, faults,
          case, attempts, sessions, tokens, browser, tab>>

Tab == case.tabs
Owner(t) == t[1]
Mine(t) == browser[Owner(t)]

\* state and verifier: of the attempt that stored them; the others number tokens and sessions
EmptyBrowser == [state |-> 0, verifier |-> 0, accessToken |-> 0, accessCookie |-> 0, refreshCookie |-> 0]

\* attempt: of the code in the tab's address; sent: the verifier sent with it;
\* session, token: what its request is about; revoked: sessions that were revoked
\* when the request was sent; loggedIn: the session that the last answer said was
\* logged in; whom: the user a form is about
Home == [pc |-> "home", attempt |-> 0, sent |-> 0, session |-> 0, token |-> 0,
         revoked |-> {}, loggedIn |-> 0, whom |-> Root]

Revoked == {s \in DOMAIN sessions : sessions[s].revoked}
Live(token) == ~tokens[token].expired /\ tokens[token].session \notin Revoked

GoesTo(t, pc) == tab' = [tab EXCEPT ![t].pc = pc]
GoesHome(t) == tab' = [tab EXCEPT ![t] = Home]

PoolUnchanged == UNCHANGED poolVars
Fails == faults < MaxFaults /\ faults' = faults + 1

\* a new access token of a session, with the groups its user has now
Issue(s) ==
    /\ Len(tokens) < MaxTokens
    /\ tokens' = Append(tokens,
         [session |-> s, roles |-> RolesOf(sessions'[s].user), expired |-> FALSE])

(***************************************************************************)
(* Signing in                                                              *)
(***************************************************************************)
\* signIn; GET /login is a route anyone may call
SignIn(t) ==
    /\ tab[t].pc \in {"home", "back"}
    /\ Len(attempts) < MaxAttempts
    /\ attempts' = Append(attempts, [user |-> Owner(t), taken |-> FALSE])
    /\ browser' = [browser EXCEPT ![Owner(t)].state = Len(attempts) + 1,
                                  ![Owner(t)].verifier = Len(attempts) + 1]
    /\ tab' = [tab EXCEPT ![t] = [Home EXCEPT !.pc = "atIdp", !.attempt = Len(attempts) + 1]]
    /\ PoolUnchanged /\ UNCHANGED <<case, sessions, tokens>>

\* Cognito's page sends the tab back with a code and the attempt's state.
IdpSignIn(t) ==
    /\ tab[t].pc = "atIdp"
    /\ Owner(t) \in users
    /\ GoesTo(t, "back")
    /\ PoolUnchanged /\ UNCHANGED <<case, attempts, sessions, tokens, browser>>

\* Mutant of GetTokens: the state is not compared.
GetTokensAnyway(t) ==
    /\ tab[t].pc = "back"
    /\ Mine(t).verifier # 0
    /\ tab' = [tab EXCEPT ![t].pc = "exchanging", ![t].sent = Mine(t).verifier]
    /\ PoolUnchanged /\ UNCHANGED <<case, attempts, sessions, tokens, browser>>

\* getTokens, on loading the page with the code: when another attempt has been
\* stored, or the state was removed, the login is denied.
GetTokens(t) ==
    /\ tab[t].pc = "back"
    /\ IF tab[t].attempt = Mine(t).state
       THEN tab' = [tab EXCEPT ![t].pc = "exchanging", ![t].sent = Mine(t).verifier]
       ELSE GoesHome(t)
    /\ PoolUnchanged /\ UNCHANGED <<case, attempts, sessions, tokens, browser>>

\* handleAuthorizationCode, its call of Cognito's token endpoint.  After a refusal
\* the address still has the code, and the page may be loaded again.
ExchangeCode(t) ==
    /\ tab[t].pc = "exchanging"
    /\ IF attempts[tab[t].attempt].taken \/ tab[t].sent # tab[t].attempt
       THEN GoesTo(t, "back") /\ UNCHANGED <<attempts, sessions, tokens>>
       ELSE /\ attempts' = [attempts EXCEPT ![tab[t].attempt].taken = TRUE]
            /\ sessions' = Append(sessions, [user |-> Owner(t), revoked |-> FALSE])
            /\ Issue(Len(sessions) + 1)
            /\ tab' = [tab EXCEPT ![t].pc = "describing",
                                  ![t].session = Len(sessions) + 1,
                                  ![t].token = Len(tokens) + 1]
    /\ PoolUnchanged /\ UNCHANGED <<case, browser>>

\* 503, or 401 when describing the app client fails after the code was taken
ExchangeFails(t) ==
    /\ tab[t].pc \in {"exchanging", "describing"}
    /\ Fails
    /\ tab' = [tab EXCEPT ![t] = [Home EXCEPT !.pc = "back", !.attempt = tab[t].attempt]]
    /\ UNCHANGED <<groups, users, member, setup, direct,
                   case, attempts, sessions, tokens, browser>>

\* _getTokensExpiration succeeds; the answer carries tokens and cookies
TokensArrive(t) ==
    /\ tab[t].pc = "describing"
    /\ browser' = [browser EXCEPT ![Owner(t)] =
         [state |-> 0, verifier |-> 0, accessToken |-> tab[t].token,
          accessCookie |-> IF case.cookies THEN tab[t].token ELSE Mine(t).accessCookie,
          refreshCookie |-> IF case.cookies THEN tab[t].session ELSE Mine(t).refreshCookie]]
    /\ GoesHome(t)
    /\ PoolUnchanged /\ UNCHANGED <<case, attempts, sessions, tokens>>

(***************************************************************************)
(* Signing out                                                             *)
(***************************************************************************)
\* logoutUser; the application's own requests carry no cookies
Logout(t) ==
    /\ tab[t].pc = "home"
    /\ Mine(t).accessToken # 0
    /\ tab' = [tab EXCEPT ![t].pc = IF Mine(t).refreshCookie # 0 THEN "revoking" ELSE "clearing",
                          ![t].session = Mine(t).refreshCookie]
    /\ PoolUnchanged /\ UNCHANGED <<case, attempts, sessions, tokens, browser>>

RevokeToken(t) ==
    /\ tab[t].pc = "revoking"
    /\ sessions' = [sessions EXCEPT ![tab[t].session].revoked = TRUE]
    /\ GoesTo(t, "clearing")
    /\ PoolUnchanged /\ UNCHANGED <<case, attempts, tokens, browser>>

\* Cognito is not available: the answer is 503 and the client keeps what it has.
\* Any other refusal is logged and the cookies are cleared.
RevokeFails(t) ==
    /\ tab[t].pc = "revoking"
    /\ Fails
    /\ GoesHome(t) \/ GoesTo(t, "clearing")
    /\ UNCHANGED <<groups, users, member, setup, direct,
                   case, attempts, sessions, tokens, browser>>

LogoutAnswered(t) ==
    /\ tab[t].pc = "clearing"
    /\ browser' = [browser EXCEPT ![Owner(t)] =
         [@ EXCEPT !.accessToken = 0, !.accessCookie = 0, !.refreshCookie = 0]]
    /\ GoesHome(t)
    /\ PoolUnchanged /\ UNCHANGED <<case, attempts, sessions, tokens>>

(***************************************************************************)
(* Keeping a session: refreshAccessToken, and isUserLoggedIn, which        *)
(* refreshes when it can and otherwise asks Cognito about the access token *)
(***************************************************************************)
\* ask: whether the client wants to know if it is logged in
Refresh(t, ask) ==
    /\ tab[t].pc = "home"
    /\ case.cookies /\ Mine(t).refreshCookie # 0
    /\ tab' = [tab EXCEPT ![t] = [Home EXCEPT
         !.pc = IF ask THEN "asking" ELSE "refreshing",
         !.session = Mine(t).refreshCookie, !.revoked = Revoked]]
    /\ PoolUnchanged /\ UNCHANGED <<case, attempts, sessions, tokens, browser>>

\* A refresh token that is revoked is refused: 401, or "not logged in".
RefreshAccessToken(t) ==
    /\ tab[t].pc \in {"refreshing", "asking"}
    /\ tab[t].token = 0
    /\ IF tab[t].session \in Revoked
       THEN GoesHome(t) /\ UNCHANGED <<sessions, tokens>>
       ELSE /\ UNCHANGED sessions /\ Issue(tab[t].session)
            /\ tab' = [tab EXCEPT ![t].token = Len(tokens) + 1]
    /\ PoolUnchanged /\ UNCHANGED <<case, attempts, browser>>

RefreshFails(t) ==
    /\ tab[t].pc \in {"refreshing", "asking"}
    /\ Fails
    /\ GoesHome(t)
    /\ UNCHANGED <<groups, users, member, setup, direct,
                   case, attempts, sessions, tokens, browser>>

RefreshAnswered(t) ==
    /\ tab[t].pc \in {"refreshing", "asking"}
    /\ tab[t].token # 0
    /\ browser' = [browser EXCEPT ![Owner(t)].accessCookie = tab[t].token]
    /\ tab' = [tab EXCEPT ![t] = [Home EXCEPT
         !.revoked = tab[t].revoked,
         !.loggedIn = IF tab[t].pc = "asking" THEN tab[t].session ELSE 0]]
    /\ PoolUnchanged /\ UNCHANGED <<case, attempts, sessions, tokens>>

\* Mutant of IsUserLoggedIn: the access token is verified like those of requests.
IsUserLoggedInOffline(t) ==
    /\ tab[t].pc = "home"
    /\ Mine(t).refreshCookie = 0 /\ Mine(t).accessCookie # 0
    /\ tab' = [tab EXCEPT ![t] = [Home EXCEPT
         !.revoked = Revoked,
         !.loggedIn = IF ~tokens[Mine(t).accessCookie].expired
                      THEN tokens[Mine(t).accessCookie].session ELSE 0]]
    /\ PoolUnchanged /\ UNCHANGED <<case, attempts, sessions, tokens, browser>>

\* the userInfo endpoint of Cognito
IsUserLoggedIn(t) ==
    /\ tab[t].pc = "home"
    /\ Mine(t).refreshCookie = 0 /\ Mine(t).accessCookie # 0
    /\ tab' = [tab EXCEPT ![t] = [Home EXCEPT
         !.revoked = Revoked,
         !.loggedIn = IF Live(Mine(t).accessCookie)
                      THEN tokens[Mine(t).accessCookie].session ELSE 0]]
    /\ PoolUnchanged /\ UNCHANGED <<case, attempts, sessions, tokens, browser>>

Expire(token) ==
    /\ ~tokens[token].expired
    /\ tokens' = [tokens EXCEPT ![token].expired = TRUE]
    /\ PoolUnchanged /\ UNCHANGED <<case, attempts, sessions, browser, tab>>

(***************************************************************************)
(* Routes of the user pool.  The access token is verified without asking   *)
(* Cognito: it is admitted until it expires, with the groups it was issued *)
(* with.  A route that throws changes nothing.                             *)
(***************************************************************************)
MayCall(t, request) ==
    /\ Mine(t).accessToken # 0
    /\ LET token == tokens[Mine(t).accessToken] IN
       Admitted(request, ~token.expired, token.roles)

RouteOf(g) == IF g = "Researcher" THEN "/roles/Researcher" ELSE "/roles/:id"

\* createUser, addUserToRole or createRole.  No role may CREATE a Role, so POST
\* /roles is refused to everybody.
Handle(request, u, g) ==
    \/ request[2] = "PUT" /\ AddUserToRole(u, g)
    \/ request = Request("/users", "POST") /\ CreateUser(u)
    \/ request = Request("/roles", "POST") /\ CreateRole(g)

Requests(g) ==
    {Request("/users", "POST"), Request("/roles", "POST"), Request(RouteOf(g), "PUT")}

CallUserRoute(t) ==
    /\ case.calls
    /\ tab[t].pc = "home"
    /\ \E u \in User, g \in Role : \E request \in Requests(g) :
        MayCall(t, request) /\ Handle(request, u, g)
    /\ UNCHANGED <<setup, direct, faults>> /\ UNCHANGED accessVars

\* submitForm: the new user is made a Researcher by a second request, which is sent
\* whatever became of the first
SubmitForm(t, u) ==
    /\ case.calls
    /\ tab[t].pc = "home"
    /\ Mine(t).accessToken # 0
    /\ IF MayCall(t, Request("/users", "POST"))
       THEN CreateUser(u) ELSE UNCHANGED <<groups, users, member>>
    /\ tab' = [tab EXCEPT ![t].pc = "assigning", ![t].whom = u]
    /\ UNCHANGED <<setup, direct, faults>> /\ UNCHANGED <<case, attempts, sessions, tokens, browser>>

AssignResearcher(t) ==
    /\ tab[t].pc = "assigning"
    /\ IF MayCall(t, Request("/roles/Researcher", "PUT"))
       THEN AddUserToRole(tab[t].whom, "Researcher") ELSE UNCHANGED <<groups, users, member>>
    /\ GoesHome(t)
    /\ UNCHANGED <<setup, direct, faults>> /\ UNCHANGED <<case, attempts, sessions, tokens, browser>>

(***************************************************************************)
(* The composition                                                         *)
(***************************************************************************)
\* A user who is deleted cannot use a refresh token any more.
DirectAccess ==
    /\ direct < case.direct
    /\ DirectStep
    /\ sessions' = [s \in DOMAIN sessions |->
         [sessions[s] EXCEPT !.revoked = @ \/ sessions[s].user \notin users']]
    /\ UNCHANGED <<case, attempts, tokens, browser, tab>>

Init ==
    /\ PoolInit
    /\ case \in Cases
    /\ attempts = <<>> /\ sessions = <<>> /\ tokens = <<>>
    /\ browser = [u \in User |-> EmptyBrowser]
    /\ tab = [t \in Tab |-> Home]

TabStep(t) ==
    \/ SignIn(t) \/ IdpSignIn(t) \/ GetTokens(t)
    \/ ExchangeCode(t) \/ ExchangeFails(t) \/ TokensArrive(t)
    \/ Logout(t) \/ RevokeToken(t) \/ RevokeFails(t) \/ LogoutAnswered(t)
    \/ \E ask \in BOOLEAN : Refresh(t, ask)
    \/ RefreshAccessToken(t) \/ RefreshFails(t) \/ RefreshAnswered(t)
    \/ IsUserLoggedIn(t)
    \/ CallUserRoute(t) \/ \E u \in User : SubmitForm(t, u)
    \/ AssignResearcher(t)

Next ==
    \/ SetupStep /\ UNCHANGED accessVars
    \/ SetupInterrupted /\ UNCHANGED accessVars
    \/ DirectAccess
    \/ \E t \in Tab : TabStep(t)
    \/ \E token \in DOMAIN tokens : Expire(token)

Spec == Init /\ [][Next]_vars

\* whoever deploys runs the script until it ends
FairSpec == Spec /\ WF_vars(SetupStep /\ UNCHANGED accessVars)

(***************************************************************************)
(* Properties                                                              *)
(***************************************************************************)
PC == {"home", "atIdp", "back", "exchanging", "describing", "revoking", "clearing",
       "refreshing", "asking", "assigning"}

AttemptState == [user : User, taken : BOOLEAN]
SessionState == [user : User, revoked : BOOLEAN]
TokenState == [session : DOMAIN sessions, roles : SUBSET Role, expired : BOOLEAN]

BrowserState ==
    [state : 0..Len(attempts), verifier : 0..Len(attempts), accessToken : 0..Len(tokens),
     accessCookie : 0..Len(tokens), refreshCookie : 0..Len(sessions)]

TabState ==
    [pc : PC, attempt : 0..Len(attempts), sent : 0..Len(attempts),
     session : 0..Len(sessions), token : 0..Len(tokens), revoked : SUBSET DOMAIN sessions,
     loggedIn : 0..Len(sessions), whom : User]

\* What the program keeps is of its type; numbers are those of attempts, sessions
\* and tokens that there are, or 0.
TypeOK ==
    /\ PoolTypeOK
    /\ case \in Cases
    /\ attempts \in Seq(AttemptState) /\ sessions \in Seq(SessionState)
    /\ tokens \in Seq(TokenState)
    /\ browser \in [User -> BrowserState]
    /\ tab \in [Tab -> TabState]

\* Nobody becomes an administrator through the API: the group Admin has the root
\* user only, whatever Researchers and administrators request with old or new tokens.
AdminsAreAppointed == \A u \in User : <<u, "Admin">> \in member => u = Root

\* A code is sent with the verifier it was asked for with, although the tabs of a
\* browser overwrite and remove each other's.
ExchangePaired == \A t \in Tab : tab[t].pc = "exchanging" => tab[t].sent = tab[t].attempt

\* A client that was logged out by a revocation is never told again that it is
\* logged in, although a refresh that was under way may set its cookie again.
LoggedOutStaysOut == \A t \in Tab : tab[t].loggedIn \notin tab[t].revoked

\* The set-up of the first administrator ends, wherever earlier runs stopped and
\* whatever other programs removed meanwhile.
SetupEnds == <>(setup = "done")

(***************************************************************************)
(* The inductive invariant                                                 *)
(***************************************************************************)
\* The tabs of a browser overwrite and remove state and verifier together.
StoredTogether == \A u \in User : browser[u].state = browser[u].verifier

\* What a tab has found out: sessions it saw revoked stay revoked, and an answer
\* about a session was given for one that it had not seen revoked.
Consistent(x) ==
    /\ x.pc = "exchanging" => x.sent = x.attempt
    /\ x.revoked \subseteq Revoked /\ x.loggedIn \notin x.revoked
    /\ x.pc \in {"refreshing", "asking", "revoking"} => x.session # 0
    /\ x.pc \in {"refreshing", "asking"} /\ x.token # 0 => x.session \notin x.revoked

IInv ==
    /\ TypeOK /\ AdminsAreAppointed /\ StoredTogether
    /\ \A t \in Tab : Consistent(tab[t])
================================================================================
