--------------------------- MODULE EnvironmentsPage ---------------------------
(***************************************************************************)
(* The page of the browser that lists environments                         *)
(* (swb-ui/src/pages/environments/index.tsx): it sorts, filters by date,   *)
(* pages through the answers of listEnvironments, and sends terminate,     *)
(* stop, start and connect for the row that is selected.                   *)
(*                                                                         *)
(* Its data comes from useSWR, which keeps the last answer to each URL,    *)
(* answers from there at once and asks again; answers arrive in any order. *)
(* React handles an event only when the effects of the last rendering have *)
(* run, so an event and the effects after it are one step.                 *)
(***************************************************************************)
EXTENDS Catalog

CONSTANTS
    MaxRestarts,   \* bound: how often sort, date filter or page size change
    MaxReloads,    \* bound: how often a page that is there is asked for again
    MaxPages,      \* bound: the highest page number
    Slot           \* bound: requests of the buttons under way, one in each

ASSUME PageAssumption ==
    MaxRestarts \in Nat /\ MaxReloads \in Nat /\ MaxPages \in Nat \ {0}

VARIABLES
    page,       \* filterParams, and the token of the last rendering
    cache,      \* URL -> last answer
    asked,      \* URLs whose answer is on its way
    selected,   \* the row that is selected, as it was shown then
    busy,       \* terminatingIds, stoppingIds, startingIds, isLoadingEnvConnection
    requests,   \* what executeAction awaits
    restarts, reloads

buttonVars == <<selected, busy, requests>>
pageVars == <<page, cache, asked, buttonVars, restarts, reloads>>

(***************************************************************************)
(* A token carries the view it was answered for, which no code looks at.   *)
(***************************************************************************)
View == [sort : {"createdAt", "status"}, forward : BOOLEAN, range : {FALSE}, size : {1, 2}]
        \cup [sort : {Undefined}, forward : {TRUE}, range : BOOLEAN, size : {1, 2}]

FirstView == [sort |-> "createdAt", forward |-> FALSE, range |-> FALSE, size |-> 1]

NoToken == [at |-> NoKey, of |-> Undefined]

\* rendered: the token that useEnvironments returned at the last rendering
FirstPage(view, rendered) ==
    [view |-> view, token |-> NoToken, index |-> 1, tokens |-> [n \in 1..MaxPages + 1 |-> NoToken],
     openEnd |-> TRUE, count |-> 1, rendered |-> rendered]

Url(p) == [view |-> p.view, token |-> p.token]

(***************************************************************************)
(* GET /environments: what the route makes of the parameters of the page   *)
(***************************************************************************)
AskedFor(url) ==
    LET q == Environments(url.view.size)
        view == url.view
    IN  AddPaginationToken(url.token.at,
            IF view.range THEN SetRangeFilter(q, "getResourceByCreatedAt", 1, MaxNow)
            ELSE IF view.sort = "createdAt" THEN SetSort(q, "getResourceByCreatedAt", view.forward)
            ELSE IF view.sort = "status" THEN SetSort(q, "getResourceByStatus", view.forward)
            ELSE q)

\* bound: the rows matter only to the buttons
Answer(url) ==
    LET answer == Page(table, AskedFor(url))
    IN  [items |-> IF focus = "page" THEN {}
                   ELSE {[id |-> row.id, status |-> row.status] : row \in answer.items},
         token |-> IF GetPaginationToken(answer) = NoKey THEN NoToken
                   ELSE [at |-> GetPaginationToken(answer), of |-> url.view]]

\* useEnvironments: the answer that is kept for the URL of the page, if any
Shown(p, c) == IF Url(p) \in DOMAIN c THEN c[Url(p)] ELSE [items |-> {}, token |-> NoToken]

\* the effect on [paginationToken]: the token of the next page is saved
SaveToken(p, c) ==
    LET token == Shown(p, c).token
    IN  IF token.at = p.rendered.at THEN p
        ELSE [p EXCEPT !.tokens[p.index + 1] = token, !.rendered = token]

\* an event that changes the page; another URL is asked for
Handled(p) ==
    /\ page' = SaveToken(p, cache)
    /\ asked' = asked \cup (IF Url(p) = Url(page) THEN {} ELSE {Url(p)})
    /\ UNCHANGED cache

\* Mutant of Restarted: the tokens are kept.
RestartedWithTokens(view) ==
    Handled([FirstPage(view, page.rendered) EXCEPT !.tokens = page.tokens])

\* onSortingChange, onDateFilterChange, onConfirmPageSize begin again at page one
Restarted(view) == Handled(FirstPage(view, page.rendered))

Restart ==
    /\ restarts < MaxRestarts
    /\ restarts' = restarts + 1
    /\ \E view \in View :
         /\ view.size # page.view.size =>
               view = [page.view EXCEPT !.size = view.size]
         /\ Restarted(view)
    /\ UNCHANGED <<buttonVars, reloads>>

\* Numbers up to count can be clicked, and "next" while the end is open.  A page
\* whose token is not known is taken to be behind the end.
OnPaginationChange(n) ==
    /\ Url(page) \notin asked
    /\ n \in 1..page.count \cup (IF page.openEnd THEN {page.index + 1} ELSE {})
    /\ n <= MaxPages /\ n # page.index
    /\ IF n > 1 /\ page.tokens[n] = NoToken
       THEN Handled([page EXCEPT !.index = n - 1, !.openEnd = FALSE])
       ELSE Handled([page EXCEPT !.index = n, !.token = page.tokens[n],
                                 !.count = IF n > @ THEN n ELSE @])
    /\ UNCHANGED <<buttonVars, restarts, reloads>>

Answered(url) ==
    /\ url \in asked
    /\ asked' = asked \ {url}
    /\ cache' = [u \in DOMAIN cache \cup {url} |-> IF u = url THEN Answer(url) ELSE cache[u]]
    /\ page' = SaveToken(page, cache')
    /\ UNCHANGED <<buttonVars, restarts, reloads>>

\* The page goes on with what it has.
NotAnswered(url) ==
    /\ url \in asked
    /\ asked' = asked \ {url}
    /\ UNCHANGED <<page, cache, buttonVars, restarts, reloads>>

\* useSWR asks again when the window gets the focus
Reload ==
    /\ reloads < MaxReloads
    /\ reloads' = reloads + 1
    /\ asked' = asked \cup {Url(page)}
    /\ UNCHANGED <<page, cache, buttonVars, restarts>>

(***************************************************************************)
(* The buttons.  Status 1 stands for COMPLETED and 2 for STOPPED.          *)
(***************************************************************************)
Action == {"terminate", "stop", "start", "connect"}

EnableStatuses(action) ==
    CASE action \in {"terminate", "start"} -> {2}
      [] action \in {"stop", "connect"} -> {1}

Offered(action, status) == status \in EnableStatuses(action)

NoRow == [id |-> 0, status |-> 0]
NoRequest == [pc |-> "none", action |-> "connect", id |-> 0]

Select ==
    /\ \E row \in Shown(page, cache).items \cup {NoRow} : row # selected /\ selected' = row
    /\ UNCHANGED <<page, cache, asked, busy, requests, restarts, reloads>>

\* executeAction up to its await: the button was enabled by what was selected.
\* The connection has one flag for all rows.
ExecuteAction(s, action) ==
    /\ requests[s] = NoRequest
    /\ selected # NoRow
    /\ Offered(action, selected.status)
    /\ IF action = "connect" THEN busy["connect"] = {} ELSE selected.id \notin busy[action]
    /\ requests' = [requests EXCEPT ![s] = [pc |-> "calling", action |-> action, id |-> selected.id]]
    /\ busy' = [busy EXCEPT ![action] = @ \cup {selected.id}]
    /\ UNCHANGED <<page, cache, asked, selected, restarts, reloads>>

\* GET /environments/:id/connections looks at the status that the row has now.
Connectable(id) == \E row \in table : row.id = id /\ row.status = 1

\* The call succeeded: the connection's flag is cleared, and the page asked for again.
ActionDone(s) ==
    /\ requests[s].pc = "calling"
    /\ requests[s].action = "connect" => Connectable(requests[s].id)
    /\ requests' = [requests EXCEPT ![s].pc = "reloading"]
    /\ busy' = IF requests[s].action = "connect" THEN [busy EXCEPT !["connect"] = {}] ELSE busy
    /\ asked' = asked \cup {Url(page)}
    /\ UNCHANGED <<page, cache, selected, restarts, reloads>>

\* Mutant of ActionEnds: the row stays marked after a call that failed.
ActionEndsUnlessFailed(s) ==
    /\ requests[s].pc \in {"calling", "reloading"}
    /\ requests' = [requests EXCEPT ![s] = NoRequest]
    /\ busy' = IF requests[s].pc = "calling" THEN busy
               ELSE [action \in Action |-> IF action = "connect" THEN busy[action]
                                           ELSE busy[action] \ {requests[s].id}]
    /\ UNCHANGED <<page, cache, asked, selected, restarts, reloads>>

\* The call failed, or the page was asked for again: finally, the row is taken out of
\* all three sets, whichever action it was.
ActionEnds(s) ==
    /\ requests[s].pc \in {"calling", "reloading"}
    /\ requests' = [requests EXCEPT ![s] = NoRequest]
    /\ busy' = [action \in Action |-> IF action = "connect" THEN busy[action]
                                      ELSE busy[action] \ {requests[s].id}]
    /\ UNCHANGED <<page, cache, asked, selected, restarts, reloads>>

PageInit ==
    /\ page = FirstPage(FirstView, NoToken)
    /\ cache = <<>> /\ asked = {Url(page)}
    /\ selected = NoRow /\ busy = [action \in Action |-> {}]
    /\ requests = [s \in Slot |-> NoRequest]
    /\ restarts = 0 /\ reloads = 0

PagingStep ==
    \/ Restart \/ Reload
    \/ \E n \in 1..MaxPages : OnPaginationChange(n)
    \/ \E url \in asked : Answered(url) \/ NotAnswered(url)

ButtonStep ==
    \/ Select \/ Reload
    \/ \E url \in asked : Answered(url) \/ NotAnswered(url)
    \/ \E s \in Slot :
         \/ \E action \in Action : ExecuteAction(s, action)
         \/ ActionDone(s) \/ ActionEnds(s)

\* bound: behaviours with the buttons stay on the first page
PageNext == (focus = "page" /\ PagingStep) \/ (focus = "buttons" /\ ButtonStep)

(***************************************************************************)
(* Properties                                                              *)
(***************************************************************************)
PageTypeOK ==
    /\ DOMAIN page = {"view", "token", "index", "tokens", "openEnd", "count", "rendered"}
    /\ page.view \in View /\ page.index \in 1..MaxPages /\ page.count \in 1..MaxPages
    /\ busy \in [Action -> SUBSET Id]
    /\ requests \in [Slot -> [pc : {"none", "calling", "reloading"}, action : Action,
                               id : Id \cup {0}]]
    /\ restarts \in 0..MaxRestarts /\ reloads \in 0..MaxReloads

\* The page never asks for a page of one sort, filter or size with the token of
\* another, which means rows of another index or order: not even for answers that
\* come late, in another order, or not at all.
TokensOfView ==
    /\ \A url \in asked : url.token = NoToken \/ url.token.of = url.view
    /\ \A n \in DOMAIN page.tokens :
         page.tokens[n] # NoToken => page.tokens[n].of = page.view

\* Every token carries its view, also those of answers that may yet be shown.
TokenOf(token, view) == token = NoToken \/ token.of = view

TokensCarryViews ==
    /\ DOMAIN page.tokens = 1..MaxPages + 1
    /\ \A n \in 1..MaxPages + 1 : TokenOf(page.tokens[n], page.view)
    /\ TokenOf(page.token, page.view)
    /\ \A url \in asked : TokenOf(url.token, url.view)
    /\ \A url \in DOMAIN cache : TokenOf(cache[url].token, url.view)

\* What is shown and what is selected are rows.
ButtonsHaveRows ==
    /\ \A url \in DOMAIN cache : \A row \in cache[url].items : row.id \in Id
    /\ selected = NoRow \/ selected.id \in Id

\* A button that shows that a row is being terminated, stopped or started has a call
\* for that row under way, whatever calls fail and in whatever order they end.
SpinnerMeansRequest ==
    \A action \in Action \ {"connect"} : \A id \in busy[action] :
        \E s \in Slot : requests[s].action = action /\ requests[s].id = id
================================================================================
