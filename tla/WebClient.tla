----------------------------- MODULE WebClient -----------------------------
(***************************************************************************)
(* A browser and the refresh sessions of its user.  Every tab has its own  *)
(* bearer token (sessionStorage), its own single flight of refreshes       *)
(* (isRefreshing, refreshQueue) and an AuthProvider that refreshes by      *)
(* itself when a guarded page opens; the tabs share the refresh cookie.    *)
(* The server's side is Sessions: a call arrives with the cookie of the    *)
(* moment it is sent, and its answer may come late or never.               *)
(***************************************************************************)
EXTENDS Sessions

CONSTANTS
  Tab,      \* open tabs
  Fetch,    \* calls of apiFetch, numbered in the order they are made
  TabOf,    \* TabOf[f]: the tab that f runs in
  Opening   \* bound: guarded pages opened, and logins

ASSUME WebClientAssumption ==
  /\ Fetch \subseteq Nat \ {0}
  /\ Tab \cap (Fetch \cup {0}) = {}
  /\ TabOf \in [Fetch -> Tab]
  /\ Opening \in Nat

VARIABLES
  cookie,      \* the refresh token in the cookie jar
  apiToken,    \* tabs with a bearer token in sessionStorage
  refreshing,  \* tabs whose isRefreshing is set
  queue,       \* queue[t]: fetches in the refreshQueue of t
  fetchPc,     \* fetchPc[f]: where f stands
  page,        \* page[t]: the guarded page of t, as AuthProvider shows it
  pageCall,    \* pageCall[t]: the refresh that the page of t waits for
  waiter,      \* waiter[c]: the fetch or the tab that sent call c
  heard,       \* calls whose answer has come, or is not waited for any more
  openings,    \* guarded pages opened and logins so far
  trouble      \* history: something happened that may end a session

browserVars == <<cookie, apiToken, refreshing, queue, fetchPc, page, pageCall,
                 waiter, heard, openings, trouble>>
webVars == <<sessionVars, browserVars>>

Nobody == 0
NoCall == 0

\* Calls the browser still waits for.
Waiting == {c \in Call : callPc[c] # "idle" /\ waiter[c] # Nobody /\ c \notin heard}

TabOfWaiter(w) == IF w \in Tab THEN w ELSE TabOf[w]
-----------------------------------------------------------------------------
WebInit ==
  /\ SessionsInit
  /\ cookie = NoToken
  /\ apiToken = {}
  /\ refreshing = {}
  /\ queue = [t \in Tab |-> {}]
  /\ fetchPc = [f \in Fetch |-> "idle"]
  /\ page = [t \in Tab |-> "none"]
  /\ pageCall = [t \in Tab |-> NoCall]
  /\ waiter = [c \in Call |-> Nobody]
  /\ heard = {}
  /\ openings = 0
  /\ trouble = FALSE

\* Another call of the browser is under way that the single flight of w's tab
\* does not know of.
Overlaps(w) ==
  \E c \in Waiting : waiter[c] \in Tab \/ w \in Tab \/ TabOf[waiter[c]] # TabOf[w]

\* refreshApiToken, as far as the request.
SendRefresh(c, w) ==
  /\ Refresh(c, cookie)
  /\ waiter' = [waiter EXCEPT ![c] = w]
  /\ trouble' = (trouble \/ Overlaps(w))

\* apiFetch sends its request with the bearer token of the tab, if any.
SendFetch(f) ==
  /\ fetchPc[f] = "idle" /\ \A g \in Fetch : g < f => fetchPc[g] # "idle"
  /\ fetchPc' = [fetchPc EXCEPT ![f] = "sent"]
  /\ UNCHANGED <<sessionVars, cookie, apiToken, refreshing, queue, page, pageCall,
                 waiter, heard, openings, trouble>>

\* Any answer but 401, or none: the fetch is settled.
FetchSettles(f) ==
  /\ fetchPc[f] \in {"sent", "resent"}
  /\ fetchPc' = [fetchPc EXCEPT ![f] = "settled"]
  /\ UNCHANGED <<sessionVars, cookie, apiToken, refreshing, queue, page, pageCall,
                 waiter, heard, openings, trouble>>

\* 401: the fetch joins the refresh of its tab that is under way...
Unauthorized(f) ==
  /\ fetchPc[f] = "sent"
  /\ TabOf[f] \in refreshing
  /\ fetchPc' = [fetchPc EXCEPT ![f] = "queued"]
  /\ queue' = [queue EXCEPT ![TabOf[f]] = @ \cup {f}]
  /\ UNCHANGED <<sessionVars, cookie, apiToken, refreshing, page, pageCall,
                 waiter, heard, openings, trouble>>

\* ... or starts one.  The slip is to start one in any case.
StartRefreshSlip(f) ==
  /\ fetchPc[f] = "sent"
  /\ fetchPc' = [fetchPc EXCEPT ![f] = "refreshing"]
  /\ refreshing' = refreshing \cup {TabOf[f]}
  /\ \E c \in Call : SendRefresh(c, f)
  /\ UNCHANGED <<cookie, apiToken, queue, page, pageCall, heard, openings>>

StartRefresh(f) ==
  /\ fetchPc[f] = "sent"
  /\ TabOf[f] \notin refreshing
  /\ fetchPc' = [fetchPc EXCEPT ![f] = "refreshing"]
  /\ refreshing' = refreshing \cup {TabOf[f]}
  /\ \E c \in Call : SendRefresh(c, f)
  /\ UNCHANGED <<cookie, apiToken, queue, page, pageCall, heard, openings>>

\* A guarded page opens: AuthProvider refreshes before it shows the page.
OpenPage(t) ==
  /\ openings < Opening
  /\ openings' = openings + 1
  /\ page' = [page EXCEPT ![t] = "restoring"]
  /\ \E c \in Call : SendRefresh(c, t) /\ pageCall' = [pageCall EXCEPT ![t] = c]
  /\ UNCHANGED <<cookie, apiToken, refreshing, queue, fetchPc, heard>>

\* The user leaves for a public page meanwhile: the answer will be ignored there.
LeavePage(t) ==
  /\ page[t] = "restoring"
  /\ page' = [page EXCEPT ![t] = "none"]
  /\ pageCall' = [pageCall EXCEPT ![t] = NoCall]
  /\ UNCHANGED <<sessionVars, cookie, apiToken, refreshing, queue, fetchPc,
                 waiter, heard, openings, trouble>>

\* The Google button of the login page.  It does not touch the page's state.
GoogleLogin(t) ==
  /\ openings < Opening
  /\ openings' = openings + 1
  /\ \E c \in Call :
       /\ Login(c)
       /\ waiter' = [waiter EXCEPT ![c] = t]
       /\ trouble' = (trouble \/ Waiting # {})
  /\ UNCHANGED <<cookie, apiToken, refreshing, queue, fetchPc, page, pageCall, heard>>
-----------------------------------------------------------------------------
(* What the sender of call c does with its outcome, in one turn of the     *)
(* event loop.                                                             *)

\* Only a refresh without a cookie is refused, and at once.
IsLogin(c) == presented[c] = NoToken /\ callPc[c] # "refused"

\* The queue is flushed on success only.
FlushForgetsSlip(f, success) ==
  LET t == TabOf[f]
  IN  /\ fetchPc' = [g \in Fetch |-> IF g = f \/ (g \in queue[t] /\ success)
                                     THEN IF success THEN "resent" ELSE "settled"
                                     ELSE fetchPc[g]]
      /\ queue' = [queue EXCEPT ![t] = IF success THEN {} ELSE @]
      /\ refreshing' = refreshing \ {t}

\* The refresh of fetch f is over: its queue is flushed, and every fetch in it
\* is sent again with the new token or settled with its 401.
Flush(f, success) ==
  LET t == TabOf[f]
  IN  /\ fetchPc' = [g \in Fetch |-> IF g = f \/ g \in queue[t]
                                     THEN IF success THEN "resent" ELSE "settled"
                                     ELSE fetchPc[g]]
      /\ queue' = [queue EXCEPT ![t] = {}]
      /\ refreshing' = refreshing \ {t}

\* AuthProvider shows the page or goes to /login, unless it was cancelled.
ShowPage(c, t, success) ==
  /\ page' = IF pageCall[t] = c
             THEN [page EXCEPT ![t] = IF success THEN "open" ELSE "none"]
             ELSE page
  /\ UNCHANGED <<fetchPc, queue, refreshing>>

\* The bearer token is stored, or cleared when a refresh brought none.
Conclude(c, success) ==
  LET w == waiter[c]
      t == TabOfWaiter(w)
  IN  /\ apiToken' = IF success THEN apiToken \cup {t}
                     ELSE IF IsLogin(c) THEN apiToken ELSE apiToken \ {t}
      /\ IF w \in Tab
         THEN ShowPage(c, w, success)
         ELSE Flush(w, success) /\ UNCHANGED page
      /\ heard' = heard \cup {c}
      /\ UNCHANGED <<sessionVars, pageCall, waiter, openings>>

\* An answer brings a new cookie, an order to clear it, or an error that leaves it.
CookieAfter(c) ==
  CASE callPc[c] \in Issued    -> [id |-> c, genuine |-> TRUE]
    [] callPc[c] = "refused"   -> NoToken
    [] OTHER                   -> cookie

AnswerComes(c) ==
  /\ c \in Waiting /\ callPc[c] \in Answered
  /\ cookie' = CookieAfter(c)
  /\ trouble' = (trouble \/ callPc[c] = "failed")
  /\ Conclude(c, callPc[c] \in Issued)

\* The refresh timer runs out, or the connection breaks: no cookie arrives.
GiveUp(c) ==
  /\ c \in Waiting
  /\ trouble' = TRUE
  /\ UNCHANGED cookie
  /\ Conclude(c, FALSE)
-----------------------------------------------------------------------------
\* Someone else with a copy of the cookie logs out or presents it damaged.
Elsewhere(c) ==
  /\ \E token \in ClientTokens \ {NoToken} :
       IF token.genuine THEN Logout(c, token) ELSE Refresh(c, token)
  /\ trouble' = TRUE
  /\ UNCHANGED <<cookie, apiToken, refreshing, queue, fetchPc, page, pageCall,
                 waiter, heard, openings>>

Server == Tick \/ \E c \in Call : Serve(c)

Browser ==
  \/ \E f \in Fetch : SendFetch(f) \/ FetchSettles(f) \/ Unauthorized(f) \/ StartRefresh(f)
  \/ \E t \in Tab : OpenPage(t) \/ LeavePage(t) \/ GoogleLogin(t)
  \/ \E c \in Call : AnswerComes(c) \/ GiveUp(c) \/ Elsewhere(c)

WebNext == Browser \/ (Server /\ UNCHANGED browserVars)

WebSpec == WebInit /\ [][WebNext]_webVars
-----------------------------------------------------------------------------
(* Properties.                                                             *)

\* Every variable stays in its type.
WebTypeOK ==
  /\ SessionsTypeOK
  /\ cookie \in Token
  /\ apiToken \subseteq Tab
  /\ refreshing \subseteq Tab
  /\ queue \in [Tab -> SUBSET Fetch]
  /\ fetchPc \in [Fetch -> {"idle", "sent", "queued", "refreshing", "resent", "settled"}]
  /\ page \in [Tab -> {"none", "restoring", "open"}]
  /\ pageCall \in [Tab -> Call \cup {NoCall}]
  /\ waiter \in [Call -> Tab \cup Fetch \cup {Nobody}]
  /\ heard \subseteq Call
  /\ openings \in Nat
  /\ trouble \in BOOLEAN

\* Refreshing by itself never locks the user out: as long as every answer
\* arrives, nobody logs out elsewhere and no call of another tab or of
\* AuthProvider overlaps, a cookie at rest names a session that can be
\* refreshed, however many fetches of the tab meet a 401 at the same time.
StaysSignedIn ==
  Waiting = {} /\ ~trouble /\ time < RefreshTtl /\ (\E c \in Call : callPc[c] \in Issued)
    => cookie # NoToken /\ session[cookie.id].state = "live"

\* No fetch is stranded: one that waits in a queue waits for a fetch of its tab
\* whose refresh the browser still waits for, so that the answer or the timer
\* settles it, whether it brings a token or not.
NobodyStranded ==
  \A f \in Fetch :
    /\ fetchPc[f] = "queued" =>
         /\ f \in queue[TabOf[f]]
         /\ \E g \in Fetch : TabOf[g] = TabOf[f] /\ fetchPc[g] = "refreshing"
    /\ fetchPc[f] = "refreshing" => \E c \in Waiting : waiter[c] = f
=============================================================================
