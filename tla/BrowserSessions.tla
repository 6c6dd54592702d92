-------------------------- MODULE BrowserSessions --------------------------
(***************************************************************************)
(* Signing in to the dashboard: the AuthProvider of every open tab, the    *)
(* localStorage the tabs of a browser share, and the auth routes of the    *)
(* server in front of Supabase.                                            *)
(*                                                                         *)
(* A session is named by the order in which the server handed it out; 0 is *)
(* none.  All sessions belong to one user.  A tab reads localStorage only  *)
(* when its page loads, and its callbacks keep the session of the render   *)
(* they were made in.  The cookie mode of the server is left out.          *)
(***************************************************************************)
EXTENDS Integers

CONSTANTS
    Tabs,
    Requests,     \* requests on their way; an answered one is used again
    MaxSessions,  \* bound: after as many sessions the server hands out no more
    MaxLosses,    \* bound: requests or answers that the network loses
    NoTab

ASSUME SessionsAssumption ==
    MaxSessions \in Nat /\ MaxLosses \in Nat /\ NoTab \notin Tabs

VARIABLES
    minted,    \* sessions handed out by login, OAuth and refresh
    spent,     \* those whose refresh token was used (rotated)
    revoked,   \* sessions 1..revoked were ended by a global sign-out
    due,       \* 1..due are within 60 seconds of their expiry, or past it
    stored,    \* the session in localStorage
    session,   \* the session each tab's AuthProvider shows
    loading,   \* isLoading of each tab
    request,   \* requests on their way and what waits for their answers
    losses

vars == <<minted, spent, revoked, due, stored, session, loading, request, losses>>

Sessions == 1..MaxSessions

(* What a request waits for: hydrate() asks "me" or refreshes ("renew"),
   withAccessToken() refreshes first if the session is due ("first"), runs
   the call, refreshes by force after a 401 and runs it once again; the
   socket of the live feed is opened anew with a token refreshed by force
   ("feed").                                                                *)
Refreshes == {"renew", "first", "force", "feed"}
Calls     == {"run", "rerun"}
Stages    == Refreshes \cup Calls \cup {"idle", "me", "login", "logout"}
Answers   == {"none", "ok", "refused", "lost", "granted"}

Idle == [tab |-> NoTab, at |-> "idle", token |-> 0, closure |-> 0,
         answer |-> "none", grant |-> 0]

RequestRow == [tab : Tabs \cup {NoTab}, at : Stages, token : 0..MaxSessions,
               closure : 0..MaxSessions, answer : Answers, grant : 0..MaxSessions]

TypeOK ==
    /\ minted \in 0..MaxSessions
    /\ spent \subseteq Sessions
    /\ revoked \in 0..MaxSessions
    /\ due \in 0..MaxSessions
    /\ stored \in 0..MaxSessions
    /\ session \in [Tabs -> 0..MaxSessions]
    /\ loading \in [Tabs -> BOOLEAN]
    /\ request \in [Requests -> RequestRow]
    /\ losses \in 0..MaxLosses

Init ==
    /\ minted = 0 /\ spent = {} /\ revoked = 0 /\ due = 0
    /\ stored = 0
    /\ session = [t \in Tabs |-> 0]
    /\ loading = [t \in Tabs |-> FALSE]
    /\ request = [x \in Requests |-> Idle]
    /\ losses = 0

Server  == <<minted, spent, revoked>>
Browser == <<stored, session, loading>>

Sent(t, at, token, closure) ==
    [tab |-> t, at |-> at, token |-> token, closure |-> closure,
     answer |-> "none", grant |-> 0]

-----------------------------------------------------------------------------
(* The server.  It and Supabase refuse a refresh token that was used.       *)

Refreshable(s) == s > revoked /\ s \notin spent

Answered(x, answer) == request' = [request EXCEPT ![x].answer = answer]

(* The next session, or an error once the bound is reached.                *)
Mint(x) ==
    IF minted < MaxSessions
    THEN /\ minted' = minted + 1
         /\ request' = [request EXCEPT ![x].answer = "granted", ![x].grant = minted + 1]
    ELSE minted' = minted /\ Answered(x, "refused")

(* login() and completeOAuthLogin(): the credentials may be wrong.         *)
ServeLogin(x) ==
    /\ request[x].at = "login"
    /\ Mint(x) \/ (Answered(x, "refused") /\ UNCHANGED minted)
    /\ UNCHANGED <<spent, revoked>>

(* refresh()                                                               *)
ServeRefresh(x) ==
    /\ request[x].at \in Refreshes
    /\ IF Refreshable(request[x].token)
       THEN /\ Mint(x)
            /\ spent' = IF minted' > minted THEN spent \cup {request[x].token} ELSE spent
       ELSE Answered(x, "refused") /\ UNCHANGED <<minted, spent>>
    /\ UNCHANGED revoked

(* verifyAccessToken(): whether a due token has expired is open.           *)
Verified(s) == s > revoked
Rejected(s) == s <= revoked \/ s <= due

ServeCall(x) ==
    LET r == request[x]
    IN  /\ r.at \in Calls \cup {"me"}
        /\ \/ Verified(r.token) /\ Answered(x, "ok")
           \/ Rejected(r.token) /\ Answered(x, "refused")
        /\ UNCHANGED Server

(* logout(): a global sign-out, if the access token still passes the guard. *)
ServeLogout(x) ==
    LET r == request[x]
    IN  /\ r.at = "logout"
        /\ \/ Verified(r.token) /\ revoked' = minted /\ Answered(x, "ok")
           \/ Rejected(r.token) /\ revoked' = revoked /\ Answered(x, "refused")
        /\ UNCHANGED <<minted, spent>>

Serve(x) ==
    /\ request[x].answer = "none"
    /\ ServeLogin(x) \/ ServeRefresh(x) \/ ServeCall(x) \/ ServeLogout(x)
    /\ UNCHANGED <<Browser, due, losses>>

(* The request, or the answer of a server that has acted on it, is lost.   *)
Lose(x) ==
    /\ losses < MaxLosses
    /\ request[x].at # "idle" /\ request[x].answer # "lost"
    /\ losses' = losses + 1
    /\ request' = [request EXCEPT ![x].answer = "lost", ![x].grant = 0]
    /\ UNCHANGED <<Server, Browser, due>>

(* All sessions have the same lifetime: the oldest falls due first.        *)
Elapse ==
    /\ due < minted
    /\ due' = due + 1
    /\ UNCHANGED <<Server, Browser, request, losses>>

-----------------------------------------------------------------------------
(* The tabs.  persist() sets the state of the tab and localStorage.        *)
Persist(t, s) == session' = [session EXCEPT ![t] = s] /\ stored' = s

Settle(x) == request' = [request EXCEPT ![x] = Idle]
Loaded(t) == loading' = [loading EXCEPT ![t] = FALSE]

(* hydrate(): the answer is persisted, any failure signs out.              *)
Hydrated(x) ==
    LET r == request[x]
    IN  /\ r.at \in {"me", "renew"}
        /\ Persist(r.tab, CASE r.answer = "ok"      -> r.token
                            [] r.answer = "granted" -> r.grant
                            [] OTHER                -> 0)
        /\ Loaded(r.tab)
        /\ Settle(x)

(* login(), completeOAuth()                                                *)
SignedIn(x) ==
    LET r == request[x]
    IN  /\ r.at = "login"
        /\ IF r.answer = "granted" THEN Persist(r.tab, r.grant)
                                   ELSE UNCHANGED <<session, stored>>
        /\ Settle(x)
        /\ UNCHANGED loading

(* logout() ignores what the server says.                                  *)
SignedOut(x) ==
    /\ request[x].at = "logout"
    /\ Settle(x)
    /\ UNCHANGED Browser

(* getAccessToken(): the refreshed session is persisted and its token runs
   the call or opens the socket; a refresh that fails signs out.            *)
Refreshed(x) ==
    LET r == request[x]
    IN  /\ r.at \in {"first", "force", "feed"}
        /\ IF r.answer = "granted"
           THEN /\ Persist(r.tab, r.grant)
                /\ request' = [request EXCEPT
                     ![x] = CASE r.at = "first" -> Sent(r.tab, "run", r.grant, r.closure)
                              [] r.at = "force" -> Sent(r.tab, "rerun", r.grant, 0)
                              [] r.at = "feed"  -> Idle]
           ELSE Persist(r.tab, 0) /\ Settle(x)
        /\ UNCHANGED loading

(* withAccessToken(): a first 401 is followed by a forced refresh, of the
   session the call was started with.                                      *)
Forced(x) ==
    request' = [request EXCEPT
                  ![x] = Sent(request[x].tab, "force", request[x].closure, 0)]

Ran(x) ==
    LET r == request[x]
    IN  /\ r.at \in Calls
        /\ IF r.at = "run" /\ r.answer = "refused" THEN Forced(x) ELSE Settle(x)
        /\ UNCHANGED Browser

(* An answer to a page that is gone reaches nobody.                        *)
Receive(x) ==
    /\ request[x].answer # "none"
    /\ IF request[x].tab = NoTab THEN Settle(x) /\ UNCHANGED Browser
       ELSE Hydrated(x) \/ SignedIn(x) \/ SignedOut(x) \/ Refreshed(x) \/ Ran(x)
    /\ UNCHANGED <<Server, due, losses>>

(* A request leaves, if one is free.                                       *)
Free == {x \in Requests : request[x].at = "idle"}

Send(r) ==
    /\ Free # {}
    /\ request' = [request EXCEPT ![CHOOSE x \in Free : TRUE] = r]

(* The sign-in form, or the page the OAuth provider comes back to.         *)
Login(t) ==
    /\ minted < MaxSessions   \* the bound on sessions
    /\ session[t] = 0
    /\ Send(Sent(t, "login", 0, 0))
    /\ UNCHANGED <<Server, Browser, due, losses>>

(* logout(): locally first, then on the server.                            *)
Logout(t) ==
    /\ session[t] # 0
    /\ Send(Sent(t, "logout", session[t], 0))
    /\ Persist(t, 0)
    /\ UNCHANGED <<Server, loading, due, losses>>

(* Faulty variant: every call starts with a refresh.                       *)
NeedsRefreshAlways(s) == TRUE

NeedsRefresh(s) == s <= due

(* A component fetches through withAccessToken().                          *)
Call(t) ==
    /\ session[t] # 0
    /\ Send(Sent(t, IF NeedsRefresh(session[t]) THEN "first" ELSE "run",
                 session[t], session[t]))
    /\ UNCHANGED <<Server, Browser, due, losses>>

(* connect(true) of the live feed, after a lost socket, an online event or
   the button of the banner, which may come at any time and in the middle of
   another refresh: it asks for a new token whatever is left of the old one.
   The effect starts anew with every session, so that it holds the one that
   is shown.                                                                *)
Reconnect(t) ==
    /\ session[t] # 0
    /\ Send(Sent(t, "feed", session[t], 0))
    /\ UNCHANGED <<Server, Browser, due, losses>>

(* The page of tab t is loaded anew: nobody waits for its requests any more
   (those that can change something may still reach the server), and
   hydrate() checks the session in localStorage.                           *)
Load(t) ==
    LET left == [x \in Requests |->
                   IF request[x].tab # t THEN request[x]
                   ELSE IF request[x].answer = "none" /\ request[x].at \notin Calls \cup {"me"}
                        THEN Sent(NoTab, request[x].at, request[x].token, 0)
                        ELSE Idle]
        free == {x \in Requests : left[x] = Idle}
    IN  /\ session' = [session EXCEPT ![t] = 0]
        /\ IF stored = 0
           THEN Loaded(t) /\ request' = left
           ELSE /\ free # {}
                /\ loading' = [loading EXCEPT ![t] = TRUE]
                /\ request' = [left EXCEPT ![CHOOSE x \in free : TRUE] =
                     Sent(t, IF stored <= due THEN "renew" ELSE "me", stored, 0)]
        /\ UNCHANGED <<Server, stored, due, losses>>

Next ==
    \/ \E x \in Requests : Serve(x) \/ Lose(x) \/ Receive(x)
    \/ Elapse
    \/ \E t \in Tabs : Login(t) \/ Logout(t) \/ Call(t) \/ Reconnect(t) \/ Load(t)

(* The server answers, answers are received, and a tab in use goes on
   fetching (strongly: only the bound on requests makes its calls wait).    *)
Fairness ==
    /\ \A x \in Requests : WF_vars(Serve(x)) /\ WF_vars(Receive(x))
    /\ \A t \in Tabs : SF_vars(Call(t))

Spec == Init /\ [][Next]_vars /\ Fairness

-----------------------------------------------------------------------------
(* Only the feed's forced refresh uses up a refresh token whose session has
   time left: hydrate(), near-expiry refreshes and the one after a 401 do so
   for a session that is due, whatever was due, revoked or shown when they
   were decided, so that tabs that fetch, reload and sign in and out do not
   take a good session from each other.                                     *)
OnlyFeedSpendsGood ==
    [][\A s \in spent' \ spent :
          s > due => \E x \in Requests : /\ request[x].at = "feed" /\ request[x].token = s
                                         /\ request[x].answer = "none"]_vars

(* "Pass `{ forceRefresh: true }` after an API 401 to rotate via refresh
   token", and else only "when near expiry": the feed spends others too.    *)
SpentWhenDue == \A s \in spent : s <= due

(* "Covers the case where local expiresAt still looks valid but Supabase has
   revoked the session (e.g. global logout from another tab)": a tab leaves
   revoked sessions, for none or for one that is good.                      *)
RevokedTabSignsOut ==
    \A t \in Tabs : session[t] \in 1..revoked ~> session[t] \notin 1..revoked

(* "Local sign-out already succeeded; ignore network/401 on server logout":
   a tab that was signed out shows no session until somebody signs in.     *)
SignedOutStaysOut ==
    [][\A t \in Tabs :
          session[t] = 0 /\ ~loading[t] /\ session'[t] # 0
              => \E x \in Requests : request[x].tab = t /\ request[x].at = "login"]_vars
=============================================================================
