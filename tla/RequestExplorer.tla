---------------------------- MODULE RequestExplorer ----------------------------
(***************************************************************************)
(* The request explorer of the dashboard: the list and detail queries of   *)
(* the inspector in the query cache, the live messages applied to them,    *)
(* and the search box with its debounce and its copy in the URL.           *)
(*                                                                         *)
(* The traffic store is what the server knows; a query asks, is answered   *)
(* and is applied in three steps, and live messages arrive in between.     *)
(* The query library is external, and is modelled as this code uses it:    *)
(* staleTime 5 s, no refetch on focus, cancelRefetch of a loaded query.    *)
(*                                                                         *)
(* The names are its own (EInit, evars, Nothing): its theorems stand beside*)
(* the traffic store's.                                                    *)
(***************************************************************************)
EXTENDS Naturals, Sequences, FiniteSets, Functions, Places

CONSTANTS
    Traffic, Workspaces, Texts,
    HomeOf,         \* the workspace of a request
    Matches,        \* per text: the requests that the server finds for it
    First,          \* the workspace the tab shows first
    Limit,          \* the list's limit
    Inspected,      \* bound of the requests whose details are opened
    MaxTurns,       \* bound of the user's moves, replays and failures together
    Nothing

Lists   == [kind : {"requests"}, ws : Workspaces, of : Texts \cup {Nothing}]
Details == {[kind |-> "request", ws |-> HomeOf[r], of |-> r] : r \in Inspected}
Keys == Lists \cup Details

ASSUME ExplorerAssumption ==
    /\ HomeOf \in [Traffic -> Workspaces] /\ First \in Workspaces
    /\ Matches \in [Texts -> SUBSET Traffic]
    /\ Nothing \notin Texts \cup Traffic
    /\ Limit \in Nat \ {0} /\ Inspected \subseteq Traffic /\ MaxTurns \in Nat

VARIABLES
    recorded,   \* the traffic store: requests, newest first
    outcome,    \* per request: what the store says of it
    feed,       \* messages sent to the tab's socket and not yet handled
    live,       \* the socket is open
    cache,      \* per query: its entry in the query cache
    workspace,  \* the active workspace
    page,       \* Nothing: the explorer; or the request whose details are shown
    input, debounced,   \* state of the search box
    timer,      \* the debounce timer is set, and would change debounced
    url,        \* ?q= of the explorer's URL
    nav,        \* the navigation under way: [to |-> a search], or NoNav
    turns

server == <<recorded, outcome>>
search == <<input, debounced, timer, url, nav>>
evars   == <<server, feed, live, cache, workspace, page, search, turns>>

Searches == Texts \cup {Nothing}
NoNav    == [to |-> "nowhere"]
Row(r, status) == [id |-> r, status |-> status]
Rows == [id : Traffic, status : {"pending", "completed", "failed"}]
Ids(items) == {items[i].id : i \in DOMAIN items}
Messages == [type : {"request_received", "response_completed", "replay_completed"},
             id : Traffic]

ETypeOK ==
    /\ recorded \in Seq(Traffic) /\ IsInjective(recorded)
    /\ outcome \in [Traffic -> {"unseen", "pending", "completed", "failed"}]
    /\ live \in BOOLEAN /\ workspace \in Workspaces /\ page \in Traffic \cup {Nothing}
    /\ feed \in Seq(Messages)
    /\ cache \in [Keys -> [loaded : BOOLEAN, invalid : BOOLEAN, failed : BOOLEAN,
                           fetch : {"idle", "asked", "answered"},
                           items : Seq(Rows), answer : Seq(Rows)]]
    /\ {input, debounced, url} \subseteq Searches /\ timer \in BOOLEAN
    /\ nav = NoNav \/ nav.to \in Searches

Blank == [loaded |-> FALSE, invalid |-> FALSE, failed |-> FALSE,
          fetch |-> "idle", items |-> <<>>, answer |-> <<>>]

-----------------------------------------------------------------------------
(* The query cache.                                                        *)

(* The one query that a mounted component observes.                        *)
Shown(p, ws, text) ==
    IF p = Nothing THEN [kind |-> "requests", ws |-> ws, of |-> text]
    ELSE [kind |-> "request", ws |-> ws, of |-> p]

OnScreen == Shown(page, workspace, debounced)

Asked(e) == [e EXCEPT !.fetch = "asked", !.answer = <<>>]

(* useQuery() mounts: an entry that is not fresh is fetched, unless it is  *)
(* being fetched.                                                          *)
Mounted(e, fresh) ==
    IF e.fetch = "idle" /\ (~e.loaded \/ e.invalid \/ ~fresh) THEN Asked(e) ELSE e

(* invalidateQueries(): a query on screen is fetched anew, and a fetch     *)
(* under way is cancelled, but only if the query has data.                 *)
Invalidated(q) ==
    LET e == [cache[q] EXCEPT !.invalid = TRUE]
    IN  IF q = OnScreen /\ (e.fetch = "idle" \/ e.loaded) THEN Asked(e) ELSE e

(* setQueryData().                                                         *)
Set(e, items) ==
    [e EXCEPT !.items = items, !.loaded = TRUE, !.invalid = FALSE, !.failed = FALSE]

Sliced(items) == SubSeq(items, 1, IF Len(items) < Limit THEN Len(items) ELSE Limit)

InspectorInvalidated == [q \in Keys |-> Invalidated(q)]

-----------------------------------------------------------------------------
(* The tab opens on the explorer, with the search of the link it follows.  *)
EInit ==
    /\ recorded = <<>> /\ outcome = [r \in Traffic |-> "unseen"]
    /\ feed = <<>> /\ live = TRUE
    /\ workspace = First /\ page = Nothing
    /\ url \in Searches /\ input = url /\ debounced = url /\ timer = FALSE /\ nav = NoNav
    /\ cache = [q \in Keys |-> IF q = OnScreen THEN Asked(Blank) ELSE Blank]
    /\ turns = 0

-----------------------------------------------------------------------------
(* The server. The store is written in the turn in which an event is       *)
(* published, before any later request of the tab can be read.             *)

Message(type, r) == [type |-> type, id |-> r]

Broadcast(type, r) ==
    feed' = IF live /\ HomeOf[r] = workspace THEN Append(feed, Message(type, r)) ELSE feed

RequestReceived(r) ==
    /\ outcome[r] = "unseen"
    /\ outcome' = [outcome EXCEPT ![r] = "pending"]
    /\ recorded' = <<r>> \o recorded
    /\ Broadcast("request_received", r)
    /\ UNCHANGED <<live, cache, workspace, page, search, turns>>

ResponseCompleted(r) ==
    /\ outcome[r] = "pending"
    /\ outcome' = [outcome EXCEPT ![r] = "completed"]
    /\ Broadcast("response_completed", r)
    /\ UNCHANGED <<recorded, live, cache, workspace, page, search, turns>>

(* The dashboard has no message for a failed request.                      *)
RequestFailed(r) ==
    /\ outcome[r] = "pending"
    /\ outcome' = [outcome EXCEPT ![r] = "failed"]
    /\ UNCHANGED <<recorded, feed, live, cache, workspace, page, search, turns>>

(* A replay, by whomever, of a request of this workspace.                  *)
ReplayCompleted(r) ==
    /\ turns < MaxTurns /\ turns' = turns + 1
    /\ outcome[r] \in {"completed", "failed"}
    /\ Broadcast("replay_completed", r)
    /\ UNCHANGED <<server, live, cache, workspace, page, search>>

(* listRequests() and getRequest().                                        *)
Listed(q) ==
    LET mine == Picked(recorded, {i \in DOMAIN recorded :
                                     /\ HomeOf[recorded[i]] = q.ws
                                     /\ q.of = Nothing \/ recorded[i] \in Matches[q.of]})
        rows == [i \in DOMAIN mine |-> Row(mine[i], outcome[mine[i]])]
    IN  Sliced(rows)

Reply(q) ==
    IF q.kind = "requests" THEN Listed(q)
    ELSE IF outcome[q.of] = "unseen" THEN <<>> ELSE <<Row(q.of, outcome[q.of])>>

Replied(q) ==
    /\ cache[q].fetch = "asked"
    /\ cache' = [cache EXCEPT ![q].fetch = "answered", ![q].answer = Reply(q)]
    /\ UNCHANGED <<server, feed, live, workspace, page, search, turns>>

(* The answer arrives at the tab, and replaces what the entry holds.       *)
Applied(q) ==
    /\ cache[q].fetch = "answered"
    /\ cache' = [cache EXCEPT ![q] =
                    [Set(@, @.answer) EXCEPT !.fetch = "idle", !.answer = <<>>]]
    /\ UNCHANGED <<server, feed, live, workspace, page, search, turns>>

FetchFails(q) ==
    /\ turns < MaxTurns /\ turns' = turns + 1
    /\ cache[q].fetch # "idle"
    /\ cache' = [cache EXCEPT ![q].fetch = "idle", ![q].answer = <<>>, ![q].failed = TRUE]
    /\ UNCHANGED <<server, feed, live, workspace, page, search>>

(* The button of the error that the page shows.                            *)
Retry ==
    /\ cache[OnScreen].failed /\ cache[OnScreen].fetch = "idle"
    /\ cache' = [cache EXCEPT ![OnScreen] = Asked(@)]
    /\ UNCHANGED <<server, feed, live, workspace, page, search, turns>>

-----------------------------------------------------------------------------
(* The live messages: applyDashboardMessage().                             *)

(* matchingRequestListQueries().                                           *)
MatchingLists(r) == {q \in Lists : q.ws = HomeOf[r]}

HasActiveSearch(q) == q.of # Nothing

(* Faulty variant: a row that the list has is not taken out first.         *)
UpsertedWithoutFilter(q, r) == Set(cache[q], Sliced(<<Row(r, "pending")>> \o cache[q].items))

(* upsertRequestReceived(), for a list without a search.                   *)
Upserted(q, r) ==
    LET items   == cache[q].items
        without == Picked(items, {i \in DOMAIN items : items[i].id # r})
    IN  Set(cache[q], Sliced(<<Row(r, "pending")>> \o without))

(* patchResponseCompleted(), for a list without a search.                  *)
Patched(q, r) ==
    LET items == cache[q].items
        at    == {i \in DOMAIN items : items[i].id = r}
        rows  == IF at = {} THEN Sliced(<<Row(r, "completed")>> \o items)
                 ELSE [i \in DOMAIN items |->
                          IF i \in at THEN [items[i] EXCEPT !.status = "completed"]
                          ELSE items[i]]
    IN  IF cache[q].loaded THEN Set(cache[q], rows) ELSE cache[q]

(* Faulty variant: rows are written into lists of a search as well.        *)
LiveRowSearchedToo(q, msg) ==
    IF msg.type = "request_received" THEN Upserted(q, msg.id) ELSE Patched(q, msg.id)

(* Faulty variant: a list with a search is left alone.                     *)
LiveRowNoInvalidate(q, msg) ==
    IF HasActiveSearch(q) THEN cache[q]
    ELSE IF msg.type = "request_received" THEN Upserted(q, msg.id) ELSE Patched(q, msg.id)

LiveRow(q, msg) ==
    IF HasActiveSearch(q) THEN Invalidated(q)
    ELSE IF msg.type = "request_received" THEN Upserted(q, msg.id) ELSE Patched(q, msg.id)

(* The key invalidated after a completion is ["inspector", "request", id]; *)
(* the key of a detail query has its workspace in the third place.         *)
InvalidatedDetails(r) == {}

(* Faulty variant: a replay is taken for the completion of its request.    *)
AfterMessageReplayPatches(msg) ==
    [q \in Keys |->
        IF q \in MatchingLists(msg.id) THEN LiveRow(q, msg) ELSE cache[q]]

AfterMessage(msg) ==
    [q \in Keys |->
        IF msg.type = "replay_completed"
        THEN IF q.ws = HomeOf[msg.id] THEN Invalidated(q) ELSE cache[q]
        ELSE IF q \in MatchingLists(msg.id) THEN LiveRow(q, msg)
        ELSE IF q \in InvalidatedDetails(msg.id) THEN Invalidated(q) ELSE cache[q]]

MessageHandled ==
    /\ feed # <<>>
    /\ feed' = Tail(feed)
    /\ cache' = AfterMessage(Head(feed))
    /\ UNCHANGED <<server, live, workspace, page, search, turns>>

(* The socket closes: what was under way to it is lost.                    *)
ConnectionLost ==
    /\ live /\ turns < MaxTurns /\ turns' = turns + 1
    /\ live' = FALSE /\ feed' = <<>>
    /\ UNCHANGED <<server, cache, workspace, page, search>>

(* resyncInspectorAfterReconnect(), if the effect that opens the socket had *)
(* one before: a refreshed session starts the effect anew.                 *)
Reconnected ==
    /\ ~live /\ live' = TRUE
    /\ cache' \in {cache, InspectorInvalidated}
    /\ UNCHANGED <<server, feed, workspace, page, search, turns>>

-----------------------------------------------------------------------------
(* The search box and the pages.                                           *)

(* Another query is on screen: it mounts.                                  *)
Remount(p, ws, text, entries) ==
    \E fresh \in BOOLEAN :
        cache' = [entries EXCEPT ![Shown(p, ws, text)] = Mounted(@, fresh)]

Typed(text) ==
    /\ page = Nothing /\ turns < MaxTurns /\ text # input
    /\ turns' = turns + 1
    /\ input' = text /\ timer' = (text # debounced)
    /\ UNCHANGED <<server, feed, live, cache, workspace, page, debounced, url, nav>>

(* The debounce timer fires; the effect that follows copies the search to  *)
(* the URL.                                                                *)
Debounce ==
    /\ timer /\ timer' = FALSE
    /\ debounced' = input
    /\ nav' = IF input = url THEN nav ELSE [to |-> input]
    /\ Remount(page, workspace, input, cache)
    /\ UNCHANGED <<server, feed, live, workspace, page, input, url, turns>>

(* The URL of the explorer changes under it. Two effects run on what the   *)
(* last render knew: one copies the URL to the box, one copies the search  *)
(* to the URL where they differ.                                           *)
Navigated ==
    /\ nav # NoNav /\ page = Nothing
    /\ url' = nav.to /\ input' = nav.to /\ debounced' = nav.to
    /\ timer' = FALSE
    /\ nav' = IF url = nav.to \/ debounced = nav.to THEN NoNav ELSE [to |-> debounced]
    /\ IF debounced = nav.to THEN cache' = cache
       ELSE Remount(page, workspace, nav.to, cache)
    /\ UNCHANGED <<server, feed, live, workspace, page, turns>>

(* The command palette opens the explorer with a search.                   *)
PaletteSearch(text) ==
    /\ page = Nothing /\ turns < MaxTurns /\ text # url
    /\ turns' = turns + 1
    /\ nav' = [to |-> text]
    /\ UNCHANGED <<server, feed, live, cache, workspace, page, input, debounced, timer, url>>

(* openRequest(): the explorer and its timer are gone.                     *)
OpenRequest(r) ==
    /\ page = Nothing /\ turns < MaxTurns /\ r \in Inspected
    /\ r \in Ids(cache[OnScreen].items)
    /\ turns' = turns + 1
    /\ page' = r /\ timer' = FALSE /\ nav' = NoNav
    /\ Remount(r, workspace, debounced, cache)
    /\ UNCHANGED <<server, feed, live, workspace, input, debounced, url>>

(* The explorer mounts with the search of its URL: none after the details' *)
(* link back, any that the palette asks for.                               *)
OpenExplorer(text) ==
    /\ page # Nothing
    /\ page' = Nothing
    /\ input' = text /\ debounced' = text /\ url' = text /\ nav' = NoNav
    /\ timer' = FALSE
    /\ Remount(Nothing, workspace, text, cache)
    /\ UNCHANGED <<server, feed, live, workspace, turns>>

(* setActiveWorkspaceId(): every inspector query is invalidated, the new   *)
(* workspace's list mounts, and the feed starts anew with it.              *)
WorkspaceChosen(w) ==
    /\ page = Nothing /\ w # workspace /\ turns < MaxTurns
    /\ turns' = turns + 1
    /\ workspace' = w /\ feed' = <<>>
    /\ Remount(Nothing, w, debounced, InspectorInvalidated)
    /\ UNCHANGED <<server, live, page, search>>

-----------------------------------------------------------------------------
ENext ==
    \/ \E r \in Traffic : \/ RequestReceived(r) \/ ResponseCompleted(r) \/ RequestFailed(r)
                           \/ ReplayCompleted(r) \/ OpenRequest(r)
    \/ \E q \in Keys : Replied(q) \/ Applied(q) \/ FetchFails(q)
    \/ Retry \/ MessageHandled \/ ConnectionLost \/ Reconnected
    \/ Debounce \/ Navigated
    \/ \E text \in Searches : Typed(text) \/ PaletteSearch(text) \/ OpenExplorer(text)
    \/ \E w \in Workspaces : WorkspaceChosen(w)

(* The server answers, messages arrive, timers fire and navigations land.  *)
Fairness ==
    /\ \A q \in Keys : WF_evars(Replied(q)) /\ WF_evars(Applied(q))
    /\ WF_evars(MessageHandled) /\ WF_evars(Debounce) /\ WF_evars(Navigated)

ESpec == EInit /\ [][ENext]_evars /\ Fairness

-----------------------------------------------------------------------------
(* No list shows a request twice, whatever the order in which fetches and  *)
(* messages bring it: the explorer's cards are keyed by it.                *)
ListedOnce ==
    \A q \in Lists : \A i, j \in DOMAIN cache[q].items :
        cache[q].items[i].id = cache[q].items[j].id => i = j

(* A list, on screen or kept in the cache, holds requests of its own       *)
(* workspace only, and only those its search finds.                        *)
ListsHoldTheirOwn ==
    \A q \in Lists : \A r \in Ids(cache[q].items) :
        HomeOf[r] = q.ws /\ (q.of # Nothing => r \in Matches[q.of])

(* The server's answers and the messages can overtake each other, but no   *)
(* row says of a request what did not happen to it.                        *)
RowsTellTruth ==
    \A q \in Keys : \A i \in DOMAIN cache[q].items :
        LET row == cache[q].items[i] IN
            /\ outcome[row.id] # "unseen"
            /\ row.status \in {"completed", "failed"} => outcome[row.id] = row.status

(* apply-dashboard-message.ts:25: a search on screen that has its list is  *)
(* brought up to date after each message, also when a fetch was under way, *)
(* unless the fetch or the connection fails or the user goes elsewhere.    *)
SearchKeepsUp ==
    \A q \in {l \in Lists : HasActiveSearch(l) /\ Cardinality(Matches[l.of]) <= Limit} :
    \A r \in {x \in Matches[q.of] : HomeOf[x] = q.ws} :
        LET due == /\ q = OnScreen /\ cache[q].loaded
                   /\ feed # <<>> /\ Head(feed) = Message("request_received", r)
        IN  due ~> (r \in Ids(cache[q].items) \/ q # OnScreen \/ cache[q].failed \/ ~live)

(* docs/dashboard.md:460: the details on screen follow the completion of   *)
(* their request.                                                          *)
DetailsFollow ==
    \A r \in Inspected :
        LET q == [kind |-> "request", ws |-> HomeOf[r], of |-> r]
            due == /\ q = OnScreen /\ cache[q].loaded
                   /\ feed # <<>> /\ Head(feed) = Message("response_completed", r)
        IN  due ~> (\/ cache[q].items = <<Row(r, "completed")>>
                    \/ q # OnScreen \/ cache[q].failed \/ ~live)

(* The search box, the list and the URL come to rest.                      *)
SearchSettles == <>[](page # Nothing \/ (nav = NoNav /\ input = url /\ debounced = url))
=============================================================================
