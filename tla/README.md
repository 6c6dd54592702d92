# looplink, verified

A verification development for looplink (packages `badger-*`): a tunnel that
gives a local HTTP server a public URL. A CLI holds a WebSocket to the server,
the server forwards public HTTP requests through it, records the traffic and
shows it on a dashboard; workspaces decide who may use which tunnel.

The specifications here are translated from the source, component by component.
TLC model-checks them on small instances, and TLAPS proves theorems for all
instances about all of them.
`PROJECT.json` lists the components, the runs, the hazards, and for every
definition the lines of the source it models.

## The system

| Component | State it keeps | Operations | Talks to |
| --- | --- | --- | --- |
| Tunnel registry (`server/src/tunnel`) | four maps: by id, by socket, by slug, orphans | create (reclaim or register), unregister, detach, purge, lookups | gateway (calls), event bus (publishes) |
| Tunnel gateway (`server/src/gateway/tunnel.gateway.ts`, `security`, `context`) | connection counts, address of each socket, context of each socket, last heartbeats, a sweep timer | connect with an awaited authentication, messages, ping, sweep, disconnect | CLI (WebSocket), registry, exchange coordinator |
| HTTP exchange (`server/src/http-forward`) | pending exchanges with a chunk buffer, a waiter and flags; timers | begin, deliver, fail, complete, the body iterator, forward(), the public response | public HTTP client, tunnel's socket, event bus |
| CLI forwarder (`cli/src/services/request-forwarder.ts`) | requests in progress | request frames in, response frames out, cancel | CLI connection, local HTTP server |
| CLI connection (`cli/src/services/websocket-client.ts`) | connection state, socket, inbox, one waiter, retry timer, flags, the remembered tunnel | connect, disconnect, send, waitForMessage, createTunnel, reconnecting | server (WebSocket), start(), shutdown |
| Traffic recorder and store (`shared/src/traffic`) | chains of tasks per request; records and an index in a key/value store | save, update, evict, list, find | event bus (subscribes), storage (awaited calls) |
| Workspaces (`server/src/workspaces`) | tables in the database | create, transfer, roles, remove, leave, delete, invite, revoke, accept, purge | database over REST, one request at a time |
| API keys (`server/src/workspaces/api-keys`) | one table | create, rotate, revoke, verify | database |
| Tunnel ownership, anonymous sessions (`server/src/tunnel`) | tables | upsert and remove, not awaited; create, find, expire | database |
| Dashboard gateway (`server/src/dashboard`) | connected sockets, the workspace of each | connect with an awaited context, fan-out, disconnect | event bus, browser |
| Dashboard's live feed (`dashboard/src/components/providers/dashboard-socket-provider.tsx`, `lib/ws`) | a client per socket, a reconnect timer, the closure of an effect, stores | effect, connect with an awaited token, open, close, timer, banner, messages | dashboard gateway, auth provider, query cache |
| Request explorer (`dashboard/src/components/requests`, `lib/ws/apply-dashboard-message.ts`) | cached lists and details, search box, URL | fetch, live messages, search, navigation | inspector, live feed |
| Browser sessions (`dashboard/src/components/providers/auth-provider.tsx`, `server/src/auth`) | a session per tab, one in localStorage, refresh tokens at Supabase | sign in and out, hydrate, refresh, call | auth routes, Supabase |
| Traffic statistics (`shared/src/statistics`, `dashboard/src/lib/statistics`) | nothing | aggregates, time series, insights, timeline | record store, dashboard |
| Event bus (`shared/src/event-bus`) | subscriptions | publish, subscribe, once, unsubscribe | everything on the server |
| Message rate limiter (`server/src/security`) | time stamps per address | attempt, reset | tunnel gateway |
| Replay, the CLI's sessions | nothing; tokens in a file | | exchange; CLI |

What connects them: one event loop in the server process and one in the CLI, so
handlers are atomic up to their awaits; frames in order per WebSocket, lost with
it; lifecycle events published synchronously; and a database that is called with
one awaited request after another and without transactions.

### What is hard, and what correctness means

* *Registry*: sockets that create a second tunnel, close, come back and reclaim,
  while windows elapse. The four maps must agree, a dead socket must not be
  routed to, an id must stay with its port and owner, a parked tunnel must wait
  for its owner, and the events must tell the truth.
* *Gateway*: a socket closes while its authentication is awaited. Counts of
  connections must be those of the open sockets, whatever way they end; a served
  socket must be watched; silence must end a connection in bounded time.
* *Exchange*: frames, a timeout, a leaving client, a slow client and promise
  continuations in any order, on a connection that breaks and is replaced.
  Memory must stay bounded, wakeups must not be lost, each request must get one
  outcome and the true one, and a body that ends normally must be whole.
* *CLI connection*: closes, failing attempts, timeouts and a shutdown interleave
  with two callers. The client must never be left with nothing to do, must know
  its socket, recover, and stop when told to.
* *Traffic store*: read-modify-write of the index over awaits. The index must
  name the records, retention must hold, a record must get its last status.
  A reader of index and records must not miss what was there all the time.
* *Workspaces and keys*: check and write are separate requests, any may fail. A
  workspace must keep one owner as long as the owner's account is there, and let nobody
  in uninvited; a revoked key must
  stay revoked, and no key may outlive its creator's account.
* *Live feed*: React runs an effect anew under timers, awaited tokens and sockets
  that the effect's last run has made. Whatever is lost, however often, the tab must get a
  connection again, and see its own workspace only.
* *Explorer*: answers of fetches and live messages overtake each other. A list must
  hold what belongs to it, once each, and say nothing false of it.
* *Browser sessions*: tabs share a refresh token that works once, and each acts on
  the session of an older render, while the live feed refreshes by force. Calls must not use
  up a good token, and a session that was revoked must go everywhere.
* *Statistics*: boundaries of windows, ranks and buckets. What is shown of the same
  records in several places must add up.

## Modules

| Module | Models | Run by | Proofs |
| --- | --- | --- | --- |
| `TunnelLease` | abstract: what a tunnel id promises | `TunnelRegistry` refines it | |
| `TunnelRegistry` | `TunnelManager` over `MemoryTunnelRepository` | `MCTunnelRegistry` | `TunnelRegistryProofs` |
| `GatewaySession` | `TunnelGateway` connect/disconnect, `ConnectionLimiter`, `ContextSessionStore`, `HeartbeatMonitor` | `MCGatewaySession` | `GatewayProofs` |
| `GatewayMessages` | its messages, `SlidingWindowRateLimiter` and `GatewaySecurityPolicy`, over `GatewaySession` | `MCGatewaySession` | `GatewayProofs` |
| `HttpExchange` | `HttpExchangeCoordinator`, `HttpForwardingService`, the public forwarder, the CLI's `RequestForwarder` and the sockets between | `MCHttpExchange` | `HttpExchangeProofs` |
| `CliConnection` | `BadgerWebSocketClient` with `start()` and the shutdown task | `MCCliConnection` | `GatewayProofs` |
| `TrafficLog` | abstract: a bounded log of requests | `TrafficStore` refines it | |
| `TrafficStore` | `TrafficRecorder` over `StorageTrafficRecordStore` | `MCTrafficStore` | `TrafficStoreProofs` |
| `TrafficReads` | `list()` and the inspector's listing, over `TrafficStore` | `MCTrafficStore` | `TrafficStoreProofs` |
| `Places` | `Array.filter()`: the places of a sequence that are taken, in order | used by `TrafficStore`, `RequestExplorer` | `TrafficStoreProofs` |
| `TrafficStatistics` | `computeTrafficStatistics()`, the time series, insights and timeline of the dashboard | `MCTrafficStatistics` | `DashboardFeedProofs` |
| `WorkspaceMembership` | `WorkspaceService` over the Supabase repository, the deletion of an account as far as it concerns them | `MCWorkspaceMembership` | `WorkspaceMembershipProofs` |
| `WorkspaceKeys` | `ApiKeyService` and its repository, the guards of its routes, the workspace page's offers, the deletion of accounts | `MCWorkspaceKeys` | `WorkspaceKeysProofs` |
| `DashboardFeed` | `DashboardGateway`, `DashboardLiveClient`, `DashboardSocketProvider` and the tunnel store | `MCDashboardFeed` | `DashboardFeedProofs` |
| `RequestExplorer` | the inspector's queries in the cache, `applyDashboardMessage()`, `RequestExplorer` with its URL | `MCRequestExplorer` | `TrafficStoreProofs` |
| `BrowserSessions` | `AuthProvider`, `withAccessToken()`, localStorage, `AuthService` | `MCBrowserSessions` | `BrowserSessionsProofs` |

Definitions commented as *faulty variants* stand before the definition they
vary. They are plausible bugs of that code; nothing uses them, except that each
property is tested by putting one in the place of the definition it varies
(`mutants` in `PROJECT.json`) and seeing the property fail.

Every module of the code has a type invariant (`TypeOK`, `MTypeOK`, `RTypeOK`,
`CTypeOK`, `ETypeOK`, `STypeOK`). All are theorems (of `RTypeOK`, what the proof of the
listing needs).

### TunnelRegistry

`repo` is the record of the repository's four maps; each of its methods is an
operator from such a record to such a record (`Save`, `Remove`, `Park`, `Purge`,
`ReclaimFailed`). The actions are the manager's methods, each with all it calls:
`create()` is `Restore` when the preferred tunnel can be reclaimed and `Register`
otherwise, both purging first; `DetachClient` is what the gateway's
`handleDisconnect()` does to the registry. `minted` and `announced` observe the
ids that were generated and the events that were published. A port, an id, a
slug and an owner are values of finite sets; `SlugOf` is any function, and the
slug properties assume it injective (`SlugsDistinct`): the code abbreviates 16
random bytes to six and does not look for collisions.

### GatewaySession

`Connect` is `handleConnection()` up to its await, `Resolved` and `Unresolved`
are the rest, and `Close` is `handleDisconnect()`, which may come in between.
`Sweep` is a tick of the heartbeat monitor's interval; `Tick` does not pass a
sweep that is due.

### GatewayMessages

Extends `GatewaySession` by what a served socket sends. `Message` is
`handleClientMessage()`: it asks the limiter of the socket's address, and a ping
that passes touches the heartbeat. `CloseResets` is the close together with the
policy's `release()`, which forgets the window of the whole address. Frames of
responses are not limited in the code; they and `create_tunnel` change nothing
here and have modules of their own. `handledAt` observes the messages of
an address that were handled since its last reset, with their times, and `hits` is the
limiter's array, as the messages whose time stamps it still has; `RateWindowTrue` compares
the two in both directions: not too many messages pass, and
none is refused that should pass. What a reset allows is outside of it: with a
second socket, whose close resets the window, an address sends more than its limit.

### HttpExchange

Per request, `ex` is the coordinator's `InternalPending`, `pending` its map,
`fwd` the progress of `forward()` and then of the response stream, `pull` and
`slot` the body iterator and the value its waiter was resolved with; `cli` and
`sent` are the CLI's side; `link`, `toCli` and `toServer` the sockets. The two
promise continuations are actions (`StartSettled`, `Wake`), so that several
frames may arrive before one runs; everything that is an event-loop task of its
own waits for them (`Quiet`). A request's body is folded into its start and end
frame, a chunk is one unit of the buffer limit, and chunks are numbered from 1.
A public client that leaves makes the stream return the iterator (`Abandon`);
no frame is sent, as in the code. An error frame counts as a message of its client, which
may be over its limit (`tunnel.gateway.ts:144`): `Deliver` may drop it, and the request is
left to its timeout. `RequestForwarded` is not recorded by anybody
and is left out.

### CliConnection

`ready`, `heard` and `peer` are per WebSocket: its `readyState`, which listeners
it has, and what the server did on it. `at` is the place in `connect()`,
`attemptReconnect()` or `start()` where the running attempt awaits. `Dispose` is
`disposeSocket()`: it removes *all* listeners of the socket and closes nothing.
From the library `ws` this takes that messages arrive until the peer's close
frame, that a handshake given up by `close()` emits `error` before `close`, and
that a copy of the listeners is called for one event. An unhandled rejection
ends the process (Node's default; the code installs no handler).

### TrafficStore

A task is a step machine with one awaited storage call per step; `queue` is the
chain of one request's tasks. `MaxActive` is how many tasks of different requests
are in progress at once: one when each event is published from a task of its own
over in-memory storage, more when events share a task or the storage is slower.
`overlapped` remembers whether that ever happened. `Listing` is the listing that the
refinement of `TrafficLog` is about: the places of the index whose records are stored
(`Live`), in order (`Nth` of `Places`).

### TrafficReads

One `list()` runs beside the recorder's tasks: `ListOrder` reads the index,
each `ListRecord` one record, `ListAnswered` is the answer, for which the inspector
applies its limit after the search and the store its own otherwise. A record is to
the filters a hit, a miss or foreign. The limit is looked at after a record was taken, and
the inspector lets a limit of 0 pass: it is answered with one record (`Admitted`). `lost` observes the records that were not
stored throughout; `ListingComplete` is about the others.

### TrafficStatistics

The operators are the functions of the code, and the properties compare them with
reference definitions and with each other: totals with the sum of the tunnels', a
nearest-rank percentile with the least sample that enough samples do not exceed,
the buckets of the series with what is charted, the trend with the series, a
timeline's phases with the latency. A small machine makes the lists of records:
requests arrive and conclude, time passes, old records go. An array the code filters
from the records is here the set of the places it takes (`own`), its samples are a
function of these places, and what a sort makes is the list by rank (`Ordered`: at place
n stands the element that n - 1 others come before). `drawn` is when the page
last computed its series: it ends at that time aligned up to a bucket, exclusively,
so that a record of exactly an aligned instant is in none of its buckets.
`ChartsAddUp` speaks of the records within.

### WorkspaceMembership

`call` holds the service calls in progress with what they have read; each action
is one database request and the code after it. Any request may fail (`Fail`),
and `broken` remembers that a call ended that way.
`viewer` is not told apart from `developer`. Constraints of the database (one row
per account, one pending invitation per address, what a row refers to) are part of the writes.

The deletion of an account is the call `purge`: `PurgeOwned` and `PurgeWrite` delete the
workspaces with its `owner_user_id`, and `EraseAccount` the account, with which the database
deletes in cascade its row among the members and the invitations it made
(`WithoutInviter`). `EraseRefused` is the way out if the confirmation, the token or a workspace
refuses it. `gone` are the deleted accounts. An accepted invitation that goes with
its inviter stays in the model as `"erased"`, for `JoinedByInvitation` to know. `orphaned`
remembers that the account of the only owner went: an owner by transfer is not the one
`purge` looks for, so that the workspace stays, and has no owner for good. An invitation keeps
its role while it is pending, as nothing reads it later.

`AcceptedFromPending` is about one call at a time: two may accept what was revoked
in between.

### WorkspaceKeys

As in `WorkspaceMembership`, a call (`create`, `rotate`, `revoke`, `erase`) is a chain
of database requests, and `at` is the next of them. `PageCanManage` is what
the workspace page decides, `Guard` and `Manages` are the two checks of the server;
`known` is the role a call was offered by the page for. `erase` is the deletion of
an account: its keys, the workspaces it founded, then the confirmation, then the
account, whose rows the database deletes in cascade. `secrets` numbers the secrets
ever made, and `raced` remembers the keys that were revoked between the two requests of
a rotation of them: `rotate()` clears `revoked_at` then, and `RevokedStaysRevoked`
excepts exactly these.

### DashboardFeed

Both ends of the feed. The gateway's side is `Resolved`, `Refused`, `Disconnected`
and the fan-out in `TunnelCreated` and `TunnelClosed`; `readable` is a socket's state as the
server sees it and `link` as the tab sees it. The tab's side is one effect of
React: `home`, `mine`, `client`, `timer`, `hadConnection` are what the running
effect closed over, and `EffectRuns` is the clean-up of one run and the start of
the next, which sets them anew. What the effect before it awaited goes on and finds
itself cancelled. `connect()` is in two parts, `Connecting` up to its awaited token and
`TokenArrives` or `TokenRefused` after it; two calls may be under way, from the timer,
the banner and the effect, and then attach two clients of which the effect knows
one. A forced refresh of the token replaces the session object, and so makes
the effect stale. A tab opens sockets without end: one that is over on both sides (`Free`)
stands for the next, and `MaxSockets` bounds those that exist at once. `Resyncs` says of an
opening whether it refetches the inspector's data, which themselves are in `RequestExplorer`. The binding of a
socket's context for the request logs (`contextSessions.bind()`) is left out. The statistics notifier's pushes are left out: they replace what
the page shows as a whole.

### RequestExplorer

`cache` is the query cache, with one entry per list and per opened request. The query
library is not part of the repository; it is modelled as this code relies on it
(a fetch on mount if not fresh, invalidation that refetches what is on screen and
replaces a fetch under way if there is data, `setQueryData`). A fetch is three
steps, `Replied` being the moment at which the server reads its store, and the
live messages in `feed` are applied in between by `AfterMessage`, the whole of
`applyDashboardMessage()`. `Reconnected` refetches or not, because the effect that opens the
socket may take it for its first. `Debounce` and `Navigated` are the search box: a timer, and
two effects that copy the search to the URL and back. `InvalidatedDetails` is empty
because the key the code invalidates lacks the workspace that the key of a detail
query has.

### BrowserSessions

Sessions are numbered as they are handed out. `minted`, `spent` and `revoked` are what Supabase
knows, `stored` is localStorage, `session` each tab's. A `request` is on its way
with the place in `hydrate()`, `withAccessToken()`, `login()` or `logout()` that waits
for it, the token it carries and the session of the render it was started in
(`closure`). `Serve` is the server's part, `Receive` the tab's continuation; the network may lose
a request or an answer of which the server has done its part. `Reconnect` is the live feed's
`connect(true)`, after a lost socket, an online event or the button of the banner: it refreshes
whatever is left of the session. Nothing keeps two refreshes of one token from being under way.
The server refuses the later one, and its tab signs out. Sessions fall due in the order they
were made; a token that is due may or may not be accepted.

## Runs

Symmetry is used only in runs without temporal properties other than step
properties. `CHECK_DEADLOCK FALSE` stands where the system really may stop: all
requests done, all bounded time used up, the client disconnected.

| Run | Bounds | Result |
| --- | --- | --- |
| `registry` | 3 sockets of 2 owners, 3 ids, 2 ports, window 1, clock to 3 | all hold, refinement of the lease |
| `exchange` | 2 requests, 2 sockets, 2 chunks, limits of 1 exchange and 1 chunk | all hold; `forward()` settles |
| `gateway` | 4 sockets of 2 addresses, limits 3 and 2, timeout 1, rate limit 2 per window of 2, clock to 3 | all hold |
| `cli_connection` | 3 sockets alive at once | all hold; the client recovers |
| `traffic` | 3 requests, 2 records, up to three tasks, one reader, at most one request that the search misses | all hold; refinement of the log while no tasks overlapped |
| `workspace` | 3 accounts, 2 invitations, one call at a time, requests may fail | all hold, owners until the account of the last one is deleted |
| `dashboard` | 2 workspaces, 2 tunnels of which one is anonymous, 2 sockets at once and any number one after the other, 1 message under way per socket, 1 tunnel created and closed, 1 new session or workspace | all hold; the tab is connected again after every loss |
| `explorer` | 2 requests, 2 workspaces, 1 search that finds one of them, limit 2, details of 1 request, 1 move or failure | all hold; a search keeps up |
| `sessions` | 2 tabs, 2 requests under way, 2 sessions, 1 loss | all hold; a revoked session is left, and only the feed uses up a good token |
| `keys` | 2 accounts, 2 keys, 2 calls at once, 2 secrets, 1 change of role | all hold |
| `statistics` | 3 records of 3 sources, window 4 in buckets of 2, clock to 5, the 60th percentile, codes 200 and 500 | all hold |
| `workspace_purge` | 2 accounts, 1 invitation, one call | *violated*: purged for its founder, who had transferred it, while its owner is another |

Some properties hold under a condition on the history, which is part of the
property: `IndexNamesRecords` and the refinement of `TrafficLog` as long as no two
tasks were in progress at once (`overlapped`), `ExactlyOneOwner` and
`JoinedByInvitation` as long as no call failed half-way (`broken`), both properties of
owners as long as the only owner's account was not deleted (`orphaned`), that a body of
`BodyKept` is whole as long as the tunnel's first socket was the only one (its chunks
are in order and none comes twice in any case), `RevokedStaysRevoked` for keys that
were not revoked during a rotation (`raced`), `RateWindowTrue` between two resets of an
address, `OnlyFeedSpendsGood` for refreshes other than the feed's. Outside the condition each
of them fails. `PurgedForItsOwner` is stated for histories without failed calls (`broken`), so
that its violation is not a matter of a creation that stopped halfway.

Why the bounds are enough: each is one more than the interesting case needs.
Displacing, parking and reclaiming takes two sockets of one owner, a third
belongs to a stranger; the window is outlived twice. A full buffer and a full map
need limits of one. A connection limit and an address limit that bind separately
need three sockets of one address and one of another; a message limit of two in a
window of two instants is reached within one instant and across two, and left by
both ends. A leak of the CLI needs two sockets, its consequences for the next
attempt a third. Lost updates of the index need two tasks; the third shows that they do
not add up. Two calls are a race; a transfer needs two accounts, and the third may be
removed, invited or leave meanwhile. A feed that is replaced needs two sockets, and
two workspaces to be mixed up; a tunnel's creation and end may fall before, between and
after them. Fetches and messages overtake each other with one request, and two are
needed for an order in a list and for one that the search does not find. Two tabs
and two sessions are a refresh token used twice, with the second session the one that
the first was rotated to, and three records are ties, ranks, and a record in each
place relative to a bucket's edge.

The violated property is what two comments of the code say of it; `findings` in
`PROJECT.json` quotes them with their lines. More consequences of the same kind
are reached by the models, and each has a configuration that shows its trace
(`tlc -config X.cfg M`):

| Configuration | Module | What fails |
| --- | --- | --- |
| `MCHttpGap` | `MCHttpExchange` | `BodyInSequence`: a body with chunks lost in the middle, on a connection that was replaced, ends as complete (`http-forwarding.ts:121`, "Chunks are ordered by sequence starting at 0"; nobody looks at it) |
| `MCHttpTimeout` | `MCHttpExchange` | `FullExchangeTimesOut`: "Default timeout for a full HTTP forward exchange." (`http-forwarding.service.ts:26`) bounds it up to the response's start only |
| `MCWorkspaceRace` | `MCWorkspaceMembership` | `MembersHaveOwner` with two calls at once: a workspace without an owner (`workspace.service.ts:196`, `:280`) |
| `MCWorkspaceOrphan` | `MCWorkspaceMembership` | `OwnedGoesWithAccount`: "Hard-deletes every workspace owned by the user" (`workspace.service.ts:453`), but not one that came by a transfer; its owner's row goes with the account (`20260729080413_phase_3_3_workspace_domain.sql:24`) and its members stay without an owner |
| `MCCliSingle` | `MCCliConnection` | `SingleConnection`: "maintains a single connection" (`websocket-client.ts:158`), but an attempt that gives up leaves its socket open |
| `MCCliDisconnect` | `MCCliConnection` | `DisconnectResolves`: the socket that `disconnect()` waits for has lost its listeners (`websocket-client.ts:283`) |
| `MCDashboardResync` | `MCDashboardFeed` | `ResyncedAfterReconnect`: the forced refresh of a reconnect starts a new effect, which takes its connection for the first (`docs/dashboard.md:465`) |
| `MCExplorerDetails` | `MCRequestExplorer` | `DetailsFollow`: the details on screen are not refetched when their request completes (`docs/dashboard.md:460`) |
| `MCExplorerSearch` | `MCRequestExplorer` | `SearchSettles`: a search from the palette and one just typed chase each other through the URL for ever |
| `MCSessionsSignedOut` | `MCBrowserSessions` | `SpentWhenDue`: refreshes are for sessions near their expiry or refused with 401 (`auth-provider.tsx:48`, `docs/dashboard.md:481`), but each reconnect of the feed refreshes by force (`dashboard-socket-provider.tsx:99`, `:133`, `:161`); and, with that one taken out, `SignedOutStaysOut`: a refresh under way when the tab signs out brings a session back, if it was answered before the sign-out (`auth-provider.tsx:152`) |
| `MCKeysUnconfirmed` | `MCWorkspaceKeys` | `UnconfirmedDeletesNothing`: keys and workspaces go before the confirmation is looked at (`auth.controller.ts:237`, `auth.service.ts:398`) |

And without a configuration:

* a socket's second tunnel displaces its first in `Save`, and no event says so
  (`tunnel.repository.ts:41`); the events that are sent are true (`RegistryInv`);
* a socket that closes while its authentication is awaited is bound afterwards
  and its context is never destroyed (`Resolved` after `Close` in `GatewaySession`);
* two overlapping tasks of the traffic store leave a record outside the index, that
  nothing lists or evicts;
* an invitation revoked while it is being accepted becomes accepted (two calls
  in `WorkspaceMembership`);
* two refreshes with the same token, of two tabs or of a feed and a call, sign the tab of the
  later one out of a session that is good (`Refreshed` after `Reconnect` in `BrowserSessions`);
* an error frame of a client over its limit of messages is dropped, and the request it is about
  waits for its timeout (`Deliver` in `HttpExchange`);
* a list fetch answered before a live message and applied after it takes the message's row back,
  until the next fetch (`Replied` and `AfterMessage` in `RequestExplorer`);
* `disconnect()` during the awaited tokens of `connect()` resolves, and the socket
  is opened afterwards (`TokensReady` after `Disconnect` in `CliConnection`);
* a `createTunnel()` whose `send()` throws leaves a wait nobody awaits, and its
  timeout ends the process with an unhandled rejection;
* a client attached by one of two calls of `connect()` is forgotten, still open and
  heard, until its server or network closes it (`Attached` in `DashboardFeed`).

### Fairness

* `TimerSpec` (`exchange`): timers fire and continuations run. Node
  guarantees both, whatever the network and the other side do; nothing else is
  needed for `forward()` to settle.
* `FairSpec` of `HttpExchange` (`MCHttpTimeout`): moreover frames on a live
  connection are delivered, losses are noticed, a reader reads. The violation
  thus is no matter of an idle system.
* `FairSpec` of `CliConnection` (`MCCliDisconnect`): promises settle, timers fire,
  handshakes and closes end (`ws` ends a close after 30 s), a silent socket is
  dropped by the server's sweep. The timeout of an orphaned wait needs strong
  fairness, because continuations of other attempts keep disabling it for a moment.
* `ServerBackSpec` (`cli_connection`): moreover, from some moment on the server
  closes no connection that the client listens to, and handshakes, greetings and
  answers tried for ever succeed some time. That is what "the server is back"
  means; `Recovers` promises nothing without it.
* `Spec` of `DashboardFeed` (`dashboard`): React runs effects that are due, promises
  of tokens settle one way or the other, timers fire, a socket that is opening opens
  or closes, the tab hears of a close, and a browser without network gets it back. That is
  all the tab's own doing; of the network and the server it is assumed (strong fairness of
  `Opened`) that a tab that tries again and again is let in some time. `Reconnects` says
  that a tab that stays signed in does try again after every loss, and so is connected again and
  again.
* `ESpec` of `RequestExplorer` (`explorer`): fetches are answered and applied,
  messages handled, timers fire, navigations land. A fetch or the connection may fail
  all the same, and `SearchKeepsUp` excepts that.
* `Spec` of `BrowserSessions` (`sessions`): the server answers, continuations run, and
  a tab in use goes on fetching. Nothing in the dashboard polls: calls come of what the
  user opens, of live messages and of the feed's reconnecting, so that
  `RevokedTabSignsOut` is about a tab somebody uses. The assumption is strong because
  only the bound on requests under way makes a call wait.

## Proofs

`TunnelRegistryProofs` proves, for any sets of sockets, ids, slugs, ports and
owners, any owner and slug functions and any window (`RegistryAssumption`: the
functions have their types, the numbers are natural, `None` is none of the
values):

* `RegistryInvariant`: `TypeOK` and `RegistryInv` always hold;
* `ClosedSocketsRouteNothing` and `OwnerAndPortKept`: two of its parts by name;
* `RegistryImplementsLease`: the registry implements `TunnelLease`.

The inductive invariant is `TypeOK /\ RegistryInv`. None of the conjuncts is
inductive alone. That no tunnel routes to a closed socket needs that `byId` and
`byClient` are each other's inverse, because closing a socket parks only the
tunnel `byClient` names; that an id keeps its owner and port needs that no id is
both active and parked, because reclaiming copies what is parked; and the inverse
maps need both, because `save()` displaces by one map what it finds in the other.

The proof goes in three layers. Lemmas on the repository's operators say what
each leaves in every map (`SaveEffect`, `PurgeEffect`, `ReclaimFailedEffect`,
`RemoveEffect`, `ParkEffect`). One lemma per action shows that it preserves the
invariant; `Restore` and `Register` share `CreateInv`, which speaks of any save
after some orphans have gone. For the refinement, each action is shown to do to
every id one of five things (stay, be granted, resumed, parked, ended), with the
side conditions the lease puts on sockets (`LeaseStep`), and that is a step of the
lease or a stutter.

Two more properties stand on that invariant:

* `LabelsReserved`: if no two ids abbreviate to the same label (`SlugsDistinct`,
  an assumption of this theorem only), a label is reserved for exactly the active
  and the parked tunnels. It needs an invariant of its own, `Reserved`, carried
  through the same lemmas on `save()` and the purge;
* `ParkedKept`: a parked tunnel leaves the table only as
  `ParkedUntilReclaimedOrElapsed` allows.

`HttpExchangeProofs` proves, for any requests, sockets, number of chunks and
limits (`ExchangeAssumption`: the first socket is one of the sockets, the limits
are natural, `None` is none of the values):

* `InvHolds` and `TypesHold`: the inductive invariant `Inv` and `TypeOK`;
* `SlotsHold`, `MemoryHolds`, `WakeupsHold`, `OutcomesHold`: the properties
  `SlotsAreOpenExchanges`, `MemoryBounded`, `WaiterHasNothingToRead` and
  `OneTrueOutcome`;
* `LateHolds`: the action property `LateFramesDropped`;
* `BodyHolds`: the property `BodyKept`, from an invariant of its own.

`Inv` says of every request that its flags agree with each other and with the map
(`FlagsOK`), that the iterator only waits for a body that is being read and finds
it open and empty (`IteratorOK`), and that the events published so far fit the
progress of `forward()` (`OutcomeOK`); and that the map is finite and within its
limit. The named properties are not inductive without these: that a `return` is
true needs that a waiter woken with `done` belongs to an ended exchange, and that
a failed start leaves no entry needs that only a failure rejects it. The lemmas
follow the code: what `failExchange`, the start, a chunk and the end do to one
exchange (`Coord`), that every step concerns one request (`OneRequest`), then one
lemma for each action.

`BodyKept` speaks of what the public client has received, and holds because of what
is still under way to it. `BodyInv` follows a body through the received chunks, the
one handed to a waiter, the buffer and the frames of the sockets. A start frame
exists once, and the CLI sends nothing before it (`StartsOK`); an end is its request's
last frame (`EndsOK`), and nothing is buffered behind it (`DrainedOK`). The chunks of a
request rise from each of these places to the next, on every socket (`LineOK`): this
alone makes them arrive in order and once. That they are all there (`WholeOK`) holds
while the tunnel has its first socket: what the server has and what is under way on
that socket are all that the CLI sent. `LinksOK` ties the sockets together: a socket that
is down carries nothing, and the CLI writes to the socket that is up. The lemmas are
about sequences first: what appending, delivering and losing frames does to the lines.

`WorkspaceKeysProofs` proves, for any accounts, keys and calls at once
(`KeysAssumption`: `None` is none of the values, the bounds are natural):

* `KeysInvariant`: the inductive invariant, types included;
* `KeysEndWithAccount`, `RevocationsLast`, `OffersAdmitted`: the properties
  `NoSecretOutlivesAccount`, `RevokedStaysRevoked` and `OfferedIsAdmitted`.

The invariant joins the tables with what the calls in progress know of them. A
secret ends with its account because every key's creator exists (`CreatorsExist`),
which holds because the write of a key needs the account and its deletion cascades. A
revoked key comes back by a rotation only, and a rotation that is about to write has
seen its key valid (`RotationsWereShown`): if the key is revoked by then, it was during
the rotation, and the history has it. What a page offered it offered to somebody
who may manage keys (`OffersWereMade`). One lemma per conjunct goes through the steps
that can disturb it (`StepEffect`).

`BrowserSessionsProofs` proves, for any tabs, requests, sessions and losses
(`SessionsAssumption`):

* `SessionsInvariant`: the inductive invariant, types included;
* `OnlyFeedSpends`: the action property `OnlyFeedSpendsGood`.

The property is not inductive: whether to ask for a refresh was decided by a tab,
steps before the server does it. The invariant `AllCarry` says what every request
carries meanwhile: a refresh other than the feed's, a token that is due or revoked, which
the server refuses in the latter case; a call, a token whose refusal means that the session it
started with is over. The lemmas first compute the fields of each form a
request takes, then that a changed request suffices (`OneRequest`), then one lemma
per action.

`GatewayProofs` proves, for any sockets, addresses, limits, timeout, interval and
window (`SessionAssumption`, `RateAssumption`: types, an interval and a window that are
not zero):

* `SessionTypeCorrect`, `SlotsCounted`: `TypeOK` and `SlotsCountOpenSockets`;
* `ServedSocketsWatched`, `SilenceIsBounded`: `ServedIsWatched` and `SilenceBounded`;
* `MessagesKeepSession`: with messages, a session is a session of `GatewaySession`, so that
  the four hold there, too; `MessageTypeCorrect` and `RateWindowHolds`: `MTypeOK` and
  `RateWindowTrue`.

That no count goes below zero is part of the types and needs that the counts are
cardinalities of sets of sockets: `SlotInv` carries both together, and that an open
socket has its address exactly until it gives its slot back. `SilenceBounded` does not
mention the timer, but holds because of it: no beat is older than timeout and
interval at the next sweep, and the clock does not pass the sweep (`BeatsInTime`). The
limiter forgets, and its property speaks of everything since the reset: `RateInv` says
that what it forgot is out of the window, and that *every* window of the past was
within the limit, because a step counts the last one only.

The same module proves of the other end, `CliConnection`, for any set of sockets
(`ConnectionAssumption`): `ConnectionTypeCorrect`,
`NeverLeftIdle` and `ConnectionsAreWatched`, which are `CTypeOK`, `KeepsTrying` and
`ConnectedIsWatched`. The invariant says which socket is listened to and how, at each
place of the attempt (`Listening`), what the waiter waits for (`Waiting`), and what
the retry timer and the flags say of the attempt (`Retrying`). That a client without a
connection has a timer needs all three: the handler that would set it runs only if the
socket is listened to, and leaves the timer to an attempt if the flags say that there is
one. An orphaned waiter is in none of them, and breaks none.

`TrafficStoreProofs` proves, for any requests, capacity, number of overlapping tasks
and queries (`StoreAssumption`, `ReadsAssumption`):

* `StoreTypeCorrect`, `LastEventIsRecorded`, `IndexIsExact`: `TypeOK`,
  `LastEventRecorded` and `IndexNamesRecords`;
* `StoreIsLog`: the store implements `TrafficLog`;
* `ListingIsComplete`: `ListingComplete`, with the reader beside any number of tasks.

`EventsInOrder` follows the events of one request through its queue, its task and its
record, whatever tasks of other requests do. `Serial` says by how much index and records
differ while one task runs, at each of its steps; it is false once two tasks overlapped,
and so the index is exact up to then. For the refinement the listing is computed from index and
records (`Visible`): `UpdateSave` is the log's `Conclude`, `Evict` its `DropOldest`,
`WriteOrder` its `Insert`, and every other step leaves the log as it is. `ReadInv` says of
a listing in progress that it has found, of the part of the index it has read, exactly
what was asked for, and that it misses only what is lost. It assumes nothing of the tasks.

The same module proves of the page that shows these records, `RequestExplorer`, for any
requests, workspaces, searches and any limit (`ExplorerAssumption`): `ExplorerTypeCorrect`,
`RequestsListedOnce`, `ListsKeepTheirOwn` and `RowsStayTrue`, which are `ETypeOK`,
`ListedOnce`, `ListsHoldTheirOwn` and `RowsTellTruth`. The invariant `ExplorerInv` says the
same of the answers on their way as of what the cache holds (`Fits`): an answer was read
before it is applied, and messages come in between. Two facts keep it true. What the store
says of a request only goes on (`Later`), so that an old answer is behind but not wrong
(`FitsLater`); and a message is sent after what it tells (`MessageOK`), so that the row
it writes has happened. Both the server's list and the one a message writes are places of
a sequence taken in order, and hold nothing twice if the sequence does not
(`PickedMember`).

`DashboardFeedProofs` proves, for any workspaces, tunnels and number of sockets
(`FeedAssumption`): `FeedTypeCorrect`, `EventsStayInScope` and `GatewayKeepsOpenClients`, which are
`TypeOK`, `ScopedFeed` and `ClientsAreOpen`. What makes them inductive is `Pristine`: a
socket that was not made yet or still connects is unknown to the server, also one whose number
is used again, and none is a client while its context is awaited.

The same module proves of the statistics and the dashboard's charts, for any finite set of
sources, any codes, number of records, window, bucket size and percentage
(`StatisticsAssumption`): `StatisticsTypeCorrect`, which is `STypeOK`;
`RequestsInTheirBuckets`: what `BucketOf` says of a charted request is the bucket of its time,
also if buckets do not divide the window, and the charts leave out none that is younger than the
window less a bucket and older than their drawing (`BucketsHold`); and `StatisticsAgree` and
`ChartsAgree`, which are `StatisticsAddUp` and `ChartsAddUp`.

The invariant (`StatisticsInv`) is that records are no younger than the series, and that a
record has a latency exactly if it has a status, which is why the count of latencies is the sum
of the counted codes. The rest says what the functions compute from such records, in three layers.
The arithmetic of `SeriesEnd`, `SeriesStart` and `BucketCount` comes first (`Aligned`,
`BucketPlace`, `BucketExact`). Then sums and lists over finite sets: the library defines a sum by
a function it chooses, so `SummingExists` and `SummingAgrees` show that there is one, and
everything else follows from taking one element out (`SumOut`) by `SetInduction`, which is stated
for a *set* of good subsets, because the prover has no induction over formulas. `SumGroups` and
`CountGroups` say that what is summed group by group makes the whole, and `OrderedList` that what
a strict order ranks is a list of all elements, once each and in order; each use owes the proof
that the code's comparison is such an order. Last come the functions: the percentile from what
stands up to its rank (`RankInRange`, `PercentileIsNearestRank`), a counter from its frequencies
(`CountedList`), a page of it from their order (`TopmostKeys`), the tunnels' sums from their
groups (`SumOfTunnels`), the slowest endpoint from fractions compared crosswise
(`GreatestFraction`) and weighted by their counts, and the trend and the timeline by splitting a
sum (`SumSplit`, `SumOfFirst`).

`WorkspaceMembershipProofs` proves, for any accounts and invitations:
`MembershipTypeCorrect`, `OneOwnerStays`, `OwnerWhileMembers`, `MembersWereInvited` and
`PendingBeforeAccepted`, which are `TypeOK`, `ExactlyOneOwner`, `MembersHaveOwner`,
`JoinedByInvitation` and `AcceptedFromPending`. Each has the hypothesis that there is one
call at a time (`Calls = {p}`), which the run `workspace` has as well: with two calls they are
false, as `MCWorkspaceRace` shows, because nothing is locked between what a call reads and what it
writes. A call is still a chain of requests, any of which may be the last. The invariant
`Sound` says that what a call has read still holds when it writes (`StillTransfers`,
`StillMembers`, `StillInvited`, `StillFounding`), who the owners are at each of its steps,
if none was broken off (`OneOwner`: none while a workspace is founded, two while one hands
over), and that without an owner there is nothing to be found (`NothingUnowned`), which a
broken-off call cannot change because a new owner is written before the old one is. The
deletion of the only owner's account ends these (`orphaned`), and nobody becomes an owner after it,
because a transfer is an owner's.

Only model-checked: all liveness (`StartAwaitSettles`, `RevokedTabSignsOut`, `SearchKeepsUp`,
`Recovers`, `Reconnects`), because what fairness makes enabled is out of the prover's reach.
Every invariant and every action property of a passing run is a theorem above, and so are the two
refinements.

## Not modelled

`components` in `PROJECT.json` has the reason for every part.

* Text: frames are records here, and parsing, encoding, URLs, headers, tables and
  markup are left out, as are all documentation pages and forms of the dashboard.
* Ownership rows and anonymous sessions: the rows of tunnel ownership are written by
  calls nobody awaits, and nothing in the code reads them back; an anonymous session is
  a row that is created and expires.
* The event bus: its subscriptions are all made at start-up and ended at shutdown, so that a
  publication is one step of the components here. Its snapshot of the handlers matters
  to a handler that unsubscribes another, and none does.
* Accounts: registration, password reset, profiles and the cookie mode call
  Supabase and keep no state; OAuth is an outcome that is chosen. Keys do not expire,
  and have no time of last use, in `WorkspaceKeys`.
* Of modelled components: `updateSettings()` of workspaces, `clear()` of the traffic store,
  the live client's own reconnecting (the dashboard turns it off), the notifier's pushes,
  the largest payload and the highest error rate among the insights.
* Read-only queries, logging, audit, metrics, health and configuration.

## Plan

What is left, in this order:

1. The tokens of the CLI (`auth-session-manager`): two callers refresh the same token, as
   the tabs of `BrowserSessions` do.
2. `GatewaySession`, `TunnelRegistry` and `HttpExchange` composed: `create_tunnel` and response
   frames on the sockets whose admission is modelled.
3. Replay as a client of `HttpExchange`, with the outcome it records.
