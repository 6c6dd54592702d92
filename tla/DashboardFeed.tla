----------------------------- MODULE DashboardFeed -----------------------------
(***************************************************************************)
(* The dashboard's live feed, from the event bus to the browser's stores:  *)
(* DashboardGateway fans the events of a workspace out to its sockets, and *)
(* one browser tab keeps a socket with DashboardSocketProvider and         *)
(* DashboardLiveClient and applies the messages to its tunnel store.       *)
(*                                                                         *)
(* The provider's effect runs anew whenever the session object or the      *)
(* active workspace changes. What it closed over (the client, its timer,   *)
(* hadConnection) is lost then; what it awaits goes on. A live client is   *)
(* made per socket (autoReconnect is off), so a socket stands for both.    *)
(***************************************************************************)
EXTENDS Naturals, Sequences, FiniteSets

CONSTANTS
    Workspaces, Tunnels,
    First,          \* the workspace the tab shows first
    WorkspaceOf,    \* the workspace tag of a tunnel; None: anonymous
    MaxSockets,     \* bound of the sockets that exist at once
    MaxQueue,       \* bound of the messages on their way to a socket
    MaxTunnels,     \* bound of the tunnels that are ever created
    MaxRenewals,    \* bound of the sessions and workspaces the tab goes through
    None

Sockets == 1..MaxSockets

ASSUME FeedAssumption ==
    /\ None \notin Workspaces /\ First \in Workspaces
    /\ WorkspaceOf \in [Tunnels -> Workspaces \cup {None}]
    /\ {MaxSockets, MaxQueue, MaxTunnels, MaxRenewals} \subseteq Nat

VARIABLES
    tunnels,    \* tunnels with a live session, on the server
    created,    \* tunnels created so far
    readable,   \* per socket: readyState, as the server sees it
    resolving,  \* sockets whose handleConnection() awaits its context
    clients,    \* DashboardGateway.clients
    scope,      \* DashboardGateway.clientWorkspaceScope
    queue,      \* per socket: messages sent and not yet handled by the tab
    asked,      \* per socket: the workspace in its URL
    link,       \* per socket: readyState, as the tab sees it
    active,     \* useWorkspace().activeWorkspace
    signedIn,   \* useAuth().session # null
    stale,      \* the effect's dependencies changed, it has not run since
    renewals,   \* sessions and workspaces so far
    home,       \* the active workspace the effect closed over; None: no session
    mine,       \* sockets made by the effect that runs, until they close
    client,     \* its variable client; 0: undefined
    heard,      \* sockets with a subscribed handler
    calls,      \* calls of connect() that await their token
    timer,      \* reconnectTimer is set
    hadConnection,
    online,     \* the browser has a network
    status,     \* connection store
    shown       \* tunnel store: the tunnels it holds

gateway == <<tunnels, created, readable, resolving, clients, scope>>
auth    == <<active, signedIn, renewals>>
closure == <<home, mine, client, heard, calls, timer, hadConnection>>
stores  == <<online, status, shown>>
vars    == <<gateway, queue, asked, link, auth, stale, closure, stores>>

Messages == [type : {"connected"}, tunnel : {None}]
              \cup [type : {"tunnel_connected", "tunnel_disconnected"}, tunnel : Tunnels]

TypeOK ==
    /\ tunnels \subseteq Tunnels /\ created \in 0..MaxTunnels
    /\ readable \in [Sockets -> {"none", "open", "closed"}]
    /\ UNION {resolving, clients, mine, heard} \subseteq Sockets
    /\ scope \in [Sockets -> Workspaces \cup {None}]
    /\ queue \in [Sockets -> Seq(Messages)]
    /\ asked \in [Sockets -> Workspaces \cup {None}]
    /\ link \in [Sockets -> {"unused", "connecting", "open", "closed"}]
    /\ active \in Workspaces /\ home \in Workspaces \cup {None}
    /\ client \in Sockets \cup {0}
    /\ calls \in [{"plain", "forced"} -> Nat]
    /\ {signedIn, stale, timer, hadConnection, online} \subseteq BOOLEAN
    /\ renewals \in 0..MaxRenewals
    /\ status \in {"idle", "connecting", "connected", "disconnected"}
    /\ shown \subseteq Tunnels

NoCalls == [kind \in {"plain", "forced"} |-> 0]

(* The tab is open and signed in, and its effect is about to run.          *)
Init ==
    /\ tunnels = {} /\ created = 0
    /\ readable = [s \in Sockets |-> "none"]
    /\ resolving = {} /\ clients = {}
    /\ scope = [s \in Sockets |-> None] /\ asked = [s \in Sockets |-> None]
    /\ queue = [s \in Sockets |-> <<>>]
    /\ link = [s \in Sockets |-> "unused"]
    /\ active = First /\ signedIn = TRUE /\ stale = TRUE /\ renewals = 0
    /\ home = None /\ mine = {} /\ client = 0 /\ heard = {} /\ calls = NoCalls
    /\ timer = FALSE /\ hadConnection = FALSE
    /\ online = TRUE /\ status = "idle" /\ shown = {}

-----------------------------------------------------------------------------
(* The server: events of the bus and their fan-out.                        *)

Room == \A s \in Sockets : Len(queue[s]) < MaxQueue

Message(type, tunnel) == [type |-> type, tunnel |-> tunnel]

(* Faulty variant: an event without a workspace goes to every client.      *)
AudienceAnonymousToAll(ws) == {s \in clients : ws = None \/ scope[s] = ws}

(* broadcast(): nobody gets an event that has no workspace.                *)
Audience(ws) == {s \in clients : ws # None /\ scope[s] = ws}

(* send(): a socket that is not open is dropped from the clients. What is  *)
(* sent to one that the tab has closed arrives nowhere.                    *)
Deliver(msg, to) ==
    LET dead == {s \in to : readable[s] # "open"}
    IN  /\ queue' = [s \in Sockets |-> IF s \in to \ dead /\ link[s] = "open"
                                      THEN Append(queue[s], msg) ELSE queue[s]]
        /\ clients' = clients \ dead
        /\ scope' = [s \in Sockets |-> IF s \in dead THEN None ELSE scope[s]]

TunnelTurns(t) ==
    /\ Room
    /\ UNCHANGED <<readable, resolving, asked, link, auth, stale, closure, stores>>

(* TunnelCreated and TunnelClosed reach the subscriptions of onModuleInit().*)
TunnelCreated(t) ==
    /\ t \notin tunnels /\ created < MaxTunnels
    /\ created' = created + 1
    /\ tunnels' = tunnels \cup {t}
    /\ Deliver(Message("tunnel_connected", t), Audience(WorkspaceOf[t]))
    /\ TunnelTurns(t)

TunnelClosed(t) ==
    /\ t \in tunnels /\ UNCHANGED created
    /\ tunnels' = tunnels \ {t}
    /\ Deliver(Message("tunnel_disconnected", t), Audience(WorkspaceOf[t]))
    /\ TunnelTurns(t)

-----------------------------------------------------------------------------
(* The server: admission and loss of a socket.                             *)

(* Faulty variant: Connected is sent without a look at the socket.         *)
ResolvedUnchecked(s) ==
    /\ s \in resolving
    /\ resolving' = resolving \ {s}
    /\ clients' = clients \cup {s}
    /\ scope' = [scope EXCEPT ![s] = asked[s]]
    /\ UNCHANGED <<tunnels, created, readable, queue, asked, link, auth, stale, closure, stores>>

(* resolveDashboardWebSocket() settles, maybe after the socket closed: the *)
(* client is added, and sending Connected drops it again unless it is open.*)
(* (The binding of contextSessions, for the request logs, is left out.)    *)
Resolved(s) ==
    /\ s \in resolving /\ Room
    /\ resolving' = resolving \ {s}
    /\ LET open == readable[s] = "open" IN
       /\ clients' = IF open THEN clients \cup {s} ELSE clients \ {s}
       /\ scope' = [scope EXCEPT ![s] = IF open THEN asked[s] ELSE None]
       /\ queue' = IF open /\ link[s] = "open"
                   THEN [queue EXCEPT ![s] = Append(@, Message("connected", None))]
                   ELSE queue
    /\ UNCHANGED <<tunnels, created, readable, asked, link, auth, stale, closure, stores>>

(* The token is not good, or the workspace not the user's: close(1008).    *)
Refused(s) ==
    /\ s \in resolving
    /\ resolving' = resolving \ {s}
    /\ readable' = [readable EXCEPT ![s] = "closed"]
    /\ UNCHANGED <<tunnels, created, clients, scope, queue, asked, link, auth, stale, closure, stores>>

(* handleDisconnect(): the tab closed the socket, or the network lost it.  *)
Disconnected(s) ==
    /\ readable[s] = "open"
    /\ readable' = [readable EXCEPT ![s] = "closed"]
    /\ clients' = clients \ {s}
    /\ scope' = [scope EXCEPT ![s] = None]
    /\ UNCHANGED <<tunnels, created, resolving, queue, asked, link, auth, stale, closure, stores>>

-----------------------------------------------------------------------------
(* The tab: DashboardLiveClient and DashboardSocketProvider.               *)

MaxCalls == 2
Calling  == calls["plain"] + calls["forced"]

(* teardownClient(): the handler goes and the socket is closed, of the one *)
(* client the effect knows; what was on its way to it is ignored.          *)
TornDown ==
    /\ heard' = heard \ {client}
    /\ client' = 0
    /\ link' = [s \in Sockets |-> IF s = client THEN "closed" ELSE link[s]]
    /\ queue' = [s \in Sockets |-> IF s = client THEN <<>> ELSE queue[s]]

(* connect(true), up to its await.                                         *)
Connecting ==
    /\ Calling < MaxCalls
    /\ TornDown /\ mine' = mine \ {client}
    /\ calls' = [calls EXCEPT !["forced"] = @ + 1]
    /\ status' = "connecting"
    /\ UNCHANGED <<gateway, asked, auth, stale, home, hadConnection, shown>>

(* clearWorkspace() of the tunnel store.                                   *)
ClearedFor(ws) == {t \in shown : WorkspaceOf[t] = ws}

(* The clean-up of the effect and its next run: pending calls of connect() *)
(* find their effect cancelled when they go on, and end.                   *)
EffectRuns ==
    /\ stale
    /\ stale' = FALSE
    /\ TornDown
    /\ mine' = {} /\ timer' = FALSE /\ hadConnection' = FALSE
    /\ IF signedIn
       THEN /\ home' = active
            /\ shown' = ClearedFor(active)
            /\ calls' = [NoCalls EXCEPT !["plain"] = 1]
            /\ status' = "connecting"
       ELSE /\ home' = None /\ shown' = {} /\ calls' = NoCalls /\ status' = "idle"
    /\ UNCHANGED <<gateway, asked, auth, online>>

(* Bound: what is over on both sides stands for the next socket, so there  *)
(* is no end to the sockets of a tab, only to those that exist at once.    *)
Free(s) == link[s] \in {"unused", "closed"} /\ readable[s] # "open" /\ s \notin resolving

(* attachClient(): a client is made and connects; one attached by another  *)
(* call in the meantime is forgotten, still subscribed and open.           *)
Attached(s) ==
    /\ Free(s) /\ \A x \in Sockets : x < s => ~Free(x)
    /\ link' = [link EXCEPT ![s] = "connecting"]
    /\ readable' = [readable EXCEPT ![s] = "none"]
    /\ queue' = [queue EXCEPT ![s] = <<>>]
    /\ asked' = [asked EXCEPT ![s] = home]
    /\ client' = s /\ mine' = mine \cup {s} /\ heard' = heard \cup {s}

(* getAccessToken() settles. A forced refresh replaces the session object. *)
TokenArrives(kind) ==
    /\ calls[kind] > 0
    /\ calls' = [calls EXCEPT ![kind] = @ - 1]
    /\ \E s \in Sockets : Attached(s)
    /\ stale' = (stale \/ kind = "forced")
    /\ UNCHANGED <<tunnels, created, resolving, clients, scope, auth, home, timer,
                   hadConnection, stores>>

(* The refresh fails: the session is gone.                                 *)
TokenRefused(kind) ==
    /\ calls[kind] > 0
    /\ calls' = [calls EXCEPT ![kind] = @ - 1]
    /\ signedIn' = FALSE /\ stale' = TRUE
    /\ status' = "idle"
    /\ UNCHANGED <<gateway, queue, asked, link, active, renewals, home, mine, client, heard,
                   timer, hadConnection, online, shown>>

(* onOpen() of the provider refetches the inspector's data, which is of     *)
(* RequestExplorer, if its effect had a connection before. An effect that  *)
(* is gone has a hadConnection of its own.                                 *)
Resyncs(s) == s \in mine /\ hadConnection

OnOpen(s) ==
    /\ status' = "connected"
    /\ hadConnection' = (hadConnection \/ s \in mine)

(* The handshake: "connection" on the server and "open" in the tab.        *)
Opened(s) ==
    /\ link[s] = "connecting"
    /\ link' = [link EXCEPT ![s] = "open"]
    /\ readable' = [readable EXCEPT ![s] = "open"]
    /\ resolving' = resolving \cup {s}
    /\ OnOpen(s)
    /\ UNCHANGED <<tunnels, created, clients, scope, queue, asked, auth, stale, home, mine, client,
                   heard, calls, timer, online, shown>>

(* Faulty variant: the timer is only set when the tab said connected.      *)
OnCloseWhenConnected(s) ==
    /\ timer' = (timer \/ (s \in mine /\ status = "connected"))
    /\ status' = IF s \in mine THEN "disconnected" ELSE status

(* onClose() of the provider; in an effect that is gone it does nothing.   *)
OnClose(s) ==
    /\ timer' = (timer \/ s \in mine)
    /\ status' = IF s \in mine THEN "disconnected" ELSE status

(* The close event, after a refusal, a loss or a failed handshake; what    *)
(* was still on its way is lost.                                           *)
Closed(s) ==
    /\ link[s] \in {"connecting", "open"}
    /\ link' = [link EXCEPT ![s] = "closed"]
    /\ queue' = [queue EXCEPT ![s] = <<>>]
    /\ heard' = heard \ {s} /\ mine' = mine \ {s}
    /\ OnClose(s)
    /\ UNCHANGED <<gateway, asked, auth, stale, home, client, calls, hadConnection,
                   online, shown>>

TimerFires ==
    /\ timer
    /\ timer' = FALSE
    /\ Connecting
    /\ UNCHANGED online

(* requestReconnect() of the banner, and the "online" event.               *)
ReconnectNow ==
    /\ home # None
    /\ online' = TRUE /\ timer' = FALSE
    /\ Connecting

Offline ==
    /\ online /\ home # None
    /\ online' = FALSE /\ status' = "disconnected"
    /\ UNCHANGED <<gateway, queue, asked, link, auth, stale, closure, shown>>

(* Another use of getAccessToken() refreshed the session, or the user      *)
(* signed in anew.                                                         *)
SessionReplaced ==
    /\ renewals < MaxRenewals
    /\ renewals' = renewals + 1 /\ signedIn' = TRUE /\ stale' = TRUE
    /\ UNCHANGED <<gateway, queue, asked, link, active, closure, stores>>

(* setActiveWorkspaceId(), without its inspector's queries.                *)
WorkspaceChosen(w) ==
    /\ renewals < MaxRenewals /\ w # active
    /\ renewals' = renewals + 1 /\ active' = w /\ stale' = TRUE
    /\ UNCHANGED <<gateway, queue, asked, link, signedIn, closure, stores>>

(* applyDashboardMessage(), as far as it is about the tunnel store.        *)
ShownAfter(msg) ==
    CASE msg.type = "tunnel_connected" -> shown \cup {msg.tunnel}
      [] msg.type = "tunnel_disconnected" -> shown \ {msg.tunnel}
      [] OTHER -> shown

(* A message reaches the handlers of its client.                           *)
MessageHandled(s) ==
    /\ s \in heard /\ link[s] = "open" /\ queue[s] # <<>>
    /\ queue' = [queue EXCEPT ![s] = Tail(@)]
    /\ LET msg == Head(queue[s]) IN
       /\ status' = IF msg.type = "connected" THEN "connected" ELSE status
       /\ shown' = ShownAfter(msg)
    /\ UNCHANGED <<gateway, asked, link, auth, stale, closure, online>>

-----------------------------------------------------------------------------
Next ==
    \/ \E t \in Tunnels : TunnelCreated(t) \/ TunnelClosed(t)
    \/ \E s \in Sockets : Resolved(s) \/ Refused(s) \/ Disconnected(s)
    \/ EffectRuns \/ TimerFires \/ ReconnectNow \/ Offline \/ SessionReplaced
    \/ \E kind \in {"plain", "forced"} : TokenArrives(kind) \/ TokenRefused(kind)
    \/ \E s \in Sockets : Opened(s) \/ Closed(s) \/ MessageHandled(s)
    \/ \E w \in Workspaces : WorkspaceChosen(w)

(* React runs pending effects, promises settle, timers fire, sockets that  *)
(* are being opened open or close, and a browser that lost its network     *)
(* gets it back. A tab that tries again and again is let in at some time.  *)
Fairness ==
    /\ WF_vars(EffectRuns) /\ WF_vars(TimerFires)
    /\ WF_vars(~online /\ ReconnectNow)
    /\ \A kind \in {"plain", "forced"} : WF_vars(TokenArrives(kind) \/ TokenRefused(kind))
    /\ \A s \in Sockets : /\ WF_vars(link[s] = "connecting" /\ (Opened(s) \/ Closed(s)))
                          /\ WF_vars(readable[s] = "closed" /\ Closed(s))
    /\ SF_vars(\E s \in Sockets : Opened(s))

Spec == Init /\ [][Next]_vars /\ Fairness

-----------------------------------------------------------------------------
(* Whatever is under way to a socket is about the workspace the socket was *)
(* admitted to, and anonymous tunnels reach nobody, also after sessions,   *)
(* workspaces and sockets were replaced: broadcast() and its two tables.   *)
ScopedFeed ==
    \A s \in Sockets : \A i \in DOMAIN queue[s] :
        queue[s][i].type # "connected" => WorkspaceOf[queue[s][i].tunnel] = asked[s]

(* The gateway keeps no socket that is closed, whenever its context was    *)
(* resolved, and each client has its scope: handleConnection(),            *)
(* handleDisconnect() and send() agree.                                    *)
ClientsAreOpen ==
    \A s \in Sockets :
        /\ s \in clients => readable[s] = "open" /\ scope[s] = asked[s]
        /\ s \notin clients => scope[s] = None

(* A tab that stays signed in is connected again and again, whatever it    *)
(* loses and however often.                                                *)
Reconnects == <>[]signedIn => []<>(status = "connected")

(* docs/dashboard.md:465 and apply-dashboard-message.ts:73: a tab that had *)
(* a connection before refetches the inspector's data when it has one anew.*)
ResyncedAfterReconnect ==
    [][\A s \in Sockets :
          /\ s = client /\ link[s] = "connecting" /\ link'[s] = "open"
          /\ \E x \in Sockets : readable[x] # "none" /\ link[x] = "closed"
          => Resyncs(s)]_vars
=============================================================================
