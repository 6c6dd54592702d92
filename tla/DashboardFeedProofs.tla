------------------------ MODULE DashboardFeedProofs -------------------------
(***************************************************************************)
(* Proofs about DashboardFeed, for every set of workspaces and tunnels and *)
(* every number of sockets: what the gateway's two tables and the queues   *)
(* promise while sockets are admitted, lost and replaced; and about what   *)
(* the dashboard's statistics page shows (TrafficStatistics), for every    *)
(* number of records, sources and codes, every window, bucket size and     *)
(* percentage: its figures, charts and insights add up.                    *)
(***************************************************************************)
EXTENDS DashboardFeed, TrafficStatistics, FiniteSetTheorems, WellFoundedInduction, TLAPS

(* A socket that connects is unknown to the server; and no socket is a client
   while its context is being resolved.  That is what makes ClientsAreOpen
   inductive.                                                               *)
Pristine ==
    \A s \in Sockets :
        /\ link[s] \in {"unused", "connecting"} => readable[s] = "none" /\ s \notin resolving
        /\ s \in resolving => s \notin clients

IInv == TypeOK /\ Pristine /\ ScopedFeed /\ ClientsAreOpen

serverVars == <<readable, resolving, clients, scope>>

LEMMA InitInv == Init => IInv
  <1> SUFFICES ASSUME Init PROVE IInv
    OBVIOUS
  <1> USE FeedAssumption DEF Init
  <1>1. TypeOK
    <2>1. queue \in [Sockets -> Seq(Messages)] /\ calls \in [{"plain", "forced"} -> Nat]
      BY DEF NoCalls
    <2>2. {signedIn, stale, timer, hadConnection, online} \subseteq BOOLEAN
      OBVIOUS
    <2>3. QED BY <2>1, <2>2 DEF TypeOK
  <1>2. Pristine /\ ClientsAreOpen
    BY DEF Pristine, ClientsAreOpen
  <1>3. ScopedFeed
    BY DEF ScopedFeed
  <1>4. QED BY <1>1, <1>2, <1>3 DEF IInv

-----------------------------------------------------------------------------
(* The server.                                                              *)

(* send() to clients whose scope is the message's workspace.                *)
LEMMA DeliverInv ==
    ASSUME IInv, NEW t \in Tunnels, NEW type \in {"tunnel_connected", "tunnel_disconnected"},
           Deliver(Message(type, t), Audience(WorkspaceOf[t])),
           tunnels' \subseteq Tunnels, created' \in 0..MaxTunnels,
           UNCHANGED <<readable, resolving, asked, link, auth, stale, closure, stores>>
    PROVE  IInv'
  <1> USE FeedAssumption
  <1> DEFINE msg == Message(type, t)
             to == Audience(WorkspaceOf[t])
  <1>1. msg \in Messages /\ msg.tunnel = t
    BY DEF Message, Messages
  <1>2. \A s \in to : s \in clients /\ s \in Sockets /\ readable[s] = "open"
                      /\ asked[s] = WorkspaceOf[t]
    BY DEF IInv, TypeOK, ClientsAreOpen, Audience
  <1>3. /\ queue' = [s \in Sockets |-> IF s \in to /\ link[s] = "open"
                                        THEN Append(queue[s], msg) ELSE queue[s]]
        /\ clients' = clients
        /\ scope' = [s \in Sockets |-> scope[s]]
    <2>1. {s \in to : readable[s] # "open"} = {}
      BY <1>2
    <2>2. QED BY <2>1 DEF Deliver
  <1>4. scope' = scope
    BY <1>3 DEF IInv, TypeOK
  <1>5. TypeOK'
    <2>1. queue' \in [Sockets -> Seq(Messages)]
      <3> HIDE DEF msg, to
      <3>1. \A s \in Sockets : queue[s] \in Seq(Messages) /\ Append(queue[s], msg) \in Seq(Messages)
        BY <1>1 DEF IInv, TypeOK
      <3>2. QED BY <1>3, <3>1
    <2>2. QED BY <1>3, <1>4, <2>1 DEF IInv, TypeOK, auth, closure, stores
  <1>6. Pristine'
    BY <1>2, <1>3 DEF IInv, Pristine
  <1>7. ScopedFeed'
    <2> SUFFICES ASSUME NEW s \in Sockets, NEW i \in DOMAIN queue'[s],
                        queue'[s][i].type # "connected"
                 PROVE  WorkspaceOf[queue'[s][i].tunnel] = asked[s]
      BY DEF ScopedFeed
    <2> HIDE DEF msg, to
    <2>1. CASE ~(s \in to /\ link[s] = "open")
      BY <1>3, <2>1 DEF IInv, ScopedFeed
    <2>2. CASE s \in to /\ link[s] = "open"
      <3>1. queue'[s] = Append(queue[s], msg) /\ queue[s] \in Seq(Messages)
        BY <1>3, <2>2 DEF IInv, TypeOK
      <3>2. \/ i \in DOMAIN queue[s] /\ queue'[s][i] = queue[s][i]
            \/ queue'[s][i] = msg
        BY <3>1
      <3>3. QED BY <1>1, <1>2, <2>2, <3>2 DEF IInv, ScopedFeed
    <2>3. QED BY <2>1, <2>2
  <1>8. ClientsAreOpen'
    BY <1>3, <1>4 DEF IInv, ClientsAreOpen
  <1>9. QED BY <1>5, <1>6, <1>7, <1>8 DEF IInv

LEMMA TunnelInv ==
    ASSUME IInv, NEW t \in Tunnels, TunnelCreated(t) \/ TunnelClosed(t)
    PROVE  IInv'
  <1>1. created' \in 0..MaxTunnels
    BY FeedAssumption DEF TunnelCreated, TunnelClosed, TunnelTurns, IInv, TypeOK
  <1>2. tunnels' \subseteq Tunnels
    BY DEF TunnelCreated, TunnelClosed, IInv, TypeOK
  <1>3. UNCHANGED <<readable, resolving, asked, link, auth, stale, closure, stores>>
    BY DEF TunnelCreated, TunnelClosed, TunnelTurns
  <1>4. QED BY <1>1, <1>2, <1>3, DeliverInv DEF TunnelCreated, TunnelClosed

(* What stands in a sequence beside an appended element stood there before.*)
LEMMA AppendElsewhere ==
    ASSUME NEW S, NEW q \in Seq(S), NEW m \in S,
           NEW n \in DOMAIN Append(q, m), Append(q, m)[n] # m
    PROVE  n \in DOMAIN q /\ Append(q, m)[n] = q[n]
  <1>1. DOMAIN q = 1..Len(q) /\ DOMAIN Append(q, m) = 1..(Len(q) + 1) /\ Len(q) \in Nat
    OBVIOUS
  <1>2. \A k \in 1..Len(q) : Append(q, m)[k] = q[k]
    OBVIOUS
  <1>3. Append(q, m)[Len(q) + 1] = m
    OBVIOUS
  <1>4. QED BY <1>1, <1>2, <1>3

LEMMA ResolvedInv ==
    ASSUME IInv, NEW s \in Sockets, Resolved(s)
    PROVE  IInv'
  <1> USE FeedAssumption
  <1>1. /\ s \in resolving /\ resolving' = resolving \ {s}
        /\ UNCHANGED <<tunnels, created, readable, asked, link, auth, stale, closure, stores>>
    BY DEF Resolved
  <1>2. CASE readable[s] = "open"
    <2>1. /\ clients' = clients \cup {s}
          /\ scope' = [scope EXCEPT ![s] = asked[s]]
          /\ queue' = IF link[s] = "open"
                      THEN [queue EXCEPT ![s] = Append(@, Message("connected", None))]
                      ELSE queue
      BY <1>2 DEF Resolved
    <2>2. Message("connected", None) \in Messages /\ Message("connected", None).type = "connected"
      BY DEF Message, Messages
    <2>3. queue[s] \in Seq(Messages)
      BY DEF IInv, TypeOK
    <2>4. /\ queue'[s] \in {queue[s], Append(queue[s], Message("connected", None))}
          /\ queue' \in [Sockets -> Seq(Messages)]
          /\ \A x \in Sockets : x # s => queue'[x] = queue[x]
      BY <2>1, <2>2, <2>3 DEF IInv, TypeOK
    <2>5. TypeOK'
      BY <1>1, <2>1, <2>4 DEF IInv, TypeOK, auth, closure, stores
    <2>6. Pristine'
      BY <1>1, <1>2, <2>1, <2>4 DEF IInv, Pristine
    <2>7. ScopedFeed'
      <3> SUFFICES ASSUME NEW x \in Sockets, NEW i \in DOMAIN queue'[x],
                          queue'[x][i].type # "connected"
                   PROVE  WorkspaceOf[queue'[x][i].tunnel] = asked[x]
        BY <1>1 DEF ScopedFeed
      <3>1. i \in DOMAIN queue[x] /\ queue'[x][i] = queue[x][i]
        <4>1. CASE x # s
          BY <2>4, <4>1
        <4>2. CASE x = s
          <5>1. CASE queue'[s] = queue[s]
            BY <4>2, <5>1
          <5>2. CASE queue'[s] = Append(queue[s], Message("connected", None))
            BY ONLY <2>2, <2>3, <4>2, <5>2, AppendElsewhere,
                    i \in DOMAIN queue'[x], queue'[x][i].type # "connected"
          <5>3. QED BY <2>4, <5>1, <5>2
        <4>3. QED BY <4>1, <4>2
      <3>2. QED BY <3>1 DEF IInv, ScopedFeed
    <2>8. ClientsAreOpen'
      BY <1>1, <1>2, <2>1 DEF IInv, TypeOK, ClientsAreOpen
    <2>9. QED BY <2>5, <2>6, <2>7, <2>8 DEF IInv
  <1>3. CASE readable[s] # "open"
    <2>1. /\ clients' = clients \ {s}
          /\ scope' = [scope EXCEPT ![s] = None]
          /\ queue' = queue
      BY <1>3 DEF Resolved
    <2>2. TypeOK'
      BY <1>1, <2>1 DEF IInv, TypeOK, auth, closure, stores
    <2>3. Pristine' /\ ClientsAreOpen'
      BY <1>1, <2>1 DEF IInv, TypeOK, Pristine, ClientsAreOpen
    <2>4. ScopedFeed'
      BY <1>1, <2>1 DEF IInv, ScopedFeed
    <2>5. QED BY <2>2, <2>3, <2>4 DEF IInv
  <1>4. QED BY <1>2, <1>3

LEMMA LossInv ==
    ASSUME IInv, NEW s \in Sockets, Refused(s) \/ Disconnected(s)
    PROVE  IInv'
  <1> USE FeedAssumption DEF Refused, Disconnected
  <1>1. UNCHANGED <<tunnels, created, queue, asked, link, auth, stale, closure, stores>>
    OBVIOUS
  <1>2. TypeOK'
    <2>1. /\ readable' \in [Sockets -> {"none", "open", "closed"}]
          /\ scope' \in [Sockets -> Workspaces \cup {None}]
      BY DEF IInv, TypeOK
    <2>2. resolving' \subseteq resolving /\ clients' \subseteq clients
      OBVIOUS
    <2> HIDE DEF Refused, Disconnected
    <2>3. QED BY <1>1, <2>1, <2>2 DEF IInv, TypeOK, auth, closure, stores
  <1>3. Pristine'
    BY DEF IInv, TypeOK, Pristine
  <1>4. ClientsAreOpen'
    BY DEF IInv, TypeOK, Pristine, ClientsAreOpen
  <1>5. ScopedFeed'
    BY <1>1 DEF IInv, ScopedFeed
  <1>6. QED BY <1>2, <1>3, <1>4, <1>5 DEF IInv

-----------------------------------------------------------------------------
(* The tab.  Its steps take messages out of queues, from the front or all at
   once.                                                                    *)
LEMMA TabInv ==
    ASSUME IInv, TypeOK', UNCHANGED <<serverVars, asked>>,
           \A s \in Sockets :
              /\ link'[s] \in {"unused", "connecting"} => link[s] = link'[s]
              /\ queue'[s] \in {queue[s], <<>>} \/ (queue[s] # <<>> /\ queue'[s] = Tail(queue[s]))
    PROVE  IInv'
  <1> USE DEF serverVars
  <1>1. Pristine'
    BY DEF IInv, Pristine
  <1>2. ClientsAreOpen'
    BY DEF IInv, ClientsAreOpen
  <1>3. ScopedFeed'
    <2> SUFFICES ASSUME NEW s \in Sockets, NEW i \in DOMAIN queue'[s],
                        queue'[s][i].type # "connected"
                 PROVE  WorkspaceOf[queue'[s][i].tunnel] = asked[s]
      BY DEF ScopedFeed
    <2>1. queue[s] \in Seq(Messages)
      BY DEF IInv, TypeOK
    <2>2. \E j \in DOMAIN queue[s] : queue'[s][i] = queue[s][j]
      <3>1. CASE queue'[s] = queue[s]
        BY <3>1
      <3>2. CASE queue'[s] = <<>>
        BY <3>2
      <3>3. CASE queue[s] # <<>> /\ queue'[s] = Tail(queue[s])
        <4>1. i + 1 \in DOMAIN queue[s] /\ queue'[s][i] = queue[s][i + 1]
          BY <2>1, <3>3
        <4>2. QED BY <4>1
      <3>4. QED BY <3>1, <3>2, <3>3
    <2>3. QED BY <2>2 DEF IInv, ScopedFeed
  <1>4. QED BY <1>1, <1>2, <1>3 DEF IInv

(* connect(): the socket the effect knows is closed, and its queue with it. *)
LEMMA TornDownTypes ==
    ASSUME IInv, TornDown
    PROVE  /\ heard' \subseteq Sockets /\ client' = 0
           /\ link' \in [Sockets -> {"unused", "connecting", "open", "closed"}]
           /\ queue' \in [Sockets -> Seq(Messages)]
           /\ \A s \in Sockets : /\ link'[s] \in {link[s], "closed"}
                                 /\ queue'[s] \in {queue[s], <<>>}
  <1>1. \A s \in Sockets : queue[s] \in Seq(Messages) /\ <<>> \in Seq(Messages)
    BY DEF IInv, TypeOK
  <1>2. QED BY <1>1 DEF TornDown, IInv, TypeOK

LEMMA ReconnectInv ==
    ASSUME IInv, TimerFires \/ ReconnectNow
    PROVE  IInv'
  <1>1. /\ Connecting /\ timer' = FALSE
        /\ online' \in BOOLEAN
    BY DEF TimerFires, ReconnectNow, IInv, TypeOK
  <1>2. /\ TornDown
        /\ calls' = [calls EXCEPT !["forced"] = @ + 1]
        /\ status' = "connecting"
        /\ mine' \subseteq mine
        /\ UNCHANGED <<gateway, asked, auth, stale, home, hadConnection, shown>>
    BY <1>1 DEF Connecting
  <1>3. calls' \in [{"plain", "forced"} -> Nat]
    BY <1>2 DEF IInv, TypeOK
  <1>4. TypeOK'
    BY <1>1, <1>2, <1>3, TornDownTypes DEF IInv, TypeOK, gateway, auth
  <1>5. QED BY <1>2, <1>4, TornDownTypes, TabInv DEF serverVars, gateway

LEMMA EffectInv ==
    ASSUME IInv, EffectRuns
    PROVE  IInv'
  <1>1. /\ TornDown
        /\ mine' = {} /\ timer' = FALSE /\ hadConnection' = FALSE /\ stale' = FALSE
        /\ home' \in Workspaces \cup {None}
        /\ shown' \subseteq Tunnels
        /\ status' \in {"idle", "connecting"}
        /\ UNCHANGED <<gateway, asked, auth, online>>
    BY DEF EffectRuns, ClearedFor, IInv, TypeOK
  <1>2. calls' \in [{"plain", "forced"} -> Nat]
    BY DEF EffectRuns, NoCalls
  <1>3. TypeOK'
    BY <1>1, <1>2, TornDownTypes DEF IInv, TypeOK, gateway, auth
  <1>4. QED BY <1>1, <1>3, TornDownTypes, TabInv DEF serverVars, gateway

LEMMA TokenInv ==
    ASSUME IInv, NEW kind \in {"plain", "forced"}, TokenArrives(kind) \/ TokenRefused(kind)
    PROVE  IInv'
  <1>1. calls' \in [{"plain", "forced"} -> Nat]
    BY DEF TokenArrives, TokenRefused, IInv, TypeOK
  <1>2. CASE TokenArrives(kind)
    <2>1. PICK s \in Sockets : Attached(s)
      BY <1>2 DEF TokenArrives
    <2>2. /\ readable[s] # "open" /\ s \notin resolving
          /\ link' = [link EXCEPT ![s] = "connecting"]
          /\ readable' = [readable EXCEPT ![s] = "none"]
          /\ queue' = [queue EXCEPT ![s] = <<>>]
          /\ asked' = [asked EXCEPT ![s] = home]
          /\ client' = s /\ mine' = mine \cup {s} /\ heard' = heard \cup {s}
      BY <2>1 DEF Attached, Free
    <2>3. /\ stale' \in BOOLEAN
          /\ UNCHANGED <<tunnels, created, resolving, clients, scope, auth, home, timer,
                         hadConnection, stores>>
      BY <1>2 DEF TokenArrives
    <2>4. TypeOK'
      <3>1. queue' \in [Sockets -> Seq(Messages)]
        BY <2>2 DEF IInv, TypeOK
      <3>2. QED BY <1>1, <2>2, <2>3, <3>1 DEF IInv, TypeOK, auth, stores
    <2>5. Pristine'
      BY <2>2, <2>3 DEF IInv, TypeOK, Pristine
    <2>6. ClientsAreOpen'
      BY <2>2, <2>3 DEF IInv, TypeOK, ClientsAreOpen
    <2>7. ScopedFeed'
      BY <2>2 DEF IInv, TypeOK, ScopedFeed
    <2>8. QED BY <2>4, <2>5, <2>6, <2>7 DEF IInv
  <1>3. CASE TokenRefused(kind)
    <2>1. /\ signedIn' = FALSE /\ stale' = TRUE /\ status' = "idle"
          /\ UNCHANGED <<gateway, queue, asked, link, active, renewals, home, mine, client, heard,
                         timer, hadConnection, online, shown>>
      BY <1>3 DEF TokenRefused
    <2>2. TypeOK'
      BY <1>1, <2>1 DEF IInv, TypeOK, gateway
    <2>3. QED BY <2>1, <2>2, TabInv DEF serverVars, gateway
  <1>4. QED BY <1>2, <1>3

LEMMA OpenedInv ==
    ASSUME IInv, NEW s \in Sockets, Opened(s)
    PROVE  IInv'
  <1>1. /\ link[s] = "connecting"
        /\ link' = [link EXCEPT ![s] = "open"]
        /\ readable' = [readable EXCEPT ![s] = "open"]
        /\ resolving' = resolving \cup {s}
        /\ status' = "connected"
        /\ UNCHANGED <<tunnels, created, clients, scope, queue, asked, auth, stale, home, mine,
                       client, heard, calls, timer, online, shown>>
    BY DEF Opened, OnOpen
  <1>2. hadConnection' \in BOOLEAN
    BY DEF Opened, OnOpen
  <1>3. readable[s] = "none" /\ s \notin clients
    BY <1>1 DEF IInv, Pristine, ClientsAreOpen
  <1>4. TypeOK'
    BY <1>1, <1>2 DEF IInv, TypeOK, auth
  <1>5. Pristine' /\ ClientsAreOpen'
    BY <1>1, <1>3 DEF IInv, TypeOK, Pristine, ClientsAreOpen
  <1>6. ScopedFeed'
    BY <1>1 DEF IInv, ScopedFeed
  <1>7. QED BY <1>4, <1>5, <1>6 DEF IInv

LEMMA ClosedInv ==
    ASSUME IInv, NEW s \in Sockets, Closed(s)
    PROVE  IInv'
  <1>1. /\ link' = [link EXCEPT ![s] = "closed"]
        /\ queue' = [queue EXCEPT ![s] = <<>>]
        /\ heard' = heard \ {s} /\ mine' = mine \ {s}
        /\ timer' \in BOOLEAN /\ status' \in {"disconnected", status}
        /\ UNCHANGED <<gateway, asked, auth, stale, home, client, calls, hadConnection,
                       online, shown>>
    BY DEF Closed, OnClose
  <1>2. <<>> \in Seq(Messages)
    OBVIOUS
  <1>3. TypeOK'
    BY <1>1, <1>2 DEF IInv, TypeOK, gateway, auth
  <1>4. QED BY <1>1, <1>3, TabInv DEF serverVars, gateway, IInv, TypeOK

LEMMA MessageHandledInv ==
    ASSUME IInv, NEW s \in Sockets, MessageHandled(s)
    PROVE  IInv'
  <1> DEFINE msg == Head(queue[s])
  <1>1. /\ queue[s] # <<>> /\ queue[s] \in Seq(Messages)
        /\ queue' = [queue EXCEPT ![s] = Tail(@)]
        /\ status' = IF msg.type = "connected" THEN "connected" ELSE status
        /\ shown' = ShownAfter(msg)
        /\ UNCHANGED <<gateway, asked, link, auth, stale, closure, online>>
    BY DEF MessageHandled, IInv, TypeOK
  <1>2. msg \in Messages /\ Tail(queue[s]) \in Seq(Messages)
    BY <1>1
  <1> HIDE DEF msg
  <1>3. msg.type = "tunnel_connected" => msg.tunnel \in Tunnels
    BY <1>2 DEF Messages
  <1>4. shown' \subseteq Tunnels
    <2>1. shown \subseteq Tunnels
      BY DEF IInv, TypeOK
    <2>2. shown' \subseteq shown \/ (msg.type = "tunnel_connected" /\ shown' = shown \cup {msg.tunnel})
      BY <1>1 DEF ShownAfter
    <2>3. QED BY <1>3, <2>1, <2>2
  <1>5. queue' \in [Sockets -> Seq(Messages)]
    BY <1>1, <1>2 DEF IInv, TypeOK
  <1>6. TypeOK'
    BY <1>1, <1>4, <1>5 DEF IInv, TypeOK, gateway, auth, closure
  <1>7. QED BY <1>1, <1>6, TabInv DEF serverVars, gateway, IInv, TypeOK

LEMMA OtherInv ==
    ASSUME IInv,
           \/ Offline \/ SessionReplaced \/ UNCHANGED vars
           \/ \E w \in Workspaces : WorkspaceChosen(w)
    PROVE  IInv'
  <1>1. UNCHANGED <<gateway, queue, asked, link, closure>>
    BY DEF Offline, SessionReplaced, WorkspaceChosen, vars
  <1>2. /\ active' \in Workspaces /\ renewals' \in 0..MaxRenewals
        /\ status' \in {"disconnected", status} /\ shown' = shown
    BY FeedAssumption
    DEF IInv, TypeOK, auth, stores, vars, Offline, SessionReplaced, WorkspaceChosen
  <1>3. signedIn' \in BOOLEAN /\ stale' \in BOOLEAN /\ online' \in BOOLEAN
    BY DEF IInv, TypeOK, auth, stores, vars, Offline, SessionReplaced, WorkspaceChosen
  <1>4. TypeOK'
    BY <1>1, <1>2, <1>3 DEF IInv, TypeOK, gateway, closure
  <1>5. QED BY <1>1, <1>4, TabInv DEF serverVars, gateway

-----------------------------------------------------------------------------
LEMMA NextInv == IInv /\ [Next]_vars => IInv'
  <1> SUFFICES ASSUME IInv, [Next]_vars PROVE IInv'
    OBVIOUS
  <1>1. CASE Next
    BY <1>1, TunnelInv, ResolvedInv, LossInv, EffectInv, ReconnectInv, TokenInv, OpenedInv,
       ClosedInv, MessageHandledInv, OtherInv DEF Next
  <1>2. QED BY <1>1, OtherInv

LEMMA Invariance == Spec => []IInv
  <1>1. QED BY InitInv, NextInv, PTL DEF Spec

(* The variables of the gateway and of the tab keep their types.            *)
THEOREM FeedTypeCorrect == Spec => []TypeOK
  <1>1. IInv => TypeOK
    BY DEF IInv
  <1>2. QED BY <1>1, Invariance, PTL

(* Nothing of another workspace, and nothing anonymous, is ever under way to
   a socket, whatever sessions, workspaces and sockets came before.         *)
THEOREM EventsStayInScope == Spec => []ScopedFeed
  <1>1. IInv => ScopedFeed
    BY DEF IInv
  <1>2. QED BY <1>1, Invariance, PTL

(* The gateway's tables hold open sockets only, with the scope they asked
   for, whether a socket closed before or after it was admitted.            *)
THEOREM GatewayKeepsOpenClients == Spec => []ClientsAreOpen
  <1>1. IInv => ClientsAreOpen
    BY DEF IInv
  <1>2. QED BY <1>1, Invariance, PTL

-----------------------------------------------------------------------------
(* Sums over finite sets, as SumFunctionOnSet folds them, and the lists that
   Ordered makes: lemmas for the statistics below.  They go by induction over
   the subsets of a set, which goes by a least counterexample.             *)

LEMMA LeastNumber ==
    ASSUME NEW N \in SUBSET Nat, N # {}
    PROVE  \E n \in N : \A m \in N : n <= m
  <1> DEFINE R == OpToRel(<, Nat)
  <1>1. IsWellFoundedOn(R, Nat)
    BY NatLessThanWellFounded
  <1>2. \A m, n \in Nat : <<m, n>> \in R <=> m < n
    BY DEF OpToRel
  <1> HIDE DEF R
  <1>3. PICK n \in N : \A m \in N : <<m, n>> \notin R
    BY <1>1, WFMin
  <1>4. ASSUME NEW m \in N PROVE n <= m
    <2>1. ~(m < n)
      BY <1>2, <1>3
    <2>2. QED BY <2>1
  <1>5. QED BY <1>4

(* Of the subsets outside a set of subsets, one has no smaller one.        *)
LEMMA LeastSubset ==
    ASSUME NEW S, IsFiniteSet(S), NEW Bad \in SUBSET SUBSET S, Bad # {}
    PROVE  \E T \in Bad : \A x \in T : T \ {x} \notin Bad
  <1> DEFINE N == {Cardinality(T) : T \in Bad}
  <1>1. \A T \in SUBSET S : IsFiniteSet(T) /\ Cardinality(T) \in Nat
    BY FS_Subset, FS_CardinalityType
  <1>2. N # {} /\ N \in SUBSET Nat
    BY <1>1
  <1>3. PICK n \in N : \A m \in N : n <= m
    BY <1>2, LeastNumber
  <1>4. PICK T \in Bad : Cardinality(T) = n
    BY <1>3
  <1>5. ASSUME NEW x \in T, T \ {x} \in Bad PROVE FALSE
    <2>1. Cardinality(T \ {x}) = n - 1 /\ n \in Nat
      BY <1>1, <1>4, FS_RemoveElement
    <2>2. n - 1 \in N
      BY <1>5, <2>1
    <2>3. ~(n <= n - 1)
      BY <2>1
    <2>4. QED BY <1>3, <2>2, <2>3
  <1>6. QED BY <1>5

(* What {} has, and one element more keeps, a finite set has.              *)
LEMMA SetInduction ==
    ASSUME NEW S, IsFiniteSet(S), NEW Good, {} \in Good,
           \A T \in SUBSET S : \A x \in S \ T : T \in Good => T \cup {x} \in Good
    PROVE  S \in Good
  <1> DEFINE Bad == {T \in SUBSET S : T \notin Good}
  <1> SUFFICES ASSUME S \notin Good PROVE FALSE
    OBVIOUS
  <1>1. PICK T \in Bad : \A x \in T : T \ {x} \notin Bad
    <2>1. S \in Bad /\ Bad \in SUBSET SUBSET S
      OBVIOUS
    <2> HIDE DEF Bad
    <2>2. QED BY <2>1, LeastSubset
  <1>2. PICK x \in T : TRUE
    OBVIOUS
  <1>3. T \ {x} \in Good /\ T \ {x} \in SUBSET S /\ x \in S \ (T \ {x})
    BY <1>1
  <1>4. (T \ {x}) \cup {x} = T
    OBVIOUS
  <1>5. QED BY <1>3, <1>4

(* g computes the sums of f over the subsets of S, one element at a time.   *)
Summing(f, S, g) ==
    g = [T \in SUBSET S |->
            IF T = {} THEN 0
            ELSE f[CHOOSE x \in T : TRUE] + g[T \ {CHOOSE x \in T : TRUE}]]

(* There is such a function, and one sum.                                  *)
LEMMA SummingExists ==
    ASSUME NEW f, NEW S, IsFiniteSet(S)
    PROVE  \E g : Summing(f, S, g)
  <1> DEFINE Some(T) == CHOOSE x \in T : TRUE
             D(n) == {T \in SUBSET S : Cardinality(T) <= n}
             Sol(n, g) == g = [T \in D(n) |-> IF T = {} THEN 0 ELSE f[Some(T)] + g[T \ {Some(T)}]]
             P == {n \in Nat : \E g : Sol(n, g)}
  <1>1. \A T \in SUBSET S : IsFiniteSet(T) /\ Cardinality(T) \in Nat
    BY FS_Subset, FS_CardinalityType
  <1>2. 0 \in P
    <2> DEFINE g == [T \in D(0) |-> 0]
    <2>1. \A T \in D(0) : T = {}
      BY <1>1, FS_EmptySet
    <2>2. Sol(0, g)
      BY <2>1
    <2>3. QED BY <2>2
  <1>3. ASSUME NEW n \in P PROVE n + 1 \in P
    <2>1. n \in Nat
      OBVIOUS
    <2>2. PICK g : Sol(n, g)
      OBVIOUS
    <2> DEFINE h == [T \in D(n + 1) |-> IF T = {} THEN 0 ELSE f[Some(T)] + g[T \ {Some(T)}]]
    <2>3. \A T \in D(n) : T \in D(n + 1)
      BY <1>1, <2>1
    <2>4. \A T \in D(n) : h[T] = g[T]
      BY <2>2, <2>3
    <2>5. ASSUME NEW T \in D(n + 1), T # {} PROVE T \ {Some(T)} \in D(n)
      <3>1. Some(T) \in T
        BY <2>5
      <3>2. Cardinality(T \ {Some(T)}) = Cardinality(T) - 1 /\ Cardinality(T) \in Nat
        BY <1>1, <3>1, FS_RemoveElement
      <3>3. QED BY <2>1, <2>5, <3>2
    <2>6. /\ DOMAIN h = D(n + 1) /\ h = [T \in DOMAIN h |-> h[T]]
          /\ \A T \in D(n + 1) : h[T] = IF T = {} THEN 0 ELSE f[Some(T)] + g[T \ {Some(T)}]
      OBVIOUS
    <2> HIDE DEF h
    <2>7. ASSUME NEW T \in D(n + 1)
          PROVE  h[T] = IF T = {} THEN 0 ELSE f[Some(T)] + h[T \ {Some(T)}]
      <3> HIDE DEF D, Some
      <3>1. CASE T = {}
        BY <2>6, <3>1
      <3>2. CASE T # {}
        <4>1. h[T \ {Some(T)}] = g[T \ {Some(T)}]
          BY <2>4, <2>5, <3>2
        <4>2. QED BY <2>6, <3>2, <4>1
      <3>3. QED BY <3>1, <3>2
    <2>8. Sol(n + 1, h)
      <3> HIDE DEF D, Some
      <3>1. QED BY <2>6, <2>7
    <2>9. \E k : Sol(n + 1, k)
      <3> HIDE DEF Sol
      <3>1. QED BY <2>8
    <2>10. n + 1 \in Nat
      BY <2>1
    <2> HIDE DEF Sol
    <2>11. QED BY <2>9, <2>10
  <1> HIDE DEF P
  <1>4. Cardinality(S) \in P
    <2> DEFINE N == Nat \ P
    <2>1. SUFFICES ASSUME N # {} PROVE FALSE
      BY <1>1
    <2>2. PICK n \in N : \A m \in N : n <= m
      BY <2>1, LeastNumber
    <2>3. n # 0 /\ n \in Nat
      BY <1>2
    <2>4. n - 1 \in Nat /\ n - 1 \notin N /\ n - 1 + 1 = n
      BY <2>2, <2>3
    <2>5. QED BY <1>3, <2>2, <2>4
  <1>5. D(Cardinality(S)) = SUBSET S
    BY FS_Subset
  <1>6. PICK g : Sol(Cardinality(S), g)
    BY <1>4 DEF P
  <1>7. Summing(f, S, g)
    BY <1>5, <1>6 DEF Summing
  <1>8. QED BY <1>7

LEMMA SummingAgrees ==
    ASSUME NEW f, NEW S, NEW U, IsFiniteSet(S), U \subseteq S,
           NEW g, Summing(f, S, g), NEW h, Summing(f, U, h)
    PROVE  g[U] = h[U]
  <1> DEFINE Bad == {T \in SUBSET U : g[T] # h[T]}
  <1> SUFFICES ASSUME g[U] # h[U] PROVE FALSE
    OBVIOUS
  <1>1. PICK T \in Bad : \A x \in T : T \ {x} \notin Bad
    <2>1. U \in Bad /\ Bad \in SUBSET SUBSET U
      OBVIOUS
    <2> HIDE DEF Bad
    <2>2. IsFiniteSet(U)
      BY FS_Subset
    <2>3. QED BY <2>1, <2>2, LeastSubset
  <1> DEFINE x == CHOOSE x \in T : TRUE
  <1>2. /\ g[T] = IF T = {} THEN 0 ELSE f[x] + g[T \ {x}]
        /\ h[T] = IF T = {} THEN 0 ELSE f[x] + h[T \ {x}]
    <2>1. T \in SUBSET S /\ T \in SUBSET U
      OBVIOUS
    <2>2. \A V \in SUBSET S : g[V] = IF V = {} THEN 0
             ELSE f[CHOOSE v \in V : TRUE] + g[V \ {CHOOSE v \in V : TRUE}]
      BY DEF Summing
    <2>3. \A V \in SUBSET U : h[V] = IF V = {} THEN 0
             ELSE f[CHOOSE v \in V : TRUE] + h[V \ {CHOOSE v \in V : TRUE}]
      BY DEF Summing
    <2>4. QED BY <2>1, <2>2, <2>3
  <1>3. x \in T
    BY <1>2
  <1>4. g[T \ {x}] = h[T \ {x}]
    BY <1>1, <1>3
  <1>5. QED BY <1>2, <1>4

LEMMA SumIsSumming ==
    ASSUME NEW f, NEW S, IsFiniteSet(S)
    PROVE  \E g : Summing(f, S, g) /\ SumFunctionOnSet(f, S) = g[S]
  <1> DEFINE iter == CHOOSE iter : iter =
                 [T \in SUBSET S |-> IF T = {} THEN 0
                     ELSE f[CHOOSE x \in T : TRUE] + iter[T \ {CHOOSE x \in T : TRUE}]]
  <1>1. PICK g : Summing(f, S, g)
    BY SummingExists
  <1>2. Summing(f, S, iter)
    BY <1>1 DEF Summing
  <1>3. SumFunctionOnSet(f, S) = iter[S]
    BY DEF SumFunctionOnSet, FoldFunctionOnSet, MapThenFoldSet
  <1>4. QED BY <1>2, <1>3

(* A sum, one element at a time.                                            *)
LEMMA SumStep ==
    ASSUME NEW f, NEW S, IsFiniteSet(S)
    PROVE  SumFunctionOnSet(f, S) =
             IF S = {} THEN 0
             ELSE f[CHOOSE x \in S : TRUE] + SumFunctionOnSet(f, S \ {CHOOSE x \in S : TRUE})
  <1> DEFINE x == CHOOSE x \in S : TRUE
             U == S \ {x}
  <1>1. PICK g : Summing(f, S, g) /\ SumFunctionOnSet(f, S) = g[S]
    BY SumIsSumming
  <1>2. IsFiniteSet(U) /\ U \subseteq S
    BY FS_Subset
  <1>3. PICK h : Summing(f, U, h) /\ SumFunctionOnSet(f, U) = h[U]
    BY <1>2, SumIsSumming
  <1>4. g[U] = h[U]
    BY <1>1, <1>2, <1>3, SummingAgrees
  <1>5. g[S] = IF S = {} THEN 0 ELSE f[x] + g[U]
    BY <1>1 DEF Summing
  <1>6. QED BY <1>1, <1>3, <1>4, <1>5

LEMMA SumEmpty == ASSUME NEW f PROVE SumFunctionOnSet(f, {}) = 0
  BY SumStep, FS_EmptySet

LEMMA SumInt ==
    ASSUME NEW S, IsFiniteSet(S), NEW f, \A x \in S : f[x] \in Int
    PROVE  SumFunctionOnSet(f, S) \in Int
  <1> DEFINE Bad == {T \in SUBSET S : SumFunctionOnSet(f, T) \notin Int}
  <1> SUFFICES ASSUME SumFunctionOnSet(f, S) \notin Int PROVE FALSE
    OBVIOUS
  <1>1. PICK T \in Bad : \A x \in T : T \ {x} \notin Bad
    <2>1. S \in Bad /\ Bad \in SUBSET SUBSET S
      OBVIOUS
    <2> HIDE DEF Bad
    <2>2. QED BY <2>1, LeastSubset
  <1> DEFINE x == CHOOSE x \in T : TRUE
  <1>2. SumFunctionOnSet(f, T) = IF T = {} THEN 0 ELSE f[x] + SumFunctionOnSet(f, T \ {x})
    BY FS_Subset, SumStep
  <1>3. x \in T
    BY <1>2
  <1>4. SumFunctionOnSet(f, T \ {x}) \in Int
    BY <1>1, <1>3
  <1>5. QED BY <1>2, <1>3, <1>4

(* Any element may be the one that is taken out.                            *)
LEMMA SumOut ==
    ASSUME NEW S, IsFiniteSet(S), NEW f, \A x \in S : f[x] \in Int, NEW x \in S
    PROVE  SumFunctionOnSet(f, S) = f[x] + SumFunctionOnSet(f, S \ {x})
  <1> DEFINE Sum(T) == SumFunctionOnSet(f, T)
             Fails(T) == \E y \in T : Sum(T) # f[y] + Sum(T \ {y})
             Bad == {T \in SUBSET S : Fails(T)}
  <1> SUFFICES ASSUME Fails(S) PROVE FALSE
    OBVIOUS
  <1>1. \A T \in SUBSET S : IsFiniteSet(T)
    BY FS_Subset
  <1>2. /\ \A T \in SUBSET S : Sum(T) \in Int
        /\ \A T \in SUBSET S :
              Sum(T) = IF T = {} THEN 0
                       ELSE f[CHOOSE y \in T : TRUE] + Sum(T \ {CHOOSE y \in T : TRUE})
    BY <1>1, SumInt, SumStep
  <1> HIDE DEF Sum
  <1>3. PICK T \in Bad : \A y \in T : T \ {y} \notin Bad
    <2>1. S \in Bad /\ Bad \in SUBSET SUBSET S
      OBVIOUS
    <2> HIDE DEF Bad
    <2>2. QED BY <2>1, LeastSubset
  <1>4. PICK y \in T : Sum(T) # f[y] + Sum(T \ {y})
    OBVIOUS
  <1> DEFINE z == CHOOSE z \in T : TRUE
  <1>5. z \in T /\ Sum(T) = f[z] + Sum(T \ {z})
    BY <1>2
  <1> HIDE DEF z
  <1>6. y # z
    BY <1>4, <1>5
  <1>7. \A v \in T : \A w \in T \ {v} : Sum(T \ {v}) = f[w] + Sum((T \ {v}) \ {w})
    BY <1>3
  <1>8. /\ Sum(T \ {z}) = f[y] + Sum((T \ {z}) \ {y})
        /\ Sum(T \ {y}) = f[z] + Sum((T \ {y}) \ {z})
        /\ (T \ {y}) \ {z} = (T \ {z}) \ {y}
    BY <1>5, <1>6, <1>7
  <1>9. f[y] \in Int /\ f[z] \in Int /\ Sum((T \ {z}) \ {y}) \in Int
    BY <1>2, <1>5
  <1> DEFINE c == Sum((T \ {z}) \ {y})
  <1>10. c \in Int /\ Sum(T \ {y}) = f[z] + c /\ Sum(T) = f[z] + (f[y] + c)
    BY <1>5, <1>8, <1>9
  <1> HIDE DEF c
  <1>11. Sum(T) = f[y] + Sum(T \ {y})
    BY <1>9, <1>10
  <1>12. QED BY <1>4, <1>11

LEMMA SumIn ==
    ASSUME NEW S, IsFiniteSet(S), NEW f, \A x \in S : f[x] \in Int,
           NEW T \in SUBSET S, NEW x \in S \ T
    PROVE  SumFunctionOnSet(f, T \cup {x}) = f[x] + SumFunctionOnSet(f, T)
  <1>1. IsFiniteSet(T \cup {x}) /\ (T \cup {x}) \ {x} = T /\ T \cup {x} \in SUBSET S
    BY FS_Subset
  <1>2. QED BY <1>1, SumOut

(* What is summed counts, not the function it comes from.                   *)
LEMMA SumSame ==
    ASSUME NEW S, IsFiniteSet(S), NEW f, NEW g, \A x \in S : f[x] \in Int /\ g[x] = f[x]
    PROVE  SumFunctionOnSet(f, S) = SumFunctionOnSet(g, S)
  <1> DEFINE Good == {T \in SUBSET S : SumFunctionOnSet(f, T) = SumFunctionOnSet(g, T)}
  <1>1. {} \in Good
    BY SumEmpty
  <1>2. ASSUME NEW T \in SUBSET S, NEW x \in S \ T, T \in Good PROVE T \cup {x} \in Good
    <2>1. \A y \in S : f[y] \in Int /\ g[y] \in Int
      OBVIOUS
    <2>2. SumFunctionOnSet(f, T \cup {x}) = f[x] + SumFunctionOnSet(f, T)
      BY <2>1, SumIn
    <2>3. SumFunctionOnSet(g, T \cup {x}) = g[x] + SumFunctionOnSet(g, T)
      BY <2>1, SumIn
    <2>4. QED BY <1>2, <2>2, <2>3
  <1> HIDE DEF Good
  <1>3. S \in Good
    BY <1>1, <1>2, SetInduction
  <1>4. QED BY <1>3 DEF Good

LEMMA SumOnes ==
    ASSUME NEW S, IsFiniteSet(S), NEW f, \A x \in S : f[x] = 1
    PROVE  SumFunctionOnSet(f, S) = Cardinality(S)
  <1> DEFINE Good == {T \in SUBSET S : SumFunctionOnSet(f, T) = Cardinality(T)}
  <1>1. {} \in Good
    BY SumEmpty, FS_EmptySet
  <1>2. ASSUME NEW T \in SUBSET S, NEW x \in S \ T, T \in Good PROVE T \cup {x} \in Good
    <2>1. SumFunctionOnSet(f, T \cup {x}) = f[x] + SumFunctionOnSet(f, T)
      BY SumIn
    <2>2. Cardinality(T \cup {x}) = Cardinality(T) + 1 /\ Cardinality(T) \in Nat
      BY FS_Subset, FS_AddElement, FS_CardinalityType
    <2>3. QED BY <1>2, <2>1, <2>2
  <1> HIDE DEF Good
  <1>3. S \in Good
    BY <1>1, <1>2, SetInduction
  <1>4. QED BY <1>3 DEF Good

LEMMA SumScaled ==
    ASSUME NEW S, IsFiniteSet(S), NEW f, NEW g, NEW c \in Int,
           \A x \in S : f[x] \in Int /\ g[x] = c * f[x]
    PROVE  SumFunctionOnSet(g, S) = c * SumFunctionOnSet(f, S)
  <1> DEFINE Good == {T \in SUBSET S : SumFunctionOnSet(g, T) = c * SumFunctionOnSet(f, T)}
  <1>1. {} \in Good
    BY SumEmpty
  <1>2. ASSUME NEW T \in SUBSET S, NEW x \in S \ T, T \in Good PROVE T \cup {x} \in Good
    <2>1. \A y \in S : f[y] \in Int /\ g[y] \in Int
      OBVIOUS
    <2>2. SumFunctionOnSet(f, T \cup {x}) = f[x] + SumFunctionOnSet(f, T)
      BY <2>1, SumIn
    <2>3. SumFunctionOnSet(g, T \cup {x}) = g[x] + SumFunctionOnSet(g, T)
      BY <2>1, SumIn
    <2>4. SumFunctionOnSet(f, T) \in Int /\ f[x] \in Int
      BY <2>1, SumInt, FS_Subset
    <2>5. c * (f[x] + SumFunctionOnSet(f, T)) = c * f[x] + c * SumFunctionOnSet(f, T)
      BY <2>4
    <2>6. QED BY <1>2, <2>2, <2>3, <2>5
  <1> HIDE DEF Good
  <1>3. S \in Good
    BY <1>1, <1>2, SetInduction
  <1>4. QED BY <1>3 DEF Good

LEMMA SumMonotone ==
    ASSUME NEW S, IsFiniteSet(S), NEW f, NEW g,
           \A x \in S : f[x] \in Int /\ g[x] \in Int /\ f[x] <= g[x]
    PROVE  SumFunctionOnSet(f, S) <= SumFunctionOnSet(g, S)
  <1> DEFINE Good == {T \in SUBSET S : SumFunctionOnSet(f, T) <= SumFunctionOnSet(g, T)}
  <1>1. {} \in Good
    BY SumEmpty
  <1>2. ASSUME NEW T \in SUBSET S, NEW x \in S \ T, T \in Good PROVE T \cup {x} \in Good
    <2>1. \A y \in S : f[y] \in Int /\ g[y] \in Int
      OBVIOUS
    <2>2. SumFunctionOnSet(f, T \cup {x}) = f[x] + SumFunctionOnSet(f, T)
      BY <2>1, SumIn
    <2>3. SumFunctionOnSet(g, T \cup {x}) = g[x] + SumFunctionOnSet(g, T)
      BY <2>1, SumIn
    <2>4. /\ SumFunctionOnSet(f, T) \in Int /\ f[x] \in Int
          /\ SumFunctionOnSet(g, T) \in Int /\ g[x] \in Int
      BY <2>1, SumInt, FS_Subset
    <2>5. QED BY <1>2, <2>2, <2>3, <2>4
  <1> HIDE DEF Good
  <1>3. S \in Good
    BY <1>1, <1>2, SetInduction
  <1>4. QED BY <1>3 DEF Good

LEMMA SumZero ==
    ASSUME NEW S, IsFiniteSet(S), NEW f, \A x \in S : f[x] = 0
    PROVE  SumFunctionOnSet(f, S) = 0
  <1>1. SumFunctionOnSet(f, S) = 0 * SumFunctionOnSet(f, S)
    BY SumScaled
  <1>2. SumFunctionOnSet(f, S) \in Int
    BY SumInt
  <1>3. QED BY <1>1, <1>2

Group(S, h, g) == {x \in S : h[x] = g}

(* What is summed group by group sums up to the whole.                      *)
LEMMA SumGroups ==
    ASSUME NEW S, IsFiniteSet(S), NEW G, IsFiniteSet(G), NEW f, NEW h,
           \A x \in S : f[x] \in Int /\ h[x] \in G,
           NEW P, \A g \in G : P[g] = SumFunctionOnSet(f, Group(S, h, g))
    PROVE  SumFunctionOnSet(P, G) = SumFunctionOnSet(f, S)
  <1> DEFINE Part(T) == [g \in G |-> SumFunctionOnSet(f, Group(T, h, g))]
             Good == {T \in SUBSET S : SumFunctionOnSet(Part(T), G) = SumFunctionOnSet(f, T)}
  <1>1. ASSUME NEW T \in SUBSET S PROVE \A g \in G : Part(T)[g] \in Int
    <2>1. \A g \in G : Group(T, h, g) \in SUBSET S
      BY DEF Group
    <2>2. \A g \in G : IsFiniteSet(Group(T, h, g))
      BY <2>1, FS_Subset
    <2>3. QED BY <2>1, <2>2, SumInt
  <1>2. {} \in Good
    <2>1. ASSUME NEW g \in G PROVE Part({})[g] = 0
      <3>1. Group({}, h, g) = {}
        BY DEF Group
      <3>2. QED BY <3>1, SumEmpty
    <2> HIDE DEF Part
    <2>2. SumFunctionOnSet(Part({}), G) = 0
      BY <2>1, SumZero
    <2>3. QED BY <2>2, SumEmpty
  <1>3. ASSUME NEW T \in SUBSET S, NEW x \in S \ T, T \in Good PROVE T \cup {x} \in Good
    <2> DEFINE U == T \cup {x}
               a == h[x]
    <2>1. a \in G /\ U \in SUBSET S
      OBVIOUS
    <2>2. \A g \in G \ {a} : Group(U, h, g) = Group(T, h, g)
      BY DEF Group
    <2>3. \A g \in G \ {a} : Part(U)[g] = Part(T)[g]
      BY <2>2
    <2>4. Part(U)[a] = f[x] + Part(T)[a]
      <3>1. Group(U, h, a) = Group(T, h, a) \cup {x}
        BY DEF Group
      <3>2. Group(T, h, a) \in SUBSET S /\ x \in S \ Group(T, h, a)
        BY DEF Group
      <3>3. SumFunctionOnSet(f, Group(T, h, a) \cup {x})
              = f[x] + SumFunctionOnSet(f, Group(T, h, a))
        BY <3>2, SumIn
      <3>4. QED BY <2>1, <3>1, <3>3
    <2>5. \A g \in G : Part(U)[g] \in Int /\ Part(T)[g] \in Int
      BY <1>1, <2>1
    <2>6. SumFunctionOnSet(f, U) = f[x] + SumFunctionOnSet(f, T)
      BY SumIn
    <2>7. f[x] \in Int
      OBVIOUS
    <2>8. SumFunctionOnSet(Part(T), G) = SumFunctionOnSet(f, T)
      BY <1>3
    <2> HIDE DEF Part, a, U
    <2>9. IsFiniteSet(G \ {a}) /\ \A g \in G \ {a} : Part(T)[g] \in Int
      BY <2>5, FS_Subset
    <2>10. SumFunctionOnSet(Part(U), G) = Part(U)[a] + SumFunctionOnSet(Part(U), G \ {a})
      BY <2>1, <2>5, SumOut
    <2>11. SumFunctionOnSet(Part(T), G) = Part(T)[a] + SumFunctionOnSet(Part(T), G \ {a})
      BY <2>1, <2>5, SumOut
    <2>12. SumFunctionOnSet(Part(T), G \ {a}) = SumFunctionOnSet(Part(U), G \ {a})
      BY <2>3, <2>9, SumSame
    <2>13. SumFunctionOnSet(Part(T), G \ {a}) \in Int
      BY <2>9, SumInt
    <2>14. SumFunctionOnSet(Part(U), G) = f[x] + SumFunctionOnSet(Part(T), G)
      BY <2>1, <2>4, <2>5, <2>7, <2>10, <2>11, <2>12, <2>13
    <2>15. QED BY <2>1, <2>6, <2>8, <2>14 DEF U
  <1>4. S \in Good
    <2> HIDE DEF Good
    <2>1. QED BY <1>2, <1>3, SetInduction
  <1>5. SumFunctionOnSet(Part(S), G) = SumFunctionOnSet(f, S)
    BY <1>4
  <1>6. \A g \in G : P[g] = Part(S)[g]
    BY DEF Group
  <1>7. SumFunctionOnSet(Part(S), G) = SumFunctionOnSet(P, G)
    <2>1. \A g \in G : Part(S)[g] \in Int
      BY <1>1
    <2> HIDE DEF Part
    <2>2. QED BY <1>6, <2>1, SumSame
  <1>8. QED BY <1>5, <1>7

(* What is counted group by group makes the whole.                         *)
LEMMA CountGroups ==
    ASSUME NEW S, IsFiniteSet(S), NEW G, IsFiniteSet(G), NEW h, \A x \in S : h[x] \in G,
           NEW P, \A g \in G : P[g] = Cardinality(Group(S, h, g))
    PROVE  SumFunctionOnSet(P, G) = Cardinality(S)
  <1> DEFINE f == [x \in S |-> 1]
  <1>1. ASSUME NEW g \in G PROVE P[g] = SumFunctionOnSet(f, Group(S, h, g))
    <2>1. IsFiniteSet(Group(S, h, g)) /\ \A x \in Group(S, h, g) : f[x] = 1
      BY FS_Subset DEF Group
    <2> HIDE DEF f
    <2>2. SumFunctionOnSet(f, Group(S, h, g)) = Cardinality(Group(S, h, g))
      BY <2>1, SumOnes
    <2>3. QED BY <2>2
  <1>2. \A x \in S : f[x] \in Int /\ f[x] = 1
    OBVIOUS
  <1> HIDE DEF f
  <1>3. SumFunctionOnSet(P, G) = SumFunctionOnSet(f, S)
    BY <1>1, <1>2, SumGroups
  <1>4. QED BY <1>2, <1>3, SumOnes

LEMMA FiniteImage ==
    ASSUME NEW S, IsFiniteSet(S), NEW o
    PROVE  IsFiniteSet({o[x] : x \in S})
  <1> DEFINE I == {o[x] : x \in S}
             m == [x \in S |-> o[x]]
  <1>1. m \in Surjection(S, I)
    BY DEF Surjection
  <1> HIDE DEF m, I
  <1>2. IsFiniteSet(I)
    BY <1>1, FS_Surjection
  <1>3. QED BY <1>2 DEF I

Along(o, S, I) ==
    /\ \A x \in S : o[x] \in I
    /\ \A v \in I : \E x \in S : o[x] = v
    /\ \A x, y \in S : o[x] = o[y] => x = y

(* Summing along a list without repetitions.                                *)
LEMMA SumAlong ==
    ASSUME NEW S, IsFiniteSet(S), NEW I, NEW o, Along(o, S, I),
           NEW f, NEW g, \A x \in S : g[x] = f[o[x]] /\ g[x] \in Int
    PROVE  SumFunctionOnSet(g, S) = SumFunctionOnSet(f, I)
  <1> DEFINE Im(T) == {o[x] : x \in T}
             Good == {T \in SUBSET S : SumFunctionOnSet(g, T) = SumFunctionOnSet(f, Im(T))}
  <1>1. {} \in Good
    <2>1. Im({}) = {}
      OBVIOUS
    <2>2. QED BY <2>1, SumEmpty
  <1>2. IsFiniteSet(Im(S))
    BY FiniteImage
  <1>3. \A v \in Im(S) : f[v] \in Int
    OBVIOUS
  <1>4. ASSUME NEW T \in SUBSET S, NEW x \in S \ T, T \in Good PROVE T \cup {x} \in Good
    <2>1. Im(T \cup {x}) = Im(T) \cup {o[x]} /\ Im(T) \in SUBSET Im(S) /\ o[x] \in Im(S) \ Im(T)
      BY DEF Along
    <2> HIDE DEF Im
    <2>2. SumFunctionOnSet(f, Im(T) \cup {o[x]}) = f[o[x]] + SumFunctionOnSet(f, Im(T))
      BY <1>2, <1>3, <2>1, SumIn
    <2>3. SumFunctionOnSet(g, T \cup {x}) = g[x] + SumFunctionOnSet(g, T)
      BY SumIn
    <2>4. QED BY <1>4, <2>1, <2>2, <2>3
  <1>5. S \in Good
    <2> HIDE DEF Good
    <2>1. QED BY <1>1, <1>4, SetInduction
  <1>6. Im(S) = I
    BY DEF Along
  <1>7. QED BY <1>5, <1>6

Strict(R, S) ==
    /\ \A x \in S : <<x, x>> \notin R
    /\ \A x, y \in S : x = y \/ <<x, y>> \in R \/ <<y, x>> \in R
    /\ \A x, y, z \in S : <<x, y>> \in R /\ <<y, z>> \in R => <<x, z>> \in R

Below(R, S, x) == {y \in S : <<y, x>> \in R}

(* A strict order of a finite set has an element for every rank.            *)
LEMMA RankedBelow ==
    ASSUME NEW S, IsFiniteSet(S), NEW R, Strict(R, S)
    PROVE  /\ Cardinality(S) \in Nat
           /\ \A x \in S : Cardinality(Below(R, S, x)) + 1 \in 1..Cardinality(S)
           /\ \A x, y \in S : <<x, y>> \in R
                 => Cardinality(Below(R, S, x)) < Cardinality(Below(R, S, y))
  <1>1. Cardinality(S) \in Nat
    BY FS_CardinalityType
  <1>2. \A x \in S : IsFiniteSet(Below(R, S, x)) /\ Cardinality(Below(R, S, x)) \in Nat
    <2>1. \A x \in S : Below(R, S, x) \in SUBSET S
      BY DEF Below
    <2>2. QED BY <2>1, FS_Subset, FS_CardinalityType
  <1>3. ASSUME NEW x \in S PROVE Cardinality(Below(R, S, x)) + 1 \in 1..Cardinality(S)
    <2>1. Below(R, S, x) \in SUBSET S /\ x \notin Below(R, S, x)
      BY DEF Below, Strict
    <2>2. /\ Cardinality(Below(R, S, x)) <= Cardinality(S)
          /\ Cardinality(Below(R, S, x)) # Cardinality(S)
      BY <2>1, FS_Subset
    <2>3. QED BY <1>1, <1>2, <2>2
  <1>4. ASSUME NEW x \in S, NEW y \in S, <<x, y>> \in R
        PROVE  Cardinality(Below(R, S, x)) < Cardinality(Below(R, S, y))
    <2>1. Below(R, S, x) \in SUBSET Below(R, S, y)
      BY <1>4 DEF Below, Strict
    <2>2. x \in Below(R, S, y) /\ x \notin Below(R, S, x)
      BY <1>4 DEF Below, Strict
    <2>3. Below(R, S, x) # Below(R, S, y)
      BY <2>2
    <2>4. Cardinality(Below(R, S, x)) <= Cardinality(Below(R, S, y))
          /\ Cardinality(Below(R, S, x)) # Cardinality(Below(R, S, y))
      BY <1>2, <2>1, <2>3, FS_Subset
    <2>5. QED BY <1>2, <2>4
  <1>5. QED BY <1>1, <1>3, <1>4

(* The elements below each other have different ranks, and none is missed. *)
LEMMA RanksFilled ==
    ASSUME NEW S, IsFiniteSet(S), NEW R, Strict(R, S), NEW n \in 1..Cardinality(S)
    PROVE  \E x \in S : Cardinality(Below(R, S, x)) = n - 1
  <1> DEFINE c == Cardinality(S)
             rank == [x \in S |-> Cardinality(Below(R, S, x)) + 1]
  <1>1. /\ c \in Nat /\ rank \in [S -> 1..c]
        /\ \A x \in S : Cardinality(Below(R, S, x)) + 1 \in 1..c
        /\ \A x \in S : rank[x] = Cardinality(Below(R, S, x)) + 1
        /\ \A x, y \in S : <<x, y>> \in R
              => Cardinality(Below(R, S, x)) < Cardinality(Below(R, S, y))
    BY RankedBelow
  <1> HIDE DEF rank, c
  <1>2. \A x \in S : Cardinality(Below(R, S, x)) \in Int
    <2>1. ASSUME NEW x \in S PROVE Cardinality(Below(R, S, x)) \in Int
      <3>1. Below(R, S, x) \in SUBSET S
        BY DEF Below
      <3>2. QED BY <3>1, FS_Subset, FS_CardinalityType
    <2>2. QED BY <2>1
  <1>3. ASSUME NEW x \in S, NEW y \in S, rank[x] = rank[y] PROVE x = y
    <2>1. Cardinality(Below(R, S, x)) = Cardinality(Below(R, S, y))
      BY <1>1, <1>2, <1>3
    <2>2. <<x, y>> \notin R /\ <<y, x>> \notin R
      BY <1>1, <1>2, <2>1
    <2>3. QED BY <2>2 DEF Strict
  <1>4. rank \in Injection(S, 1..c)
    BY <1>1, <1>3 DEF Injection, IsInjective
  <1>5. IsFiniteSet(1..c) /\ Cardinality(1..c) = c
    BY <1>1, FS_Interval
  <1>6. rank \in Surjection(S, 1..c)
    BY <1>4, <1>5, FS_Injection DEF c
  <1>7. PICK x \in S : rank[x] = n
    BY <1>6 DEF Surjection, c
  <1>8. Cardinality(Below(R, S, x)) = n - 1
    BY <1>1, <1>2, <1>7
  <1>9. QED BY <1>8

LEMMA FunctionList ==
    ASSUME NEW S, NEW c \in Nat, NEW f \in [1..c -> S]
    PROVE  f \in Seq(S) /\ Len(f) = c
  OBVIOUS

(* A list that has the element of rank n at place n ...                     *)
Ranks(order, S, R) ==
    /\ DOMAIN order = 1..Cardinality(S) /\ order = [n \in DOMAIN order |-> order[n]]
    /\ \A n \in DOMAIN order : \A x \in S : Cardinality(Below(R, S, x)) = n - 1 =>
          order[n] \in S /\ Cardinality(Below(R, S, order[n])) = n - 1

(* ... holds every element once, and in order.                              *)
Lists(order, S, R) ==
    /\ Cardinality(S) \in Nat /\ order \in Seq(S) /\ Len(order) = Cardinality(S)
    /\ DOMAIN order = 1..Cardinality(S) /\ Along(order, 1..Cardinality(S), S)
    /\ \A n \in 1..Cardinality(S) : Cardinality(Below(R, S, order[n])) = n - 1
    /\ \A m, n \in 1..Cardinality(S) : <<order[m], order[n]>> \in R <=> m < n

(* What Ordered makes of a strict order lists every element once, in order.  *)
LEMMA OrderedList ==
    ASSUME NEW S, IsFiniteSet(S), NEW R, Strict(R, S), NEW order, Ranks(order, S, R)
    PROVE  Lists(order, S, R)
  <1> DEFINE c == Cardinality(S)
  <1>1. /\ c \in Nat
        /\ \A x \in S : Cardinality(Below(R, S, x)) + 1 \in 1..c
        /\ \A x, y \in S : <<x, y>> \in R
              => Cardinality(Below(R, S, x)) < Cardinality(Below(R, S, y))
    BY RankedBelow
  <1>2. ASSUME NEW n \in 1..c
        PROVE  order[n] \in S /\ Cardinality(Below(R, S, order[n])) = n - 1
    <2>1. \E x \in S : Cardinality(Below(R, S, x)) = n - 1
      BY RanksFilled
    <2>2. QED BY <2>1 DEF Ranks
  <1> HIDE DEF c
  <1>3. DOMAIN order = 1..c /\ order = [n \in 1..c |-> order[n]]
    BY DEF c, Ranks
  <1>4. order \in Seq(S) /\ Len(order) = c
    <2>1. order \in [1..c -> S]
      BY <1>2, <1>3
    <2>2. QED BY <1>1, <2>1, FunctionList
  <1>5. ASSUME NEW m \in 1..c, NEW n \in 1..c, order[m] = order[n] PROVE m = n
    <2>1. m - 1 = n - 1
      BY <1>2, <1>5
    <2>2. QED BY <1>1, <2>1
  <1>6. ASSUME NEW m \in 1..c, NEW n \in 1..c, <<order[m], order[n]>> \in R PROVE m < n
    <2>1. m - 1 < n - 1
      BY <1>1, <1>2, <1>6
    <2>2. QED BY <1>1, <2>1
  <1>7. ASSUME NEW m \in 1..c, NEW n \in 1..c, m < n PROVE <<order[m], order[n]>> \in R
    <2>1. order[m] \in S /\ order[n] \in S /\ order[m] # order[n] /\ ~(n < m)
      BY <1>1, <1>2, <1>5, <1>7
    <2>2. QED BY <1>6, <2>1 DEF Strict
  <1>8. ASSUME NEW x \in S PROVE \E n \in 1..c : order[n] = x
    <2> DEFINE k == Cardinality(Below(R, S, x))
    <2>1. k + 1 \in 1..c /\ k \in Int
      <3>1. Below(R, S, x) \in SUBSET S
        BY DEF Below
      <3>2. k \in Int
        BY <3>1, FS_Subset, FS_CardinalityType
      <3>3. QED BY <1>1, <3>2
    <2>2. Cardinality(Below(R, S, order[k + 1])) = k /\ order[k + 1] \in S
      BY <1>2, <2>1
    <2>3. <<order[k + 1], x>> \notin R /\ <<x, order[k + 1]>> \notin R
      BY <1>1, <2>1, <2>2
    <2>4. order[k + 1] = x
      BY <2>2, <2>3 DEF Strict
    <2>5. QED BY <2>1, <2>4
  <1>9. Along(order, 1..c, S)
    BY <1>2, <1>5, <1>8 DEF Along
  <1>10. QED BY <1>1, <1>2, <1>3, <1>4, <1>6, <1>7, <1>9 DEF c, Lists

-----------------------------------------------------------------------------
(* The statistics.  A record is no younger than the series that shows it, and
   has a latency exactly if it has a status: an answer brings both.        *)
Outcome  == [status : Codes \cup {Absent}, latency : 0..MaxTime \cup {Absent},
             failed : BOOLEAN]
Recorded == [at : 1..MaxTime, tunnel : TunnelsSeen, endpoint : Endpoints, outcome : Outcome]

Whole(outcome) == outcome.status = Absent <=> outcome.latency = Absent

StatisticsInv ==
    STypeOK /\ \A k \in DOMAIN records : records[k].at <= drawn /\ Whole(records[k].outcome)

LEMMA OpenOutcome ==
    LET failure == [Open EXCEPT !.failed = TRUE]
    IN  Open \in Outcome /\ failure \in Outcome /\ Whole(Open) /\ Whole(failure)
  <1>1. Open \in Outcome /\ Whole(Open)
    BY DEF Open, Outcome, Whole
  <1>2. \A o \in Outcome : /\ [o EXCEPT !.failed = TRUE] \in Outcome
                           /\ Whole(o) => Whole([o EXCEPT !.failed = TRUE])
    BY DEF Outcome, Whole
  <1>3. QED BY <1>1, <1>2

LEMMA RecordedAt == \A r \in Recorded : r.at \in 1..MaxTime /\ r.at \in Int
  <1>1. \A r \in Recorded : r.at \in 1..MaxTime
    BY DEF Recorded
  <1>2. 1..MaxTime \subseteq Int
    BY StatisticsAssumption
  <1>3. QED BY <1>1, <1>2

LEMMA InitStatistics == SInit => StatisticsInv
  <1> SUFFICES ASSUME SInit PROVE StatisticsInv
    OBVIOUS
  <1>1. << >> \in Seq(Recorded) /\ DOMAIN << >> = {}
    OBVIOUS
  <1>2. records \in Seq(Recorded) /\ DOMAIN records = {}
    BY <1>1 DEF SInit
  <1>3. now \in 1..MaxTime /\ drawn \in 1..now
    BY StatisticsAssumption DEF SInit
  <1>4. QED BY <1>2, <1>3 DEF StatisticsInv, STypeOK, Recorded, Outcome

LEMMA ReceivedStatistics ==
    ASSUME StatisticsInv, NEW source \in Sources, Received(source)
    PROVE  StatisticsInv'
  <1> DEFINE r == [at |-> now, tunnel |-> source.tunnel,
                   endpoint |-> <<source.method, source.path>>, outcome |-> Open]
             all == <<r>> \o records
             n == IF Len(records) < MaxRecords THEN Len(records) + 1 ELSE MaxRecords
  <1>1. /\ records \in Seq(Recorded) /\ now \in 1..MaxTime /\ drawn \in 1..now
        /\ \A k \in DOMAIN records : records[k].at <= drawn /\ Whole(records[k].outcome)
    BY DEF StatisticsInv, STypeOK, Recorded, Outcome
  <1>2. records' = SubSeq(all, 1, n) /\ drawn' = now /\ now' = now
    BY DEF Received
  <1>3. r \in Recorded /\ r.at = now /\ Whole(r.outcome)
    <2>1. source.tunnel \in TunnelsSeen
      BY DEF TunnelsSeen
    <2>2. <<source.method, source.path>> \in Endpoints
      BY DEF Endpoints
    <2>3. Open \in Outcome /\ Whole(Open)
      BY OpenOutcome
    <2>4. QED BY <1>1, <2>1, <2>2, <2>3 DEF Recorded
  <1> HIDE DEF r
  <1>4. \A k \in DOMAIN records : records[k] \in Recorded /\ records[k].at \in Int
    BY <1>1, RecordedAt
  <1>5. /\ all \in Seq(Recorded) /\ Len(all) = Len(records) + 1
        /\ \A k \in DOMAIN all : all[k] = r \/ \E j \in DOMAIN records : all[k] = records[j]
    BY <1>1, <1>3
  <1>6. \A k \in DOMAIN all : all[k].at <= now /\ Whole(all[k].outcome)
    BY <1>1, <1>3, <1>4, <1>5
  <1>7. n \in Nat /\ n <= Len(records) + 1
    BY <1>1, StatisticsAssumption
  <1> HIDE DEF all, n
  <1>8. /\ records' \in Seq(Recorded)
        /\ \A k \in DOMAIN records' : k \in DOMAIN all /\ records'[k] = all[k]
    BY <1>2, <1>5, <1>7
  <1>9. \A k \in DOMAIN records' : records'[k].at <= drawn' /\ Whole(records'[k].outcome)
    BY <1>2, <1>6, <1>8
  <1>10. STypeOK'
    BY <1>1, <1>2, <1>8 DEF STypeOK, Recorded, Outcome
  <1>11. QED BY <1>9, <1>10 DEF StatisticsInv

LEMMA ConcludedStatistics ==
    ASSUME StatisticsInv, NEW k \in DOMAIN records,
           NEW outcome \in Outcome, Whole(outcome), Concluded(k, outcome)
    PROVE  StatisticsInv'
  <1>1. /\ records \in Seq(Recorded) /\ now \in 1..MaxTime /\ drawn \in 1..now
        /\ \A j \in DOMAIN records : records[j].at <= drawn /\ Whole(records[j].outcome)
    BY DEF StatisticsInv, STypeOK, Recorded, Outcome
  <1>2. records' = [records EXCEPT ![k].outcome = outcome] /\ drawn' = now /\ now' = now
    BY DEF Concluded
  <1>3. ASSUME NEW j \in DOMAIN records
        PROVE  /\ records'[j] \in Recorded /\ records'[j].at = records[j].at
               /\ Whole(records'[j].outcome)
    <2>1. records[j] \in Recorded
      BY <1>1
    <2>2. records'[j] = IF j = k THEN [records[j] EXCEPT !.outcome = outcome] ELSE records[j]
      BY <1>2
    <2>3. [records[j] EXCEPT !.outcome = outcome] \in Recorded
      BY <2>1 DEF Recorded
    <2>4. /\ [records[j] EXCEPT !.outcome = outcome].at = records[j].at
          /\ [records[j] EXCEPT !.outcome = outcome].outcome = outcome
      BY <2>1 DEF Recorded
    <2>5. Whole(records[j].outcome)
      BY <1>1
    <2>6. QED BY <2>1, <2>2, <2>3, <2>4, <2>5
  <1>4. DOMAIN records' = DOMAIN records /\ records' \in Seq(Recorded)
    <2>1. DOMAIN records' = DOMAIN records /\ records' = [j \in DOMAIN records |-> records'[j]]
      BY <1>1, <1>2
    <2>2. DOMAIN records = 1..Len(records) /\ Len(records) \in Nat
      BY <1>1
    <2>3. QED BY <1>3, <2>1, <2>2
  <1>5. \A j \in DOMAIN records' : records'[j].at <= drawn' /\ Whole(records'[j].outcome)
    <2> SUFFICES ASSUME NEW j \in DOMAIN records
                 PROVE  records'[j].at <= drawn' /\ Whole(records'[j].outcome)
      BY <1>4
    <2>1. records[j].at \in Int /\ records[j].at <= drawn
      BY <1>1, RecordedAt
    <2>2. QED BY <1>1, <1>2, <1>3, <2>1
  <1>6. STypeOK'
    BY <1>1, <1>2, <1>4 DEF STypeOK, Recorded, Outcome
  <1>7. QED BY <1>5, <1>6 DEF StatisticsInv

LEMMA NextStatistics == StatisticsInv /\ [SNext]_svars => StatisticsInv'
  <1> SUFFICES ASSUME StatisticsInv, [SNext]_svars PROVE StatisticsInv'
    OBVIOUS
  <1>1. /\ records \in Seq(Recorded) /\ now \in 1..MaxTime /\ drawn \in 1..now
        /\ \A j \in DOMAIN records : records[j].at <= drawn /\ Whole(records[j].outcome)
    BY DEF StatisticsInv, STypeOK, Recorded, Outcome
  <1>2. CASE Tick \/ UNCHANGED svars
    <2>1. records' = records /\ drawn' = drawn /\ now' \in 1..MaxTime /\ drawn' \in 1..now'
      BY <1>1, <1>2, StatisticsAssumption DEF Tick, svars
    <2>2. QED BY <1>1, <2>1 DEF StatisticsInv, STypeOK, Recorded, Outcome
  <1>3. ASSUME NEW source \in Sources, Received(source) PROVE StatisticsInv'
    BY <1>3, ReceivedStatistics
  <1>4. ASSUME NEW k \in DOMAIN records, Failed(k) PROVE StatisticsInv'
    <2> DEFINE outcome == [Open EXCEPT !.failed = TRUE]
    <2>1. outcome \in Outcome /\ Whole(outcome) /\ Concluded(k, outcome)
      BY <1>4, OpenOutcome DEF Failed
    <2> HIDE DEF outcome
    <2>2. QED BY <2>1, ConcludedStatistics
  <1>5. ASSUME NEW k \in DOMAIN records, NEW code \in Codes, Returned(k, code)
        PROVE  StatisticsInv'
    <2> DEFINE outcome == [status |-> code, latency |-> now - records[k].at, failed |-> FALSE]
    <2>1. records[k].at \in 1..MaxTime /\ records[k].at <= drawn
      BY <1>1, RecordedAt
    <2>2. now - records[k].at \in 0..MaxTime
      BY <1>1, <2>1, StatisticsAssumption
    <2>3. outcome \in Outcome /\ Concluded(k, outcome)
      BY <1>5, <2>2 DEF Returned, Outcome
    <2>4. Whole(outcome)
      BY <2>2, StatisticsAssumption DEF Whole
    <2> HIDE DEF outcome
    <2>5. QED BY <2>3, <2>4, ConcludedStatistics
  <1>6. QED BY <1>2, <1>3, <1>4, <1>5 DEF SNext

-----------------------------------------------------------------------------
(* The arithmetic of the buckets and of the rank.                           *)
LEMMA Division ==
    ASSUME NEW n \in Int, NEW d \in Nat \ {0}
    PROVE  n \div d \in Int /\ d * (n \div d) <= n /\ n < d * (n \div d) + d
  OBVIOUS

(* percentileNearestRank(): for every percentage and number of samples the
   rank is a place of the sorted list.                                      *)
LEMMA RankInRange ==
    ASSUME NEW n \in Nat \ {0}
    PROVE  Ceiling(Percent * n, 100) \in 1..n
  BY StatisticsAssumption DEF Ceiling

(* What a request's bucket is to be, for a request that is charted.         *)
InItsBucket(at) ==
    LET b == BucketOf(at)
    IN  /\ b \in 1..BucketCount
        /\ SeriesStart + (b - 1) * Bucket <= at
        /\ b < BucketCount => at < SeriesStart + b * Bucket
        /\ b = BucketCount => at < SeriesEnd

LEMMA Aligned ==
    ASSUME drawn \in Nat
    PROVE  SeriesEnd \in Int /\ SeriesEnd >= drawn /\ SeriesEnd < drawn + Bucket
  <1>1. Bucket \in Nat \ {0}
    BY StatisticsAssumption
  <1> DEFINE q == (drawn + Bucket - 1) \div Bucket
  <1>2. /\ q \in Int /\ Bucket * q <= drawn + Bucket - 1
        /\ drawn + Bucket - 1 < Bucket * q + Bucket
    BY <1>1, Division
  <1>3. SeriesEnd = q * Bucket
    BY DEF SeriesEnd, AlignUp, Ceiling
  <1> HIDE DEF q
  <1>4. q * Bucket = Bucket * q /\ q * Bucket \in Int
    BY <1>1, <1>2
  <1>5. QED BY <1>1, <1>2, <1>3, <1>4

LEMMA BucketPlace ==
    ASSUME drawn \in Nat, NEW at \in Int, at >= SeriesStart, at < SeriesEnd
    PROVE  InItsBucket(at)
  <1>1. Bucket \in Nat \ {0} /\ Window \in Nat \ {0} /\ SeriesEnd \in Int
    BY StatisticsAssumption, Aligned
  <1>2. SeriesStart \in Int /\ SeriesEnd = SeriesStart + Window
    BY <1>1 DEF SeriesStart
  <1> DEFINE e == at - SeriesStart
             i == e \div Bucket
             c == BucketCount
  <1>3. e \in Nat /\ e < Window /\ at = SeriesStart + e
    BY <1>1, <1>2
  <1>4. BucketOf(at) = IF i + 1 > c THEN c ELSE i + 1
    BY DEF BucketOf
  <1> HIDE DEF e
  <1>5. i \in Int /\ Bucket * i <= e /\ e < Bucket * i + Bucket
    BY <1>1, <1>3, Division
  <1>6. i \in Nat
    BY <1>1, <1>3, <1>5
  <1>7. c \in Int /\ Bucket * c <= Window + Bucket - 1 /\ Window - 1 < Bucket * c
    <2>1. c = (Window + Bucket - 1) \div Bucket
      BY DEF BucketCount, Ceiling
    <2>2. /\ c \in Int /\ Bucket * c <= Window + Bucket - 1
          /\ Window + Bucket - 1 < Bucket * c + Bucket
      BY <1>1, <2>1, Division
    <2>3. Bucket * c \in Int
      BY <1>1, <2>2
    <2>4. QED BY <1>1, <2>2, <2>3
  <1>8. c >= 1
    BY <1>1, <1>7
  <1>9. at = SeriesStart + e
    BY <1>3
  <1> HIDE DEF i, c
  <1>10. CASE i + 1 > c
    <2>1. BucketOf(at) = c /\ c - 1 <= i
      BY <1>6, <1>7, <1>4, <1>10
    <2>2. (c - 1) * Bucket <= Bucket * i
      BY <1>1, <1>6, <1>7, <2>1
    <2>3. (c - 1) * Bucket \in Int /\ Bucket * i \in Int
      BY <1>1, <1>6, <1>7
    <2>4. (c - 1) * Bucket <= e
      BY <1>3, <1>5, <2>2, <2>3
    <2>5. QED BY <1>2, <1>3, <1>7, <1>8, <1>9, <2>1, <2>3, <2>4 DEF InItsBucket, c
  <1>11. CASE i + 1 <= c
    <2>1. BucketOf(at) = i + 1
      BY <1>6, <1>7, <1>4, <1>11
    <2>2. i * Bucket = Bucket * i /\ (i + 1) * Bucket = Bucket * i + Bucket /\ Bucket * i \in Int
      BY <1>1, <1>6
    <2>3. (i + 1) - 1 = i /\ i + 1 \in 1..c
      BY <1>6, <1>7, <1>11
    <2>4. i * Bucket <= e /\ e < (i + 1) * Bucket
      BY <1>1, <1>3, <1>5, <2>2
    <2>5. QED BY <1>1, <1>2, <1>3, <1>7, <1>9, <2>1, <2>2, <2>3, <2>4 DEF InItsBucket, c
  <1>12. QED BY <1>6, <1>7, <1>10, <1>11

(* Every record that the charts take in is counted in the bucket of its own
   time, and they take in all of the window but its first, partial bucket and
   the instant at which they were drawn.                                    *)
BucketsHold ==
    \A k \in DOMAIN records :
        LET at == records[k].at
        IN  /\ Charted(records[k]) => InItsBucket(at)
            /\ at > drawn - Window + Bucket - 1 /\ at < drawn => Charted(records[k])

LEMMA BucketsFollow == StatisticsInv => BucketsHold
  <1> SUFFICES ASSUME StatisticsInv, NEW k \in DOMAIN records
               PROVE  /\ Charted(records[k]) => InItsBucket(records[k].at)
                      /\ /\ records[k].at > drawn - Window + Bucket - 1
                         /\ records[k].at < drawn
                         => Charted(records[k])
    BY DEF BucketsHold
  <1>1. records \in Seq(Recorded) /\ drawn \in Nat
    BY StatisticsAssumption DEF StatisticsInv, STypeOK, Recorded, Outcome
  <1>2. records[k].at \in Int
    BY <1>1, RecordedAt
  <1>3. /\ SeriesEnd \in Int /\ SeriesEnd >= drawn /\ SeriesEnd < drawn + Bucket
        /\ SeriesStart = SeriesEnd - Window /\ Window \in Nat /\ Bucket \in Nat
    BY <1>1, Aligned, StatisticsAssumption DEF SeriesStart
  <1>4. Charted(records[k]) => InItsBucket(records[k].at)
    BY <1>1, <1>2, BucketPlace DEF Charted
  <1>5. /\ records[k].at > drawn - Window + Bucket - 1 /\ records[k].at < drawn
        => Charted(records[k])
    BY <1>1, <1>2, <1>3 DEF Charted
  <1>6. QED BY <1>4, <1>5

LEMMA StatisticsInvariant == SSpec => []StatisticsInv
  <1>1. SInit => StatisticsInv
    BY InitStatistics
  <1>2. StatisticsInv /\ [SNext]_svars => StatisticsInv'
    BY NextStatistics
  <1>3. QED BY <1>1, <1>2, PTL DEF SSpec

(* The records that the statistics are computed from keep their types.      *)
THEOREM StatisticsTypeCorrect == SSpec => []STypeOK
  <1>1. StatisticsInv => STypeOK
    BY DEF StatisticsInv
  <1>2. QED BY <1>1, StatisticsInvariant, PTL

(* For every window and bucket size, also those that do not divide it: no
   request is charted in a bucket of another time, and none that is recent
   enough is left out.                                                      *)
THEOREM RequestsInTheirBuckets == SSpec => []BucketsHold
  <1>1. StatisticsInv => BucketsHold
    BY BucketsFollow
  <1>2. QED BY <1>1, StatisticsInvariant, PTL

-----------------------------------------------------------------------------
(* Every place of samples by latency, ties by place.                        *)
LEMMA AscendingList ==
    ASSUME NEW samples, IsFiniteSet(DOMAIN samples), DOMAIN samples \in SUBSET Nat,
           \A k \in DOMAIN samples : samples[k] \in Nat
    PROVE  LET D == DOMAIN samples
               order == Ascending(samples)
           IN  /\ Cardinality(D) \in Nat /\ \A n \in 1..Cardinality(D) : order[n] \in D
               /\ \A n \in 1..Cardinality(D) :
                     /\ Cardinality({k \in D : samples[k] <= samples[order[n]]}) >= n
                     /\ \A v \in Nat : v < samples[order[n]] =>
                           Cardinality({k \in D : samples[k] <= v}) < n
  <1> DEFINE D == DOMAIN samples
             c == Cardinality(D)
             R == {p \in D \X D : \/ samples[p[1]] < samples[p[2]]
                                  \/ samples[p[1]] = samples[p[2]] /\ p[1] < p[2]}
             order == Ascending(samples)
             Under(x) == {y \in D : samples[y] < samples[x] \/ (samples[y] = samples[x] /\ y < x)}
  <1>1. \A j, k \in D : <<j, k>> \in R <=> \/ samples[j] < samples[k]
                                           \/ samples[j] = samples[k] /\ j < k
    OBVIOUS
  <1>2. Ranks(order, D, R)
    <2>1. \A x \in D : Below(R, D, x) = Under(x)
      BY <1>1 DEF Below
    <2>2. order = [n \in 1..c |-> CHOOSE x \in D : Cardinality(Under(x)) = n - 1]
      BY DEF Ascending, Ordered
    <2> HIDE DEF R, order, D, Under
    <2>3. QED BY <2>1, <2>2 DEF Ranks
  <1> HIDE DEF R
  <1>3. IsFiniteSet(D) /\ \A k \in D : k \in Nat /\ samples[k] \in Nat
    OBVIOUS
  <1> HIDE DEF D, order
  <1>4. Strict(R, D)
    <2>1. \A x \in D : <<x, x>> \notin R
      BY <1>1, <1>3
    <2>2. ASSUME NEW x \in D, NEW y \in D PROVE x = y \/ <<x, y>> \in R \/ <<y, x>> \in R
      <3>1. x \in Nat /\ y \in Nat /\ samples[x] \in Nat /\ samples[y] \in Nat
        BY <1>3
      <3>2. QED BY <1>1, <3>1
    <2>3. \A x, y, z \in D : <<x, y>> \in R /\ <<y, z>> \in R => <<x, z>> \in R
      BY <1>1, <1>3
    <2>4. QED BY <2>1, <2>2, <2>3 DEF Strict
  <1>5. /\ c \in Nat /\ \A n \in 1..c : order[n] \in D
        /\ \A n \in 1..c : Cardinality(Below(R, D, order[n])) = n - 1
    <2>1. Lists(order, D, R)
      BY <1>2, <1>3, <1>4, OrderedList
    <2>2. QED BY <2>1 DEF Lists, Along
  <1>6. ASSUME NEW n \in 1..c
        PROVE  /\ Cardinality({k \in D : samples[k] <= samples[order[n]]}) >= n
               /\ \A v \in Nat : v < samples[order[n]] =>
                     Cardinality({k \in D : samples[k] <= v}) < n
    <2> DEFINE x == order[n]
               B == Below(R, D, x)
               U == {k \in D : samples[k] <= samples[x]}
    <2>1. x \in D /\ Cardinality(B) = n - 1 /\ B \in SUBSET D /\ n \in Nat
      BY <1>5 DEF Below
    <2>2. IsFiniteSet(B) /\ IsFiniteSet(U) /\ IsFiniteSet(B \cup {x})
      BY <1>3, <2>1, FS_Subset, FS_AddElement
    <2>3. x \notin B /\ B \cup {x} \in SUBSET U
      <3>1. \A k \in B : samples[k] <= samples[x]
        BY <1>1, <1>3, <2>1 DEF Below
      <3>2. x \notin B
        BY <1>1, <1>3, <2>1 DEF Below
      <3>3. samples[x] <= samples[x]
        BY <1>3, <2>1
      <3>4. QED BY <2>1, <3>1, <3>2, <3>3
    <2> HIDE DEF B, x, U
    <2>4. Cardinality(B \cup {x}) = n
      BY <2>1, <2>2, <2>3, FS_AddElement
    <2>5. Cardinality(U) >= n
      <3>1. Cardinality(B \cup {x}) <= Cardinality(U)
        BY <2>2, <2>3, FS_Subset
      <3>2. Cardinality(U) \in Nat
        BY <2>2, FS_CardinalityType
      <3>3. QED BY <2>1, <2>4, <3>1, <3>2
    <2>6. ASSUME NEW v \in Nat, v < samples[x]
          PROVE  Cardinality({k \in D : samples[k] <= v}) < n
      <3> DEFINE V == {k \in D : samples[k] <= v}
      <3>1. V \in SUBSET B
        BY <1>1, <1>3, <2>1, <2>6 DEF Below, B
      <3> HIDE DEF V
      <3>2. Cardinality(V) <= n - 1 /\ Cardinality(V) \in Nat
        BY <2>1, <2>2, <3>1, FS_Subset, FS_CardinalityType
      <3>3. Cardinality(V) < n
        BY <2>1, <3>2
      <3>4. QED BY <3>3 DEF V
    <2>7. QED BY <2>5, <2>6 DEF x, U
  <1>7. QED BY <1>5, <1>6 DEF D, order

(* percentileNearestRank() returns the nearest rank.                        *)
LEMMA PercentileIsNearestRank ==
    ASSUME NEW samples, IsFiniteSet(DOMAIN samples), DOMAIN samples \in SUBSET Nat,
           DOMAIN samples # {}, \A k \in DOMAIN samples : samples[k] \in Nat
    PROVE  IsPercentile(PercentileNearestRank(samples), samples)
  <1> DEFINE D == DOMAIN samples
             c == Cardinality(D)
             r == Ceiling(Percent * c, 100)
             p == samples[Ascending(samples)[r]]
             U(v) == Cardinality({k \in D : samples[k] <= v})
  <1>1. PercentileNearestRank(samples) = p
    BY DEF PercentileNearestRank
  <1>2. /\ c \in Nat /\ \A n \in 1..c : Ascending(samples)[n] \in D
        /\ \A n \in 1..c : /\ U(samples[Ascending(samples)[n]]) >= n
                           /\ \A v \in Nat : v < samples[Ascending(samples)[n]] => U(v) < n
    BY AscendingList
  <1>3. c # 0
    BY FS_EmptySet
  <1>4. r \in 1..c
    BY <1>2, <1>3, RankInRange
  <1>5. 100 * r >= Percent * c /\ 100 * (r - 1) < Percent * c /\ Percent * c \in Int
    BY <1>2, StatisticsAssumption DEF Ceiling
  <1>6. p \in Nat /\ p \in Range(samples)
    BY <1>2, <1>4 DEF Range
  <1>7. \A v \in Nat : U(v) \in Nat
    <2>1. \A v \in Nat : {k \in D : samples[k] <= v} \in SUBSET D
      OBVIOUS
    <2>2. QED BY <2>1, FS_Subset, FS_CardinalityType
  <1>8. U(p) >= r /\ \A v \in Nat : v < p => U(v) < r
    BY <1>2, <1>4
  <1> HIDE DEF r, p, c, U
  <1>9. 100 * U(p) >= Percent * c
    BY <1>2, <1>4, <1>5, <1>6, <1>7, <1>8
  <1>10. ASSUME NEW v \in Range(samples), 100 * U(v) >= Percent * c PROVE p <= v
    <2>1. v \in Nat
      BY DEF Range
    <2>2. U(v) \in Nat /\ U(v) > r - 1
      BY <1>2, <1>4, <1>5, <1>7, <1>10, <2>1
    <2>3. ~(v < p)
      BY <1>2, <1>4, <1>8, <2>1, <2>2
    <2>4. QED BY <1>6, <2>1, <2>3
  <1>11. QED BY <1>1, <1>6, <1>9, <1>10 DEF IsPercentile, U, c

-----------------------------------------------------------------------------
(* A counter lists every key once with its frequency, the frequent ones
   first, and its counts sum up to the keys.                                *)
LEMMA CountedList ==
    ASSUME NEW keys, IsFiniteSet(DOMAIN keys), \A k \in DOMAIN keys : keys[k] \in Nat \X Nat
    PROVE  LET s == Counted(keys)
           IN  /\ s \in Seq([key : Nat \X Nat, count : Nat])
               /\ SumFunction([n \in DOMAIN s |-> s[n].count]) = Cardinality(DOMAIN keys)
               /\ \A k \in DOMAIN keys : \E n \in DOMAIN s : s[n].key = keys[k]
               /\ \A n \in DOMAIN s : s[n].count = Frequency(keys, s[n].key)
               /\ \A m, n \in DOMAIN s : m < n => s[m].count >= s[n].count
  <1> DEFINE K == Range(keys)
             F(v) == Frequency(keys, v)
             Less(v, w) == F(v) > F(w) \/ (F(v) = F(w) /\ KeyLess(v, w))
             R == {p \in K \X K : Less(p[1], p[2])}
             Under(v) == {w \in K : Less(w, v)}
             order == Ordered(K, Less)
             c == Cardinality(K)
             s == Counted(keys)
  <1>1. s = [n \in DOMAIN order |-> [key |-> order[n], count |-> F(order[n])]]
    BY DEF Counted
  <1>2. \A v, w \in K : <<v, w>> \in R <=> Less(v, w)
    OBVIOUS
  <1>3. Ranks(order, K, R)
    <2>1. \A x \in K : Below(R, K, x) = Under(x)
      BY <1>2 DEF Below
    <2>2. order = [n \in 1..c |-> CHOOSE x \in K : Cardinality(Under(x)) = n - 1]
      BY DEF Ordered
    <2> HIDE DEF R, order, K, Under
    <2>3. QED BY <2>1, <2>2 DEF Ranks
  <1> HIDE DEF R, order, s
  <1>4. K = {keys[k] : k \in DOMAIN keys} /\ IsFiniteSet(K) /\ \A v \in K : v \in Nat \X Nat
    BY FiniteImage DEF Range
  <1>5. \A v : F(v) \in Nat
    <2>1. \A v : {k \in DOMAIN keys : keys[k] = v} \in SUBSET DOMAIN keys
      OBVIOUS
    <2>2. \A v : IsFiniteSet({k \in DOMAIN keys : keys[k] = v})
      BY <2>1, FS_Subset
    <2>3. QED BY <2>2, FS_CardinalityType DEF Frequency
  <1> HIDE DEF K, F
  <1>6. Strict(R, K)
    <2>1. ASSUME NEW v \in K PROVE <<v, v>> \notin R
      BY <1>2, <1>4, <1>5 DEF KeyLess
    <2>2. ASSUME NEW v \in K, NEW w \in K PROVE v = w \/ <<v, w>> \in R \/ <<w, v>> \in R
      <3>1. v \in Nat \X Nat /\ w \in Nat \X Nat /\ F(v) \in Nat /\ F(w) \in Nat
        BY <1>4, <1>5
      <3>2. v = w \/ KeyLess(v, w) \/ KeyLess(w, v)
        BY <3>1 DEF KeyLess
      <3>3. QED BY <1>2, <3>1, <3>2
    <2>3. ASSUME NEW u \in K, NEW v \in K, NEW w \in K, <<u, v>> \in R, <<v, w>> \in R
          PROVE  <<u, w>> \in R
      <3>1. /\ u \in Nat \X Nat /\ v \in Nat \X Nat /\ w \in Nat \X Nat
            /\ F(u) \in Nat /\ F(v) \in Nat /\ F(w) \in Nat
        BY <1>4, <1>5
      <3>2. KeyLess(u, v) /\ KeyLess(v, w) => KeyLess(u, w)
        BY <3>1 DEF KeyLess
      <3>3. Less(u, v) /\ Less(v, w)
        BY <1>2, <2>3
      <3>4. Less(u, w)
        BY <3>1, <3>2, <3>3
      <3>5. QED BY <1>2, <3>4
    <2>4. QED BY <2>1, <2>2, <2>3 DEF Strict
  <1>7. Lists(order, K, R)
    BY <1>3, <1>4, <1>6, OrderedList
  <1>8. /\ c \in Nat /\ DOMAIN order = 1..c
        /\ Along(order, 1..c, K)
        /\ \A m, n \in 1..c : <<order[m], order[n]>> \in R <=> m < n
    BY <1>7 DEF Lists
  <1>9. (\A n \in 1..c : order[n] \in K) /\ \A v \in K : \E n \in 1..c : order[n] = v
    BY <1>8 DEF Along
  <1> HIDE DEF c
  <1>10. DOMAIN s = 1..c /\ \A n \in 1..c : s[n].key = order[n] /\ s[n].count = F(order[n])
    BY <1>1, <1>8
  <1>11. s \in Seq([key : Nat \X Nat, count : Nat])
    <2>1. \A n \in 1..c :
             [key |-> order[n], count |-> F(order[n])] \in [key : Nat \X Nat, count : Nat]
      BY <1>4, <1>5, <1>9
    <2>2. s \in [1..c -> [key : Nat \X Nat, count : Nat]]
      BY <1>1, <1>8, <2>1
    <2>3. QED BY <1>8, <2>2, FunctionList
  <1>12. SumFunction([n \in DOMAIN s |-> s[n].count]) = Cardinality(DOMAIN keys)
    <2> DEFINE g == [n \in 1..c |-> s[n].count]
               f == [v \in K |-> F(v)]
               N == 1..c
    <2>1. \A n \in N : g[n] = f[order[n]] /\ g[n] \in Int
      BY <1>5, <1>9, <1>10
    <2>2. IsFiniteSet(N)
      <3>1. \A n \in Nat : IsFiniteSet(1..n)
        BY FS_Interval
      <3>2. QED BY <1>8, <3>1
    <2>3. SumFunction([n \in DOMAIN s |-> s[n].count]) = SumFunctionOnSet(g, N)
      BY <1>10 DEF SumFunction
    <2>4. \A v \in K : f[v] = Cardinality(Group(DOMAIN keys, keys, v))
      BY DEF F, Frequency, Group
    <2>5. SumFunctionOnSet(g, N) = SumFunctionOnSet(f, K)
      <3>1. Along(order, N, K)
        BY <1>8
      <3> HIDE DEF g, f, N
      <3>2. QED BY <2>1, <2>2, <3>1, SumAlong
    <2>6. IsFiniteSet(K) /\ \A k \in DOMAIN keys : keys[k] \in K
      BY <1>4
    <2> HIDE DEF g, f, N
    <2> DEFINE D == DOMAIN keys
    <2>7. IsFiniteSet(D) /\ \A v \in K : f[v] = Cardinality(Group(D, keys, v))
      BY <2>4
    <2>8. \A k \in D : keys[k] \in K
      BY <2>6
    <2> HIDE DEF D
    <2>9. SumFunctionOnSet(f, K) = Cardinality(D)
      BY <2>6, <2>7, <2>8, CountGroups
    <2>10. QED BY <2>3, <2>5, <2>9 DEF D
  <1>13. ASSUME NEW k \in DOMAIN keys PROVE \E n \in DOMAIN s : s[n].key = keys[k]
    <2>1. keys[k] \in K
      BY <1>4
    <2>2. PICK n \in 1..c : order[n] = keys[k]
      BY <1>9, <2>1
    <2>3. QED BY <1>10, <2>2
  <1>14. \A n \in DOMAIN s : s[n].count = Frequency(keys, s[n].key)
    BY <1>10 DEF F
  <1>15. ASSUME NEW m \in DOMAIN s, NEW n \in DOMAIN s, m < n PROVE s[m].count >= s[n].count
    <2>1. Less(order[m], order[n])
      BY <1>9, <1>2, <1>8, <1>10, <1>15
    <2>2. F(order[m]) \in Nat /\ F(order[n]) \in Nat
      BY <1>5
    <2>3. F(order[m]) >= F(order[n])
      BY <2>1, <2>2
    <2>4. QED BY <1>10, <2>3
  <1>16. QED BY <1>11, <1>12, <1>13, <1>14, <1>15 DEF s

(* What is cut off a counter is no more frequent than what is left.         *)
LEMMA TopmostKeys ==
    ASSUME NEW keys, IsFiniteSet(DOMAIN keys), \A k \in DOMAIN keys : keys[k] \in Nat \X Nat,
           NEW i \in DOMAIN keys
    PROVE  LET top == Topmost(Counted(keys), TopLimit)
           IN  \/ \E j \in DOMAIN top : top[j].key = keys[i]
               \/ /\ Len(top) = TopLimit
                  /\ \A j \in DOMAIN top : top[j].count >= Frequency(keys, keys[i])
  <1> DEFINE s == Counted(keys)
             top == Topmost(s, TopLimit)
             T == [key : Nat \X Nat, count : Nat]
             m == IF Len(s) < TopLimit THEN Len(s) ELSE TopLimit
  <1>1. /\ s \in Seq(T)
        /\ \A k \in DOMAIN keys : \E n \in DOMAIN s : s[n].key = keys[k]
        /\ \A n \in DOMAIN s : s[n].count = Frequency(keys, s[n].key)
        /\ \A l, n \in DOMAIN s : l < n => s[l].count >= s[n].count
    BY CountedList
  <1>2. top = SubSeq(s, 1, m)
    BY DEF Topmost
  <1> HIDE DEF s, top
  <1>3. m \in Nat /\ m <= Len(s) /\ TopLimit \in Nat /\ Len(s) \in Nat /\ DOMAIN s = 1..Len(s)
    BY <1>1, StatisticsAssumption
  <1>4. m = TopLimit \/ m = Len(s)
    OBVIOUS
  <1> HIDE DEF m
  <1>5. Len(top) = m /\ DOMAIN top = 1..m /\ \A j \in 1..m : top[j] = s[j]
    <2> HIDE DEF T
    <2>1. QED BY <1>1, <1>2, <1>3
  <1>6. PICK n \in DOMAIN s : s[n].key = keys[i]
    BY <1>1
  <1>7. n \in Nat /\ n >= 1 /\ n <= Len(s)
    BY <1>3
  <1>8. CASE n <= m
    BY <1>3, <1>5, <1>6, <1>7, <1>8 DEF s, top
  <1>9. CASE n > m
    <2>1. m = TopLimit
      <3>1. m \in Nat /\ Len(s) \in Nat
        BY <1>3
      <3>2. m # Len(s)
        BY <1>7, <1>9, <3>1
      <3>3. QED BY <1>4, <3>2
    <2>2. \A j \in DOMAIN top : j \in DOMAIN s /\ j < n
      BY <1>3, <1>5, <1>7, <1>9
    <2>3. ASSUME NEW j \in DOMAIN top PROVE top[j].count >= Frequency(keys, keys[i])
      <3>1. j \in DOMAIN s /\ j < n /\ top[j] = s[j]
        BY <1>5, <2>2
      <3>2. s[j].count >= s[n].count
        BY <1>1, <1>6, <3>1
      <3>3. s[n].count = Frequency(keys, keys[i])
        BY <1>1, <1>6
      <3>4. QED BY <3>1, <3>2, <3>3
    <2>4. QED BY <1>5, <2>1, <2>3 DEF s, top
  <1>10. QED BY <1>3, <1>7, <1>8, <1>9

-----------------------------------------------------------------------------
(* What the invariant says of the records, and of their latencies.         *)
LEMMA RecordFacts ==
    ASSUME StatisticsInv
    PROVE  /\ IsFiniteSet(DOMAIN records) /\ DOMAIN records \in SUBSET Nat
           /\ \A k \in DOMAIN records :
                 /\ records[k].at \in Int /\ records[k].at <= drawn
                 /\ records[k].tunnel \in TunnelsSeen /\ records[k].tunnel \in Nat
                 /\ records[k].endpoint \in Nat \X Nat
                 /\ records[k].outcome.status # Absent => records[k].outcome.status \in Nat
                 /\ records[k].outcome.latency # Absent => records[k].outcome.latency \in Nat
                 /\ records[k].outcome.status = Absent <=> records[k].outcome.latency = Absent
           /\ IsFiniteSet(TunnelsSeen)
  <1>1. records \in Seq(Recorded) /\ \A k \in DOMAIN records : Whole(records[k].outcome)
    BY DEF StatisticsInv, STypeOK, Recorded, Outcome
  <1>2. IsFiniteSet(DOMAIN records) /\ DOMAIN records \in SUBSET Nat
    <2>1. DOMAIN records = 1..Len(records) /\ Len(records) \in Nat
      BY <1>1
    <2>2. QED BY <2>1, FS_Interval
  <1>3. TunnelsSeen \in SUBSET Nat /\ Endpoints \in SUBSET (Nat \X Nat)
    <2>1. \A s \in Sources : s.tunnel \in Nat /\ s.method \in Nat /\ s.path \in Nat
      BY StatisticsAssumption
    <2>2. TunnelsSeen \in SUBSET Nat
      BY <2>1 DEF TunnelsSeen
    <2>3. Endpoints \in SUBSET (Nat \X Nat)
      BY <2>1 DEF Endpoints
    <2>4. QED BY <2>2, <2>3
  <1>4. IsFiniteSet(TunnelsSeen)
    <2> DEFINE tunnelOf == [s \in Sources |-> s.tunnel]
    <2>1. TunnelsSeen = {tunnelOf[s] : s \in Sources} /\ IsFiniteSet(Sources)
      BY StatisticsAssumption DEF TunnelsSeen
    <2> HIDE DEF tunnelOf
    <2>2. IsFiniteSet({tunnelOf[s] : s \in Sources})
      BY <2>1, FiniteImage
    <2>3. QED BY <2>1, <2>2
  <1>5. ASSUME NEW k \in DOMAIN records
        PROVE  /\ records[k].at \in Int /\ records[k].at <= drawn
               /\ records[k].tunnel \in TunnelsSeen /\ records[k].tunnel \in Nat
               /\ records[k].endpoint \in Nat \X Nat
               /\ records[k].outcome.status # Absent => records[k].outcome.status \in Nat
               /\ records[k].outcome.latency # Absent => records[k].outcome.latency \in Nat
               /\ records[k].outcome.status = Absent <=> records[k].outcome.latency = Absent
    <2>1. records[k] \in Recorded
      BY <1>1
    <2>2. records[k].at \in Int
      BY <2>1, RecordedAt
    <2>3. /\ records[k].tunnel \in TunnelsSeen /\ records[k].endpoint \in Endpoints
          /\ records[k].outcome \in Outcome
      BY <2>1 DEF Recorded
    <2>4. /\ records[k].outcome.status \in Codes \cup {Absent}
          /\ records[k].outcome.latency \in 0..MaxTime \cup {Absent}
      BY <2>3 DEF Outcome
    <2>5. Codes \subseteq Nat /\ 0..MaxTime \subseteq Nat
      BY StatisticsAssumption
    <2>6. records[k].outcome.status = Absent <=> records[k].outcome.latency = Absent
      BY <1>1 DEF Whole
    <2>7. records[k].at <= drawn
      BY DEF StatisticsInv
    <2>8. QED BY <1>3, <2>2, <2>3, <2>4, <2>5, <2>6, <2>7
  <1>6. QED BY <1>2, <1>4, <1>5

LEMMA LatencyFacts ==
    ASSUME StatisticsInv, NEW own \in SUBSET DOMAIN records
    PROVE  /\ DOMAIN Latencies(own) = Timed(own)
           /\ Timed(own) \in SUBSET own /\ IsFiniteSet(own) /\ IsFiniteSet(Timed(own))
           /\ Timed(own) \in SUBSET Nat
           /\ \A k \in Timed(own) : Latencies(own)[k] \in Nat
                                    /\ Latencies(own)[k] = records[k].outcome.latency
  <1>1. /\ IsFiniteSet(DOMAIN records) /\ DOMAIN records \in SUBSET Nat
        /\ \A k \in DOMAIN records :
              records[k].outcome.latency # Absent => records[k].outcome.latency \in Nat
    BY RecordFacts
  <1>2. Timed(own) \in SUBSET own /\ Timed(own) \in SUBSET DOMAIN records
    BY DEF Timed
  <1>3. IsFiniteSet(own) /\ IsFiniteSet(Timed(own))
    BY <1>1, <1>2, FS_Subset
  <1>4. \A k \in Timed(own) : records[k].outcome.latency \in Nat
    BY <1>1, <1>2 DEF Timed
  <1>5. DOMAIN Latencies(own) = Timed(own)
        /\ \A k \in Timed(own) : Latencies(own)[k] = records[k].outcome.latency
    BY DEF Latencies
  <1>6. QED BY <1>1, <1>2, <1>3, <1>4, <1>5

(* The figures of any of the records: the whole, or those of a tunnel.      *)
LEMMA AggregateSound ==
    ASSUME StatisticsInv, NEW own \in SUBSET DOMAIN records
    PROVE  Sound(AggregateRecords(own), own)
  <1> DEFINE s == AggregateRecords(own)
             samples == Latencies(own)
             answered == {k \in own : records[k].outcome.status # Absent}
             methods == [k \in own |-> <<records[k].endpoint[1], 0>>]
             statuses == [k \in answered |-> <<records[k].outcome.status, 0>>]
             endpoints == [k \in own |-> records[k].endpoint]
             top == Topmost(Counted(endpoints), TopLimit)
  <1>1. /\ s.totalRequests = Cardinality(own) /\ s.averageLatency = Mean(samples)
        /\ s.p95Latency = PercentileNearestRank(samples)
        /\ s.methodCounts = Counted(methods) /\ s.statusCodeCounts = Counted(statuses)
        /\ s.topEndpoints = top
    BY DEF AggregateRecords
  <1>2. /\ DOMAIN samples = Timed(own) /\ IsFiniteSet(own) /\ IsFiniteSet(Timed(own))
        /\ Timed(own) \in SUBSET Nat
        /\ \A k \in Timed(own) : samples[k] \in Nat /\ samples[k] = records[k].outcome.latency
    BY LatencyFacts
  <1>3. \A k \in own : /\ records[k].endpoint \in Nat \X Nat
                       /\ records[k].outcome.status # Absent => records[k].outcome.status \in Nat
                       /\ records[k].outcome.status = Absent <=> records[k].outcome.latency = Absent
    BY RecordFacts
  <1>4. answered = Timed(own)
    BY <1>3 DEF Timed
  <1>5. /\ DOMAIN methods = own /\ DOMAIN statuses = Timed(own) /\ DOMAIN endpoints = own
        /\ \A k \in own : methods[k] \in Nat \X Nat
        /\ \A k \in own : endpoints[k] \in Nat \X Nat /\ endpoints[k] = records[k].endpoint
        /\ \A k \in Timed(own) : statuses[k] \in Nat \X Nat
    <2>1. \A k \in own : records[k].endpoint[1] \in Nat
      BY <1>3
    <2>2. \A k \in Timed(own) : records[k].outcome.status \in Nat
      BY <1>3, <1>4
    <2>3. QED BY <1>3, <1>4, <2>1, <2>2
  <1> HIDE DEF s, samples, methods, statuses, endpoints, top, answered
  <1>6. Timed(own) = {} => s.p95Latency = Absent
    BY <1>1, <1>2 DEF PercentileNearestRank
  <1>7. ASSUME Timed(own) # {}
        PROVE  IsPercentile(s.p95Latency, samples) /\ s.p95Latency # Absent
    <2>1. IsPercentile(PercentileNearestRank(samples), samples)
      BY <1>2, <1>7, PercentileIsNearestRank
    <2>2. PercentileNearestRank(samples) \in Nat
      BY <1>2, <2>1 DEF IsPercentile, Range
    <2>3. QED BY <1>1, <2>1, <2>2, StatisticsAssumption
  <1>8. SumOver(s.methodCounts, LAMBDA x : x.count) = s.totalRequests
    <2>1. SumFunction([n \in DOMAIN Counted(methods) |-> Counted(methods)[n].count])
            = Cardinality(own)
      BY <1>2, <1>5, CountedList
    <2>2. QED BY <1>1, <2>1 DEF SumOver
  <1>9. SumOver(s.statusCodeCounts, LAMBDA x : x.count) = s.averageLatency[2]
    <2>1. SumFunction([n \in DOMAIN Counted(statuses) |-> Counted(statuses)[n].count])
            = Cardinality(Timed(own))
      BY <1>2, <1>5, CountedList
    <2>2. s.averageLatency[2] = Cardinality(Timed(own))
      BY <1>1, <1>2 DEF Mean
    <2>3. QED BY <1>1, <2>1, <2>2 DEF SumOver
  <1>10. ASSUME NEW k \in own
         PROVE  \/ \E j \in DOMAIN top : top[j].key = records[k].endpoint
                \/ /\ Len(top) = TopLimit
                   /\ \A j \in DOMAIN top :
                         top[j].count
                           >= Cardinality({i \in own : records[i].endpoint = records[k].endpoint})
    <2>1. \/ \E j \in DOMAIN top : top[j].key = endpoints[k]
          \/ /\ Len(top) = TopLimit
             /\ \A j \in DOMAIN top : top[j].count >= Frequency(endpoints, endpoints[k])
      BY <1>2, <1>5, TopmostKeys DEF top
    <2>2. endpoints[k] = records[k].endpoint
      BY <1>5
    <2>3. {i \in DOMAIN endpoints : endpoints[i] = endpoints[k]}
             = {i \in own : records[i].endpoint = records[k].endpoint}
      BY <1>5
    <2>4. Frequency(endpoints, endpoints[k])
            = Cardinality({i \in own : records[i].endpoint = records[k].endpoint})
      BY <2>3 DEF Frequency
    <2>5. QED BY <2>1, <2>2, <2>4
  <1>11. Sound(s, own)
    BY <1>1, <1>6, <1>7, <1>8, <1>9, <1>10 DEF Sound, samples
  <1>12. QED BY <1>11 DEF s

-----------------------------------------------------------------------------
TunnelsListed == {records[k].tunnel : k \in DOMAIN records}
TunnelOf      == [k \in DOMAIN records |-> records[k].tunnel]

(* Every tunnel of a record has its place in the breakdown, and one.        *)
LEMMA TunnelList ==
    ASSUME StatisticsInv
    PROVE  \E order : LET c == Cardinality(TunnelsListed)
                      IN  /\ Along(order, 1..c, TunnelsListed)
                          /\ DOMAIN BuildTunnelStatistics = 1..c
                          /\ \A n \in 1..c :
                                /\ BuildTunnelStatistics[n].tunnel = order[n]
                                /\ BuildTunnelStatistics[n].stats
                                      = AggregateRecords(OfTunnel(order[n]))
  <1> DEFINE G == TunnelsListed
             F(t) == Cardinality(OfTunnel(t))
             Less(t, u) == F(t) > F(u) \/ (F(t) = F(u) /\ t < u)
             R == {p \in G \X G : Less(p[1], p[2])}
             Under(t) == {u \in G : Less(u, t)}
             order == Ordered(G, Less)
             c == Cardinality(G)
  <1>1. BuildTunnelStatistics =
           [n \in DOMAIN order |->
              [tunnel |-> order[n], stats |-> AggregateRecords(OfTunnel(order[n]))]]
    BY DEF BuildTunnelStatistics, TunnelsListed
  <1>2. \A t, u \in G : <<t, u>> \in R <=> Less(t, u)
    OBVIOUS
  <1>3. Ranks(order, G, R)
    <2>1. \A x \in G : Below(R, G, x) = Under(x)
      BY <1>2 DEF Below
    <2>2. order = [n \in 1..c |-> CHOOSE x \in G : Cardinality(Under(x)) = n - 1]
      BY DEF Ordered
    <2> HIDE DEF R, order, G, Under
    <2>3. QED BY <2>1, <2>2 DEF Ranks
  <1> HIDE DEF R, order
  <1>4. IsFiniteSet(G) /\ \A t \in G : t \in Nat /\ F(t) \in Nat
    <2>1. /\ IsFiniteSet(DOMAIN records) /\ \A k \in DOMAIN records : records[k].tunnel \in Nat
      BY RecordFacts
    <2>2. G = {TunnelOf[k] : k \in DOMAIN records}
      BY DEF TunnelsListed, TunnelOf
    <2>3. IsFiniteSet({TunnelOf[k] : k \in DOMAIN records})
      BY <2>1, FiniteImage
    <2>4. \A t : OfTunnel(t) \in SUBSET DOMAIN records
      BY DEF OfTunnel
    <2>5. \A t : F(t) \in Nat
      BY <2>1, <2>4, FS_Subset, FS_CardinalityType
    <2>6. \A t \in G : t \in Nat
      BY <2>1 DEF TunnelsListed
    <2>7. QED BY <2>2, <2>3, <2>5, <2>6
  <1> HIDE DEF G, F
  <1>5. Strict(R, G)
    <2>1. ASSUME NEW t \in G PROVE <<t, t>> \notin R
      BY <1>2, <1>4
    <2>2. ASSUME NEW t \in G, NEW u \in G PROVE t = u \/ <<t, u>> \in R \/ <<u, t>> \in R
      <3>1. t \in Nat /\ u \in Nat /\ F(t) \in Nat /\ F(u) \in Nat
        BY <1>4
      <3>2. QED BY <1>2, <3>1
    <2>3. ASSUME NEW t \in G, NEW u \in G, NEW v \in G, <<t, u>> \in R, <<u, v>> \in R
          PROVE  <<t, v>> \in R
      <3>1. /\ t \in Nat /\ u \in Nat /\ v \in Nat
            /\ F(t) \in Nat /\ F(u) \in Nat /\ F(v) \in Nat
        BY <1>4
      <3>2. Less(t, u) /\ Less(u, v)
        BY <1>2, <2>3
      <3>3. Less(t, v)
        BY <3>1, <3>2
      <3>4. QED BY <1>2, <3>3
    <2>4. QED BY <2>1, <2>2, <2>3 DEF Strict
  <1>6. Lists(order, G, R)
    BY <1>3, <1>4, <1>5, OrderedList
  <1>7. DOMAIN order = 1..c /\ Along(order, 1..c, G)
    BY <1>6 DEF Lists
  <1>8. /\ DOMAIN BuildTunnelStatistics = 1..c
        /\ \A n \in 1..c : /\ BuildTunnelStatistics[n].tunnel = order[n]
                           /\ BuildTunnelStatistics[n].stats = AggregateRecords(OfTunnel(order[n]))
    BY <1>1, <1>7
  <1>9. QED BY <1>7, <1>8 DEF G

(* What is summed tunnel by tunnel.                                         *)
LEMMA SumOfTunnels ==
    ASSUME StatisticsInv, NEW order, Along(order, 1..Cardinality(TunnelsListed), TunnelsListed),
           NEW S \in SUBSET DOMAIN records, NEW f, \A k \in S : f[k] \in Int,
           NEW g, \A n \in 1..Cardinality(TunnelsListed) :
                     g[n] = SumFunctionOnSet(f, Group(S, TunnelOf, order[n]))
    PROVE  SumFunctionOnSet(g, 1..Cardinality(TunnelsListed)) = SumFunctionOnSet(f, S)
  <1> DEFINE N == 1..Cardinality(TunnelsListed)
             P == [t \in TunnelsListed |-> SumFunctionOnSet(f, Group(S, TunnelOf, t))]
  <1>1. /\ IsFiniteSet(S) /\ \A t : Group(S, TunnelOf, t) \in SUBSET S
        /\ IsFiniteSet(TunnelsListed) /\ \A k \in S : TunnelOf[k] \in TunnelsListed
    <2>1. IsFiniteSet(DOMAIN records)
      BY RecordFacts
    <2>2. TunnelsListed = {TunnelOf[k] : k \in DOMAIN records}
      BY DEF TunnelsListed, TunnelOf
    <2>3. QED BY <2>1, <2>2, FiniteImage, FS_Subset DEF Group
  <1>2. IsFiniteSet(N)
    BY <1>1, FS_CardinalityType, FS_Interval
  <1>3. \A t \in TunnelsListed : P[t] \in Int /\ P[t] = SumFunctionOnSet(f, Group(S, TunnelOf, t))
    <2>1. ASSUME NEW t \in TunnelsListed PROVE SumFunctionOnSet(f, Group(S, TunnelOf, t)) \in Int
      <3>1. IsFiniteSet(Group(S, TunnelOf, t)) /\ \A k \in Group(S, TunnelOf, t) : f[k] \in Int
        BY <1>1, FS_Subset
      <3>2. QED BY <3>1, SumInt
    <2>2. QED BY <2>1
  <1> HIDE DEF N, P
  <1>4. \A n \in N : g[n] = P[order[n]] /\ g[n] \in Int
    BY <1>3 DEF Along, N
  <1>5. SumFunctionOnSet(g, N) = SumFunctionOnSet(P, TunnelsListed)
    <2>1. Along(order, N, TunnelsListed)
      BY DEF N
    <2>2. QED BY <1>2, <1>4, <2>1, SumAlong
  <1>6. SumFunctionOnSet(P, TunnelsListed) = SumFunctionOnSet(f, S)
    <2>1. /\ IsFiniteSet(S) /\ IsFiniteSet(TunnelsListed)
          /\ \A k \in S : f[k] \in Int /\ TunnelOf[k] \in TunnelsListed
      BY <1>1
    <2>2. \A t \in TunnelsListed : P[t] = SumFunctionOnSet(f, Group(S, TunnelOf, t))
      BY <1>3
    <2>3. QED BY <2>1, <2>2, SumGroups
  <1>7. QED BY <1>5, <1>6 DEF N

LEMMA CountOfTunnels ==
    ASSUME StatisticsInv, NEW order, Along(order, 1..Cardinality(TunnelsListed), TunnelsListed),
           NEW S \in SUBSET DOMAIN records,
           NEW g, \A n \in 1..Cardinality(TunnelsListed) :
                     g[n] = Cardinality(S \cap OfTunnel(order[n]))
    PROVE  SumFunctionOnSet(g, 1..Cardinality(TunnelsListed)) = Cardinality(S)
  <1> DEFINE f == [k \in S |-> 1]
  <1>1. IsFiniteSet(S)
    BY RecordFacts, FS_Subset
  <1>2. \A k \in S : f[k] = 1 /\ f[k] \in Int
    OBVIOUS
  <1> HIDE DEF f
  <1>3. ASSUME NEW n \in 1..Cardinality(TunnelsListed)
        PROVE  g[n] = SumFunctionOnSet(f, Group(S, TunnelOf, order[n]))
    <2>1. S \cap OfTunnel(order[n]) = Group(S, TunnelOf, order[n])
      BY DEF OfTunnel, Group, TunnelOf
    <2>2. IsFiniteSet(Group(S, TunnelOf, order[n])) /\ Group(S, TunnelOf, order[n]) \in SUBSET S
      BY <1>1, FS_Subset DEF Group
    <2>3. SumFunctionOnSet(f, Group(S, TunnelOf, order[n]))
            = Cardinality(Group(S, TunnelOf, order[n]))
      BY <1>2, <2>2, SumOnes
    <2>4. QED BY <2>1, <2>3
  <1>4. SumFunctionOnSet(g, 1..Cardinality(TunnelsListed)) = SumFunctionOnSet(f, S)
    BY <1>2, <1>3, SumOfTunnels
  <1>5. SumFunctionOnSet(f, S) = Cardinality(S)
    BY <1>1, <1>2, SumOnes
  <1>6. QED BY <1>4, <1>5

LEMMA Figures ==
    ASSUME NEW own
    PROVE  /\ AggregateRecords(own).totalRequests = Cardinality(own)
           /\ AggregateRecords(own).errors = Cardinality({k \in own : IsErrorRecord(records[k])})
           /\ AggregateRecords(own).averageLatency[1]
                 = SumFunctionOnSet(Latencies(own), Timed(own))
  <1>1. DOMAIN Latencies(own) = Timed(own)
    BY DEF Latencies
  <1>2. QED BY <1>1 DEF AggregateRecords, Mean, SumFunction

LEMMA StatisticsFollow == StatisticsInv => StatisticsAddUp
  <1> SUFFICES ASSUME StatisticsInv PROVE StatisticsAddUp
    OBVIOUS
  <1> DEFINE c == Cardinality(TunnelsListed)
             rows == BuildTunnelStatistics
             all == DOMAIN records
             errs == {k \in all : IsErrorRecord(records[k])}
             whole == AggregateRecords(all)
  <1>1. PICK order : /\ Along(order, 1..c, TunnelsListed) /\ DOMAIN rows = 1..c
                     /\ \A n \in 1..c : /\ rows[n].tunnel = order[n]
                                        /\ rows[n].stats = AggregateRecords(OfTunnel(order[n]))
    BY TunnelList
  <1>2. \A t : OfTunnel(t) \in SUBSET all
    BY DEF OfTunnel
  <1>3. /\ whole.totalRequests = Cardinality(all) /\ whole.errors = Cardinality(errs)
        /\ whole.averageLatency[1] = SumFunctionOnSet(Latencies(all), Timed(all))
    BY Figures
  <1> HIDE DEF whole, rows, c
  <1>4. Sound(whole, all)
    BY AggregateSound DEF whole
  <1>5. \A n \in DOMAIN rows : Sound(rows[n].stats, OfTunnel(rows[n].tunnel))
    BY <1>1, <1>2, AggregateSound
  <1>6. SumOver(rows, LAMBDA x : x.stats.totalRequests) = whole.totalRequests
    <2> DEFINE g == [n \in 1..c |-> rows[n].stats.totalRequests]
    <2>1. ASSUME NEW n \in 1..c PROVE g[n] = Cardinality(all \cap OfTunnel(order[n]))
      <3>1. rows[n].stats.totalRequests = Cardinality(OfTunnel(order[n]))
        BY <1>1, Figures
      <3>2. all \cap OfTunnel(order[n]) = OfTunnel(order[n])
        BY <1>2
      <3>3. QED BY <3>1, <3>2
    <2>2. SumOver(rows, LAMBDA x : x.stats.totalRequests) = SumFunctionOnSet(g, 1..c)
      BY <1>1 DEF SumOver, SumFunction
    <2> HIDE DEF g
    <2>3. SumFunctionOnSet(g, 1..c) = Cardinality(all)
      BY <1>1, <2>1, CountOfTunnels DEF c
    <2>4. QED BY <1>3, <2>2, <2>3
  <1>7. SumOver(rows, LAMBDA x : x.stats.errors) = whole.errors
    <2> DEFINE g == [n \in 1..c |-> rows[n].stats.errors]
    <2>1. ASSUME NEW n \in 1..c PROVE g[n] = Cardinality(errs \cap OfTunnel(order[n]))
      <3>1. rows[n].stats.errors
              = Cardinality({k \in OfTunnel(order[n]) : IsErrorRecord(records[k])})
        BY <1>1, Figures
      <3>2. errs \cap OfTunnel(order[n]) = {k \in OfTunnel(order[n]) : IsErrorRecord(records[k])}
        BY <1>2
      <3>3. QED BY <3>1, <3>2
    <2>2. SumOver(rows, LAMBDA x : x.stats.errors) = SumFunctionOnSet(g, 1..c)
      BY <1>1 DEF SumOver, SumFunction
    <2>3. errs \in SUBSET all
      OBVIOUS
    <2> HIDE DEF g, errs
    <2>4. SumFunctionOnSet(g, 1..c) = Cardinality(errs)
      <3>1. Along(order, 1..c, TunnelsListed)
        BY <1>1
      <3>2. QED BY <2>1, <2>3, <3>1, CountOfTunnels DEF c
    <2>5. QED BY <1>3, <2>2, <2>4
  <1>8. SumOver(rows, LAMBDA x : x.stats.averageLatency[1]) = whole.averageLatency[1]
    <2> DEFINE g == [n \in 1..c |-> rows[n].stats.averageLatency[1]]
               f == Latencies(all)
               S == Timed(all)
    <2>1. /\ S \in SUBSET all /\ \A k \in S : f[k] \in Int /\ f[k] = records[k].outcome.latency
      BY LatencyFacts
    <2>2. ASSUME NEW n \in 1..c PROVE g[n] = SumFunctionOnSet(f, Group(S, TunnelOf, order[n]))
      <3> DEFINE own == OfTunnel(order[n])
      <3>1. /\ DOMAIN Latencies(own) = Timed(own) /\ IsFiniteSet(Timed(own))
            /\ \A k \in Timed(own) : Latencies(own)[k] \in Nat
                                     /\ Latencies(own)[k] = records[k].outcome.latency
        BY <1>2, LatencyFacts
      <3>2. g[n] = SumFunctionOnSet(Latencies(own), Timed(own))
        BY <1>1, Figures
      <3>3. Timed(own) = Group(S, TunnelOf, order[n])
        BY DEF Timed, OfTunnel, Group, TunnelOf
      <3>4. \A k \in Timed(own) : k \in S
        BY <3>3 DEF Group
      <3> HIDE DEF f, own, S, g
      <3>5. \A k \in Timed(own) : Latencies(own)[k] \in Int /\ f[k] = Latencies(own)[k]
        BY <2>1, <3>1, <3>4
      <3>6. SumFunctionOnSet(Latencies(own), Timed(own)) = SumFunctionOnSet(f, Timed(own))
        BY <3>1, <3>5, SumSame
      <3>7. QED BY <3>2, <3>3, <3>6
    <2>3. SumOver(rows, LAMBDA x : x.stats.averageLatency[1]) = SumFunctionOnSet(g, 1..c)
      BY <1>1 DEF SumOver, SumFunction
    <2> HIDE DEF g, f, S
    <2>4. SumFunctionOnSet(g, 1..c) = SumFunctionOnSet(f, S)
      BY <1>1, <2>1, <2>2, SumOfTunnels DEF c
    <2>5. QED BY <1>3, <2>3, <2>4 DEF f, S
  <1>9. QED BY <1>4, <1>5, <1>6, <1>7, <1>8 DEF StatisticsAddUp, whole, rows

-----------------------------------------------------------------------------
LEMMA SumSplit ==
    ASSUME NEW S, IsFiniteSet(S), NEW f, \A x \in S : f[x] \in Int, NEW T \in SUBSET S
    PROVE  SumFunctionOnSet(f, S) = SumFunctionOnSet(f, T) + SumFunctionOnSet(f, S \ T)
  <1> DEFINE R == S \ T
             Good == {U \in SUBSET R : SumFunctionOnSet(f, T \cup U)
                                         = SumFunctionOnSet(f, T) + SumFunctionOnSet(f, U)}
  <1>1. IsFiniteSet(T) /\ IsFiniteSet(R) /\ \A x \in T : f[x] \in Int
    BY FS_Subset
  <1>2. SumFunctionOnSet(f, T) \in Int
    BY <1>1, SumInt
  <1>3. {} \in Good
    <2>1. T \cup {} = T
      OBVIOUS
    <2>2. QED BY <1>2, <2>1, SumEmpty
  <1>4. ASSUME NEW U \in SUBSET R, NEW x \in R \ U, U \in Good PROVE U \cup {x} \in Good
    <2>1. /\ U \in SUBSET S /\ x \in S \ U /\ T \cup U \in SUBSET S /\ x \in S \ (T \cup U)
          /\ T \cup (U \cup {x}) = (T \cup U) \cup {x} /\ U \cup {x} \in SUBSET R
      OBVIOUS
    <2>2. SumFunctionOnSet(f, U \cup {x}) = f[x] + SumFunctionOnSet(f, U)
      BY <2>1, SumIn
    <2>3. SumFunctionOnSet(f, (T \cup U) \cup {x}) = f[x] + SumFunctionOnSet(f, T \cup U)
      BY <2>1, SumIn
    <2>4. f[x] \in Int /\ SumFunctionOnSet(f, U) \in Int
      BY <2>1, SumInt, FS_Subset
    <2>5. SumFunctionOnSet(f, T \cup U) = SumFunctionOnSet(f, T) + SumFunctionOnSet(f, U)
      BY <1>4
    <2>6. SumFunctionOnSet(f, (T \cup U) \cup {x})
            = SumFunctionOnSet(f, T) + SumFunctionOnSet(f, U \cup {x})
      BY <1>2, <2>2, <2>3, <2>4, <2>5
    <2>7. QED BY <2>1, <2>6
  <1>5. R \in Good
    <2> HIDE DEF Good, R
    <2>1. QED BY <1>1, <1>3, <1>4, SetInduction
  <1>6. T \cup R = S
    OBVIOUS
  <1>7. QED BY <1>5, <1>6

LEMMA BucketCountPositive == BucketCount \in Nat /\ BucketCount >= 1
  <1>1. Bucket \in Nat \ {0} /\ Window \in Nat \ {0} /\ Bucket <= Window
    BY StatisticsAssumption
  <1>2. /\ BucketCount \in Int
        /\ Window + Bucket - 1 < Bucket * BucketCount + Bucket
    <2>1. BucketCount = (Window + Bucket - 1) \div Bucket
      BY DEF BucketCount, Ceiling
    <2>2. QED BY <1>1, <2>1, Division
  <1>3. QED BY <1>1, <1>2

(* A bucket holds what was received in its time.                            *)
LEMMA BucketExact ==
    ASSUME StatisticsInv, NEW b \in 1..BucketCount, NEW k \in DOMAIN records
    PROVE  LET t == SeriesStart + (b - 1) * Bucket
           IN  k \in InBucket(b) <=>
                  /\ records[k].at >= t /\ records[k].at < SeriesEnd
                  /\ b < BucketCount => records[k].at < t + Bucket
  <1> DEFINE at == records[k].at
             c == BucketOf(at)
             t == SeriesStart + (b - 1) * Bucket
  <1>1. /\ at \in Int /\ Bucket \in Nat \ {0} /\ BucketCount \in Nat /\ b \in Nat
        /\ SeriesStart \in Int /\ SeriesEnd \in Int
    <2>1. drawn \in Nat
      BY StatisticsAssumption DEF StatisticsInv, STypeOK
    <2>2. SeriesEnd \in Int /\ Window \in Nat
      BY <2>1, Aligned, StatisticsAssumption
    <2>3. QED BY <2>2, RecordFacts, BucketCountPositive, StatisticsAssumption DEF SeriesStart
  <1>2. Charted(records[k]) => /\ c \in 1..BucketCount
                               /\ SeriesStart + (c - 1) * Bucket <= at
                               /\ c < BucketCount => at < SeriesStart + c * Bucket
                               /\ at < SeriesEnd
    BY BucketsFollow DEF BucketsHold, InItsBucket, Charted
  <1>3. k \in InBucket(b) <=> Charted(records[k]) /\ c = b
    BY DEF InBucket
  <1>4. Charted(records[k]) <=> at >= SeriesStart /\ at < SeriesEnd
    BY DEF Charted
  <1> HIDE DEF at, c
  <1>5. (b - 1) * Bucket \in Nat /\ b * Bucket \in Nat /\ (b - 1) * Bucket + Bucket = b * Bucket
    BY <1>1
  <1>6. ASSUME k \in InBucket(b)
        PROVE  at >= t /\ at < SeriesEnd /\ (b < BucketCount => at < t + Bucket)
    <2>1. /\ t <= at /\ at < SeriesEnd /\ (b < BucketCount => at < SeriesStart + b * Bucket)
      BY <1>2, <1>3, <1>6
    <2>2. SeriesStart + b * Bucket = t + Bucket
      BY <1>1, <1>5
    <2>3. QED BY <1>1, <1>5, <2>1, <2>2
  <1>7. ASSUME at >= t, at < SeriesEnd, b < BucketCount => at < t + Bucket
        PROVE  k \in InBucket(b)
    <2>1. Charted(records[k])
      BY <1>1, <1>4, <1>5, <1>7
    <2>2. /\ c \in 1..BucketCount /\ c \in Nat /\ SeriesStart + (c - 1) * Bucket <= at
          /\ c < BucketCount => at < SeriesStart + c * Bucket
      BY <1>1, <1>2, <2>1
    <2>3. c * Bucket \in Nat /\ (c - 1) * Bucket \in Int
      BY <1>1, <2>2
    <2>4. ~(c < b)
      <3> SUFFICES ASSUME c < b PROVE FALSE
        OBVIOUS
      <3>1. at < SeriesStart + c * Bucket
        BY <1>1, <2>2
      <3>2. c * Bucket <= (b - 1) * Bucket
        <4>1. c <= b - 1 /\ b - 1 \in Nat
          BY <1>1, <2>2
        <4>2. QED BY <1>1, <2>2, <4>1
      <3>3. QED BY <1>1, <1>5, <1>7, <2>3, <3>1, <3>2
    <2>5. ~(b < c)
      <3> SUFFICES ASSUME b < c PROVE FALSE
        OBVIOUS
      <3>1. at < t + Bucket
        BY <1>1, <1>7, <2>2
      <3>2. b * Bucket <= (c - 1) * Bucket
        <4>1. b <= c - 1 /\ c - 1 \in Nat
          BY <1>1, <2>2
        <4>2. QED BY <1>1, <2>2, <4>1
      <3>3. QED BY <1>1, <1>5, <2>2, <2>3, <3>1, <3>2
    <2>6. QED BY <1>1, <1>3, <2>1, <2>2, <2>4, <2>5
  <1>8. QED BY <1>6, <1>7 DEF at

LEMMA LenOfFunction ==
    ASSUME NEW s, NEW n \in Nat, DOMAIN s = 1..n
    PROVE  Len(s) = n
  OBVIOUS

LEMMA SeriesFollow == StatisticsInv => SeriesAddsUp
  <1> SUFFICES ASSUME StatisticsInv PROVE SeriesAddsUp
    OBVIOUS
  <1> DEFINE series == BuildStatsTimeSeries
             B == 1..BucketCount
             counts == [b \in DOMAIN series |-> series[b].requests]
             total == TotalRequests(series, DOMAIN series)
             charted == {k \in DOMAIN records : Charted(records[k])}
             lately == {k \in DOMAIN records : /\ records[k].at > drawn - Window + Bucket - 1
                                              /\ records[k].at < drawn}
  <1>1. BucketCount \in Nat /\ BucketCount >= 1 /\ IsFiniteSet(B)
    BY BucketCountPositive, FS_Interval
  <1>2. /\ DOMAIN series = B /\ Len(series) = BucketCount
        /\ \A b \in B :
              /\ series[b].t = SeriesStart + (b - 1) * Bucket
              /\ series[b].requests = Cardinality(InBucket(b))
              /\ series[b].byTunnel
                    = [t \in TunnelsSeen |-> Cardinality(InBucket(b) \cap OfTunnel(t))]
    <2> DEFINE row(b) ==
                 [t          |-> SeriesStart + (b - 1) * Bucket,
                  requests   |-> Cardinality(InBucket(b)),
                  avgLatency |-> Mean(Latencies(InBucket(b))),
                  byTunnel   |-> [t \in TunnelsSeen |-> Cardinality(InBucket(b) \cap OfTunnel(t))]]
    <2>1. series = [b \in 1..BucketCount |-> row(b)]
      BY DEF BuildStatsTimeSeries
    <2>2. \A b \in B : series[b] = row(b)
      BY <2>1
    <2>3. \A b : /\ row(b).t = SeriesStart + (b - 1) * Bucket
                 /\ row(b).requests = Cardinality(InBucket(b))
                 /\ row(b).byTunnel
                       = [t \in TunnelsSeen |-> Cardinality(InBucket(b) \cap OfTunnel(t))]
      OBVIOUS
    <2> HIDE DEF row
    <2>4. DOMAIN series = B
      BY <2>1
    <2> HIDE DEF series
    <2>5. Len(series) = BucketCount
      BY <1>1, <2>1, LenOfFunction
    <2>6. QED BY <2>2, <2>3, <2>4, <2>5
  <1>3. /\ IsFiniteSet(DOMAIN records) /\ IsFiniteSet(TunnelsSeen)
        /\ \A k \in DOMAIN records : records[k].tunnel \in TunnelsSeen
    BY RecordFacts
  <1>4. \A b \in B : InBucket(b) \in SUBSET DOMAIN records /\ IsFiniteSet(InBucket(b))
                     /\ Cardinality(InBucket(b)) \in Nat
    <2>1. \A b \in B : InBucket(b) \in SUBSET DOMAIN records
      BY DEF InBucket
    <2>2. QED BY <1>3, <2>1, FS_Subset, FS_CardinalityType
  <1> HIDE DEF series, B
  <1>5. \A b \in B : counts[b] = Cardinality(InBucket(b)) /\ counts[b] \in Int
    <2>1. \A b \in DOMAIN series : counts[b] = series[b].requests
      OBVIOUS
    <2>2. DOMAIN series = B /\ \A b \in B : series[b].requests = Cardinality(InBucket(b))
      BY <1>2
    <2>3. \A b \in B : Cardinality(InBucket(b)) \in Int
      BY <1>4
    <2> HIDE DEF counts
    <2>4. QED BY <2>1, <2>2, <2>3
  <1>6. \A span : TotalRequests(series, span) = SumFunctionOnSet(counts, span)
    BY DEF TotalRequests
  <1> HIDE DEF counts
  <1>7. ASSUME NEW b \in B
        PROVE  series[b].requests =
                  Cardinality({k \in DOMAIN records :
                     /\ records[k].at >= series[b].t
                     /\ records[k].at < SeriesEnd
                     /\ b < BucketCount => records[k].at < series[b].t + Bucket})
    <2> DEFINE S == {k \in DOMAIN records :
                     /\ records[k].at >= series[b].t
                     /\ records[k].at < SeriesEnd
                     /\ b < BucketCount => records[k].at < series[b].t + Bucket}
    <2>1. series[b].t = SeriesStart + (b - 1) * Bucket /\ b \in 1..BucketCount
      BY <1>2 DEF B
    <2>2. \A k \in DOMAIN records : k \in InBucket(b) <=> k \in S
      BY <2>1, BucketExact
    <2>3. S \in SUBSET DOMAIN records
      OBVIOUS
    <2> HIDE DEF S
    <2>4. InBucket(b) = S
      BY <1>4, <2>2, <2>3
    <2>5. QED BY <1>2, <2>4 DEF S
  <1>8. ASSUME NEW b \in B PROVE series[b].requests = SumFunction(series[b].byTunnel)
    <2> DEFINE P == [t \in TunnelsSeen |-> Cardinality(InBucket(b) \cap OfTunnel(t))]
               S == InBucket(b)
    <2>1. SumFunction(series[b].byTunnel) = SumFunctionOnSet(P, TunnelsSeen)
      BY <1>2 DEF SumFunction
    <2>2. S \in SUBSET DOMAIN records /\ IsFiniteSet(S)
      BY <1>4
    <2>3. ASSUME NEW t \in TunnelsSeen PROVE P[t] = Cardinality(Group(S, TunnelOf, t))
      <3> HIDE DEF S
      <3>1. S \cap OfTunnel(t) = Group(S, TunnelOf, t)
        BY <2>2 DEF Group, OfTunnel, TunnelOf
      <3>2. QED BY <3>1 DEF S
    <2>4. \A k \in S : TunnelOf[k] \in TunnelsSeen
      BY <1>3, <2>2 DEF TunnelOf
    <2> HIDE DEF P, S
    <2>5. SumFunctionOnSet(P, TunnelsSeen) = Cardinality(S)
      BY <1>3, <2>2, <2>3, <2>4, CountGroups
    <2>6. QED BY <1>2, <2>1, <2>5 DEF S
  <1>9. total >= Cardinality(lately)
    <2> DEFINE h == [k \in DOMAIN records |-> BucketOf(records[k].at)]
    <2>1. charted \in SUBSET DOMAIN records /\ IsFiniteSet(charted)
      BY <1>3, FS_Subset
    <2>2. lately \in SUBSET charted
      BY BucketsFollow DEF BucketsHold
    <2>3. \A k \in charted : h[k] \in B
      BY BucketsFollow DEF BucketsHold, InItsBucket, B
    <2>4. ASSUME NEW b \in B PROVE counts[b] = Cardinality(Group(charted, h, b))
      <3>1. InBucket(b) = Group(charted, h, b)
        BY DEF InBucket, Group
      <3>2. QED BY <1>5, <3>1
    <2>5. total = SumFunctionOnSet(counts, B)
      BY <1>2, <1>6
    <2> HIDE DEF h, charted, lately, total
    <2>6. SumFunctionOnSet(counts, B) = Cardinality(charted)
      BY <1>1, <2>1, <2>3, <2>4, CountGroups
    <2>7. Cardinality(lately) <= Cardinality(charted) /\ Cardinality(charted) \in Nat
          /\ Cardinality(lately) \in Nat
      BY <2>1, <2>2, FS_Subset, FS_CardinalityType
    <2>8. QED BY <2>5, <2>6, <2>7
  <1>10. ComputeTrafficTrend(series).earlierCount + ComputeTrafficTrend(series).recentCount = total
    <2> DEFINE mid == BucketCount \div 2
    <2>1. mid \in Nat /\ mid <= BucketCount
      BY <1>1
    <2>2. /\ ComputeTrafficTrend(series).earlierCount = SumFunctionOnSet(counts, 1..mid)
          /\ ComputeTrafficTrend(series).recentCount
                = SumFunctionOnSet(counts, (mid + 1)..BucketCount)
      BY <1>2, <1>6 DEF ComputeTrafficTrend
    <2> HIDE DEF mid
    <2>3. 1..mid \in SUBSET B /\ B \ (1..mid) = (mid + 1)..BucketCount
      BY <1>1, <2>1 DEF B
    <2>4. SumFunctionOnSet(counts, B)
            = SumFunctionOnSet(counts, 1..mid) + SumFunctionOnSet(counts, B \ (1..mid))
      BY <1>1, <1>5, <2>3, SumSplit
    <2>5. QED BY <1>2, <1>6, <2>2, <2>3, <2>4
  <1>11. QED BY <1>2, <1>7, <1>8, <1>9, <1>10 DEF SeriesAddsUp, series

(* A sum of a list's first places.                                          *)
LEMMA SumOfFirst ==
    ASSUME NEW f, NEW n \in Nat, \A k \in 1..(n + 1) : f[k] \in Int
    PROVE  SumFunctionOnSet(f, 1..(n + 1)) = SumFunctionOnSet(f, 1..n) + f[n + 1]
  <1> DEFINE S == 1..(n + 1)
             T == 1..n
             m == n + 1
  <1>1. S \ {m} = T /\ m \in S /\ T \in SUBSET S
    OBVIOUS
  <1>2. IsFiniteSet(S) /\ IsFiniteSet(T) /\ \A k \in S : f[k] \in Int
    BY FS_Interval
  <1> HIDE DEF S, T, m
  <1>3. SumFunctionOnSet(f, S) = f[m] + SumFunctionOnSet(f, S \ {m})
    BY <1>1, <1>2, SumOut
  <1>4. \A k \in T : f[k] \in Int
    BY <1>1, <1>2
  <1>5. SumFunctionOnSet(f, T) \in Int /\ f[m] \in Int
    BY <1>1, <1>2, <1>4, SumInt
  <1>6. SumFunctionOnSet(f, S) = SumFunctionOnSet(f, T) + f[m]
    <2>1. S \ {m} = T
      BY <1>1
    <2>2. SumFunctionOnSet(f, S) = f[m] + SumFunctionOnSet(f, T)
      BY <1>3, <2>1
    <2>3. \A a, b \in Int : a + b = b + a
      OBVIOUS
    <2>4. QED BY <1>5, <2>2, <2>3
  <1>7. QED BY <1>6 DEF S, T, m

LEMMA PhasesFollow == StatisticsInv => PhasesTile
  <1> SUFFICES ASSUME StatisticsInv, NEW k \in Timed(DOMAIN records)
               PROVE  LET latency == records[k].outcome.latency
                          spans   == FromEstimatedLatency(latency)
                      IN  /\ spans[1].start = 0
                          /\ \A j \in 1..4 : spans[j + 1].start = spans[j].start + spans[j].duration
                          /\ spans[5].start + spans[5].duration
                                = 100 * (IF latency = 0 THEN 1 ELSE latency)
    BY DEF PhasesTile
  <1> DEFINE latency == records[k].outcome.latency
             spans == FromEstimatedLatency(latency)
             whole == IF latency = 0 THEN 1 ELSE latency
             share == [j \in 1..5 |-> (PhaseWeights[j] * (whole * 100)) \div 100]
             before(j) == SumFunctionOnSet(share, 1..(j - 1))
  <1>1. latency \in Nat
    BY LatencyFacts
  <1>2. whole \in Nat
    BY <1>1
  <1>3. \A j \in 1..5 : /\ spans[j].start = before(j)
                        /\ spans[j].duration = IF j = 5 THEN whole * 100 - before(5) ELSE share[j]
    BY DEF FromEstimatedLatency
  <1> HIDE DEF spans, whole, latency
  <1>4. \A j \in 1..5 : share[j] \in Int
    <2>1. \A j \in 1..5 : PhaseWeights[j] \in Int
      BY DEF PhaseWeights
    <2>2. \A j \in 1..5 : PhaseWeights[j] * (whole * 100) \in Int
      BY <1>2, <2>1
    <2>3. QED BY <2>2
  <1> HIDE DEF share
  <1>5. before(1) = 0
    <2>1. 1..(1 - 1) = {}
      OBVIOUS
    <2>2. QED BY <2>1, SumEmpty
  <1>6. ASSUME NEW j \in 1..4 PROVE before(j + 1) = before(j) + share[j]
    <2>1. j - 1 \in Nat /\ (j - 1) + 1 = j /\ (j + 1) - 1 = j
          /\ \A i \in 1..((j - 1) + 1) : share[i] \in Int
      BY <1>4
    <2>2. SumFunctionOnSet(share, 1..((j - 1) + 1))
            = SumFunctionOnSet(share, 1..(j - 1)) + share[(j - 1) + 1]
      BY <2>1, SumOfFirst
    <2>3. QED BY <2>1, <2>2
  <1>7. before(5) \in Int
    <2>1. 1..(5 - 1) = 1..4
      OBVIOUS
    <2>2. IsFiniteSet(1..4)
      <3>1. \A n \in Nat : IsFiniteSet(1..n)
        BY FS_Interval
      <3>2. QED BY <3>1
    <2>3. \A j \in 1..4 : share[j] \in Int
      BY <1>4
    <2>4. SumFunctionOnSet(share, 1..4) \in Int
      BY <2>2, <2>3, SumInt
    <2>5. QED BY <2>1, <2>4
  <1> HIDE DEF before
  <1>8. spans[1].start = 0
    BY <1>3, <1>5
  <1>9. \A j \in 1..4 : spans[j + 1].start = spans[j].start + spans[j].duration
    BY <1>3, <1>6
  <1>10. spans[5].start + spans[5].duration = 100 * whole
    <2>1. spans[5].start = before(5) /\ spans[5].duration = whole * 100 - before(5)
      BY <1>3
    <2>2. QED BY <1>2, <1>7, <2>1
  <1>11. QED BY <1>8, <1>9, <1>10 DEF spans, whole, latency

-----------------------------------------------------------------------------
(* Of fractions with positive denominators, one is the greatest.            *)
AtMost(a, c, f, e) == a[f] * c[e] <= a[e] * c[f]

LEMMA FractionsOrdered ==
    ASSUME NEW p \in Nat, NEW q \in Nat, NEW r \in Nat, NEW s \in Nat, s # 0,
           NEW u \in Nat, NEW v \in Nat, p * s <= r * q, r * v <= u * s
    PROVE  p * v <= u * q
  <1>1. \A x, y, z \in Nat : x <= y => x * z <= y * z
    OBVIOUS
  <1>2. (p * s) * v <= (r * q) * v /\ (r * v) * q <= (u * s) * q
    <2>1. p * s \in Nat /\ r * q \in Nat /\ r * v \in Nat /\ u * s \in Nat
      OBVIOUS
    <2>2. QED BY <1>1, <2>1
  <1>3. /\ (p * s) * v = (p * v) * s /\ (r * q) * v = (r * v) * q /\ (u * s) * q = (u * q) * s
        /\ p * v \in Nat /\ u * q \in Nat /\ (r * v) * q \in Nat
    OBVIOUS
  <1>4. (p * v) * s <= (u * q) * s
    BY <1>2, <1>3
  <1>5. SUFFICES ASSUME ~(p * v <= u * q) PROVE FALSE
    OBVIOUS
  <1>6. u * q + 1 <= p * v
    BY <1>3, <1>5
  <1>7. (u * q + 1) * s <= (p * v) * s
    BY <1>1, <1>3, <1>6
  <1>8. (u * q + 1) * s = (u * q) * s + s /\ (u * q) * s \in Nat
    BY <1>3
  <1>9. QED BY <1>3, <1>4, <1>7, <1>8

LEMMA GreatestFraction ==
    ASSUME NEW E, IsFiniteSet(E), E # {}, NEW a, NEW c,
           \A e \in E : a[e] \in Nat /\ c[e] \in Nat /\ c[e] # 0
    PROVE  \E e \in E : \A f \in E : AtMost(a, c, f, e)
  <1> DEFINE Top(T) == \E e \in T : \A f \in T : AtMost(a, c, f, e)
             Good == {T \in SUBSET E : T = {} \/ Top(T)}
  <1>1. {} \in Good
    OBVIOUS
  <1>2. ASSUME NEW T \in SUBSET E, NEW x \in E \ T, T \in Good PROVE T \cup {x} \in Good
    <2>1. AtMost(a, c, x, x)
      BY DEF AtMost
    <2>2. CASE T = {}
      BY <2>1, <2>2
    <2>3. CASE T # {}
      <3>1. PICK e \in T : \A f \in T : AtMost(a, c, f, e)
        BY <1>2, <2>3
      <3>2. /\ a[e] \in Nat /\ c[e] \in Nat /\ c[e] # 0 /\ a[x] \in Nat /\ c[x] \in Nat
            /\ a[x] * c[e] \in Nat /\ a[e] * c[x] \in Nat
        OBVIOUS
      <3>3. CASE AtMost(a, c, x, e)
        BY <3>1, <3>3
      <3>4. CASE ~AtMost(a, c, x, e)
        <4>1. a[e] * c[x] <= a[x] * c[e]
          BY <3>2, <3>4 DEF AtMost
        <4>2. ASSUME NEW f \in T PROVE AtMost(a, c, f, x)
          <5>1. a[f] \in Nat /\ c[f] \in Nat
            OBVIOUS
          <5>2. a[f] * c[e] <= a[e] * c[f]
            BY <3>1 DEF AtMost
          <5>3. a[f] * c[x] <= a[x] * c[f]
            BY <3>2, <4>1, <5>1, <5>2, FractionsOrdered
          <5>4. QED BY <5>3 DEF AtMost
        <4>3. QED BY <2>1, <4>2
      <3>5. QED BY <3>3, <3>4
    <2>4. QED BY <2>2, <2>3
  <1> HIDE DEF Good
  <1>3. E \in Good
    BY <1>1, <1>2, SetInduction
  <1>4. QED BY <1>3 DEF Good

EndpointOf == [k \in DOMAIN records |-> records[k].endpoint]

LEMMA SlowestFollow == StatisticsInv => SlowestIsSlow
  <1> SUFFICES ASSUME StatisticsInv, FindSlowestEndpoint # Absent
               PROVE  ~Slower(Mean(Latencies(DOMAIN records)),
                              Mean(Latencies(OfEndpoint(FindSlowestEndpoint))))
    BY DEF SlowestIsSlow
  <1> DEFINE all == DOMAIN records
             S == Timed(all)
             lat == Latencies(all)
             E == {records[k].endpoint : k \in S}
             a == [e \in E |-> SumFunctionOnSet(lat, Group(S, EndpointOf, e))]
             c == [e \in E |-> Cardinality(Group(S, EndpointOf, e))]
             slowest == FindSlowestEndpoint
  <1>1. /\ S \in SUBSET all /\ IsFiniteSet(S)
        /\ \A k \in S : lat[k] \in Nat /\ lat[k] = records[k].outcome.latency
        /\ DOMAIN lat = S
    BY LatencyFacts
  <1>2. IsFiniteSet(E) /\ \A k \in S : EndpointOf[k] \in E
    <2>1. E = {EndpointOf[k] : k \in S}
      BY <1>1 DEF EndpointOf
    <2> HIDE DEF S
    <2>2. IsFiniteSet({EndpointOf[k] : k \in S})
      BY <1>1, FiniteImage
    <2>3. QED BY <2>1, <2>2
  <1>3. ASSUME NEW e \in E PROVE Group(S, EndpointOf, e) \in SUBSET S
                                 /\ IsFiniteSet(Group(S, EndpointOf, e))
                                 /\ Group(S, EndpointOf, e) # {}
    <2>1. Group(S, EndpointOf, e) \in SUBSET S
      BY DEF Group
    <2>2. Group(S, EndpointOf, e) # {}
      BY <1>1 DEF Group, EndpointOf
    <2>3. QED BY <1>1, <2>1, <2>2, FS_Subset
  <1>4. ASSUME NEW e \in E PROVE Mean(Latencies(OfEndpoint(e))) = <<a[e], c[e]>>
    <2> DEFINE own == OfEndpoint(e)
               L == Latencies(own)
               U == Timed(own)
    <2>1. own \in SUBSET all
      BY DEF OfEndpoint
    <2>2. /\ DOMAIN L = U /\ IsFiniteSet(U)
          /\ \A k \in U : L[k] \in Nat /\ L[k] = records[k].outcome.latency
      BY <2>1, LatencyFacts
    <2>3. U = Group(S, EndpointOf, e)
      BY DEF Timed, OfEndpoint, Group, EndpointOf
    <2>4. Mean(L) = <<SumFunctionOnSet(L, U), Cardinality(U)>>
      BY <2>2 DEF Mean, SumFunction
    <2>5. \A k \in U : k \in S
      BY <2>3 DEF Group
    <2> HIDE DEF L, U, lat, S, own
    <2>6. \A k \in U : L[k] \in Int /\ lat[k] = L[k]
      BY <1>1, <2>2, <2>5
    <2>7. SumFunctionOnSet(L, U) = SumFunctionOnSet(lat, U)
      BY <2>2, <2>6, SumSame
    <2>8. a[e] = SumFunctionOnSet(lat, U) /\ c[e] = Cardinality(U)
      BY <2>3
    <2> HIDE DEF a, c
    <2>9. Mean(L) = <<a[e], c[e]>>
      BY <2>4, <2>7, <2>8
    <2>10. QED BY <2>9 DEF L, own
  <1>5. ASSUME NEW e \in E PROVE a[e] \in Nat /\ c[e] \in Nat /\ c[e] # 0
    <2> DEFINE T == Group(S, EndpointOf, e)
               zero == [k \in T |-> 0]
    <2>1. IsFiniteSet(T) /\ T # {} /\ \A k \in T : lat[k] \in Nat
      BY <1>1, <1>3
    <2>2. a[e] = SumFunctionOnSet(lat, T) /\ c[e] = Cardinality(T)
      OBVIOUS
    <2>3. \A k \in T : zero[k] = 0
      OBVIOUS
    <2> HIDE DEF zero, T, lat
    <2>4. SumFunctionOnSet(lat, T) \in Int
      BY <2>1, SumInt
    <2>5. SumFunctionOnSet(zero, T) = 0
      BY <2>1, <2>3, SumZero
    <2>6. SumFunctionOnSet(zero, T) <= SumFunctionOnSet(lat, T)
      <3>1. \A k \in T : zero[k] \in Int /\ lat[k] \in Int /\ zero[k] <= lat[k]
        BY <2>1, <2>3
      <3>2. QED BY <2>1, <3>1, SumMonotone
    <2>7. SumFunctionOnSet(lat, T) \in Nat
      BY <2>4, <2>5, <2>6
    <2>8. Cardinality(T) \in Nat /\ Cardinality(T) # 0
      BY <2>1, FS_CardinalityType, FS_EmptySet
    <2>9. QED BY <2>2, <2>7, <2>8
  <1>6. /\ slowest \in E
        /\ \A f \in E : ~Slower(Mean(Latencies(OfEndpoint(f))),
                                Mean(Latencies(OfEndpoint(slowest))))
    <2>1. slowest = IF S = {} THEN Absent
                    ELSE CHOOSE e \in E : \A f \in E :
                           ~Slower(Mean(Latencies(OfEndpoint(f))), Mean(Latencies(OfEndpoint(e))))
      BY DEF FindSlowestEndpoint
    <2>2. S # {} /\ E # {}
      BY <2>1
    <2> HIDE DEF E, a, c
    <2>3. PICK e \in E : \A f \in E : AtMost(a, c, f, e)
      BY <1>2, <1>5, <2>2, GreatestFraction
    <2>4. ASSUME NEW f \in E
          PROVE  ~Slower(Mean(Latencies(OfEndpoint(f))), Mean(Latencies(OfEndpoint(e))))
      <3>1. a[f] * c[e] <= a[e] * c[f] /\ a[f] * c[e] \in Nat /\ a[e] * c[f] \in Nat
        BY <1>5, <2>3 DEF AtMost
      <3>2. ~(a[f] * c[e] > a[e] * c[f])
        BY <3>1
      <3>3. ~Slower(<<a[f], c[f]>>, <<a[e], c[e]>>)
        BY <3>2 DEF Slower
      <3>4. QED BY <1>4, <3>3
    <2> HIDE DEF slowest
    <2>5. QED BY <2>1, <2>2, <2>4
  <1> HIDE DEF slowest, S, lat, E
  <1>7. SumFunctionOnSet(a, E) = SumFunctionOnSet(lat, S)
    <2>1. \A k \in S : lat[k] \in Int /\ EndpointOf[k] \in E
      BY <1>1, <1>2
    <2>2. \A e \in E : a[e] = SumFunctionOnSet(lat, Group(S, EndpointOf, e))
      OBVIOUS
    <2> HIDE DEF a
    <2>3. QED BY <1>1, <1>2, <2>1, <2>2, SumGroups
  <1>8. SumFunctionOnSet(c, E) = Cardinality(S)
    <2>1. \A e \in E : c[e] = Cardinality(Group(S, EndpointOf, e))
      OBVIOUS
    <2> HIDE DEF c
    <2>2. QED BY <1>1, <1>2, <2>1, CountGroups
  <1> HIDE DEF a, c
  <1>9. \A e \in E : a[e] * c[slowest] <= a[slowest] * c[e]
    <2>1. ASSUME NEW e \in E PROVE a[e] * c[slowest] <= a[slowest] * c[e]
      <3>1. ~Slower(<<a[e], c[e]>>, <<a[slowest], c[slowest]>>)
        BY <1>4, <1>6
      <3>2. a[e] * c[slowest] \in Nat /\ a[slowest] * c[e] \in Nat
        BY <1>5, <1>6
      <3>3. ~(a[e] * c[slowest] > a[slowest] * c[e])
        BY <3>1 DEF Slower
      <3>4. QED BY <3>2, <3>3
    <2>2. QED BY <2>1
  <1> DEFINE x == [e \in E |-> c[slowest] * a[e]]
             y == [e \in E |-> a[slowest] * c[e]]
  <1>10. /\ c[slowest] \in Int /\ a[slowest] \in Int
         /\ \A e \in E : /\ a[e] \in Int /\ c[e] \in Int
                         /\ x[e] \in Int /\ y[e] \in Int /\ x[e] <= y[e]
                         /\ x[e] = c[slowest] * a[e] /\ y[e] = a[slowest] * c[e]
    <2>1. \A e \in E : a[e] * c[slowest] = c[slowest] * a[e]
                       /\ a[e] * c[slowest] \in Int /\ a[slowest] * c[e] \in Int
      BY <1>5, <1>6
    <2>2. QED BY <1>5, <1>6, <1>9, <2>1
  <1> HIDE DEF x, y
  <1>11. SumFunctionOnSet(x, E) = c[slowest] * SumFunctionOnSet(a, E)
    <2>1. \A e \in E : a[e] \in Int /\ x[e] = c[slowest] * a[e]
      BY <1>10
    <2>2. QED BY <1>2, <1>10, <2>1, SumScaled
  <1>12. SumFunctionOnSet(y, E) = a[slowest] * SumFunctionOnSet(c, E)
    <2>1. \A e \in E : c[e] \in Int /\ y[e] = a[slowest] * c[e]
      BY <1>10
    <2>2. QED BY <1>2, <1>10, <2>1, SumScaled
  <1>13. SumFunctionOnSet(x, E) <= SumFunctionOnSet(y, E)
    <2>1. \A e \in E : x[e] \in Int /\ y[e] \in Int /\ x[e] <= y[e]
      BY <1>10
    <2>2. QED BY <1>2, <2>1, SumMonotone
  <1> DEFINE whole == SumFunctionOnSet(lat, S)
             n == Cardinality(S)
  <1>14. Mean(lat) = <<whole, n>> /\ whole \in Int /\ n \in Int
    <2>1. \A k \in S : lat[k] \in Int
      BY <1>1
    <2>2. whole \in Int /\ n \in Int
      BY <1>1, <2>1, SumInt, FS_CardinalityType
    <2>3. QED BY <1>1, <2>2 DEF Mean, SumFunction
  <1> HIDE DEF whole, n
  <1>15. c[slowest] * whole <= a[slowest] * n
    BY <1>7, <1>8, <1>11, <1>12, <1>13 DEF whole, n
  <1>16. ~(whole * c[slowest] > a[slowest] * n)
    <2>1. /\ whole * c[slowest] = c[slowest] * whole /\ whole * c[slowest] \in Int
          /\ a[slowest] * n \in Int
      BY <1>10, <1>14
    <2>2. QED BY <1>15, <2>1
  <1>17. ~Slower(<<whole, n>>, <<a[slowest], c[slowest]>>)
    BY <1>16 DEF Slower
  <1>18. Mean(Latencies(OfEndpoint(slowest))) = <<a[slowest], c[slowest]>>
    BY <1>4, <1>6
  <1>19. QED BY <1>14, <1>17, <1>18 DEF lat, slowest

LEMMA ChartsFollow == StatisticsInv => ChartsAddUp
  BY SeriesFollow, SlowestFollow, PhasesFollow DEF ChartsAddUp

(* The figures of the statistics agree with each other and with the records
   they stand for, in the whole and in each tunnel.                         *)
THEOREM StatisticsAgree == SSpec => []StatisticsAddUp
  BY StatisticsFollow, StatisticsInvariant, PTL

(* So do the charts and the insights drawn from them.                       *)
THEOREM ChartsAgree == SSpec => []ChartsAddUp
  BY ChartsFollow, StatisticsInvariant, PTL
=============================================================================
