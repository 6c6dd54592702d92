--------------------------- MODULE GatewaySession ---------------------------
(***************************************************************************)
(* A CLI's WebSocket session on the server: admission under the connection *)
(* limits, the awaited authentication, the heartbeat monitor, and the      *)
(* clean-up when the socket closes.                                        *)
(*                                                                         *)
(* handleConnection() awaits between reserving the connection slot and     *)
(* binding the session, and the socket may close meanwhile: then           *)
(* handleDisconnect() runs before the rest of handleConnection().          *)
(***************************************************************************)
EXTENDS Integers, FiniteSets

CONSTANTS
    Clients,         \* WebSocket objects
    Ips, IpOf,       \* clientIp() of each socket
    MaxGlobal,       \* maxWsConnections
    MaxPerIp,        \* maxWsConnectionsPerIp
    Timeout,         \* HEARTBEAT_TIMEOUT_MS
    SweepInterval,   \* sweepIntervalMs
    MaxTime,         \* bound of the clock
    None

ASSUME SessionAssumption ==
    /\ IpOf \in [Clients -> Ips]
    /\ MaxGlobal \in Nat /\ MaxPerIp \in Nat /\ Timeout \in Nat /\ MaxTime \in Nat
    /\ SweepInterval \in Nat \ {0}
    /\ None \notin Ips /\ None \notin Nat

VARIABLES
    conn,        \* readyState of the socket; "closed" once its close is handled
    handler,     \* how far handleConnection() is
    slots,       \* ConnectionLimiter: total, and per address
    ipByClient,  \* GatewaySecurityPolicy: the address a slot was taken for
    bound,       \* ContextSessionStore: sockets with a context
    lastBeatAt,  \* HeartbeatMonitor: when the socket was last heard
    nextSweep,   \* when the sweep timer fires next; None: it is stopped
    clock        \* Date.now()

vars == <<conn, handler, slots, ipByClient, bound, lastBeatAt, nextSweep, clock>>

TypeOK ==
    /\ conn \in [Clients -> {"new", "open", "closing", "closed"}]
    /\ handler \in [Clients -> {"idle", "resolving", "serving", "rejected"}]
    /\ slots \in [total : Nat, byIp : [Ips -> Nat]]
    /\ ipByClient \in [Clients -> Ips \cup {None}]
    /\ bound \subseteq Clients
    /\ lastBeatAt \in [Clients -> Nat \cup {None}]
    /\ nextSweep \in Nat \cup {None}
    /\ clock \in Nat

Init ==
    /\ conn = [c \in Clients |-> "new"]
    /\ handler = [c \in Clients |-> "idle"]
    /\ slots = [total |-> 0, byIp |-> [ip \in Ips |-> 0]]
    /\ ipByClient = [c \in Clients |-> None]
    /\ bound = {}
    /\ lastBeatAt = [c \in Clients |-> None]
    /\ nextSweep = None
    /\ clock = 0

Tracked(beats) == {c \in Clients : beats[c] # None}

-----------------------------------------------------------------------------
(* ConnectionLimiter and HeartbeatMonitor.                                 *)

CanAdmit(ip) == slots.total < MaxGlobal /\ slots.byIp[ip] < MaxPerIp

(* Faulty variant: only the address's count is given back.                 *)
ReleasedIpOnly(ip) == [slots EXCEPT !.byIp[ip] = @ - 1]

Released(ip) == [slots EXCEPT !.byIp[ip] = @ - 1, !.total = @ - 1]

(* Faulty variant: each registration starts the timer anew.                *)
TimerAfterRestarts(beats) ==
    IF Tracked(beats) = {} THEN None ELSE clock + SweepInterval

(* The sweep timer runs while somebody is tracked.                         *)
TimerAfter(beats) ==
    IF Tracked(beats) = {} THEN None
    ELSE IF nextSweep = None THEN clock + SweepInterval
    ELSE nextSweep

Track(beats) == lastBeatAt' = beats /\ nextSweep' = TimerAfter(beats)

-----------------------------------------------------------------------------
(* handleConnection(), up to the await.                                    *)
Connect(c) ==
    /\ conn[c] = "new"
    /\ IF CanAdmit(IpOf[c])
       THEN /\ conn' = [conn EXCEPT ![c] = "open"]
            /\ handler' = [handler EXCEPT ![c] = "resolving"]
            /\ slots' = [slots EXCEPT !.byIp[IpOf[c]] = @ + 1, !.total = @ + 1]
            /\ ipByClient' = [ipByClient EXCEPT ![c] = IpOf[c]]
       ELSE /\ conn' = [conn EXCEPT ![c] = "closing"]
            /\ handler' = [handler EXCEPT ![c] = "rejected"]
            /\ UNCHANGED <<slots, ipByClient>>
    /\ UNCHANGED <<bound, lastBeatAt, nextSweep, clock>>

(* The origin is not allowed: no slot is taken.                            *)
RejectOrigin(c) ==
    /\ conn[c] = "new"
    /\ conn' = [conn EXCEPT ![c] = "closing"]
    /\ handler' = [handler EXCEPT ![c] = "rejected"]
    /\ UNCHANGED <<slots, ipByClient, bound, lastBeatAt, nextSweep, clock>>

(* The context is resolved: the rest of handleConnection().                *)
Resolved(c) ==
    /\ handler[c] = "resolving"
    /\ handler' = [handler EXCEPT ![c] = "serving"]
    /\ bound' = bound \cup {c}
    /\ Track([lastBeatAt EXCEPT ![c] = clock])
    /\ UNCHANGED <<conn, slots, ipByClient, clock>>

(* It cannot be resolved: the socket is closed, its slot is given back when
   the close is handled.                                                   *)
Unresolved(c) ==
    /\ handler[c] = "resolving"
    /\ handler' = [handler EXCEPT ![c] = "rejected"]
    /\ conn' = [conn EXCEPT ![c] = IF @ = "open" THEN "closing" ELSE @]
    /\ UNCHANGED <<slots, ipByClient, bound, lastBeatAt, nextSweep, clock>>

(* handlePing()                                                            *)
Ping(c) ==
    /\ handler[c] = "serving" /\ conn[c] = "open"
    /\ lastBeatAt[c] # None
    /\ lastBeatAt' = [lastBeatAt EXCEPT ![c] = clock]
    /\ UNCHANGED <<conn, handler, slots, ipByClient, bound, nextSweep, clock>>

Stale(c) == lastBeatAt[c] # None /\ clock - lastBeatAt[c] > Timeout

(* Faulty variant: the sweep forgets silent sockets without terminating them. *)
SweepForgets ==
    /\ nextSweep = clock
    /\ LET beats == [c \in Clients |-> IF Stale(c) THEN None ELSE lastBeatAt[c]]
       IN  /\ lastBeatAt' = beats
           /\ nextSweep' = IF Tracked(beats) = {} THEN None ELSE clock + SweepInterval
    /\ UNCHANGED <<conn, handler, slots, ipByClient, bound, clock>>

(* sweep(): silent sockets are forgotten and terminated; a socket that is
   closed already stays closed.                                            *)
Sweep ==
    /\ nextSweep = clock
    /\ conn' = [c \in Clients |-> IF Stale(c) /\ conn[c] = "open" THEN "closing"
                                  ELSE conn[c]]
    /\ LET beats == [c \in Clients |-> IF Stale(c) THEN None ELSE lastBeatAt[c]]
       IN  /\ lastBeatAt' = beats
           /\ nextSweep' = IF Tracked(beats) = {} THEN None ELSE clock + SweepInterval
    /\ UNCHANGED <<handler, slots, ipByClient, bound, clock>>

(* handleDisconnect(), whoever closed the socket.  (Its detachClient() is in
   module TunnelRegistry.)                                                 *)
Close(c) ==
    /\ conn[c] \in {"open", "closing"}
    /\ conn' = [conn EXCEPT ![c] = "closed"]
    /\ Track([lastBeatAt EXCEPT ![c] = None])
    /\ IF ipByClient[c] = None
       THEN UNCHANGED <<slots, ipByClient>>
       ELSE /\ slots' = Released(ipByClient[c])
            /\ ipByClient' = [ipByClient EXCEPT ![c] = None]
    /\ bound' = bound \ {c}
    /\ UNCHANGED <<handler, clock>>

(* Timers fire on time: the clock does not pass a sweep that is due.       *)
Tick ==
    /\ clock < MaxTime /\ clock # nextSweep
    /\ clock' = clock + 1
    /\ UNCHANGED <<conn, handler, slots, ipByClient, bound, lastBeatAt, nextSweep>>

Next ==
    \/ \E c \in Clients : \/ Connect(c) \/ RejectOrigin(c)
                          \/ Resolved(c) \/ Unresolved(c)
                          \/ Ping(c) \/ Close(c)
    \/ Sweep
    \/ Tick

Spec == Init /\ [][Next]_vars

-----------------------------------------------------------------------------
Admitted == {c \in Clients : conn[c] \in {"open", "closing"} /\ ipByClient[c] # None}

(* "Call release exactly once per successful tryAdmit": the counts are those
   of the admitted sockets that have not closed, wherever their handler is;
   a slot is neither lost nor given back twice, and the limits hold.       *)
SlotsCountOpenSockets ==
    /\ slots.total = Cardinality(Admitted)
    /\ slots.total <= MaxGlobal
    /\ \A ip \in Ips : /\ slots.byIp[ip] = Cardinality({c \in Admitted : ipByClient[c] = ip})
                       /\ slots.byIp[ip] <= MaxPerIp
    /\ \A c \in Clients : conn[c] = "closed" => ipByClient[c] = None

(* Every socket whose messages are handled has a session and is watched by
   the heartbeat monitor, whose timer runs, or is being closed; and the timer
   stops with the last socket.                                             *)
ServedIsWatched ==
    /\ \A c \in Clients : handler[c] = "serving" /\ conn[c] = "open"
                             => c \in bound /\ lastBeatAt[c] # None
    /\ nextSweep # None <=> Tracked(lastBeatAt) # {}

(* "The worst-case overshoot stays small": a socket is silent for at most
   the timeout and one sweep interval before it is dropped.                *)
SilenceBounded ==
    \A c \in Clients : lastBeatAt[c] # None
                          => clock - lastBeatAt[c] <= Timeout + SweepInterval
=============================================================================
