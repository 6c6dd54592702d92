--------------------------- MODULE GatewayMessages --------------------------
(***************************************************************************)
(* The messages of the sockets of GatewaySession under the rate limit that *)
(* the sockets of one address share.  Frames of HTTP responses are not     *)
(* limited (they are in HttpExchange), and what create_tunnel does is in   *)
(* TunnelRegistry: here both are messages that change nothing else.        *)
(***************************************************************************)
EXTENDS GatewaySession, Sequences

CONSTANTS
    RateLimit,     \* wsMessageRateLimit
    RateWindow     \* wsMessageRateWindowMs

ASSUME RateAssumption == RateLimit \in Nat /\ RateWindow \in Nat \ {0}

VARIABLES
    handledAt,   \* when each message handled since the address's reset came
    hits         \* SlidingWindowRateLimiter: the messages, by their index in
                 \* handledAt, whose timestamps it still has

mvars == <<vars, handledAt, hits>>

Times == 0..MaxTime

MTypeOK ==
    /\ TypeOK
    /\ handledAt \in [Ips -> Seq(Times)]
    /\ hits \in [Ips -> SUBSET (Nat \ {0})]
    /\ \A ip \in Ips : hits[ip] \subseteq DOMAIN handledAt[ip]

MInit ==
    /\ Init
    /\ handledAt = [ip \in Ips |-> << >>]
    /\ hits = [ip \in Ips |-> {}]

Recent(ip) == {m \in hits[ip] : handledAt[ip][m] > clock - RateWindow}

(* Faulty variant: the limit is off by one.                                *)
AllowedOneMore(ip) == Cardinality(Recent(ip)) <= RateLimit

(* attempt()                                                               *)
Allowed(ip) == Cardinality(Recent(ip)) < RateLimit

(* handleClientMessage(): a refused message is answered with an error.     *)
Message(c, kind) ==
    LET ip == ipByClient[c]
    IN  /\ handler[c] = "serving" /\ conn[c] = "open"
        /\ IF Allowed(ip)
           THEN /\ handledAt' = [handledAt EXCEPT ![ip] = Append(@, clock)]
                /\ hits' = [hits EXCEPT ![ip] = Recent(ip) \cup {Len(handledAt[ip]) + 1}]
                /\ IF kind = "ping" THEN Ping(c) ELSE UNCHANGED vars
           ELSE /\ hits' = [hits EXCEPT ![ip] = Recent(ip)]
                /\ UNCHANGED <<vars, handledAt>>

(* release(): the address's window is forgotten with one of its sockets.   *)
CloseResets(c) ==
    /\ Close(c)
    /\ IF ipByClient[c] = None
       THEN UNCHANGED <<handledAt, hits>>
       ELSE /\ handledAt' = [handledAt EXCEPT ![ipByClient[c]] = << >>]
            /\ hits' = [hits EXCEPT ![ipByClient[c]] = {}]

MNext ==
    \/ \E c \in Clients : \/ Message(c, "ping") \/ Message(c, "create")
                          \/ CloseResets(c)
    \/ /\ \/ \E c \in Clients : Connect(c) \/ RejectOrigin(c) \/ Resolved(c) \/ Unresolved(c)
          \/ Sweep
          \/ Tick
       /\ UNCHANGED <<handledAt, hits>>

MSpec == MInit /\ [][MNext]_mvars

-----------------------------------------------------------------------------
Handled(ip, from, to) == {m \in DOMAIN handledAt[ip] : handledAt[ip][m] \in from..to}

(* "Applies the per-IP message rate limit": as long as no socket of an
   address closes, no window of any position sees more of its messages than
   the limit, and none is refused before its window has seen as many.      *)
RateWindowTrue ==
    \A ip \in Ips :
        /\ \A t \in Times : Cardinality(Handled(ip, t - RateWindow + 1, t)) <= RateLimit
        /\ Recent(ip) = Handled(ip, clock - RateWindow + 1, clock)
=============================================================================
