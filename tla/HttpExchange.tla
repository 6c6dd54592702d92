---------------------------- MODULE HttpExchange ----------------------------
(***************************************************************************)
(* One public HTTP request travelling through a tunnel and back:           *)
(* HttpForwardingService and HttpExchangeCoordinator on the server, the    *)
(* RequestForwarder of the CLI, and the WebSockets between them.           *)
(*                                                                         *)
(* The server runs on one event loop.  StartSettled and Wake are its       *)
(* promise continuations: several frames may be delivered before them, but *)
(* a timer or an incoming request waits for them (Quiet).                  *)
(*                                                                         *)
(* The tunnel is one; it moves to another socket when the CLI reconnects   *)
(* and reclaims it (module TunnelRegistry).                                *)
(***************************************************************************)
EXTENDS Integers, Sequences, FiniteSets

CONSTANTS
    Requests,     \* request ids, randomUUID()
    Sockets,      \* WebSockets of the CLI, one per connection attempt
    FirstSocket,  \* the socket the tunnel was created on
    MaxChunks,    \* bound: chunks a local response may have
    MaxPending,   \* MAX_PENDING_HTTP_EXCHANGES
    MaxBuffer,    \* MAX_EXCHANGE_BUFFER_BYTES, in chunks
    None

ASSUME ExchangeAssumption ==
    /\ FirstSocket \in Sockets
    /\ MaxChunks \in Nat /\ MaxPending \in Nat /\ MaxBuffer \in Nat
    /\ None \notin Sockets \cup Nat

VARIABLES
    link,        \* per socket: "unused", "up", or "down" (lost, maybe unnoticed)
    toCli,       \* per socket: frames on their way to the CLI
    toServer,    \* per socket: frames on their way to the server
    tunnelSock,  \* the socket the server's tunnel record holds; None: parked
    cliSock,     \* the CLI's open socket
    kept,        \* the CLI still works under this tunnel's id
    ex,          \* InternalPending of each request
    pending,     \* keys of the coordinator's map
    fwd,         \* progress of forward(), then of the public response
    pull,        \* what the body iterator does
    slot,        \* what its waiter was resolved with
    sock,        \* tunnel.client captured by forward()
    received,    \* chunks handed to the public response
    events,      \* lifecycle events published for the request
    cli,         \* progress of the CLI's RequestForwarder
    sent         \* chunks the CLI has passed to send()

serverVars == <<ex, pending, fwd, pull, slot, sock, received, events>>
cliVars    == <<cli, sent>>
netVars    == <<link, toCli, toServer, tunnelSock, cliSock, kept>>
vars       == <<serverVars, cliVars, netVars>>

Chunks == 1..MaxChunks
Done   == 0          \* an iterator result with done: true

Frames == [type : {"start", "chunk", "end", "error", "cancel"},
           req : Requests, seq : 0..MaxChunks]

Exchange == [start : {"unborn", "waiting", "resolved", "rejected"},
             buffer : Seq(Chunks), ended : BOOLEAN, failed : BOOLEAN]

TypeOK ==
    /\ link \in [Sockets -> {"unused", "up", "down"}]
    /\ toCli \in [Sockets -> Seq(Frames)]
    /\ toServer \in [Sockets -> Seq(Frames)]
    /\ tunnelSock \in Sockets \cup {None}
    /\ cliSock \in Sockets \cup {None}
    /\ kept \in BOOLEAN
    /\ ex \in [Requests -> Exchange]
    /\ pending \subseteq Requests
    /\ fwd \in [Requests -> {"new", "refused", "awaiting", "streaming",
                             "returning", "returned", "failed", "abandoned"}]
    /\ pull \in [Requests -> {"idle", "waiting", "woken"}]
    /\ slot \in [Requests -> Chunks \cup {Done}]
    /\ sock \in [Requests -> Sockets \cup {None}]
    /\ received \in [Requests -> Seq(Chunks)]
    /\ events \in [Requests -> Seq({"received", "returned", "failed"})]
    /\ cli \in [Requests -> {"idle", "buffered", "proxying", "streaming", "done"}]
    /\ sent \in [Requests -> 0..MaxChunks]

Init ==
    /\ link = [g \in Sockets |-> IF g = FirstSocket THEN "up" ELSE "unused"]
    /\ toCli = [g \in Sockets |-> << >>]
    /\ toServer = [g \in Sockets |-> << >>]
    /\ tunnelSock = FirstSocket
    /\ cliSock = FirstSocket
    /\ kept = TRUE
    /\ ex = [r \in Requests |-> [start |-> "unborn", buffer |-> << >>,
                                 ended |-> FALSE, failed |-> FALSE]]
    /\ pending = {}
    /\ fwd = [r \in Requests |-> "new"]
    /\ pull = [r \in Requests |-> "idle"]
    /\ slot = [r \in Requests |-> Done]
    /\ sock = [r \in Requests |-> None]
    /\ received = [r \in Requests |-> << >>]
    /\ events = [r \in Requests |-> << >>]
    /\ cli = [r \in Requests |-> "idle"]
    /\ sent = [r \in Requests |-> 0]

Frame(type, r) == [type |-> type, req |-> r, seq |-> 0]

(* A frame sent over a lost connection is lost with it.                    *)
Sent(channel, g, frames) ==
    IF link[g] = "up" THEN [channel EXCEPT ![g] = @ \o frames] ELSE channel

(* Promise continuations run before the event loop's next task.            *)
Quiet == \A r \in Requests : /\ fwd[r] = "awaiting" => ex[r].start = "waiting"
                             /\ pull[r] # "woken"

-----------------------------------------------------------------------------
(* HttpForwardingService.forward(), up to the await.                       *)
Forward(r) ==
    /\ fwd[r] = "new" /\ tunnelSock # None /\ Quiet
    /\ Cardinality(pending) < MaxPending
    /\ fwd' = [fwd EXCEPT ![r] = "awaiting"]
    /\ ex' = [ex EXCEPT ![r].start = "waiting"]
    /\ pending' = pending \cup {r}
    /\ sock' = [sock EXCEPT ![r] = tunnelSock]
    /\ toCli' = Sent(toCli, tunnelSock, <<Frame("start", r), Frame("end", r)>>)
    /\ events' = [events EXCEPT ![r] = Append(@, "received")]
    /\ UNCHANGED <<link, toServer, tunnelSock, cliSock, kept, pull, slot,
                   received, cliVars>>

(* begin() throws at the limit, before the try block: nothing is published. *)
ForwardOverLimit(r) ==
    /\ fwd[r] = "new" /\ tunnelSock # None /\ Quiet
    /\ Cardinality(pending) >= MaxPending
    /\ fwd' = [fwd EXCEPT ![r] = "refused"]
    /\ UNCHANGED <<netVars, cliVars, ex, pending, pull, slot, sock, received, events>>

(* The socket is closing but its close event has not been handled yet.     *)
ForwardNotOpen(r) ==
    /\ fwd[r] = "new" /\ tunnelSock # None /\ Quiet
    /\ link[tunnelSock] = "down"
    /\ fwd' = [fwd EXCEPT ![r] = "refused"]
    /\ events' = [events EXCEPT ![r] = Append(@, "failed")]
    /\ UNCHANGED <<netVars, cliVars, ex, pending, pull, slot, sock, received>>

(* forward() after the await: a streamed response, or the catch block.     *)
StartSettled(r) ==
    /\ fwd[r] = "awaiting"
    /\ \/ /\ ex[r].start = "resolved"
          /\ fwd' = [fwd EXCEPT ![r] = "streaming"]
          /\ UNCHANGED <<pending, events>>
       \/ /\ ex[r].start = "rejected"
          /\ fwd' = [fwd EXCEPT ![r] = "failed"]
          /\ pending' = pending \ {r}
          /\ events' = [events EXCEPT ![r] = Append(@, "failed")]
    /\ UNCHANGED <<netVars, cliVars, ex, pull, slot, sock, received>>

-----------------------------------------------------------------------------
(* HttpExchangeCoordinator: what a frame does to its pending exchange.     *)

(* Resolve the body iterator's waiter, if it is waiting, with a value.     *)
Resolve(r, value) ==
    /\ pull' = [pull EXCEPT ![r] = IF @ = "waiting" THEN "woken" ELSE @]
    /\ slot' = [slot EXCEPT ![r] = IF pull[r] = "waiting" THEN value ELSE @]

(* Faulty variants, each used by a mutant of the project: a failure that does
   not wake the iterator; one that leaves its entry in the map.            *)
FailExchangeLeavesWaiter(r) ==
    IF ex[r].failed THEN UNCHANGED <<ex, pending, pull, slot>>
    ELSE /\ ex' = [ex EXCEPT ![r].failed = TRUE,
                             ![r].ended = TRUE,
                             ![r].start = IF @ = "waiting" THEN "rejected" ELSE @]
         /\ pending' = pending \ {r}
         /\ UNCHANGED <<pull, slot>>

FailExchangeKeepsEntry(r) ==
    IF ex[r].failed THEN UNCHANGED <<ex, pending, pull, slot>>
    ELSE /\ ex' = [ex EXCEPT ![r].failed = TRUE,
                             ![r].ended = TRUE,
                             ![r].start = IF @ = "waiting" THEN "rejected" ELSE @]
         /\ Resolve(r, Done)
         /\ UNCHANGED pending

FailExchange(r) ==
    IF ex[r].failed THEN UNCHANGED <<ex, pending, pull, slot>>
    ELSE /\ ex' = [ex EXCEPT ![r].failed = TRUE,
                             ![r].ended = TRUE,
                             ![r].start = IF @ = "waiting" THEN "rejected" ELSE @]
         /\ pending' = pending \ {r}
         /\ Resolve(r, Done)

OnResponseStart(r) ==
    IF ex[r].start = "waiting"
    THEN /\ ex' = [ex EXCEPT ![r].start = "resolved"]
         /\ UNCHANGED <<pending, pull, slot>>
    ELSE FailExchange(r)

(* Faulty variants: a chunk is buffered whatever the buffer holds; it is
   buffered and given to the waiter too.                                   *)
OnResponseChunkUnbounded(r, seq) ==
    IF pull[r] = "waiting" THEN Resolve(r, seq) /\ UNCHANGED <<ex, pending>>
    ELSE /\ ex' = [ex EXCEPT ![r].buffer = Append(@, seq)]
         /\ UNCHANGED <<pending, pull, slot>>

OnResponseChunkTwice(r, seq) ==
    IF Len(ex[r].buffer) >= MaxBuffer THEN FailExchange(r)
    ELSE /\ ex' = [ex EXCEPT ![r].buffer = Append(@, seq)]
         /\ Resolve(r, seq)
         /\ UNCHANGED pending

(* pushChunk(): to the waiter, or to the buffer if it has room.            *)
OnResponseChunk(r, seq) ==
    CASE ex[r].ended -> UNCHANGED <<ex, pending, pull, slot>>
      [] ~ex[r].ended /\ pull[r] = "waiting" ->
            Resolve(r, seq) /\ UNCHANGED <<ex, pending>>
      [] ~ex[r].ended /\ pull[r] # "waiting" /\ Len(ex[r].buffer) < MaxBuffer ->
            /\ ex' = [ex EXCEPT ![r].buffer = Append(@, seq)]
            /\ UNCHANGED <<pending, pull, slot>>
      [] OTHER -> FailExchange(r)

(* Faulty variant: the entry of an ended exchange is left in the map.      *)
OnResponseEndKeepsEntry(r) ==
    /\ ex' = [ex EXCEPT ![r].ended = TRUE]
    /\ Resolve(r, Done)
    /\ UNCHANGED pending

OnResponseEnd(r) ==
    IF ex[r].ended THEN UNCHANGED <<ex, pending, pull, slot>>
    ELSE /\ ex' = [ex EXCEPT ![r].ended = TRUE]
         /\ pending' = pending \ {r}
         /\ Resolve(r, Done)

(* The gateway delivers a frame: data frames only from the tunnel's socket,
   error frames whatever the socket, unless the client is over its limit of
   messages, which does not count data frames.                             *)
Deliver(g) ==
    /\ toServer[g] # << >>
    /\ toServer' = [toServer EXCEPT ![g] = Tail(@)]
    /\ LET f == Head(toServer[g])
           r == f.req
       IN  \/ /\ r \notin pending \/ f.type = "error" \/ tunnelSock # g
              /\ UNCHANGED <<ex, pending, pull, slot>>
           \/ /\ r \in pending /\ (f.type = "error" \/ tunnelSock = g)
              /\ CASE f.type = "start" -> OnResponseStart(r)
                   [] f.type = "chunk" -> OnResponseChunk(r, f.seq)
                   [] f.type = "end"   -> OnResponseEnd(r)
                   [] OTHER            -> FailExchange(r)
    /\ UNCHANGED <<link, toCli, tunnelSock, cliSock, kept, cliVars,
                   fwd, sock, received, events>>

(* Faulty variant: the cancel frame is sent outside the try, so that on a
   closing socket the handler throws before it fails the exchange.         *)
TimeoutCancelThrows(r) ==
    /\ fwd[r] = "awaiting" /\ Quiet
    /\ link[sock[r]] = "up"
    /\ toCli' = Sent(toCli, sock[r], <<Frame("cancel", r)>>)
    /\ FailExchange(r)
    /\ UNCHANGED <<link, toServer, tunnelSock, cliSock, kept, cliVars,
                   fwd, sock, received, events>>

(* The abort signal fires while forward() awaits the start: the CLI is told
   and the exchange fails.  The listener is gone once the start arrived.   *)
Timeout(r) ==
    /\ fwd[r] = "awaiting" /\ Quiet
    /\ toCli' = Sent(toCli, sock[r], <<Frame("cancel", r)>>)
    /\ FailExchange(r)
    /\ UNCHANGED <<link, toServer, tunnelSock, cliSock, kept, cliVars,
                   fwd, sock, received, events>>

-----------------------------------------------------------------------------
(* iterateBody() under observeBody(), pulled by the public response.       *)

Handed(r, chunk) ==
    /\ received' = [received EXCEPT ![r] = Append(@, chunk)]
    /\ fwd' = [fwd EXCEPT ![r] = IF @ = "returning" THEN "abandoned" ELSE @]
    /\ UNCHANGED events

Finished(r, outcome) ==
    /\ fwd' = [fwd EXCEPT ![r] = outcome]
    /\ events' = [events EXCEPT ![r] = Append(@, outcome)]
    /\ UNCHANGED received

(* The consumer asks for the next chunk.                                   *)
Pull(r) ==
    /\ fwd[r] = "streaming" /\ pull[r] = "idle"
    /\ \/ /\ ex[r].failed
          /\ Finished(r, "failed")
          /\ UNCHANGED <<ex, pull>>
       \/ /\ ~ex[r].failed /\ ex[r].buffer # << >>
          /\ Handed(r, Head(ex[r].buffer))
          /\ ex' = [ex EXCEPT ![r].buffer = Tail(@)]
          /\ UNCHANGED pull
       \/ /\ ~ex[r].failed /\ ex[r].buffer = << >> /\ ex[r].ended
          /\ Finished(r, "returned")
          /\ UNCHANGED <<ex, pull>>
       \/ /\ ~ex[r].failed /\ ex[r].buffer = << >> /\ ~ex[r].ended
          /\ pull' = [pull EXCEPT ![r] = "waiting"]
          /\ UNCHANGED <<ex, fwd, events, received>>
    /\ UNCHANGED <<netVars, cliVars, pending, slot, sock>>

(* Faulty variant: `failed' is not looked at again after the await.        *)
WakeIgnoresFailure(r) ==
    /\ pull[r] = "woken"
    /\ pull' = [pull EXCEPT ![r] = "idle"]
    /\ IF slot[r] = Done THEN Finished(r, "returned") ELSE Handed(r, slot[r])
    /\ UNCHANGED <<netVars, cliVars, ex, pending, slot, sock>>

(* The iterator continues after its await.                                 *)
Wake(r) ==
    /\ pull[r] = "woken"
    /\ pull' = [pull EXCEPT ![r] = "idle"]
    /\ CASE ex[r].failed                      -> Finished(r, "failed")
         [] ~ex[r].failed /\ slot[r] = Done   -> Finished(r, "returned")
         [] ~ex[r].failed /\ slot[r] # Done   -> Handed(r, slot[r])
    /\ UNCHANGED <<netVars, cliVars, ex, pending, slot, sock>>

(* The public client goes away: the response stream returns the iterator, at
   once or behind the read that is in progress.  Nobody tells the CLI.     *)
Abandon(r) ==
    /\ fwd[r] = "streaming" /\ Quiet
    /\ fwd' = [fwd EXCEPT ![r] = IF pull[r] = "idle" THEN "abandoned" ELSE "returning"]
    /\ UNCHANGED <<netVars, cliVars, ex, pending, pull, slot, sock, received, events>>

-----------------------------------------------------------------------------
(* The CLI's RequestForwarder.  It outlives the connection: an exchange goes
   on over whatever socket send() finds open.                              *)

CliReceive(g) ==
    /\ cliSock = g /\ toCli[g] # << >>
    /\ toCli' = [toCli EXCEPT ![g] = Tail(@)]
    /\ LET f == Head(toCli[g])
       IN  cli' = [cli EXCEPT ![f.req] =
                     CASE f.type = "start"                     -> "buffered"
                       [] f.type = "end" /\ @ = "buffered"     -> "proxying"
                       [] f.type = "cancel" /\ @ # "idle"      -> "done"
                       [] OTHER                                -> @]
    /\ UNCHANGED <<link, toServer, tunnelSock, cliSock, kept, serverVars, sent>>

CliSend(frame) ==
    /\ cliSock # None
    /\ toServer' = Sent(toServer, cliSock, <<frame>>)
    /\ UNCHANGED <<link, toCli, tunnelSock, cliSock, kept, serverVars>>

CliRespond(r) ==
    /\ cli[r] = "proxying"
    /\ CliSend(Frame("start", r))
    /\ cli' = [cli EXCEPT ![r] = "streaming"]
    /\ UNCHANGED sent

CliChunk(r) ==
    /\ cli[r] = "streaming" /\ sent[r] < MaxChunks
    /\ CliSend([type |-> "chunk", req |-> r, seq |-> sent[r] + 1])
    /\ sent' = [sent EXCEPT ![r] = @ + 1]
    /\ UNCHANGED cli

CliEnd(r) ==
    /\ cli[r] = "streaming"
    /\ CliSend(Frame("end", r))
    /\ cli' = [cli EXCEPT ![r] = "done"]
    /\ UNCHANGED sent

(* The local target cannot be reached, or its response breaks off.         *)
CliFail(r) ==
    /\ cli[r] \in {"proxying", "streaming"}
    /\ CliSend(Frame("error", r))
    /\ cli' = [cli EXCEPT ![r] = "done"]
    /\ UNCHANGED sent

(* send() throws while the CLI is disconnected, and sendError() does too.  *)
CliThrow(r) ==
    /\ cli[r] \in {"proxying", "streaming"} /\ cliSock = None
    /\ cli' = [cli EXCEPT ![r] = "done"]
    /\ UNCHANGED <<netVars, serverVars, sent>>

-----------------------------------------------------------------------------
(* Connections.                                                            *)

(* A connection is lost with everything in flight; neither end knows yet.  *)
Break(g) ==
    /\ link[g] = "up"
    /\ link' = [link EXCEPT ![g] = "down"]
    /\ toCli' = [toCli EXCEPT ![g] = << >>]
    /\ toServer' = [toServer EXCEPT ![g] = << >>]
    /\ UNCHANGED <<tunnelSock, cliSock, kept, serverVars, cliVars>>

(* The server handles the close: the tunnel is parked, exchanges are not
   touched.                                                                *)
ServerDetach(g) ==
    /\ link[g] = "down" /\ tunnelSock = g /\ Quiet
    /\ tunnelSock' = None
    /\ UNCHANGED <<link, toCli, toServer, cliSock, kept, serverVars, cliVars>>

CliDetect(g) ==
    /\ link[g] = "down" /\ cliSock = g
    /\ cliSock' = None
    /\ UNCHANGED <<link, toCli, toServer, tunnelSock, kept, serverVars, cliVars>>

(* The CLI reconnects and asks for its tunnel: it gets it back if the server
   has parked it, and a tunnel with another id otherwise.                  *)
Reconnect(g) ==
    /\ cliSock = None /\ link[g] = "unused"
    /\ link' = [link EXCEPT ![g] = "up"]
    /\ cliSock' = g
    /\ kept' = (kept /\ tunnelSock = None)
    /\ tunnelSock' = IF kept /\ tunnelSock = None THEN g ELSE tunnelSock
    /\ UNCHANGED <<toCli, toServer, serverVars, cliVars>>

ServerStep(r) ==
    \/ Forward(r) \/ ForwardOverLimit(r) \/ ForwardNotOpen(r)
    \/ StartSettled(r) \/ Timeout(r)
    \/ Pull(r) \/ Wake(r) \/ Abandon(r)

CliStep(r) == CliRespond(r) \/ CliChunk(r) \/ CliEnd(r) \/ CliFail(r) \/ CliThrow(r)

SocketStep(g) ==
    \/ Deliver(g) \/ CliReceive(g)
    \/ Break(g) \/ ServerDetach(g) \/ CliDetect(g) \/ Reconnect(g)

Next ==
    \/ \E r \in Requests : ServerStep(r) \/ CliStep(r)
    \/ \E g \in Sockets : SocketStep(g)

Spec == Init /\ [][Next]_vars

(* Timers fire and promise continuations run: nothing else is assumed.     *)
TimerSpec ==
    /\ Spec
    /\ \A r \in Requests : /\ WF_vars(Timeout(r))
                           /\ WF_vars(StartSettled(r)) /\ WF_vars(Wake(r))

(* Everything the two processes and a working consumer do, is done: frames
   are delivered, lost connections noticed, responses read.  The network
   need not lose anything and the local target need not fail.              *)
FairSpec ==
    /\ TimerSpec
    /\ \A r \in Requests : /\ WF_vars(Pull(r)) /\ WF_vars(CliRespond(r))
                           /\ WF_vars(CliEnd(r)) /\ WF_vars(CliThrow(r))
    /\ \A g \in Sockets : /\ WF_vars(Deliver(g)) /\ WF_vars(CliReceive(g))
                          /\ WF_vars(ServerDetach(g)) /\ WF_vars(CliDetect(g))
                          /\ WF_vars(Reconnect(g))

-----------------------------------------------------------------------------
Begun(r) == ex[r].start # "unborn"

(* The coordinator's map holds exactly the exchanges that are still open: a
   slot is never kept by an exchange that ended or failed, and no exchange
   that may still receive frames has lost its entry.                       *)
SlotsAreOpenExchanges ==
    \A r \in Requests : r \in pending <=> Begun(r) /\ ~ex[r].ended

(* "Caps concurrent exchanges and per-exchange buffered body bytes": open
   exchanges, and chunks that arrived for one and were not read yet, stay
   within the limits whatever the consumers and the CLI do.                *)
MemoryBounded ==
    /\ Cardinality({r \in Requests : Begun(r) /\ ~ex[r].ended}) <= MaxPending
    /\ \A r \in Requests : Len(ex[r].buffer) <= MaxBuffer

(* No lost wakeup: while the body iterator waits there is nothing it could
   return, throw or hand on.                                               *)
WaiterHasNothingToRead ==
    \A r \in Requests : pull[r] = "waiting" =>
        /\ ex[r].buffer = << >>
        /\ ~ex[r].ended /\ ~ex[r].failed

(* The traffic recorder sees one outcome of a forwarded request, after its
   RequestReceived, and the one that happened: ResponseReturned only for an
   exchange the CLI ended, RequestFailed only for one that failed.         *)
OneTrueOutcome ==
    \A r \in Requests :
        CASE fwd[r] = "returned" -> /\ events[r] = <<"received", "returned">>
                                    /\ ex[r].ended /\ ~ex[r].failed
          [] fwd[r] = "failed"   -> /\ events[r] = <<"received", "failed">>
                                    /\ ex[r].failed
          [] fwd[r] = "new"      -> events[r] = << >>
          [] fwd[r] = "refused"  -> events[r] \in {<< >>, <<"failed">>}
          [] OTHER               -> events[r] = <<"received">>

(* Chunks never reach the public response twice or in another order, not
   even when the exchange goes on over another socket; and as long as the
   tunnel stays on one socket, a response that ended normally is the whole
   body the CLI sent (see BodyInSequence).                                 *)
BodyKept ==
    /\ \A r \in Requests : \A j, k \in DOMAIN received[r] :
          j < k => received[r][j] < received[r][k]
    /\ (\A g \in Sockets \ {FirstSocket} : link[g] = "unused") =>
          \A r \in Requests : fwd[r] = "returned" => received[r] = [k \in 1..sent[r] |-> k]

(* What the protocol says of a body's chunks: they are numbered from zero,
   so that what the public response got is a prefix of the body.           *)
BodyInSequence ==
    \A r \in Requests : received[r] = [k \in DOMAIN received[r] |-> k]

(* Once an exchange is over, frames that are still on their way add nothing
   to its body and do not reopen it.                                       *)
LateFramesDropped ==
    [][\A r \in Requests : ex[r].ended =>
            /\ Len(ex'[r].buffer) <= Len(ex[r].buffer)
            /\ ex'[r].ended /\ r \notin pending']_vars

(* forward() does not wait for ever: it settles although the connection and
   the CLI may do anything or nothing.                                     *)
StartAwaitSettles == \A r \in Requests : fwd[r] = "awaiting" ~> fwd[r] # "awaiting"

(* What "timeout for a full HTTP forward exchange" says: a forwarded request
   comes to an end, or its public client goes away.                        *)
FullExchangeTimesOut ==
    \A r \in Requests : fwd[r] = "awaiting" ~> fwd[r] \notin {"awaiting", "streaming"}
=============================================================================
