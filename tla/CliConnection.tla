---------------------------- MODULE CliConnection ----------------------------
(***************************************************************************)
(* BadgerWebSocketClient, the CLI's connection to the server, with its two *)
(* callers: StartTunnelService.start() and attemptReconnect(); and the     *)
(* disconnect() of a shutdown, which may come at any moment.               *)
(*                                                                         *)
(* `at' is how far the running attempt is.  Its values "opened", "greeted",*)
(* "asked" and "failed" are promise continuations that have not run yet:   *)
(* frames that arrived together are still delivered before them, anything  *)
(* else waits for them (Quiet).                                            *)
(*                                                                         *)
(* A WebSocket that was closed stands for a new one when it is used again. *)
(* The server's end of it is GatewaySession; the names with a C keep the   *)
(* two apart where a module speaks of both.                                *)
(***************************************************************************)
EXTENDS Integers, FiniteSets

CONSTANTS
    Sockets,    \* bound: WebSockets that are alive at the same time
    NoSocket

ASSUME ConnectionAssumption == NoSocket \notin Sockets

VARIABLES
    state,        \* ConnectionState
    cur,          \* this.socket
    ready,        \* readyState of each socket
    heard,        \* the listeners on it: of connect(), or the runtime handlers
    peer,         \* what the server did on it
    closer,       \* the close listener of a pending disconnect() is on `cur'
    inbox,        \* the inbox holds a Connected frame
    waiter,       \* this.waiter; "orphan": nobody awaits its promise
    task,         \* the running attempt
    at,           \* how far it is
    intentional,  \* intentionalClose
    timer,        \* reconnectTimer is set
    inFlight,     \* reconnectInFlight
    tunnel,       \* activeTunnel is known
    disc,         \* the promise of the shutdown's disconnect()
    crashed       \* a rejection nobody handles ended the process

socketVars == <<cur, ready, heard, peer, closer, inbox>>
taskVars   == <<task, at>>
flags      == <<intentional, timer, inFlight>>
cvars == <<state, socketVars, waiter, taskVars, flags, tunnel, disc, crashed>>

CTypeOK ==
    /\ state \in {"disconnected", "connecting", "connected", "disconnecting",
                  "reconnecting"}
    /\ cur \in Sockets \cup {NoSocket}
    /\ ready \in [Sockets -> {"connecting", "open", "closing", "ending", "closed"}]
    /\ heard \in [Sockets -> {"none", "connect", "runtime"}]
    /\ peer \in [Sockets -> {"silent", "greeted", "asked", "answered"}]
    /\ waiter \in {"none", "greeting", "tunnel", "orphan"}
    /\ task \in {"idle", "start", "retry"}
    /\ at \in {"idle", "tokens", "handshake", "opened", "greeting", "greeted",
               "asking", "asked", "failed"}
    /\ disc \in {"none", "pending", "resolved"}
    /\ {closer, inbox, intentional, timer, inFlight, tunnel, crashed} \subseteq BOOLEAN
    /\ task = "idle" <=> at = "idle"
    /\ task = "retry" => tunnel

(* start() has called connect(), which awaits the tokens.                  *)
CInit ==
    /\ state = "connecting" /\ cur = NoSocket
    /\ ready = [s \in Sockets |-> "closed"]
    /\ heard = [s \in Sockets |-> "none"]
    /\ peer = [s \in Sockets |-> "silent"]
    /\ waiter = "none"
    /\ task = "start" /\ at = "tokens"
    /\ disc = "none"
    /\ closer = FALSE /\ inbox = FALSE /\ intentional = FALSE /\ timer = FALSE
    /\ inFlight = FALSE /\ tunnel = FALSE /\ crashed = FALSE

Alive == ~crashed
Quiet == Alive /\ at \notin {"opened", "greeted", "asked", "failed"}

-----------------------------------------------------------------------------
(* disposeSocket(): the socket is forgotten with all its listeners, among
   them the one of a pending disconnect(); it is not closed.               *)
Dispose ==
    /\ cur' = NoSocket
    /\ heard' = IF cur = NoSocket THEN heard ELSE [heard EXCEPT ![cur] = "none"]
    /\ closer' = FALSE
    /\ inbox' = FALSE

(* scheduleReconnect(), with the flags its caller leaves.                  *)
ScheduleReconnect(busy) ==
    IF intentional \/ timer \/ busy
    THEN state' = "disconnected" /\ UNCHANGED timer
    ELSE state' = "reconnecting" /\ timer' = TRUE

(* connect(), after the tokens: the WebSocket is made.                     *)
TokensReady(s) ==
    /\ Quiet /\ at = "tokens"
    /\ ready[s] = "closed"
    /\ cur' = s
    /\ ready' = [ready EXCEPT ![s] = "connecting"]
    /\ heard' = [heard EXCEPT ![s] = "connect"]
    /\ peer' = [peer EXCEPT ![s] = "silent"]
    /\ at' = "handshake"
    /\ UNCHANGED <<state, closer, inbox, waiter, task, flags, tunnel, disc, crashed>>

(* Faulty variant: the runtime handlers are not bound.                     *)
OpenUnbound(s) ==
    /\ Quiet /\ ready[s] = "connecting"
    /\ ready' = [ready EXCEPT ![s] = "open"]
    /\ state' = "connected"
    /\ at' = "opened"
    /\ UNCHANGED <<cur, heard, peer, closer, inbox, waiter, task, flags, tunnel, disc, crashed>>

(* onOpen(): the runtime handlers take over.                               *)
Open(s) ==
    /\ Quiet /\ ready[s] = "connecting"
    /\ ready' = [ready EXCEPT ![s] = "open"]
    /\ heard' = [heard EXCEPT ![s] = "runtime"]
    /\ state' = "connected"
    /\ at' = "opened"
    /\ UNCHANGED <<cur, peer, closer, inbox, waiter, task, flags, tunnel, disc, crashed>>

(* onError(), onClose(): the handshake failed, or disconnect() broke it off.
   An error event comes first; its close event finds no listener any more. *)
Refused(s) ==
    /\ Quiet /\ heard[s] = "connect"
    /\ ready' = [ready EXCEPT ![s] = "closed"]
    /\ Dispose
    /\ state' = "disconnected"
    /\ at' = "failed"
    /\ UNCHANGED <<peer, waiter, task, flags, tunnel, disc, crashed>>

-----------------------------------------------------------------------------
(* Frames from the server: to the waiter, or to the inbox.  Frames are still
   delivered on a socket that this side is closing.                        *)
Receives(s) == Alive /\ ready[s] \in {"open", "closing"}

(* The server's Connected frame.                                           *)
Greet(s) ==
    /\ Receives(s) /\ heard[s] # "connect" /\ peer[s] = "silent"
    /\ peer' = [peer EXCEPT ![s] = "greeted"]
    /\ IF heard[s] = "none" THEN UNCHANGED <<waiter, at, inbox>>
       ELSE IF waiter = "greeting"
       THEN waiter' = "none" /\ at' = "greeted" /\ UNCHANGED inbox
       ELSE inbox' = TRUE /\ UNCHANGED <<waiter, at>>
    /\ UNCHANGED <<state, cur, ready, heard, closer, task, flags, tunnel, disc, crashed>>

(* The server's answer to CreateTunnel: the tunnel, or an error.           *)
Answer(s, result) ==
    /\ Receives(s) /\ peer[s] = "asked"
    /\ peer' = [peer EXCEPT ![s] = "answered"]
    /\ IF heard[s] = "runtime" /\ waiter = "tunnel"
       THEN waiter' = "none" /\ at' = result
       ELSE UNCHANGED <<waiter, at>>
    /\ UNCHANGED <<state, cur, ready, heard, closer, inbox, task, flags, tunnel, disc, crashed>>

(* The server's close frame: the socket is not writable from now on.       *)
PeerCloses(s) ==
    /\ Receives(s) /\ heard[s] # "connect"
    /\ ready' = [ready EXCEPT ![s] = "ending"]
    /\ UNCHANGED <<state, cur, heard, peer, closer, inbox, waiter, taskVars, flags,
                   tunnel, disc, crashed>>

-----------------------------------------------------------------------------
(* The attempt's code after an await.                                      *)

(* waitForMessage() for the Connected frame.                               *)
AwaitGreeting ==
    /\ Alive /\ at = "opened"
    /\ IF inbox THEN inbox' = FALSE /\ at' = "greeted" /\ UNCHANGED waiter
       ELSE IF waiter = "none" THEN waiter' = "greeting" /\ at' = "greeting" /\ UNCHANGED inbox
       ELSE at' = "failed" /\ UNCHANGED <<waiter, inbox>>
    /\ UNCHANGED <<state, cur, ready, heard, peer, closer, task, flags, tunnel, disc, crashed>>

Sendable == state = "connected" /\ cur # NoSocket /\ ready[cur] = "open"

(* createTunnel(): the wait is registered before the request is sent; when
   send() throws, nobody will await it.  A second wait is refused at once. *)
AskForTunnel ==
    /\ Alive /\ at = "greeted"
    /\ IF Sendable
       THEN /\ peer' = [peer EXCEPT ![cur] = "asked"]
            /\ IF waiter = "none" THEN waiter' = "tunnel" /\ at' = "asking"
               ELSE at' = "failed" /\ UNCHANGED waiter
            /\ UNCHANGED crashed
       ELSE /\ at' = "failed"
            /\ IF waiter = "none" THEN waiter' = "orphan" /\ UNCHANGED crashed
               ELSE crashed' = TRUE /\ UNCHANGED waiter
            /\ UNCHANGED peer
    /\ UNCHANGED <<state, cur, ready, heard, closer, inbox, task, flags, tunnel, disc>>

(* The tunnel is there: the attempt is over.                               *)
Established ==
    /\ Alive /\ at = "asked"
    /\ tunnel' = TRUE
    /\ task' = "idle" /\ at' = "idle"
    /\ inFlight' = IF task = "retry" THEN FALSE ELSE inFlight
    /\ UNCHANGED <<state, socketVars, waiter, intentional, timer, disc, crashed>>

(* The waiter's timeout.                                                   *)
WaitTimeout ==
    /\ Quiet /\ waiter # "none"
    /\ waiter' = "none"
    /\ IF waiter = "orphan" THEN crashed' = TRUE /\ UNCHANGED at
       ELSE at' = "failed" /\ UNCHANGED crashed
    /\ UNCHANGED <<state, socketVars, task, flags, tunnel, disc>>

-----------------------------------------------------------------------------
(* disconnect(): it closes the socket there is, and listens for its close. *)
Disconnect ==
    /\ intentional' = TRUE /\ timer' = FALSE /\ inFlight' = FALSE
    /\ IF cur = NoSocket \/ state \in {"disconnected", "reconnecting"}
       THEN state' = "disconnected" /\ UNCHANGED <<ready, closer>>
       ELSE /\ state' = "disconnecting"
            /\ ready' = [ready EXCEPT ![cur] = IF @ = "ending" THEN @ ELSE "closing"]
            /\ closer' = TRUE

(* The shutdown task.                                                      *)
Shutdown ==
    /\ Quiet /\ disc = "none"
    /\ Disconnect
    /\ disc' = IF state' = "disconnected" THEN "resolved" ELSE "pending"
    /\ UNCHANGED <<cur, heard, peer, inbox, waiter, taskVars, tunnel, crashed>>

(* start() catches: it disconnects.                                        *)
StartFailed ==
    /\ Alive /\ at = "failed" /\ task = "start"
    /\ Disconnect
    /\ task' = "idle" /\ at' = "idle"
    /\ UNCHANGED <<cur, heard, peer, inbox, waiter, tunnel, disc, crashed>>

(* Faulty variant: reconnectInFlight is reset after scheduleReconnect().   *)
RetryFailedStillInFlight ==
    /\ Alive /\ at = "failed" /\ task = "retry"
    /\ Dispose
    /\ ScheduleReconnect(inFlight)
    /\ inFlight' = FALSE
    /\ task' = "idle" /\ at' = "idle"
    /\ UNCHANGED <<ready, peer, waiter, intentional, tunnel, disc, crashed>>

(* attemptReconnect() catches: the socket is forgotten and a retry is set. *)
RetryFailed ==
    /\ Alive /\ at = "failed" /\ task = "retry"
    /\ Dispose
    /\ inFlight' = FALSE
    /\ ScheduleReconnect(FALSE)
    /\ task' = "idle" /\ at' = "idle"
    /\ UNCHANGED <<ready, peer, waiter, intentional, tunnel, disc, crashed>>

(* attemptReconnect(), into connect() and up to the tokens.                *)
TimerFires ==
    /\ Quiet /\ timer
    /\ timer' = FALSE /\ inFlight' = TRUE
    /\ intentional' = FALSE
    /\ state' = "connecting"
    /\ task' = "retry" /\ at' = "tokens"
    /\ UNCHANGED <<socketVars, waiter, tunnel, disc, crashed>>

(* The close event of a socket that was open.  The runtime handler fails the
   waiter, forgets the socket and sets a retry; disconnect()'s listener, if
   the socket still has it, resolves its promise, and then the shutdown ends
   the process before a rejection can.                                     *)
Closed(s) ==
    /\ Quiet /\ ready[s] \in {"open", "closing", "ending"} /\ heard[s] # "connect"
    /\ ready' = [ready EXCEPT ![s] = "closed"]
    /\ IF heard[s] = "none"
       THEN UNCHANGED <<state, cur, heard, closer, inbox, waiter, at, timer, disc, crashed>>
       ELSE /\ Dispose
            /\ waiter' = "none"
            /\ at' = IF waiter \in {"greeting", "tunnel"} THEN "failed" ELSE at
            /\ crashed' = (waiter = "orphan" /\ ~(closer /\ disc = "pending"))
            /\ ScheduleReconnect(inFlight)
            /\ disc' = IF closer /\ disc = "pending" THEN "resolved" ELSE disc
    /\ UNCHANGED <<peer, task, intentional, inFlight, tunnel>>

Continuation ==
    AwaitGreeting \/ AskForTunnel \/ Established \/ StartFailed \/ RetryFailed

SocketStep(s) ==
    \/ TokensReady(s) \/ Open(s) \/ Refused(s)
    \/ Greet(s) \/ Answer(s, "asked") \/ Answer(s, "failed") \/ PeerCloses(s)
    \/ Closed(s)

CNext ==
    \/ \E s \in Sockets : SocketStep(s)
    \/ Continuation
    \/ WaitTimeout \/ TimerFires \/ Shutdown

CSpec == CInit /\ [][CNext]_cvars

Closing(s)  == ready[s] \in {"closing", "ending"}
Leaked(s)   == heard[s] = "none" /\ ready[s] # "closed"

(* Promises settle and timers fire; a handshake ends, and so does the closing
   of a socket; a socket that no longer pings is closed by the server.     *)
FairSpec ==
    /\ CSpec
    /\ WF_cvars(Continuation) /\ WF_cvars(WaitTimeout) /\ WF_cvars(TimerFires)
    /\ SF_cvars(waiter = "orphan" /\ WaitTimeout)
    /\ WF_cvars(\E s \in Sockets : TokensReady(s))
    /\ \A s \in Sockets : /\ WF_cvars(Open(s) \/ Refused(s))
                          /\ WF_cvars((Closing(s) \/ Leaked(s)) /\ Closed(s))

(* Moreover the server is back: from some moment on it closes no connection
   that the client listens to, and what an attempt tries again and again
   succeeds in the end.                                                    *)
Dropped(s) == heard[s] = "runtime" /\ ~Closing(s) /\ (Closed(s) \/ PeerCloses(s))

ServerBackSpec ==
    /\ FairSpec
    /\ <>[][\A s \in Sockets : ~Dropped(s)]_cvars
    /\ SF_cvars(\E s \in Sockets : Open(s))
    /\ SF_cvars(\E s \in Sockets : at = "greeting" /\ s = cur /\ Greet(s))
    /\ SF_cvars(\E s \in Sockets : at = "asking" /\ s = cur /\ Answer(s, "asked"))

-----------------------------------------------------------------------------
(* "Unexpected closes schedule a retry": a client that had its tunnel and was
   not told to stop is connected, or trying, or about to try again; however
   attempts fail and sockets close, it is never left with nothing to do.  A
   timer is alive exactly in the state Reconnecting, where disconnect() looks
   for nothing else.                                                       *)
KeepsTrying ==
    /\ tunnel /\ ~intentional /\ Alive /\ task = "idle" => timer \/ state = "connected"
    /\ timer <=> state = "reconnecting"

(* The client takes itself for connected, and an attempt awaits a frame, only
   with a socket of whose close it will be told: neither a connection nor a
   wait outlasts its socket unnoticed.                                     *)
ConnectedIsWatched ==
    /\ state = "connected" \/ at \in {"greeting", "asking"} =>
            cur # NoSocket /\ heard[cur] = "runtime" /\ ready[cur] # "closed"
    /\ state = "connected" => ready[cur] \in {"open", "ending"}

(* Once the server is back, a client that waits to reconnect has a tunnel
   again, unless it is told to stop.                                       *)
Restored == task = "idle" /\ state = "connected"
Recovers == state = "reconnecting" ~> Restored \/ intentional \/ crashed

(* "Maintains a single connection to the server".                          *)
SingleConnection ==
    Cardinality({s \in Sockets : ready[s] \in {"connecting", "open"}}) <= 1

(* "A promise that resolves once the socket has closed."                   *)
DisconnectResolves == disc = "pending" ~> disc = "resolved"
=============================================================================
