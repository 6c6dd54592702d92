--------------------------- MODULE TunnelRegistry ---------------------------
(***************************************************************************)
(* The tunnel server's registry: TunnelManager over the in-memory          *)
(* MemoryTunnelRepository, as the gateway drives it.                       *)
(*                                                                         *)
(* A tunnel is held by one WebSocket.  When the socket goes away the       *)
(* tunnel is parked: it no longer routes, but its id and its public slug   *)
(* stay reserved, so that the same owner can reclaim it over a new socket  *)
(* until the reclaim window has elapsed.                                   *)
(*                                                                         *)
(* `repo' is the repository (four maps), the other variables are the       *)
(* environment it runs in and what its observers were told:                *)
(*   closed    - sockets whose close event the gateway has handled,        *)
(*   clock     - Date.now(), in units the reclaim window is a multiple of, *)
(*   minted    - for every id ever generated, the port and owner it was    *)
(*               generated for (None: not generated yet),                  *)
(*   announced - the last lifecycle event published for the id.            *)
(***************************************************************************)
EXTENDS Integers

CONSTANTS
    Clients,        \* WebSocket objects; a reconnecting CLI is a new one
    Ids,            \* values of randomBytes(TUNNEL_ID_BYTES)
    Slugs,          \* public subdomain labels
    Ports,          \* valid local ports
    Owners,         \* tunnel ownerships: a workspace or an anonymous session
    OwnerOf,        \* the ownership a socket's handshake resolved to
    SlugOf,         \* tunnelSlug: the label derived from an id
    ReclaimWindow,  \* TUNNEL_RECLAIM_WINDOW_MS
    MaxTime,        \* bound of the clock
    None            \* `undefined'

VARIABLES repo, closed, clock, minted, announced

vars == <<repo, closed, clock, minted, announced>>

Tunnel == [client : Clients, port : Ports, context : Owners]
Orphan == [port : Ports, context : Owners, disconnectedAt : Nat]
Birth  == [port : Ports, context : Owners]

ASSUME RegistryAssumption ==
    /\ OwnerOf \in [Clients -> Owners]
    /\ SlugOf \in [Ids -> Slugs]
    /\ ReclaimWindow \in Nat
    /\ MaxTime \in Nat
    /\ None \notin Clients \cup Ids \cup Slugs
    /\ None \notin Tunnel /\ None \notin Orphan /\ None \notin Birth

(***************************************************************************)
(* Two ids abbreviate to the same label with probability 2^-48 per pair;   *)
(* the registry never checks for it.  The slug properties hold under this  *)
(* condition, which is therefore not among the assumptions.                *)
(***************************************************************************)
SlugsDistinct == \A i, j \in Ids : SlugOf[i] = SlugOf[j] => i = j

Repository == [byId     : [Ids -> Tunnel \cup {None}],
               byClient : [Clients -> Ids \cup {None}],
               bySlug   : [Slugs -> Ids \cup {None}],
               orphans  : [Ids -> Orphan \cup {None}]]

TypeOK ==
    /\ repo \in Repository
    /\ closed \subseteq Clients
    /\ clock \in Nat
    /\ minted \in [Ids -> Birth \cup {None}]
    /\ announced \in [Ids -> {"never", "created", "closed"}]

Active(r, i) == r.byId[i] # None
Parked(r, i) == r.orphans[i] # None

-----------------------------------------------------------------------------
(* The repository: each operator maps the four maps to the four maps.      *)

(* save() before the new record is linked: whatever the id and the socket
   were linked to is dropped.  A socket's previous tunnel is displaced.    *)
Unlinked(r, i, c) ==
    LET old   == r.byId[i]
        freed == IF old = None THEN r
                 ELSE [r EXCEPT !.byClient[old.client] = None,
                                !.bySlug[SlugOf[i]] = None]
        prev  == freed.byClient[c]
    IN  IF prev = None \/ prev = i THEN freed
        ELSE [freed EXCEPT
                !.byId[prev] = None,
                !.bySlug = IF r.byId[prev] = None THEN @
                           ELSE [@ EXCEPT ![SlugOf[prev]] = None]]

Save(r, i, t) ==
    LET u == Unlinked(r, i, t.client)
    IN  [u EXCEPT !.orphans[i] = None,
                  !.byId[i] = t,
                  !.byClient[t.client] = i,
                  !.bySlug[SlugOf[i]] = i]

(* remove(): an active or a parked tunnel.                                 *)
Remove(r, i) ==
    LET t == r.byId[i]
    IN  [r EXCEPT
            !.orphans[i] = None,
            !.byId[i] = None,
            !.byClient = IF t = None THEN @ ELSE [@ EXCEPT ![t.client] = None],
            !.bySlug = IF t = None /\ r.orphans[i] = None THEN @
                       ELSE [@ EXCEPT ![SlugOf[i]] = None]]

(* Faulty variants: the record of a parked tunnel stays in byId; its slug is
   given up at once.                                                       *)
ParkKeepsRecord(r, c, now) ==
    IF r.byClient[c] = None THEN r ELSE [r EXCEPT !.byClient[c] = None]

ParkFreesSlug(r, c, now) ==
    LET i == r.byClient[c]
        t == r.byId[i]
    IN  IF i = None THEN r
        ELSE [r EXCEPT !.byId[i] = None, !.byClient[c] = None,
                       !.bySlug[SlugOf[i]] = None,
                       !.orphans[i] = [port |-> t.port, context |-> t.context,
                                       disconnectedAt |-> now]]

(* orphanByClient(): park the socket's tunnel; the slug stays reserved.    *)
Park(r, c, now) ==
    LET i == r.byClient[c]
        t == r.byId[i]
    IN  IF i = None THEN r
        ELSE IF t = None THEN [r EXCEPT !.byClient[c] = None]
        ELSE [r EXCEPT !.byId[i] = None,
                       !.byClient[c] = None,
                       !.orphans[i] = [port |-> t.port,
                                       context |-> t.context,
                                       disconnectedAt |-> now]]

(* Faulty variant: the window's last instant already counts as elapsed.     *)
ElapsedEarly(r, i, now) == now - r.orphans[i].disconnectedAt >= ReclaimWindow

Elapsed(r, i, now) == now - r.orphans[i].disconnectedAt > ReclaimWindow

Expired(r, now) == {i \in Ids : Parked(r, i) /\ Elapsed(r, i, now)}

(* purgeExpiredOrphans()                                                   *)
Purge(r, now) ==
    LET gone == Expired(r, now)
    IN  [r EXCEPT
            !.orphans = [i \in Ids |-> IF i \in gone THEN None ELSE @[i]],
            !.bySlug = [s \in Slugs |->
                          IF \E i \in gone : SlugOf[i] = s THEN None ELSE @[s]]]

(* Faulty variant: the owner is not compared.                              *)
MatchesAnyOwner(r, i, p, owner) == Parked(r, i) /\ r.orphans[i].port = p

(* reclaim() finds an orphan of this owner, for this port.                 *)
Matches(r, i, p, owner) ==
    /\ Parked(r, i)
    /\ r.orphans[i].port = p
    /\ r.orphans[i].context = owner

Reclaimable(r, i, p, owner, now) ==
    /\ Matches(r, i, p, owner)
    /\ ~Elapsed(r, i, now)

(* reclaim() gives up: an orphan it found expired is dropped on the way.   *)
ReclaimFailed(r, i, p, owner, now) ==
    IF Matches(r, i, p, owner) /\ Elapsed(r, i, now)
    THEN [r EXCEPT !.orphans[i] = None, !.bySlug[SlugOf[i]] = None]
    ELSE r

-----------------------------------------------------------------------------
(* The manager's operations.                                               *)

Announce(ids, event, seen) == [i \in Ids |-> IF i \in ids THEN event ELSE seen[i]]

Init ==
    /\ repo = [byId     |-> [i \in Ids |-> None],
               byClient |-> [c \in Clients |-> None],
               bySlug   |-> [s \in Slugs |-> None],
               orphans  |-> [i \in Ids |-> None]]
    /\ closed = {}
    /\ clock = 0
    /\ minted = [i \in Ids |-> None]
    /\ announced = [i \in Ids |-> "never"]

(* create() restores the preferred tunnel.                                 *)
Restore(c, p, i) ==
    LET purged == Purge(repo, clock)
        seen   == Announce(Expired(repo, clock), "closed", announced)
    IN  /\ c \notin closed
        /\ Reclaimable(purged, i, p, OwnerOf[c], clock)
        /\ repo' = Save(purged, i, [client |-> c,
                                    port |-> purged.orphans[i].port,
                                    context |-> purged.orphans[i].context])
        /\ announced' = Announce({i}, "created", seen)
        /\ UNCHANGED <<closed, clock, minted>>

(* create() registers a tunnel under a fresh id, with no preferred tunnel
   (None) or because the preferred one could not be reclaimed.             *)
Register(c, p, preferred, i) ==
    LET purged == Purge(repo, clock)
        tried  == IF preferred = None THEN purged
                  ELSE ReclaimFailed(purged, preferred, p, OwnerOf[c], clock)
        seen   == Announce(Expired(repo, clock), "closed", announced)
    IN  /\ c \notin closed
        /\ preferred # None => ~Reclaimable(purged, preferred, p, OwnerOf[c], clock)
        /\ minted[i] = None
        /\ repo' = Save(tried, i, [client |-> c, port |-> p, context |-> OwnerOf[c]])
        /\ minted' = [minted EXCEPT ![i] = [port |-> p, context |-> OwnerOf[c]]]
        /\ announced' = Announce({i}, "created", seen)
        /\ UNCHANGED <<closed, clock>>

(* unregister(): by id.                                                    *)
Unregister(i) ==
    /\ repo' = Remove(repo, i)
    /\ announced' = IF Active(repo, i) THEN Announce({i}, "closed", announced)
                    ELSE announced
    /\ UNCHANGED <<closed, clock, minted>>

(* unregisterClient(): the socket's tunnel, if it has one.                 *)
UnregisterClient(c) ==
    LET i == repo.byClient[c]
    IN  /\ i # None
        /\ Unregister(i)

(* The gateway handles a socket's close event and calls detachClient().    *)
DetachClient(c) ==
    LET i == repo.byClient[c]
    IN  /\ c \notin closed
        /\ closed' = closed \cup {c}
        /\ repo' = Park(repo, c, clock)
        /\ announced' = IF i # None /\ Active(repo, i)
                        THEN Announce({i}, "closed", announced)
                        ELSE announced
        /\ UNCHANGED <<clock, minted>>

Tick ==
    /\ clock < MaxTime
    /\ clock' = clock + 1
    /\ UNCHANGED <<repo, closed, minted, announced>>

Next ==
    \/ \E c \in Clients, p \in Ports, i \in Ids : Restore(c, p, i)
    \/ \E c \in Clients, p \in Ports, q \in Ids \cup {None}, i \in Ids :
          Register(c, p, q, i)
    \/ \E i \in Ids : Unregister(i)
    \/ \E c \in Clients : UnregisterClient(c) \/ DetachClient(c)
    \/ Tick

Spec == Init /\ [][Next]_vars

-----------------------------------------------------------------------------
(* byId and byClient are each other's inverse: the frames of a socket are
   accepted for exactly the tunnel that routes requests to it.             *)
ClientIndexAgrees ==
    /\ \A c \in Clients : repo.byClient[c] # None =>
          /\ Active(repo, repo.byClient[c])
          /\ repo.byId[repo.byClient[c]].client = c
    /\ \A i \in Ids : Active(repo, i) => repo.byClient[repo.byId[i].client] = i

(* No id is both routed to a socket and up for reclaim.                    *)
NeverActiveAndParked == \A i \in Ids : ~(Active(repo, i) /\ Parked(repo, i))

(* Once the gateway has handled a socket's close, no tunnel routes to that
   socket again, whatever was created, displaced or reclaimed meanwhile.   *)
NoRouteToClosedSocket ==
    \A i \in Ids : Active(repo, i) => repo.byId[i].client \notin closed

(* A tunnel id stands for one local port of one owner for ever: reclaiming
   it over other sockets never changes either.                             *)
IdKeepsOwnerAndPort ==
    \A i \in Ids :
        /\ Active(repo, i) => minted[i] = [port |-> repo.byId[i].port,
                                           context |-> repo.byId[i].context]
        /\ Parked(repo, i) => minted[i] = [port |-> repo.orphans[i].port,
                                           context |-> repo.orphans[i].context]

(* A label is reserved for exactly the active and the parked tunnels: the
   path URL and the subdomain URL of a tunnel route alike, and a parked
   tunnel's label is not free for another.                                 *)
SlugReserved ==
    \A i \in Ids : repo.bySlug[SlugOf[i]] = i <=> Active(repo, i) \/ Parked(repo, i)

(* Subscribers of the event bus are told of every active tunnel, and a
   tunnel that was parked was announced as closed.  (The converse fails: a
   tunnel its socket displaced stays announced as created.)                *)
LifecycleAnnounced ==
    \A i \in Ids : /\ Active(repo, i) => announced[i] = "created"
                   /\ Parked(repo, i) => announced[i] = "closed"

(* A parked tunnel waits for its owner: it leaves the table only because it
   was reclaimed, because its window elapsed or because it was unregistered
   by id, never because another socket created or lost a tunnel.           *)
ParkedUntilReclaimedOrElapsed ==
    [][\A i \in Ids : Parked(repo, i) /\ ~Parked(repo', i) =>
            \/ Active(repo', i)
            \/ clock > repo.orphans[i].disconnectedAt + ReclaimWindow
            \/ Unregister(i)]_vars

(* The inductive invariant of the registry, proved in TunnelRegistryProofs. *)
RegistryInv ==
    /\ ClientIndexAgrees
    /\ NeverActiveAndParked
    /\ NoRouteToClosedSocket
    /\ IdKeepsOwnerAndPort
    /\ LifecycleAnnounced

(* The registry implements the lease: an id is held while it is active,
   parked while it is an orphan, ended when it was minted and is neither.   *)
Phase(i) == CASE Active(repo, i) -> "held"
              [] ~Active(repo, i) /\ Parked(repo, i) -> "parked"
              [] ~Active(repo, i) /\ ~Parked(repo, i) /\ minted[i] = None -> "unused"
              [] OTHER -> "ended"

Lease == INSTANCE TunnelLease WITH
    Window <- ReclaimWindow,
    phase  <- [i \in Ids |-> Phase(i)],
    terms  <- minted,
    holder <- [i \in Ids |-> IF Active(repo, i) THEN repo.byId[i].client ELSE None],
    since  <- [i \in Ids |-> IF Parked(repo, i) THEN repo.orphans[i].disconnectedAt
                             ELSE None],
    gone   <- closed,
    time   <- clock

ImplementsLease == Lease!Spec
=============================================================================
