------------------------ MODULE TunnelRegistryProofs ------------------------
(***************************************************************************)
(* Proofs about TunnelRegistry, for every set of sockets, ids, ports and   *)
(* owners and every reclaim window.                                        *)
(*                                                                         *)
(* The repository's operators are first characterised pointwise, under the *)
(* condition Linked that byId and byClient are each other's inverse; the   *)
(* invariance proofs then only use the characterisations.                  *)
(***************************************************************************)
EXTENDS TunnelRegistry, TLAPS

Linked(r) ==
    /\ \A c \in Clients : r.byClient[c] # None =>
          /\ Active(r, r.byClient[c])
          /\ r.byId[r.byClient[c]].client = c
    /\ \A i \in Ids : Active(r, i) => r.byClient[r.byId[i].client] = i

-----------------------------------------------------------------------------
(* save(): the record is linked under its id, the socket's other tunnel and
   the id's other socket are unlinked, and nothing else changes.            *)
LEMMA SaveEffect ==
    ASSUME NEW r \in Repository, Linked(r), NEW i \in Ids, NEW t \in Tunnel
    PROVE  /\ Save(r, i, t) \in Repository
           /\ \A j \in Ids : Save(r, i, t).byId[j] =
                 IF j = i THEN t
                 ELSE IF Active(r, j) /\ r.byId[j].client = t.client THEN None
                 ELSE r.byId[j]
           /\ \A c \in Clients : Save(r, i, t).byClient[c] =
                 IF c = t.client THEN i
                 ELSE IF r.byClient[c] = i THEN None
                 ELSE r.byClient[c]
           /\ \A j \in Ids : Save(r, i, t).orphans[j] =
                 IF j = i THEN None ELSE r.orphans[j]
  <1> DEFINE u == Unlinked(r, i, t.client)
             freed == IF r.byId[i] = None THEN r
                      ELSE [r EXCEPT !.byClient[r.byId[i].client] = None,
                                     !.bySlug[SlugOf[i]] = None]
             prev == freed.byClient[t.client]
  <1>1. /\ r.byId \in [Ids -> Tunnel \cup {None}]
        /\ r.byClient \in [Clients -> Ids \cup {None}]
        /\ r.bySlug \in [Slugs -> Ids \cup {None}]
        /\ r.orphans \in [Ids -> Orphan \cup {None}]
        /\ r = [byId |-> r.byId, byClient |-> r.byClient,
                bySlug |-> r.bySlug, orphans |-> r.orphans]
    BY DEF Repository
  <1>2. t.client \in Clients /\ None \notin Ids /\ None \notin Clients /\ t # None
    BY RegistryAssumption DEF Tunnel
  <1>3. /\ freed \in Repository
        /\ freed.byId = r.byId /\ freed.orphans = r.orphans
        /\ \A c \in Clients : freed.byClient[c] =
              IF r.byClient[c] = i THEN None ELSE r.byClient[c]
    <2>1. CASE r.byId[i] = None
      BY <1>1, <1>2, <2>1 DEF Linked, Active
    <2>2. CASE r.byId[i] # None
      <3>1. r.byId[i].client \in Clients
        BY <1>1, <2>2 DEF Tunnel
      <3>2. freed = [byId |-> r.byId,
                     byClient |-> [r.byClient EXCEPT ![r.byId[i].client] = None],
                     bySlug |-> [r.bySlug EXCEPT ![SlugOf[i]] = None],
                     orphans |-> r.orphans]
        BY <1>1, <2>2
      <3>3. freed \in Repository
        BY <1>1, <3>2 DEF Repository
      <3>4. r.byClient[r.byId[i].client] = i
        BY <2>2 DEF Linked, Active
      <3>5. \A c \in Clients : r.byClient[c] = i => c = r.byId[i].client
        BY <1>2 DEF Linked
      <3>6. QED BY <1>1, <3>1, <3>2, <3>3, <3>4, <3>5
    <2>3. QED BY <2>1, <2>2
  <1>4. prev \in Ids \cup {None} /\ prev # i
    BY <1>1, <1>2, <1>3
  <1>5. /\ u \in Repository
        /\ \A j \in Ids : u.byId[j] = IF j = prev THEN None ELSE r.byId[j]
        /\ u.byClient = freed.byClient /\ u.orphans = r.orphans
    <2>1. CASE prev = None
      BY <1>2, <1>3, <2>1 DEF Unlinked
    <2>2. CASE prev # None
      <3> DEFINE slugs == IF r.byId[prev] = None THEN freed.bySlug
                          ELSE [freed.bySlug EXCEPT ![SlugOf[prev]] = None]
      <3>1. u = [freed EXCEPT !.byId[prev] = None, !.bySlug = slugs]
        BY <1>4, <2>2 DEF Unlinked
      <3>2. /\ slugs \in [Slugs -> Ids \cup {None}]
            /\ prev \in Ids
            /\ [r.byId EXCEPT ![prev] = None] \in [Ids -> Tunnel \cup {None}]
        BY <1>1, <1>3, <1>4, <2>2 DEF Repository
      <3> HIDE DEF slugs, freed, prev
      <3>3. u = [byId |-> [r.byId EXCEPT ![prev] = None],
                 byClient |-> freed.byClient, bySlug |-> slugs,
                 orphans |-> r.orphans]
        BY <1>3, <3>1 DEF Repository
      <3>4. \A j \in Ids : [r.byId EXCEPT ![prev] = None][j] =
                                IF j = prev THEN None ELSE r.byId[j]
        BY <1>1
      <3>5. QED BY <1>3, <3>2, <3>3, <3>4 DEF Repository
    <2>3. QED BY <2>1, <2>2
  <1>6. \A j \in Ids : j # i =>
            (j = prev <=> Active(r, j) /\ r.byId[j].client = t.client)
    BY <1>1, <1>2, <1>3 DEF Linked, Active
  <1> HIDE DEF u, freed, prev
  <1>7. /\ u.byId \in [Ids -> Tunnel \cup {None}]
        /\ u.byClient \in [Clients -> Ids \cup {None}]
        /\ u.bySlug \in [Slugs -> Ids \cup {None}]
        /\ u.orphans \in [Ids -> Orphan \cup {None}]
        /\ u = [byId |-> u.byId, byClient |-> u.byClient,
                bySlug |-> u.bySlug, orphans |-> u.orphans]
    BY <1>5 DEF Repository
  <1> DEFINE tunnels == [u.byId EXCEPT ![i] = t]
             clients == [u.byClient EXCEPT ![t.client] = i]
             slugs   == [u.bySlug EXCEPT ![SlugOf[i]] = i]
             orphans == [u.orphans EXCEPT ![i] = None]
  <1>8. Save(r, i, t) = [byId |-> tunnels, byClient |-> clients,
                         bySlug |-> slugs, orphans |-> orphans]
    <2>1. Save(r, i, t) = [u EXCEPT !.orphans[i] = None, !.byId[i] = t,
                                    !.byClient[t.client] = i, !.bySlug[SlugOf[i]] = i]
      BY DEF Save, u
    <2>2. QED BY <1>7, <2>1
  <1>9. /\ tunnels \in [Ids -> Tunnel \cup {None}]
        /\ clients \in [Clients -> Ids \cup {None}]
        /\ slugs \in [Slugs -> Ids \cup {None}]
        /\ orphans \in [Ids -> Orphan \cup {None}]
    BY <1>7
  <1>10. /\ \A j \in Ids : tunnels[j] = IF j = i THEN t ELSE u.byId[j]
         /\ \A c \in Clients : clients[c] = IF c = t.client THEN i ELSE u.byClient[c]
         /\ \A j \in Ids : orphans[j] = IF j = i THEN None ELSE u.orphans[j]
    BY <1>7
  <1> HIDE DEF tunnels, clients, slugs, orphans
  <1>11. Save(r, i, t) \in Repository
    BY <1>8, <1>9 DEF Repository
  <1>12. QED BY <1>3, <1>5, <1>6, <1>8, <1>10, <1>11

(* purgeExpiredOrphans(): exactly the expired orphans go.                   *)
LEMMA PurgeEffect ==
    ASSUME NEW r \in Repository, NEW now
    PROVE  /\ Purge(r, now) \in Repository
           /\ Purge(r, now).byId = r.byId
           /\ Purge(r, now).byClient = r.byClient
           /\ \A j \in Ids : Purge(r, now).orphans[j] =
                 IF j \in Expired(r, now) THEN None ELSE r.orphans[j]
  <1> DEFINE gone == Expired(r, now)
             slugs == [s \in Slugs |-> IF \E i \in gone : SlugOf[i] = s THEN None
                                       ELSE r.bySlug[s]]
             orphans == [i \in Ids |-> IF i \in gone THEN None ELSE r.orphans[i]]
  <1>1. Purge(r, now) = [r EXCEPT !.orphans = orphans, !.bySlug = slugs]
    BY DEF Purge
  <1>2. slugs \in [Slugs -> Ids \cup {None}] /\ orphans \in [Ids -> Orphan \cup {None}]
    BY DEF Repository
  <1>3. \A j \in Ids : orphans[j] = IF j \in gone THEN None ELSE r.orphans[j]
    OBVIOUS
  <1> HIDE DEF slugs, orphans
  <1>4. Purge(r, now) = [byId |-> r.byId, byClient |-> r.byClient,
                         bySlug |-> slugs, orphans |-> orphans]
    BY <1>1 DEF Repository
  <1>5. QED BY <1>2, <1>3, <1>4 DEF Repository

(* A failed reclaim() drops at most one orphan, one that had expired.       *)
LEMMA ReclaimFailedEffect ==
    ASSUME NEW r \in Repository, NEW q \in Ids, NEW p, NEW owner, NEW now
    PROVE  /\ ReclaimFailed(r, q, p, owner, now) \in Repository
           /\ ReclaimFailed(r, q, p, owner, now).byId = r.byId
           /\ ReclaimFailed(r, q, p, owner, now).byClient = r.byClient
           /\ \A j \in Ids : ReclaimFailed(r, q, p, owner, now).orphans[j] =
                 IF j = q /\ Matches(r, q, p, owner) /\ Elapsed(r, q, now)
                 THEN None ELSE r.orphans[j]
  <1>1. CASE Matches(r, q, p, owner) /\ Elapsed(r, q, now)
    <2> DEFINE slugs == [r.bySlug EXCEPT ![SlugOf[q]] = None]
               orphans == [r.orphans EXCEPT ![q] = None]
    <2>1. ReclaimFailed(r, q, p, owner, now) =
            [byId |-> r.byId, byClient |-> r.byClient,
             bySlug |-> slugs, orphans |-> orphans]
      BY <1>1 DEF ReclaimFailed, Repository
    <2>2. slugs \in [Slugs -> Ids \cup {None}] /\ orphans \in [Ids -> Orphan \cup {None}]
      BY DEF Repository
    <2>3. \A j \in Ids : orphans[j] = IF j = q THEN None ELSE r.orphans[j]
      BY DEF Repository
    <2> HIDE DEF slugs, orphans
    <2>4. QED BY <1>1, <2>1, <2>2, <2>3 DEF Repository
  <1>2. CASE ~(Matches(r, q, p, owner) /\ Elapsed(r, q, now))
    BY <1>2 DEF ReclaimFailed
  <1>3. QED BY <1>1, <1>2

(* remove(): the id's record, its socket's link and its orphan go.          *)
LEMMA RemoveEffect ==
    ASSUME NEW r \in Repository, NEW i \in Ids
    PROVE  /\ Remove(r, i) \in Repository
           /\ \A j \in Ids : Remove(r, i).byId[j] = IF j = i THEN None ELSE r.byId[j]
           /\ \A j \in Ids : Remove(r, i).orphans[j] =
                 IF j = i THEN None ELSE r.orphans[j]
           /\ \A c \in Clients : Remove(r, i).byClient[c] =
                 IF Active(r, i) /\ c = r.byId[i].client THEN None ELSE r.byClient[c]
  <1> DEFINE tunnels == [r.byId EXCEPT ![i] = None]
             orphans == [r.orphans EXCEPT ![i] = None]
             clients == IF r.byId[i] = None THEN r.byClient
                        ELSE [r.byClient EXCEPT ![r.byId[i].client] = None]
             slugs == IF r.byId[i] = None /\ r.orphans[i] = None THEN r.bySlug
                      ELSE [r.bySlug EXCEPT ![SlugOf[i]] = None]
  <1>1. Remove(r, i) = [r EXCEPT !.orphans = orphans, !.byId = tunnels,
                                 !.byClient = clients, !.bySlug = slugs]
    BY DEF Remove, Repository
  <1>2. /\ tunnels \in [Ids -> Tunnel \cup {None}]
        /\ orphans \in [Ids -> Orphan \cup {None}]
        /\ slugs \in [Slugs -> Ids \cup {None}]
        /\ clients \in [Clients -> Ids \cup {None}]
    BY DEF Repository
  <1>3. /\ \A c \in Clients : clients[c] =
              IF Active(r, i) /\ c = r.byId[i].client THEN None ELSE r.byClient[c]
        /\ \A j \in Ids : tunnels[j] = IF j = i THEN None ELSE r.byId[j]
        /\ \A j \in Ids : orphans[j] = IF j = i THEN None ELSE r.orphans[j]
    BY DEF Repository, Active, Tunnel
  <1> HIDE DEF tunnels, orphans, clients, slugs
  <1>4. Remove(r, i) = [byId |-> tunnels, byClient |-> clients,
                        bySlug |-> slugs, orphans |-> orphans]
    BY <1>1 DEF Repository
  <1>5. QED BY <1>2, <1>3, <1>4 DEF Repository

(* orphanByClient(): the socket's tunnel moves from byId to orphans.        *)
LEMMA ParkEffect ==
    ASSUME NEW r \in Repository, Linked(r), NEW c \in Clients, NEW now \in Nat
    PROVE  /\ Park(r, c, now) \in Repository
           /\ \A j \in Ids : Park(r, c, now).byId[j] =
                 IF j = r.byClient[c] THEN None ELSE r.byId[j]
           /\ \A j \in Ids : Park(r, c, now).orphans[j] =
                 IF j = r.byClient[c]
                 THEN [port |-> r.byId[j].port, context |-> r.byId[j].context,
                       disconnectedAt |-> now]
                 ELSE r.orphans[j]
           /\ \A d \in Clients : Park(r, c, now).byClient[d] =
                 IF d = c THEN None ELSE r.byClient[d]
  <1> DEFINE i == r.byClient[c]
             orphan == [port |-> r.byId[i].port, context |-> r.byId[i].context,
                        disconnectedAt |-> now]
  <1>1. None \notin Ids BY RegistryAssumption
  <1>2. CASE i = None
    BY <1>1, <1>2 DEF Park
  <1>3. CASE i # None
    <2>1. i \in Ids /\ r.byId[i] \in Tunnel
      BY <1>3 DEF Repository, Linked, Active
    <2>2. orphan \in Orphan
      BY <2>1 DEF Tunnel, Orphan
    <2>3. Park(r, c, now) = [byId |-> [r.byId EXCEPT ![i] = None],
                             byClient |-> [r.byClient EXCEPT ![c] = None],
                             bySlug |-> r.bySlug,
                             orphans |-> [r.orphans EXCEPT ![i] = orphan]]
      BY <1>3, <2>1 DEF Park, Repository, Linked, Active
    <2>4. QED BY <1>3, <2>1, <2>2, <2>3 DEF Repository
  <1>4. QED BY <1>2, <1>3
-----------------------------------------------------------------------------
LEMMA SaveLinked ==
    ASSUME NEW r \in Repository, Linked(r), NEW i \in Ids, NEW t \in Tunnel
    PROVE  Linked(Save(r, i, t))
  <1> DEFINE s == Save(r, i, t)
  <1>1. None \notin Ids /\ None \notin Clients /\ t.client \in Clients /\ t # None
    BY RegistryAssumption DEF Tunnel
  <1>2. /\ \A j \in Ids : s.byId[j] =
              IF j = i THEN t
              ELSE IF Active(r, j) /\ r.byId[j].client = t.client THEN None
              ELSE r.byId[j]
        /\ \A c \in Clients : s.byClient[c] =
              IF c = t.client THEN i
              ELSE IF r.byClient[c] = i THEN None
              ELSE r.byClient[c]
    BY SaveEffect
  <1> HIDE DEF s
  <1>3. ASSUME NEW c \in Clients, s.byClient[c] # None
        PROVE  Active(s, s.byClient[c]) /\ s.byId[s.byClient[c]].client = c
    <2>1. CASE c = t.client
      BY <1>1, <1>2, <2>1 DEF Active
    <2>2. CASE c # t.client
      <3>1. s.byClient[c] = r.byClient[c] /\ r.byClient[c] # None /\ r.byClient[c] # i
        BY <1>1, <1>2, <1>3, <2>2
      <3>2. r.byClient[c] \in Ids
        BY <3>1 DEF Repository
      <3>3. QED BY <1>2, <2>2, <3>1, <3>2 DEF Linked, Active
    <2>3. QED BY <2>1, <2>2
  <1>4. ASSUME NEW j \in Ids, Active(s, j)
        PROVE  s.byClient[s.byId[j].client] = j
    <2>1. CASE j = i
      BY <1>1, <1>2, <2>1
    <2>2. CASE j # i
      <3>1. s.byId[j] = r.byId[j] /\ Active(r, j) /\ r.byId[j].client # t.client
        BY <1>2, <1>4, <2>2 DEF Active
      <3>2. r.byId[j].client \in Clients
        BY <3>1 DEF Active, Repository, Tunnel
      <3>3. QED BY <1>2, <2>2, <3>1, <3>2 DEF Linked
    <2>3. QED BY <2>1, <2>2
  <1>5. QED BY <1>3, <1>4 DEF Linked, s

Inv == TypeOK /\ RegistryInv

LEMMA InitInv == Init => Inv
  <1>1. SUFFICES ASSUME Init PROVE Inv
    OBVIOUS
  <1>2. None \notin Ids /\ None \notin Clients
    BY RegistryAssumption
  <1>3. repo \in Repository
    BY <1>1 DEF Init, Repository
  <1>4. TypeOK
    BY <1>1, <1>3 DEF Init, TypeOK
  <1>5. RegistryInv
    BY <1>1, <1>2 DEF Init, RegistryInv, ClientIndexAgrees, NeverActiveAndParked,
       NoRouteToClosedSocket, IdKeepsOwnerAndPort, LifecycleAnnounced, Active, Parked
  <1>6. QED BY <1>4, <1>5 DEF Inv

(* create() in either form: a tunnel is saved over tables that only lost
   expired orphans.                                                         *)
LEMMA CreateInv ==
    ASSUME Inv, NEW i \in Ids, NEW t \in Tunnel, NEW r \in Repository,
           r.byId = repo.byId, r.byClient = repo.byClient,
           \A j \in Ids : r.orphans[j] \in {None, repo.orphans[j]},
           t.client \notin closed, ~Active(repo, i),
           repo' = Save(r, i, t),
           closed' = closed, clock' = clock,
           minted' \in [Ids -> Birth \cup {None}],
           minted'[i] = [port |-> t.port, context |-> t.context],
           \A j \in Ids : j # i => minted'[j] = minted[j],
           announced' = Announce({i}, "created",
                           Announce(Expired(repo, clock), "closed", announced))
    PROVE  Inv'
  <1>1. Linked(r)
    BY DEF Inv, RegistryInv, ClientIndexAgrees, Linked, Active
  <1>2. /\ repo' \in Repository
        /\ \A j \in Ids : repo'.byId[j] =
              IF j = i THEN t
              ELSE IF Active(r, j) /\ r.byId[j].client = t.client THEN None
              ELSE r.byId[j]
        /\ \A j \in Ids : repo'.orphans[j] = IF j = i THEN None ELSE r.orphans[j]
    BY <1>1, SaveEffect
  <1>3. Linked(repo')
    BY <1>1, SaveLinked
  <1>4. \A j \in Ids : announced'[j] =
            IF j = i THEN "created"
            ELSE IF j \in Expired(repo, clock) THEN "closed" ELSE announced[j]
    BY DEF Announce
  <1>5. /\ \A j \in Ids : Active(repo', j) => j = i \/ repo'.byId[j] = repo.byId[j]
        /\ \A j \in Ids : Parked(repo', j) => j # i /\ repo'.orphans[j] = repo.orphans[j]
    BY <1>2 DEF Active, Parked
  <1>6. repo'.byId[i] = t
    BY <1>2
  <1>7. TypeOK'
    BY <1>2 DEF Inv, TypeOK, Announce
  <1>8. ClientIndexAgrees'
    BY <1>3 DEF Linked, ClientIndexAgrees, Active
  <1>9. NeverActiveAndParked'
    BY <1>5 DEF Inv, RegistryInv, NeverActiveAndParked, Active, Parked
  <1>10. NoRouteToClosedSocket'
    BY <1>5, <1>6 DEF Inv, RegistryInv, NoRouteToClosedSocket, Active
  <1>11. IdKeepsOwnerAndPort'
    BY <1>5, <1>6 DEF Inv, RegistryInv, IdKeepsOwnerAndPort, Active, Parked
  <1>12. LifecycleAnnounced'
    BY <1>4, <1>5 DEF Inv, RegistryInv, LifecycleAnnounced, NeverActiveAndParked,
       Active, Parked, Expired
  <1>13. QED BY <1>7, <1>8, <1>9, <1>10, <1>11, <1>12 DEF Inv, RegistryInv

LEMMA RestoreInv ==
    ASSUME Inv, NEW c \in Clients, NEW p \in Ports, NEW i \in Ids, Restore(c, p, i)
    PROVE  Inv'
  <1> DEFINE purged == Purge(repo, clock)
             t == [client |-> c, port |-> purged.orphans[i].port,
                   context |-> purged.orphans[i].context]
  <1>1. /\ purged \in Repository
        /\ purged.byId = repo.byId /\ purged.byClient = repo.byClient
        /\ \A j \in Ids : purged.orphans[j] \in {None, repo.orphans[j]}
    BY PurgeEffect DEF Inv, TypeOK
  <1>2. purged.orphans[i] = repo.orphans[i] /\ Parked(repo, i)
    BY <1>1 DEF Restore, Reclaimable, Matches, Parked
  <1>3. t \in Tunnel
    BY <1>2 DEF Inv, TypeOK, Repository, Parked, Orphan, Tunnel
  <1>4. minted[i] = [port |-> t.port, context |-> t.context]
    BY <1>2 DEF Inv, RegistryInv, IdKeepsOwnerAndPort
  <1>5. ~Active(repo, i)
    BY <1>2 DEF Inv, RegistryInv, NeverActiveAndParked
  <1>6. /\ c \notin closed /\ repo' = Save(purged, i, t)
        /\ closed' = closed /\ clock' = clock /\ minted' = minted
        /\ announced' = Announce({i}, "created",
                           Announce(Expired(repo, clock), "closed", announced))
    BY DEF Restore
  <1>7. t.client = c /\ minted \in [Ids -> Birth \cup {None}]
    BY DEF Inv, TypeOK
  <1> HIDE DEF purged, t
  <1>8. QED BY <1>1, <1>3, <1>4, <1>5, <1>6, <1>7, CreateInv

LEMMA RegisterInv ==
    ASSUME Inv, NEW c \in Clients, NEW p \in Ports, NEW q \in Ids \cup {None},
           NEW i \in Ids, Register(c, p, q, i)
    PROVE  Inv'
  <1> DEFINE purged == Purge(repo, clock)
             tried == IF q = None THEN purged
                      ELSE ReclaimFailed(purged, q, p, OwnerOf[c], clock)
             t == [client |-> c, port |-> p, context |-> OwnerOf[c]]
  <1>1. /\ purged \in Repository
        /\ purged.byId = repo.byId /\ purged.byClient = repo.byClient
        /\ \A j \in Ids : purged.orphans[j] \in {None, repo.orphans[j]}
    BY PurgeEffect DEF Inv, TypeOK
  <1> HIDE DEF purged
  <1>2. /\ tried \in Repository
        /\ tried.byId = repo.byId /\ tried.byClient = repo.byClient
        /\ \A j \in Ids : tried.orphans[j] \in {None, repo.orphans[j]}
    <2>1. CASE q = None
      BY <1>1, <2>1
    <2>2. CASE q # None
      <3>1. q \in Ids
        BY <2>2
      <3>2. /\ tried \in Repository
            /\ tried.byId = purged.byId /\ tried.byClient = purged.byClient
            /\ \A j \in Ids : tried.orphans[j] \in {None, purged.orphans[j]}
        BY <1>1, <2>2, <3>1, ReclaimFailedEffect
      <3>3. QED BY <1>1, <3>2
    <2>3. QED BY <2>1, <2>2
  <1> HIDE DEF tried
  <1>3. t \in Tunnel /\ [port |-> p, context |-> OwnerOf[c]] \in Birth
    BY RegistryAssumption DEF Tunnel, Birth
  <1>4. ~Active(repo, i)
    BY <1>3, RegistryAssumption
       DEF Inv, RegistryInv, IdKeepsOwnerAndPort, Register, TypeOK, Repository,
           Active, Tunnel, Birth
  <1>5. /\ c \notin closed /\ repo' = Save(tried, i, t)
        /\ closed' = closed /\ clock' = clock
        /\ minted' = [minted EXCEPT ![i] = [port |-> p, context |-> OwnerOf[c]]]
        /\ announced' = Announce({i}, "created",
                           Announce(Expired(repo, clock), "closed", announced))
    BY DEF Register, tried, purged
  <1>6. /\ minted' \in [Ids -> Birth \cup {None}]
        /\ minted'[i] = [port |-> t.port, context |-> t.context]
        /\ \A j \in Ids : j # i => minted'[j] = minted[j]
        /\ t.client = c
    BY <1>3, <1>5 DEF Inv, TypeOK
  <1> HIDE DEF t
  <1>7. QED BY <1>2, <1>3, <1>4, <1>5, <1>6, CreateInv

LEMMA UnregisterInv ==
    ASSUME Inv, NEW i \in Ids, Unregister(i)
    PROVE  Inv'
  <1>1. /\ repo' \in Repository
        /\ \A j \in Ids : repo'.byId[j] = IF j = i THEN None ELSE repo.byId[j]
        /\ \A j \in Ids : repo'.orphans[j] = IF j = i THEN None ELSE repo.orphans[j]
        /\ \A c \in Clients : repo'.byClient[c] =
              IF Active(repo, i) /\ c = repo.byId[i].client THEN None
              ELSE repo.byClient[c]
    BY RemoveEffect DEF Inv, TypeOK, Unregister
  <1>2. /\ closed' = closed /\ clock' = clock /\ minted' = minted
        /\ announced' \in [Ids -> {"never", "created", "closed"}]
        /\ \A j \in Ids : j # i => announced'[j] = announced[j]
    BY DEF Unregister, Announce, Inv, TypeOK
  <1>3. TypeOK'
    BY <1>1, <1>2 DEF Inv, TypeOK
  <1>4. /\ \A j \in Ids : Active(repo', j) =>
              j # i /\ Active(repo, j) /\ repo'.byId[j] = repo.byId[j]
        /\ \A j \in Ids : Parked(repo', j) =>
              j # i /\ Parked(repo, j) /\ repo'.orphans[j] = repo.orphans[j]
    BY <1>1 DEF Active, Parked
  <1>5. ClientIndexAgrees'
    <2>1. ASSUME NEW c \in Clients, repo'.byClient[c] # None
          PROVE  Active(repo', repo'.byClient[c]) /\ repo'.byId[repo'.byClient[c]].client = c
      <3>1. repo'.byClient[c] = repo.byClient[c] /\ repo.byClient[c] \in Ids
        BY <1>1, <2>1 DEF Inv, TypeOK, Repository
      <3>2. repo.byClient[c] # i
        BY <1>1, <2>1, <3>1 DEF Inv, RegistryInv, ClientIndexAgrees
      <3>3. QED BY <1>1, <2>1, <3>1, <3>2
                DEF Inv, RegistryInv, ClientIndexAgrees, Active
    <2>2. ASSUME NEW j \in Ids, Active(repo', j)
          PROVE  repo'.byClient[repo'.byId[j].client] = j
      <3>1. j # i /\ Active(repo, j) /\ repo'.byId[j] = repo.byId[j]
        BY <1>4, <2>2
      <3>2. repo.byId[j].client \in Clients /\ repo.byClient[repo.byId[j].client] = j
        BY <3>1 DEF Inv, TypeOK, RegistryInv, ClientIndexAgrees, Repository, Active, Tunnel
      <3>3. Active(repo, i) => repo.byClient[repo.byId[i].client] = i
        BY DEF Inv, RegistryInv, ClientIndexAgrees
      <3>4. QED BY <1>1, <3>1, <3>2, <3>3
    <2>3. QED BY <2>1, <2>2 DEF ClientIndexAgrees
  <1>6. NeverActiveAndParked'
    BY <1>4 DEF Inv, RegistryInv, NeverActiveAndParked
  <1>7. NoRouteToClosedSocket'
    BY <1>2, <1>4 DEF Inv, RegistryInv, NoRouteToClosedSocket
  <1>8. IdKeepsOwnerAndPort'
    BY <1>2, <1>4 DEF Inv, RegistryInv, IdKeepsOwnerAndPort
  <1>9. LifecycleAnnounced'
    BY <1>2, <1>4 DEF Inv, RegistryInv, LifecycleAnnounced
  <1>10. QED BY <1>3, <1>5, <1>6, <1>7, <1>8, <1>9 DEF Inv, RegistryInv

LEMMA DetachInv ==
    ASSUME Inv, NEW c \in Clients, DetachClient(c)
    PROVE  Inv'
  <1> DEFINE k == repo.byClient[c]
  <1>1. /\ repo' \in Repository
        /\ \A j \in Ids : repo'.byId[j] = IF j = k THEN None ELSE repo.byId[j]
        /\ \A j \in Ids : repo'.orphans[j] =
              IF j = k THEN [port |-> repo.byId[j].port, context |-> repo.byId[j].context,
                             disconnectedAt |-> clock]
              ELSE repo.orphans[j]
        /\ \A d \in Clients : repo'.byClient[d] = IF d = c THEN None ELSE repo.byClient[d]
    <2>1. Linked(repo) /\ repo \in Repository /\ clock \in Nat
      BY DEF Inv, TypeOK, RegistryInv, ClientIndexAgrees, Linked
    <2>2. repo' = Park(repo, c, clock)
      BY DEF DetachClient
    <2>3. QED BY <2>1, <2>2, ParkEffect
  <1>2. /\ closed' = closed \cup {c} /\ clock' = clock /\ minted' = minted
        /\ announced' \in [Ids -> {"never", "created", "closed"}]
        /\ \A j \in Ids : j # k => announced'[j] = announced[j]
        /\ k # None => announced'[k] = "closed"
    BY DEF DetachClient, Announce, Inv, TypeOK, RegistryInv, ClientIndexAgrees, Repository
  <1>3. k # None => k \in Ids /\ Active(repo, k) /\ repo.byId[k].client = c
    BY DEF Inv, TypeOK, RegistryInv, ClientIndexAgrees, Repository
  <1>4. None \notin Ids
    BY RegistryAssumption
  <1>5. /\ \A j \in Ids : Active(repo', j) =>
              j # k /\ Active(repo, j) /\ repo'.byId[j] = repo.byId[j]
        /\ \A j \in Ids : Parked(repo', j) /\ j # k =>
              Parked(repo, j) /\ repo'.orphans[j] = repo.orphans[j]
    BY <1>1 DEF Active, Parked
  <1> HIDE DEF k
  <1>6. TypeOK'
    BY <1>1, <1>2 DEF Inv, TypeOK
  <1>7. ClientIndexAgrees'
    <2>1. ASSUME NEW d \in Clients, repo'.byClient[d] # None
          PROVE  Active(repo', repo'.byClient[d]) /\ repo'.byId[repo'.byClient[d]].client = d
      <3>1. d # c /\ repo'.byClient[d] = repo.byClient[d] /\ repo.byClient[d] \in Ids
        BY <1>1, <2>1 DEF Inv, TypeOK, Repository
      <3>2. repo.byClient[d] # k
        BY <1>3, <2>1, <3>1 DEF Inv, RegistryInv, ClientIndexAgrees
      <3>3. QED BY <1>1, <2>1, <3>1, <3>2
                DEF Inv, RegistryInv, ClientIndexAgrees, Active
    <2>2. ASSUME NEW j \in Ids, Active(repo', j)
          PROVE  repo'.byClient[repo'.byId[j].client] = j
      <3>1. j # k /\ Active(repo, j) /\ repo'.byId[j] = repo.byId[j]
        BY <1>5, <2>2
      <3>2. repo.byId[j].client \in Clients /\ repo.byClient[repo.byId[j].client] = j
        BY <3>1 DEF Inv, TypeOK, RegistryInv, ClientIndexAgrees, Repository, Active, Tunnel
      <3>3. QED BY <1>1, <3>1, <3>2 DEF k
    <2>3. QED BY <2>1, <2>2 DEF ClientIndexAgrees
  <1>8. NeverActiveAndParked'
    BY <1>5 DEF Inv, RegistryInv, NeverActiveAndParked
  <1>9. NoRouteToClosedSocket'
    <2>1. ASSUME NEW j \in Ids, Active(repo', j)
          PROVE  repo'.byId[j].client \notin closed'
      <3>1. j # k /\ Active(repo, j) /\ repo'.byId[j] = repo.byId[j]
        BY <1>5, <2>1
      <3>2. repo.byId[j].client # c
        BY <3>1 DEF Inv, RegistryInv, ClientIndexAgrees, k
      <3>3. QED BY <1>2, <3>1, <3>2 DEF Inv, RegistryInv, NoRouteToClosedSocket
    <2>2. QED BY <2>1 DEF NoRouteToClosedSocket
  <1>10. IdKeepsOwnerAndPort'
    <2>1. ASSUME NEW j \in Ids, Parked(repo', j), j = k
          PROVE  minted'[j] = [port |-> repo'.orphans[j].port,
                               context |-> repo'.orphans[j].context]
      <3>1. minted[j] = [port |-> repo.byId[j].port, context |-> repo.byId[j].context]
        BY <1>3, <1>4, <2>1 DEF Inv, RegistryInv, IdKeepsOwnerAndPort
      <3>2. repo'.orphans[j] = [port |-> repo.byId[j].port,
                                context |-> repo.byId[j].context,
                                disconnectedAt |-> clock]
        BY <1>1, <2>1
      <3>3. QED BY <1>2, <3>1, <3>2
    <2>2. QED BY <1>2, <1>5, <2>1 DEF Inv, RegistryInv, IdKeepsOwnerAndPort
  <1>11. LifecycleAnnounced'
    BY <1>2, <1>4, <1>5 DEF Inv, RegistryInv, LifecycleAnnounced
  <1>12. QED BY <1>6, <1>7, <1>8, <1>9, <1>10, <1>11 DEF Inv, RegistryInv

LEMMA StutterInv ==
    ASSUME Inv, repo' = repo, closed' = closed, minted' = minted,
           announced' = announced, clock' \in Nat
    PROVE  Inv'
  BY DEF Inv, TypeOK, RegistryInv, ClientIndexAgrees, NeverActiveAndParked,
         NoRouteToClosedSocket, IdKeepsOwnerAndPort, LifecycleAnnounced

LEMMA StepInv == Inv /\ [Next]_vars => Inv'
  <1> SUFFICES ASSUME Inv, [Next]_vars PROVE Inv'
    OBVIOUS
  <1>1. ASSUME NEW c \in Clients, NEW p \in Ports, NEW i \in Ids, Restore(c, p, i)
        PROVE  Inv'
    BY <1>1, RestoreInv
  <1>2. ASSUME NEW c \in Clients, NEW p \in Ports, NEW q \in Ids \cup {None},
               NEW i \in Ids, Register(c, p, q, i)
        PROVE  Inv'
    BY <1>2, RegisterInv
  <1>3. ASSUME NEW i \in Ids, Unregister(i)
        PROVE  Inv'
    BY <1>3, UnregisterInv
  <1>4. ASSUME NEW c \in Clients, UnregisterClient(c)
        PROVE  Inv'
    <2>1. repo.byClient[c] \in Ids
      BY <1>4 DEF UnregisterClient, Inv, TypeOK, Repository
    <2>2. QED BY <1>4, <2>1, UnregisterInv DEF UnregisterClient
  <1>5. ASSUME NEW c \in Clients, DetachClient(c)
        PROVE  Inv'
    BY <1>5, DetachInv
  <1>6. CASE Tick
    BY <1>6, StutterInv DEF Tick, Inv, TypeOK
  <1>7. CASE UNCHANGED vars
    BY <1>7, StutterInv DEF vars, Inv, TypeOK
  <1>8. QED BY <1>1, <1>2, <1>3, <1>4, <1>5, <1>6, <1>7 DEF Next

(* The tables keep their types and their invariant: byId and byClient are
   inverse, no tunnel routes to a socket whose close was handled, an id keeps
   its owner and port across every reclaim, and active and parked tunnels are
   announced as such.                                                       *)
THEOREM RegistryInvariant == Spec => [](TypeOK /\ RegistryInv)
  <1>1. Spec => []Inv
    BY InitInv, StepInv, PTL DEF Spec
  <1>2. Inv <=> TypeOK /\ RegistryInv
    BY DEF Inv
  <1>3. QED BY <1>1, <1>2, PTL

(* After the close of a socket was handled nothing routes to it any more.   *)
THEOREM ClosedSocketsRouteNothing == Spec => []NoRouteToClosedSocket
  <1>1. TypeOK /\ RegistryInv => NoRouteToClosedSocket
    BY DEF RegistryInv
  <1>2. QED BY <1>1, RegistryInvariant, PTL

(* A tunnel id never changes hands: owner and port are those it was made for. *)
THEOREM OwnerAndPortKept == Spec => []IdKeepsOwnerAndPort
  <1>1. TypeOK /\ RegistryInv => IdKeepsOwnerAndPort
    BY DEF RegistryInv
  <1>2. QED BY <1>1, RegistryInvariant, PTL

-----------------------------------------------------------------------------
(* The registry implements the lease.  PhaseIs spells the refinement mapping
   out in terms of the tables.                                              *)
HolderOf(i) == IF Active(repo, i) THEN repo.byId[i].client ELSE None
SinceOf(i)  == IF Parked(repo, i) THEN repo.orphans[i].disconnectedAt ELSE None

LEMMA PhaseIs ==
    ASSUME NEW i \in Ids
    PROVE  /\ Phase(i) = IF Active(repo, i) THEN "held"
                         ELSE IF Parked(repo, i) THEN "parked"
                         ELSE IF minted[i] = None THEN "unused" ELSE "ended"
  BY DEF Phase

(* What one step may do to one id, in terms of the mapped variables.        *)
Stays(i)   == /\ Phase(i)' = Phase(i) /\ minted'[i] = minted[i]
              /\ HolderOf(i)' = HolderOf(i) /\ SinceOf(i)' = SinceOf(i)
Ends(i)    == /\ Phase(i) \in {"held", "parked"} /\ Phase(i)' = "ended"
              /\ minted'[i] = minted[i]
Handed(i)  == /\ Phase(i)' = "held"
              /\ HolderOf(i)' \in Clients \ closed
              /\ minted'[i].context = OwnerOf[HolderOf(i)']
Grants(i)  == Phase(i) = "unused" /\ Handed(i)
Resumes(i) == /\ Phase(i) = "parked" /\ clock - SinceOf(i) =< ReclaimWindow
              /\ minted'[i] = minted[i] /\ Handed(i)
Parks(i)   == /\ Phase(i) = "held" /\ Phase(i)' = "parked"
              /\ HolderOf(i) \in closed' /\ SinceOf(i)' = clock
              /\ minted'[i] = minted[i]

LeaseStep ==
    /\ \A i \in Ids : Stays(i) \/ Grants(i) \/ Resumes(i) \/ Parks(i) \/ Ends(i)
    /\ \A i, j \in Ids : (Grants(i) \/ Resumes(i)) /\ (Grants(j) \/ Resumes(j)) => i = j
    /\ \A i, j \in Ids : Phase(i)' = "held" /\ Phase(j)' = "held"
                          /\ HolderOf(i)' = HolderOf(j)' => i = j
    /\ \A i \in Ids : Phase(i)' = "held" => HolderOf(i)' \notin closed'
    /\ closed \subseteq closed'
    /\ clock' >= clock

LEMMA LeaseStepImplements == LeaseStep => [Lease!Next]_(Lease!vars)
  BY DEF LeaseStep, Stays, Ends, Handed, Grants, Resumes, Parks, HolderOf, SinceOf,
         Lease!Next, Lease!Unchanged, Lease!Grant, Lease!Resume, Lease!ParkIt,
         Lease!End, Lease!HandedOver

HoldersOK ==
    /\ \A i, j \in Ids : Phase(i) = "held" /\ Phase(j) = "held"
                          /\ HolderOf(i) = HolderOf(j) => i = j
    /\ \A i \in Ids : Phase(i) = "held" => HolderOf(i) \notin closed

LEMMA InvHolders == Inv => HoldersOK
  <1> SUFFICES ASSUME Inv PROVE HoldersOK
    OBVIOUS
  <1>1. \A i \in Ids : Phase(i) = "held" => Active(repo, i)
    BY PhaseIs
  <1>2. \A i \in Ids : Active(repo, i) => HolderOf(i) = repo.byId[i].client
    BY DEF HolderOf
  <1>3. QED BY <1>1, <1>2
            DEF HoldersOK, Inv, RegistryInv, ClientIndexAgrees, NoRouteToClosedSocket

LEMMA PhasePrimed ==
    ASSUME NEW i \in Ids
    PROVE  /\ Phase(i)' = IF Active(repo', i) THEN "held"
                          ELSE IF Parked(repo', i) THEN "parked"
                          ELSE IF minted'[i] = None THEN "unused" ELSE "ended"
           /\ HolderOf(i)' = IF Active(repo', i) THEN repo'.byId[i].client ELSE None
           /\ SinceOf(i)' = IF Parked(repo', i) THEN repo'.orphans[i].disconnectedAt
                            ELSE None
  BY DEF Phase, HolderOf, SinceOf, Active, Parked

LEMMA LiveWasMinted ==
    ASSUME Inv, NEW i \in Ids, Active(repo, i) \/ Parked(repo, i)
    PROVE  minted[i] # None /\ minted[i] \in Birth
  <1>1. Active(repo, i) => repo.byId[i] \in Tunnel
    BY DEF Inv, TypeOK, Repository, Active
  <1>2. Parked(repo, i) => repo.orphans[i] \in Orphan
    BY DEF Inv, TypeOK, Repository, Parked
  <1>3. minted[i] \in Birth
    <2>1. ASSUME NEW x, x \in Tunnel \/ x \in Orphan
          PROVE  [port |-> x.port, context |-> x.context] \in Birth
      BY <2>1 DEF Tunnel, Orphan, Birth
    <2>2. QED BY <1>1, <1>2, <2>1 DEF Inv, RegistryInv, IdKeepsOwnerAndPort
  <1>4. QED BY <1>3, RegistryAssumption

(* An id whose record and orphan did not change, or are both gone.          *)
LEMMA OtherIds ==
    ASSUME Inv, NEW j \in Ids, minted'[j] = minted[j],
           \/ /\ Active(repo', j) <=> Active(repo, j)
              /\ Parked(repo', j) <=> Parked(repo, j)
              /\ Active(repo, j) => repo'.byId[j] = repo.byId[j]
              /\ Parked(repo, j) => repo'.orphans[j] = repo.orphans[j]
           \/ ~Active(repo', j) /\ ~Parked(repo', j)
    PROVE  Stays(j) \/ Ends(j)
  <1>1. CASE Active(repo', j) \/ Parked(repo', j)
    <2>1. Stays(j)
      BY <1>1, PhaseIs, PhasePrimed DEF Stays, HolderOf, SinceOf
    <2>2. QED BY <2>1
  <1>2. CASE ~Active(repo', j) /\ ~Parked(repo', j) /\ (Active(repo, j) \/ Parked(repo, j))
    <2>1. Ends(j)
      BY <1>2, PhaseIs, PhasePrimed, LiveWasMinted DEF Ends
    <2>2. QED BY <2>1
  <1>3. CASE ~Active(repo', j) /\ ~Parked(repo', j) /\ ~Active(repo, j) /\ ~Parked(repo, j)
    <2>1. Stays(j)
      BY <1>3, PhaseIs, PhasePrimed DEF Stays, HolderOf, SinceOf
    <2>2. QED BY <2>1
  <1>4. QED BY <1>1, <1>2, <1>3

(* create(): the saved id is handed over; every other id stays or ends.     *)
LEMMA CreateLease ==
    ASSUME Inv, Inv', NEW i \in Ids, NEW t \in Tunnel, NEW r \in Repository,
           r.byId = repo.byId, r.byClient = repo.byClient,
           \A j \in Ids : r.orphans[j] \in {None, repo.orphans[j]},
           t.client \notin closed, t.context = OwnerOf[t.client],
           repo' = Save(r, i, t), closed' = closed, clock' = clock,
           minted'[i] = [port |-> t.port, context |-> t.context],
           \A j \in Ids : j # i => minted'[j] = minted[j],
           \/ Phase(i) = "unused"
           \/ Phase(i) = "parked" /\ clock - SinceOf(i) =< ReclaimWindow
              /\ minted'[i] = minted[i]
    PROVE  LeaseStep
  <1>1. /\ \A j \in Ids : repo'.byId[j] =
              IF j = i THEN t
              ELSE IF Active(r, j) /\ r.byId[j].client = t.client THEN None
              ELSE r.byId[j]
        /\ \A j \in Ids : repo'.orphans[j] = IF j = i THEN None ELSE r.orphans[j]
    <2>1. Linked(r)
      BY DEF Inv, RegistryInv, ClientIndexAgrees, Linked, Active
    <2>2. QED BY <2>1, SaveEffect
  <1>2. Active(repo', i) /\ repo'.byId[i] = t /\ t.client \in Clients
    BY <1>1, RegistryAssumption DEF Active, Tunnel
  <1>3. Handed(i)
    BY <1>2, PhasePrimed DEF Handed
  <1>4. Grants(i) \/ Resumes(i)
    BY <1>3 DEF Grants, Resumes
  <1>5. ASSUME NEW j \in Ids, j # i
        PROVE  Stays(j) \/ Ends(j)
    <2>1. CASE Active(repo', j) \/ Parked(repo', j)
      <3>1. /\ Active(repo', j) => Active(repo, j) /\ repo'.byId[j] = repo.byId[j]
            /\ Parked(repo', j) => Parked(repo, j) /\ repo'.orphans[j] = repo.orphans[j]
        BY <1>1, <1>5 DEF Active, Parked
      <3>2. ~(Active(repo, j) /\ Parked(repo, j))
        BY DEF Inv, RegistryInv, NeverActiveAndParked
      <3>3. QED BY <1>5, <2>1, <3>1, <3>2, OtherIds
    <2>2. CASE ~Active(repo', j) /\ ~Parked(repo', j)
      BY <1>5, <2>2, OtherIds
    <2>3. QED BY <2>1, <2>2
  <1>6. \A j \in Ids : j # i => ~Grants(j) /\ ~Resumes(j)
    <2>1. ASSUME NEW j \in Ids, j # i, Phase(j)' = "held"
          PROVE  Phase(j) = "held"
      <3>1. Active(repo', j)
        BY <2>1, PhasePrimed
      <3>2. Active(repo, j)
        BY <1>1, <2>1, <3>1 DEF Active
      <3>3. QED BY <3>2, PhaseIs
    <2>2. QED BY <2>1 DEF Grants, Resumes, Handed
  <1>7. HoldersOK'
    BY InvHolders, PTL
  <1>8. clock' >= clock
    BY DEF Inv, TypeOK
  <1>9. QED BY <1>4, <1>5, <1>6, <1>7, <1>8 DEF LeaseStep, HoldersOK

LEMMA QuietLease ==
    ASSUME Inv, Inv', minted' = minted, closed \subseteq closed', clock' >= clock,
           \A j \in Ids : Stays(j) \/ Ends(j) \/ Parks(j)
    PROVE  LeaseStep
  <1>1. \A j \in Ids : ~Grants(j) /\ ~Resumes(j)
    <2>1. ASSUME NEW j \in Ids, Phase(j)' = "held"
          PROVE  Phase(j) = "held"
      BY <2>1 DEF Stays, Ends, Parks
    <2>2. QED BY <2>1 DEF Grants, Resumes, Handed
  <1>2. HoldersOK'
    BY InvHolders, PTL
  <1>3. QED BY <1>1, <1>2 DEF LeaseStep, HoldersOK

LEMMA RestoreLease ==
    ASSUME Inv, Inv', NEW c \in Clients, NEW p \in Ports, NEW i \in Ids, Restore(c, p, i)
    PROVE  LeaseStep
  <1> DEFINE purged == Purge(repo, clock)
             t == [client |-> c, port |-> purged.orphans[i].port,
                   context |-> purged.orphans[i].context]
  <1>1. /\ purged \in Repository
        /\ purged.byId = repo.byId /\ purged.byClient = repo.byClient
        /\ \A j \in Ids : purged.orphans[j] \in {None, repo.orphans[j]}
    BY PurgeEffect DEF Inv, TypeOK
  <1>2. /\ purged.orphans[i] = repo.orphans[i] /\ Parked(repo, i)
        /\ ~Elapsed(repo, i, clock)
        /\ repo.orphans[i].context = OwnerOf[c]
    BY <1>1 DEF Restore, Reclaimable, Matches, Parked, Elapsed
  <1>3. t \in Tunnel /\ repo.orphans[i].disconnectedAt \in Nat
    BY <1>2 DEF Inv, TypeOK, Repository, Parked, Orphan, Tunnel
  <1>4. minted[i] = [port |-> t.port, context |-> t.context]
    BY <1>2 DEF Inv, RegistryInv, IdKeepsOwnerAndPort
  <1>5. ~Active(repo, i)
    BY <1>2 DEF Inv, RegistryInv, NeverActiveAndParked
  <1>6. Phase(i) = "parked" /\ clock - SinceOf(i) =< ReclaimWindow
    BY <1>2, <1>3, <1>5, PhaseIs, RegistryAssumption DEF SinceOf, Elapsed, Inv, TypeOK
  <1>7. /\ c \notin closed /\ repo' = Save(purged, i, t)
        /\ closed' = closed /\ clock' = clock /\ minted' = minted
    BY DEF Restore
  <1>8. t.client = c /\ t.context = OwnerOf[c]
    BY <1>2
  <1> HIDE DEF purged, t
  <1>9. QED BY <1>1, <1>3, <1>4, <1>6, <1>7, <1>8, CreateLease

LEMMA RegisterLease ==
    ASSUME Inv, Inv', NEW c \in Clients, NEW p \in Ports, NEW q \in Ids \cup {None},
           NEW i \in Ids, Register(c, p, q, i)
    PROVE  LeaseStep
  <1> DEFINE purged == Purge(repo, clock)
             tried == IF q = None THEN purged
                      ELSE ReclaimFailed(purged, q, p, OwnerOf[c], clock)
             t == [client |-> c, port |-> p, context |-> OwnerOf[c]]
  <1>1. /\ purged \in Repository
        /\ purged.byId = repo.byId /\ purged.byClient = repo.byClient
        /\ \A j \in Ids : purged.orphans[j] \in {None, repo.orphans[j]}
    BY PurgeEffect DEF Inv, TypeOK
  <1> HIDE DEF purged
  <1>2. /\ tried \in Repository
        /\ tried.byId = repo.byId /\ tried.byClient = repo.byClient
        /\ \A j \in Ids : tried.orphans[j] \in {None, repo.orphans[j]}
    <2>1. CASE q = None
      BY <1>1, <2>1
    <2>2. CASE q # None
      <3>1. q \in Ids
        BY <2>2
      <3>2. /\ tried \in Repository
            /\ tried.byId = purged.byId /\ tried.byClient = purged.byClient
            /\ \A j \in Ids : tried.orphans[j] \in {None, purged.orphans[j]}
        BY <1>1, <2>2, <3>1, ReclaimFailedEffect
      <3>3. QED BY <1>1, <3>2
    <2>3. QED BY <2>1, <2>2
  <1> HIDE DEF tried
  <1>3. t \in Tunnel
    BY RegistryAssumption DEF Tunnel
  <1>4. Phase(i) = "unused"
    <2>1. minted[i] = None
      BY DEF Register
    <2>2. QED BY <2>1, PhaseIs, LiveWasMinted
  <1>5. /\ c \notin closed /\ repo' = Save(tried, i, t)
        /\ closed' = closed /\ clock' = clock
        /\ minted' = [minted EXCEPT ![i] = [port |-> p, context |-> OwnerOf[c]]]
    BY DEF Register, tried, purged
  <1>6. /\ minted'[i] = [port |-> t.port, context |-> t.context]
        /\ \A j \in Ids : j # i => minted'[j] = minted[j]
        /\ t.client = c /\ t.context = OwnerOf[c]
    BY <1>5 DEF Inv, TypeOK
  <1> HIDE DEF t
  <1>7. QED BY <1>2, <1>3, <1>4, <1>5, <1>6, CreateLease

LEMMA UnregisterLease ==
    ASSUME Inv, Inv', NEW i \in Ids, Unregister(i)
    PROVE  LeaseStep
  <1>1. /\ \A j \in Ids : repo'.byId[j] = IF j = i THEN None ELSE repo.byId[j]
        /\ \A j \in Ids : repo'.orphans[j] = IF j = i THEN None ELSE repo.orphans[j]
    <2>1. repo \in Repository /\ repo' = Remove(repo, i)
      BY DEF Inv, TypeOK, Unregister
    <2>2. QED BY <2>1, RemoveEffect
  <1>2. minted' = minted /\ closed' = closed /\ clock' = clock /\ clock \in Nat
    BY DEF Unregister, Inv, TypeOK
  <1>3. ASSUME NEW j \in Ids
        PROVE  Stays(j) \/ Ends(j)
    <2>1. CASE j = i
      <3>1. ~Active(repo', j) /\ ~Parked(repo', j)
        BY <1>1, <2>1 DEF Active, Parked
      <3>2. QED BY <1>2, <3>1, OtherIds
    <2>2. CASE j # i
      <3>1. repo'.byId[j] = repo.byId[j] /\ repo'.orphans[j] = repo.orphans[j]
        BY <1>1, <2>2
      <3>2. /\ Active(repo', j) <=> Active(repo, j)
            /\ Parked(repo', j) <=> Parked(repo, j)
        BY <3>1 DEF Active, Parked
      <3>3. QED BY <1>2, <3>1, <3>2, OtherIds
    <2>3. QED BY <2>1, <2>2
  <1>4. QED BY <1>2, <1>3, QuietLease

LEMMA DetachLease ==
    ASSUME Inv, Inv', NEW c \in Clients, DetachClient(c)
    PROVE  LeaseStep
  <1> DEFINE k == repo.byClient[c]
  <1>1. /\ \A j \in Ids : repo'.byId[j] = IF j = k THEN None ELSE repo.byId[j]
        /\ \A j \in Ids : repo'.orphans[j] =
              IF j = k THEN [port |-> repo.byId[j].port, context |-> repo.byId[j].context,
                             disconnectedAt |-> clock]
              ELSE repo.orphans[j]
    <2>1. Linked(repo) /\ repo \in Repository /\ clock \in Nat
      BY DEF Inv, TypeOK, RegistryInv, ClientIndexAgrees, Linked
    <2>2. repo' = Park(repo, c, clock)
      BY DEF DetachClient
    <2>3. QED BY <2>1, <2>2, ParkEffect
  <1>2. /\ closed' = closed \cup {c} /\ clock' = clock /\ minted' = minted
        /\ clock \in Nat
    BY DEF DetachClient, Inv, TypeOK
  <1>3. ASSUME NEW j \in Ids, j # k
        PROVE  Stays(j) \/ Ends(j)
    <2>1. repo'.byId[j] = repo.byId[j] /\ repo'.orphans[j] = repo.orphans[j]
      BY <1>1, <1>3
    <2>2. /\ Active(repo', j) <=> Active(repo, j)
          /\ Parked(repo', j) <=> Parked(repo, j)
      BY <2>1 DEF Active, Parked
    <2>3. QED BY <1>2, <2>1, <2>2, OtherIds
  <1>4. ASSUME NEW j \in Ids, j = k
        PROVE  Parks(j)
    <2>1. Active(repo, j) /\ repo.byId[j].client = c
      BY <1>4, RegistryAssumption DEF Inv, RegistryInv, ClientIndexAgrees
    <2>2. /\ repo'.byId[j] = None
          /\ repo'.orphans[j] = [port |-> repo.byId[j].port,
                                 context |-> repo.byId[j].context,
                                 disconnectedAt |-> clock]
      BY <1>1, <1>4
    <2>3. repo.byId[j] \in Tunnel
      BY <2>1 DEF Active, Inv, TypeOK, Repository
    <2>4. repo'.orphans[j] \in Orphan /\ repo'.orphans[j].disconnectedAt = clock
      BY <1>2, <2>2, <2>3 DEF Tunnel, Orphan
    <2>5. Parked(repo', j) /\ ~Active(repo', j)
      BY <2>2, <2>4, RegistryAssumption DEF Parked, Active
    <2>6. QED BY <1>2, <2>1, <2>4, <2>5, PhaseIs, PhasePrimed DEF Parks, HolderOf
  <1> HIDE DEF k
  <1>5. QED BY <1>2, <1>3, <1>4, QuietLease

LEMMA StepImplements == Inv /\ Inv' /\ Next => [Lease!Next]_(Lease!vars)
  <1> SUFFICES ASSUME Inv, Inv', Next PROVE [Lease!Next]_(Lease!vars)
    OBVIOUS
  <1>1. ASSUME NEW c \in Clients, NEW p \in Ports, NEW i \in Ids, Restore(c, p, i)
        PROVE  LeaseStep
    BY <1>1, RestoreLease
  <1>2. ASSUME NEW c \in Clients, NEW p \in Ports, NEW q \in Ids \cup {None},
               NEW i \in Ids, Register(c, p, q, i)
        PROVE  LeaseStep
    BY <1>2, RegisterLease
  <1>3. ASSUME NEW i \in Ids, Unregister(i)
        PROVE  LeaseStep
    BY <1>3, UnregisterLease
  <1>4. ASSUME NEW c \in Clients, UnregisterClient(c)
        PROVE  LeaseStep
    <2>1. repo.byClient[c] \in Ids
      BY <1>4 DEF UnregisterClient, Inv, TypeOK, Repository
    <2>2. QED BY <1>4, <2>1, UnregisterLease DEF UnregisterClient
  <1>5. ASSUME NEW c \in Clients, DetachClient(c)
        PROVE  LeaseStep
    BY <1>5, DetachLease
  <1>6. ASSUME Tick
        PROVE  LeaseStep
    <2>1. /\ repo' = repo /\ minted' = minted /\ closed' = closed
          /\ clock \in Nat /\ clock' = clock + 1
      BY <1>6 DEF Tick, Inv, TypeOK
    <2>2. \A j \in Ids : Stays(j)
      BY <2>1, PhaseIs, PhasePrimed DEF Stays, HolderOf, SinceOf
    <2>3. QED BY <2>1, <2>2, QuietLease
  <1>7. LeaseStep
    BY <1>1, <1>2, <1>3, <1>4, <1>5, <1>6 DEF Next
  <1>8. QED BY <1>7, LeaseStepImplements

(* The registry implements the lease: an id is granted once, keeps its owner
   and port, is resumed only by its owner and only inside its window, and is
   never held through a closed socket.                                      *)
THEOREM RegistryImplementsLease == Spec => ImplementsLease
  <1>1. Init => Lease!Init
    BY PhaseIs DEF Init, Lease!Init, Active, Parked
  <1>2. Inv /\ Inv' /\ [Next]_vars => [Lease!Next]_(Lease!vars)
    <2>1. UNCHANGED vars => UNCHANGED Lease!vars
      BY DEF vars, Lease!vars, Phase, Active, Parked
    <2>2. QED BY <2>1, StepImplements
  <1>3. Spec => []Inv
    BY InitInv, StepInv, PTL DEF Spec
  <1>4. QED BY <1>1, <1>2, <1>3, PTL DEF Spec, ImplementsLease, Lease!Spec

-----------------------------------------------------------------------------
(* Which labels are reserved, provided that no two ids abbreviate to the    *)
(* same one, and how a parked tunnel may leave the table.                   *)

(* SlugReserved, of any tables.                                            *)
Reserved(r) == \A i \in Ids : r.bySlug[SlugOf[i]] = i <=> Active(r, i) \/ Parked(r, i)

Exclusive(r) == \A i \in Ids : ~(Active(r, i) /\ Parked(r, i))

-----------------------------------------------------------------------------
(* With distinct labels, save() changes those of the ids it touches only.   *)
LEMMA SaveReserved ==
    ASSUME SlugsDistinct, NEW r \in Repository, Linked(r), Exclusive(r), Reserved(r),
           NEW i \in Ids, NEW t \in Tunnel
    PROVE  Reserved(Save(r, i, t))
  <1> DEFINE u == Unlinked(r, i, t.client)
             freed == IF r.byId[i] = None THEN r
                      ELSE [r EXCEPT !.byClient[r.byId[i].client] = None,
                                     !.bySlug[SlugOf[i]] = None]
             prev == freed.byClient[t.client]
  <1>1. /\ r.byId \in [Ids -> Tunnel \cup {None}]
        /\ r.byClient \in [Clients -> Ids \cup {None}]
        /\ r.bySlug \in [Slugs -> Ids \cup {None}]
        /\ r.orphans \in [Ids -> Orphan \cup {None}]
        /\ r = [byId |-> r.byId, byClient |-> r.byClient,
                bySlug |-> r.bySlug, orphans |-> r.orphans]
    BY DEF Repository
  <1>2. /\ t.client \in Clients /\ None \notin Ids /\ None \notin Clients /\ t # None
        /\ \A j \in Ids : SlugOf[j] \in Slugs
    BY RegistryAssumption DEF Tunnel
  <1>3. /\ freed.byId = r.byId /\ freed.orphans = r.orphans
        /\ freed.bySlug \in [Slugs -> Ids \cup {None}]
        /\ freed.byClient \in [Clients -> Ids \cup {None}]
        /\ freed = [byId |-> r.byId, byClient |-> freed.byClient,
                    bySlug |-> freed.bySlug, orphans |-> r.orphans]
        /\ \A j \in Ids : j # i => freed.bySlug[SlugOf[j]] = r.bySlug[SlugOf[j]]
        /\ \A c \in Clients : freed.byClient[c] =
              IF r.byClient[c] = i THEN None ELSE r.byClient[c]
    <2>1. CASE r.byId[i] = None
      BY <1>1, <1>2, <2>1 DEF Linked, Active
    <2>2. CASE r.byId[i] # None
      <3> DEFINE clients == [r.byClient EXCEPT ![r.byId[i].client] = None]
                 slugs   == [r.bySlug EXCEPT ![SlugOf[i]] = None]
      <3>1. r.byId[i].client \in Clients /\ r.byClient[r.byId[i].client] = i
        BY <1>1, <2>2 DEF Tunnel, Linked, Active
      <3>2. freed = [byId |-> r.byId, byClient |-> clients,
                     bySlug |-> slugs, orphans |-> r.orphans]
        BY <1>1, <2>2
      <3>3. \A c \in Clients : r.byClient[c] = i => c = r.byId[i].client
        BY <1>2 DEF Linked
      <3>4. \A j \in Ids : j # i => slugs[SlugOf[j]] = r.bySlug[SlugOf[j]]
        BY <1>1, <1>2 DEF SlugsDistinct
      <3>5. /\ slugs \in [Slugs -> Ids \cup {None}]
            /\ clients \in [Clients -> Ids \cup {None}]
            /\ \A c \in Clients : clients[c] =
                  IF r.byClient[c] = i THEN None ELSE r.byClient[c]
        BY <1>1, <1>2, <3>1, <3>3
      <3> HIDE DEF freed, clients, slugs
      <3>6. QED BY <3>2, <3>4, <3>5
    <2>3. QED BY <2>1, <2>2
  <1>4. prev \in Ids \cup {None} /\ prev # i
    BY <1>1, <1>2, <1>3
  <1>5. \A j \in Ids : j # i =>
            (j = prev <=> Active(r, j) /\ r.byId[j].client = t.client)
    BY <1>1, <1>2, <1>3 DEF Linked, Active
  <1>6. /\ u.bySlug \in [Slugs -> Ids \cup {None}]
        /\ u = [byId |-> u.byId, byClient |-> u.byClient,
                bySlug |-> u.bySlug, orphans |-> u.orphans]
        /\ \A j \in Ids : j # i => u.bySlug[SlugOf[j]] =
              IF j = prev THEN None ELSE r.bySlug[SlugOf[j]]
    <2>1. CASE prev = None
      <3>1. u = freed
        BY <2>1 DEF Unlinked
      <3> HIDE DEF u, freed, prev
      <3>2. QED BY <1>2, <1>3, <2>1, <3>1
    <2>2. CASE prev # None
      <3>1. prev \in Ids /\ Active(r, prev)
        BY <1>4, <1>5, <2>2
      <3>2. u = [freed EXCEPT !.byId[prev] = None,
                              !.bySlug = [freed.bySlug EXCEPT ![SlugOf[prev]] = None]]
        BY <1>4, <2>2, <3>1 DEF Unlinked, Active
      <3> HIDE DEF u, freed, prev
      <3> DEFINE slugs == [freed.bySlug EXCEPT ![SlugOf[prev]] = None]
                 tunnels == [r.byId EXCEPT ![prev] = None]
      <3>3. u = [byId |-> tunnels, byClient |-> freed.byClient,
                 bySlug |-> slugs, orphans |-> r.orphans]
        BY <1>3, <3>2
      <3>4. /\ slugs \in [Slugs -> Ids \cup {None}]
            /\ \A j \in Ids : j # i => slugs[SlugOf[j]] =
                  IF j = prev THEN None ELSE r.bySlug[SlugOf[j]]
        BY <1>2, <1>3, <3>1 DEF SlugsDistinct
      <3> HIDE DEF slugs, tunnels
      <3>5. QED BY <3>3, <3>4
    <2>3. QED BY <2>1, <2>2
  <1> HIDE DEF u, freed, prev
  <1> DEFINE s == Save(r, i, t)
             slugs == [u.bySlug EXCEPT ![SlugOf[i]] = i]
  <1>7. s.bySlug = slugs
    BY <1>6 DEF Save, u
  <1>8. /\ s.bySlug[SlugOf[i]] = i
        /\ \A j \in Ids : j # i => s.bySlug[SlugOf[j]] = u.bySlug[SlugOf[j]]
    BY <1>2, <1>6, <1>7 DEF SlugsDistinct
  <1>9. /\ \A j \in Ids : s.byId[j] =
              IF j = i THEN t
              ELSE IF Active(r, j) /\ r.byId[j].client = t.client THEN None
              ELSE r.byId[j]
        /\ \A j \in Ids : s.orphans[j] = IF j = i THEN None ELSE r.orphans[j]
    BY SaveEffect
  <1> HIDE DEF s, slugs
  <1>10. ASSUME NEW j \in Ids
         PROVE  s.bySlug[SlugOf[j]] = j <=> Active(s, j) \/ Parked(s, j)
    <2>1. CASE j = i
      BY <1>2, <1>8, <1>9, <2>1 DEF Active
    <2>2. CASE j # i /\ j = prev
      BY <1>2, <1>5, <1>6, <1>8, <1>9, <2>2 DEF Active, Parked, Exclusive
    <2>3. CASE j # i /\ j # prev
      BY <1>5, <1>6, <1>8, <1>9, <2>3 DEF Active, Parked, Reserved
    <2>4. QED BY <2>1, <2>2, <2>3
  <1>11. QED BY <1>10 DEF Reserved, s

LEMMA PurgeReserved ==
    ASSUME SlugsDistinct, NEW r \in Repository, Exclusive(r), Reserved(r), NEW now
    PROVE  Reserved(Purge(r, now)) /\ Exclusive(Purge(r, now))
  <1> DEFINE s == Purge(r, now)
  <1>1. /\ s.byId = r.byId
        /\ \A j \in Ids : s.orphans[j] = IF j \in Expired(r, now) THEN None ELSE r.orphans[j]
    BY PurgeEffect
  <1>2. \A j \in Ids : s.bySlug[SlugOf[j]] =
            IF j \in Expired(r, now) THEN None ELSE r.bySlug[SlugOf[j]]
    <2>1. \A j \in Ids : SlugOf[j] \in Slugs
      BY RegistryAssumption
    <2>2. \A j \in Ids : (\E i \in Expired(r, now) : SlugOf[i] = SlugOf[j])
                            <=> j \in Expired(r, now)
      BY DEF Expired, SlugsDistinct
    <2>3. s.bySlug = [l \in Slugs |-> IF \E i \in Expired(r, now) : SlugOf[i] = l
                                      THEN None ELSE r.bySlug[l]]
      BY DEF Purge, Repository
    <2>4. QED BY <2>1, <2>2, <2>3
  <1>3. None \notin Ids
    BY RegistryAssumption
  <1> HIDE DEF s
  <1>4. Reserved(s)
    BY <1>1, <1>2, <1>3 DEF Reserved, Exclusive, Active, Parked, Expired
  <1>5. Exclusive(s)
    BY <1>1 DEF Exclusive, Active, Parked
  <1>6. QED BY <1>4, <1>5 DEF s

LEMMA ReclaimFailedReserved ==
    ASSUME SlugsDistinct, NEW r \in Repository, Exclusive(r), Reserved(r),
           NEW q \in Ids, NEW p, NEW owner, NEW now
    PROVE  /\ Reserved(ReclaimFailed(r, q, p, owner, now))
           /\ Exclusive(ReclaimFailed(r, q, p, owner, now))
  <1> DEFINE s == ReclaimFailed(r, q, p, owner, now)
             dropped == Matches(r, q, p, owner) /\ Elapsed(r, q, now)
  <1>1. /\ s.byId = r.byId
        /\ \A j \in Ids : s.orphans[j] = IF j = q /\ dropped THEN None ELSE r.orphans[j]
    BY ReclaimFailedEffect
  <1>2. \A j \in Ids : s.bySlug[SlugOf[j]] =
            IF j = q /\ dropped THEN None ELSE r.bySlug[SlugOf[j]]
    <2>1. \A j \in Ids : SlugOf[j] \in Slugs
      BY RegistryAssumption
    <2>2. CASE dropped
      <3>1. s.bySlug = [r.bySlug EXCEPT ![SlugOf[q]] = None]
        BY <2>2 DEF ReclaimFailed, Repository
      <3>2. r.bySlug \in [Slugs -> Ids \cup {None}]
        BY DEF Repository
      <3> HIDE DEF s, dropped
      <3>3. QED BY <2>1, <2>2, <3>1, <3>2 DEF SlugsDistinct
    <2>3. CASE ~dropped
      BY <2>3 DEF ReclaimFailed
    <2>4. QED BY <2>2, <2>3
  <1>3. None \notin Ids
    BY RegistryAssumption
  <1>4. dropped => Parked(r, q)
    BY DEF Matches
  <1> HIDE DEF s, dropped
  <1>5. Reserved(s)
    BY <1>1, <1>2, <1>3, <1>4 DEF Reserved, Exclusive, Active, Parked
  <1>6. Exclusive(s)
    BY <1>1 DEF Exclusive, Active, Parked
  <1>7. QED BY <1>5, <1>6 DEF s

LEMMA RemoveReserved ==
    ASSUME SlugsDistinct, NEW r \in Repository, Reserved(r), NEW i \in Ids
    PROVE  Reserved(Remove(r, i))
  <1> DEFINE s == Remove(r, i)
             held == Active(r, i) \/ Parked(r, i)
  <1>1. /\ \A j \in Ids : s.byId[j] = IF j = i THEN None ELSE r.byId[j]
        /\ \A j \in Ids : s.orphans[j] = IF j = i THEN None ELSE r.orphans[j]
    BY RemoveEffect
  <1>2. \A j \in Ids : s.bySlug[SlugOf[j]] =
            IF j = i /\ held THEN None ELSE r.bySlug[SlugOf[j]]
    <2>1. \A j \in Ids : SlugOf[j] \in Slugs
      BY RegistryAssumption
    <2>2. s.bySlug = IF held THEN [r.bySlug EXCEPT ![SlugOf[i]] = None] ELSE r.bySlug
      BY DEF Remove, Repository, Active, Parked
    <2>3. r.bySlug \in [Slugs -> Ids \cup {None}]
      BY DEF Repository
    <2> HIDE DEF s, held
    <2>4. QED BY <2>1, <2>2, <2>3 DEF SlugsDistinct
  <1>3. None \notin Ids
    BY RegistryAssumption
  <1>4. r.bySlug[SlugOf[i]] = i <=> held
    BY DEF Reserved
  <1> HIDE DEF s, held
  <1>5. Reserved(s)
    BY <1>1, <1>2, <1>3, <1>4 DEF Reserved, Active, Parked
  <1>6. QED BY <1>5 DEF s

(* A parked tunnel keeps its label.                                        *)
LEMMA ParkReserved ==
    ASSUME NEW r \in Repository, Linked(r), Reserved(r), NEW c \in Clients, NEW now \in Nat
    PROVE  Reserved(Park(r, c, now))
  <1> DEFINE s == Park(r, c, now)
             k == r.byClient[c]
  <1>1. /\ \A j \in Ids : s.byId[j] = IF j = k THEN None ELSE r.byId[j]
        /\ \A j \in Ids : s.orphans[j] =
              IF j = k THEN [port |-> r.byId[j].port, context |-> r.byId[j].context,
                             disconnectedAt |-> now]
              ELSE r.orphans[j]
    BY ParkEffect
  <1>2. s.bySlug = r.bySlug
    BY DEF Park, Repository
  <1>3. k \in Ids => Active(r, k)
    BY RegistryAssumption DEF Linked
  <1>4. k \in Ids => Parked(s, k)
    <2>1. ASSUME k \in Ids
          PROVE  s.orphans[k] = [port |-> r.byId[k].port, context |-> r.byId[k].context,
                                 disconnectedAt |-> now]
      BY <1>1, <2>1
    <2>2. k \in Ids => r.byId[k] \in Tunnel
      BY <1>3 DEF Active, Repository
    <2>3. k \in Ids => s.orphans[k] \in Orphan
      BY <2>1, <2>2 DEF Tunnel, Orphan
    <2>4. QED BY <2>3, RegistryAssumption DEF Parked
  <1> HIDE DEF s, k
  <1>5. Reserved(s)
    BY <1>1, <1>2, <1>3, <1>4 DEF Reserved, Active, Parked
  <1>6. QED BY <1>5 DEF s

-----------------------------------------------------------------------------
(* The tables of a state where the invariant holds, as the lemmas want them. *)
LEMMA InvTables ==
    ASSUME Inv
    PROVE  repo \in Repository /\ Linked(repo) /\ Exclusive(repo)
  BY DEF Inv, TypeOK, RegistryInv, ClientIndexAgrees, NeverActiveAndParked, Linked,
         Exclusive

(* What create() saves into: the tables without the expired orphans.        *)
LEMMA PurgedTables ==
    ASSUME Inv
    PROVE  /\ Purge(repo, clock) \in Repository
           /\ Linked(Purge(repo, clock))
  BY InvTables, PurgeEffect DEF Linked, Active

LEMMA SlugsInit == Init => Reserved(repo)
  <1> SUFFICES ASSUME Init PROVE Reserved(repo)
    OBVIOUS
  <1>1. \A i \in Ids : SlugOf[i] \in Slugs /\ i # None
    BY RegistryAssumption
  <1>2. /\ \A i \in Ids : ~Active(repo, i) /\ ~Parked(repo, i)
        /\ \A l \in Slugs : repo.bySlug[l] = None
    BY DEF Init, Active, Parked
  <1>3. QED BY <1>1, <1>2 DEF Reserved

LEMMA SlugsStep ==
    ASSUME SlugsDistinct, Inv, Reserved(repo), [Next]_vars
    PROVE  Reserved(repo')
  <1>1. repo \in Repository /\ Linked(repo) /\ Exclusive(repo)
    BY InvTables
  <1>2. ASSUME NEW c \in Clients, NEW p \in Ports, NEW i \in Ids, Restore(c, p, i)
        PROVE  Reserved(repo')
    <2> DEFINE purged == Purge(repo, clock)
               t == [client |-> c, port |-> purged.orphans[i].port,
                     context |-> purged.orphans[i].context]
    <2>1. purged \in Repository /\ Linked(purged) /\ Reserved(purged) /\ Exclusive(purged)
      BY <1>1, PurgedTables, PurgeReserved
    <2>2. Parked(purged, i)
      BY <1>2 DEF Restore, Reclaimable, Matches
    <2>3. t \in Tunnel
      BY <2>1, <2>2 DEF Repository, Parked, Orphan, Tunnel
    <2>4. repo' = Save(purged, i, t)
      BY <1>2 DEF Restore
    <2> HIDE DEF purged, t
    <2>5. QED BY <2>1, <2>3, <2>4, SaveReserved
  <1>3. ASSUME NEW c \in Clients, NEW p \in Ports, NEW q \in Ids \cup {None},
               NEW i \in Ids, Register(c, p, q, i)
        PROVE  Reserved(repo')
    <2> DEFINE purged == Purge(repo, clock)
               tried == IF q = None THEN purged
                        ELSE ReclaimFailed(purged, q, p, OwnerOf[c], clock)
               t == [client |-> c, port |-> p, context |-> OwnerOf[c]]
    <2>1. purged \in Repository /\ Linked(purged) /\ Reserved(purged) /\ Exclusive(purged)
      BY <1>1, PurgedTables, PurgeReserved
    <2>2. repo' = Save(tried, i, t)
      BY <1>3 DEF Register
    <2>3. t \in Tunnel
      BY RegistryAssumption DEF Tunnel
    <2> HIDE DEF purged, t
    <2>4. tried \in Repository /\ Linked(tried) /\ Reserved(tried) /\ Exclusive(tried)
      <3>1. CASE q = None
        BY <2>1, <3>1
      <3>2. CASE q # None
        <4>1. q \in Ids
          BY <3>2
        <4>2. /\ tried \in Repository
              /\ tried.byId = purged.byId /\ tried.byClient = purged.byClient
          BY <2>1, <3>2, <4>1, ReclaimFailedEffect
        <4>3. Reserved(tried) /\ Exclusive(tried)
          BY <2>1, <3>2, <4>1, ReclaimFailedReserved
        <4>4. Linked(tried)
          BY <2>1, <4>2 DEF Linked, Active
        <4>5. QED BY <4>2, <4>3, <4>4
      <3>3. QED BY <3>1, <3>2
    <2> HIDE DEF tried
    <2>5. QED BY <2>2, <2>3, <2>4, SaveReserved
  <1>4. ASSUME NEW i \in Ids, Unregister(i)
        PROVE  Reserved(repo')
    BY <1>1, <1>4, RemoveReserved DEF Unregister
  <1>5. ASSUME NEW c \in Clients, UnregisterClient(c)
        PROVE  Reserved(repo')
    <2>1. repo.byClient[c] \in Ids
      BY <1>1, <1>5 DEF UnregisterClient, Repository
    <2>2. QED BY <1>4, <1>5, <2>1 DEF UnregisterClient
  <1>6. ASSUME NEW c \in Clients, DetachClient(c)
        PROVE  Reserved(repo')
    <2>1. clock \in Nat
      BY DEF Inv, TypeOK
    <2>2. repo' = Park(repo, c, clock)
      BY <1>6 DEF DetachClient
    <2>3. QED BY <1>1, <2>1, <2>2, ParkReserved
  <1>7. CASE Tick
    BY <1>7 DEF Tick
  <1>8. CASE UNCHANGED vars
    BY <1>8 DEF vars
  <1>9. QED BY <1>2, <1>3, <1>4, <1>5, <1>6, <1>7, <1>8 DEF Next

(* If no two ids share a label, a label is reserved for exactly the active
   and the parked tunnels.                                                 *)
THEOREM LabelsReserved ==
    ASSUME SlugsDistinct
    PROVE  Spec => []SlugReserved
  <1>1. Spec => []Inv
    BY RegistryInvariant, PTL DEF Inv
  <1>2. Reserved(repo) <=> SlugReserved
    BY DEF Reserved, SlugReserved
  <1>3. Init => SlugReserved
    BY <1>2, SlugsInit
  <1>4. Inv /\ SlugReserved /\ [Next]_vars => SlugReserved'
    <2>1. Reserved(repo') <=> SlugReserved'
      BY DEF Reserved, SlugReserved
    <2>2. QED BY <1>2, <2>1, SlugsStep
  <1>5. QED BY <1>1, <1>3, <1>4, PTL DEF Spec

-----------------------------------------------------------------------------
ReclaimedOrElapsed ==
    \A i \in Ids : Parked(repo, i) /\ ~Parked(repo', i) =>
        \/ Active(repo', i)
        \/ clock > repo.orphans[i].disconnectedAt + ReclaimWindow
        \/ Unregister(i)

(* create(): what it saves is active, what it drops besides had expired.    *)
LEMMA SaveKeepsParked ==
    ASSUME NEW r \in Repository, Linked(r), NEW i \in Ids, NEW t \in Tunnel,
           repo' = Save(r, i, t), NEW j \in Ids,
           Parked(r, j), ~Parked(repo', j)
    PROVE  Active(repo', j)
  <1>1. t # None
    BY RegistryAssumption
  <1>2. QED BY <1>1, SaveEffect DEF Active, Parked

LEMMA ElapsedMeans ==
    ASSUME Inv, NEW j \in Ids, Parked(repo, j), Elapsed(repo, j, clock)
    PROVE  clock > repo.orphans[j].disconnectedAt + ReclaimWindow
  <1>1. repo.orphans[j].disconnectedAt \in Nat /\ clock \in Nat
    BY DEF Inv, TypeOK, Repository, Parked, Orphan
  <1>2. QED BY <1>1, RegistryAssumption DEF Elapsed

LEMMA ParkedStep ==
    ASSUME Inv, [Next]_vars
    PROVE  ReclaimedOrElapsed
  <1>1. repo \in Repository /\ Linked(repo)
    BY InvTables
  <1> DEFINE purged == Purge(repo, clock)
  <1>2. /\ purged \in Repository /\ Linked(purged)
        /\ purged.byId = repo.byId /\ purged.byClient = repo.byClient
        /\ \A j \in Ids : purged.orphans[j] =
              IF j \in Expired(repo, clock) THEN None ELSE repo.orphans[j]
    BY <1>1, PurgedTables, PurgeEffect
  <1>3. ASSUME NEW c \in Clients, NEW p \in Ports, NEW i \in Ids, Restore(c, p, i),
               NEW j \in Ids, Parked(repo, j), ~Parked(repo', j)
        PROVE  Active(repo', j) \/ Elapsed(repo, j, clock)
    <2> DEFINE t == [client |-> c, port |-> purged.orphans[i].port,
                     context |-> purged.orphans[i].context]
    <2>1. Parked(purged, i)
      BY <1>3 DEF Restore, Reclaimable, Matches
    <2>2. t \in Tunnel
      BY <1>2, <2>1 DEF Repository, Parked, Orphan, Tunnel
    <2>3. repo' = Save(purged, i, t)
      BY <1>3 DEF Restore
    <2> HIDE DEF purged, t
    <2>4. CASE Parked(purged, j)
      BY <1>2, <1>3, <2>2, <2>3, <2>4, SaveKeepsParked
    <2>5. CASE ~Parked(purged, j)
      BY <1>2, <1>3, <2>5 DEF Parked, Expired
    <2>6. QED BY <2>4, <2>5
  <1>4. ASSUME NEW c \in Clients, NEW p \in Ports, NEW q \in Ids \cup {None},
               NEW i \in Ids, Register(c, p, q, i),
               NEW j \in Ids, Parked(repo, j), ~Parked(repo', j)
        PROVE  Active(repo', j) \/ Elapsed(repo, j, clock)
    <2> DEFINE tried == IF q = None THEN purged
                        ELSE ReclaimFailed(purged, q, p, OwnerOf[c], clock)
               t == [client |-> c, port |-> p, context |-> OwnerOf[c]]
    <2>1. repo' = Save(tried, i, t)
      BY <1>4 DEF Register
    <2>2. t \in Tunnel
      BY RegistryAssumption DEF Tunnel
    <2> HIDE DEF purged, t
    <2>3. /\ tried \in Repository /\ Linked(tried)
          /\ Parked(purged, j) /\ ~Parked(tried, j) => Elapsed(purged, j, clock)
      <3>1. CASE q = None
        BY <1>2, <3>1
      <3>2. CASE q # None
        <4>1. q \in Ids
          BY <3>2
        <4>2. /\ tried \in Repository
              /\ tried.byId = purged.byId /\ tried.byClient = purged.byClient
              /\ tried.orphans[j] = IF j = q /\ Matches(purged, q, p, OwnerOf[c])
                                        /\ Elapsed(purged, q, clock)
                                    THEN None ELSE purged.orphans[j]
          BY <1>2, <3>2, <4>1, ReclaimFailedEffect
        <4>3. Linked(tried)
          BY <1>2, <4>2 DEF Linked, Active
        <4>4. QED BY <4>2, <4>3 DEF Parked
      <3>3. QED BY <3>1, <3>2
    <2> HIDE DEF tried
    <2>4. CASE Parked(tried, j)
      BY <1>4, <2>1, <2>2, <2>3, <2>4, SaveKeepsParked
    <2>5. CASE ~Parked(tried, j) /\ Parked(purged, j)
      BY <1>2, <2>3, <2>5 DEF Parked, Elapsed
    <2>6. CASE ~Parked(purged, j)
      BY <1>2, <1>4, <2>6 DEF Parked, Expired
    <2>7. QED BY <2>4, <2>5, <2>6
  <1>5. ASSUME NEW i \in Ids, Unregister(i),
               NEW j \in Ids, Parked(repo, j), ~Parked(repo', j)
        PROVE  Unregister(j)
    <2>1. repo'.orphans[j] = IF j = i THEN None ELSE repo.orphans[j]
      BY <1>1, <1>5, RemoveEffect DEF Unregister
    <2>2. QED BY <1>5, <2>1 DEF Parked
  <1>6. ASSUME NEW c \in Clients, UnregisterClient(c),
               NEW j \in Ids, Parked(repo, j), ~Parked(repo', j)
        PROVE  Unregister(j)
    <2>1. repo.byClient[c] \in Ids
      BY <1>1, <1>6 DEF UnregisterClient, Repository
    <2>2. QED BY <1>5, <1>6, <2>1 DEF UnregisterClient
  <1>7. ASSUME NEW c \in Clients, DetachClient(c), NEW j \in Ids, Parked(repo, j)
        PROVE  Parked(repo', j)
    <2>1. repo' = Park(repo, c, clock) /\ clock \in Nat
      BY <1>7 DEF DetachClient, Inv, TypeOK
    <2>2. repo'.orphans[j] =
            IF j = repo.byClient[c]
            THEN [port |-> repo.byId[j].port, context |-> repo.byId[j].context,
                  disconnectedAt |-> clock]
            ELSE repo.orphans[j]
      BY <1>1, <2>1, ParkEffect
    <2>3. j # repo.byClient[c]
      BY <1>7, RegistryAssumption
         DEF Inv, RegistryInv, ClientIndexAgrees, NeverActiveAndParked
    <2>4. QED BY <1>7, <2>2, <2>3 DEF Parked
  <1>8. CASE Tick
    BY <1>8 DEF Tick, ReclaimedOrElapsed
  <1>9. CASE UNCHANGED vars
    BY <1>9 DEF vars, ReclaimedOrElapsed
  <1> HIDE DEF purged
  <1>10. QED
    <2>1. CASE Next /\ ~Tick
      <3>1. ASSUME NEW j \in Ids, Parked(repo, j), ~Parked(repo', j)
            PROVE  Active(repo', j) \/ Elapsed(repo, j, clock) \/ Unregister(j)
        BY <1>3, <1>4, <1>5, <1>6, <1>7, <2>1, <3>1 DEF Next
      <3>2. QED BY <3>1, ElapsedMeans DEF ReclaimedOrElapsed
    <2>2. QED BY <1>8, <1>9, <2>1

(* A parked tunnel leaves the table only because it was reclaimed, because
   its window elapsed or because it was unregistered by its id.             *)
THEOREM ParkedKept == Spec => ParkedUntilReclaimedOrElapsed
  <1>1. Spec => []Inv
    BY RegistryInvariant, PTL DEF Inv
  <1>2. Inv /\ [Next]_vars => [ReclaimedOrElapsed]_vars
    BY ParkedStep
  <1>3. Spec => [][ReclaimedOrElapsed]_vars
    BY <1>1, <1>2, PTL DEF Spec
  <1>4. QED BY <1>3 DEF ParkedUntilReclaimedOrElapsed, ReclaimedOrElapsed
=============================================================================
