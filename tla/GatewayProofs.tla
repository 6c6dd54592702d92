---------------------------- MODULE GatewayProofs ---------------------------
(***************************************************************************)
(* Proofs about the two ends of the WebSocket: GatewaySession and          *)
(* GatewayMessages, for every set of sockets and addresses and every       *)
(* limit, timeout and window; and CliConnection, for every set of sockets. *)
(*                                                                         *)
(* The session's invariants are proved of Spec.  Every step of MSpec is a  *)
(* step of Spec on the session's variables, so they hold with messages     *)
(* too, where they make the rate limiter's own invariant inductive.        *)
(***************************************************************************)
EXTENDS GatewayMessages, CliConnection, FiniteSetTheorems, TLAPS

(* A socket's steps in the session, as Next has them.                       *)
SessionStep(c) ==
    \/ Connect(c) \/ RejectOrigin(c) \/ Resolved(c) \/ Unresolved(c)
    \/ Ping(c) \/ Close(c)

LEMMA NextSteps == Next <=> (\E c \in Clients : SessionStep(c)) \/ Sweep \/ Tick
  BY DEF Next, SessionStep

-----------------------------------------------------------------------------
(* The variables keep their types: in particular no count of the limiter
   ever goes below zero.  That needs the counts to be those of sets of
   sockets, so the slots are part of the invariant.                         *)
AdmittedAt(ip) == {c \in Admitted : ipByClient[c] = ip}

SlotInv ==
    /\ IsFiniteSet(Admitted)
    /\ \A c \in Clients : /\ conn[c] = "open" => ipByClient[c] # None
                          /\ conn[c] = "new" => ipByClient[c] = None
    /\ SlotsCountOpenSockets

LEMMA InitSlots == Init => TypeOK /\ SlotInv
  <1> SUFFICES ASSUME Init PROVE TypeOK /\ SlotInv
    OBVIOUS
  <1>1. TypeOK
    BY SessionAssumption DEF Init, TypeOK
  <1>2. Admitted = {} /\ \A ip \in Ips : AdmittedAt(ip) = {}
    BY DEF Init, Admitted, AdmittedAt
  <1>3. QED
    BY <1>1, <1>2, FS_EmptySet, SessionAssumption
    DEF Init, SlotInv, SlotsCountOpenSockets, AdmittedAt

(* A step that neither takes nor gives back a slot.                         *)
LEMMA SlotsKept ==
    ASSUME SlotInv, Admitted' = Admitted, UNCHANGED <<slots, ipByClient>>,
           \A c \in Clients : /\ conn'[c] = "open" => conn[c] = "open"
                              /\ conn'[c] = "new" => conn[c] = "new"
                              /\ conn'[c] = "closed" => ipByClient[c] = None
    PROVE  SlotInv'
  BY DEF SlotInv, SlotsCountOpenSockets

LEMMA ConnectSlots ==
    ASSUME TypeOK, SlotInv, NEW c \in Clients, Connect(c)
    PROVE  TypeOK' /\ SlotInv'
  <1> USE SessionAssumption
  <1>1. IpOf[c] \in Ips /\ IpOf[c] # None
    OBVIOUS
  <1>2. conn[c] = "new" /\ ipByClient[c] = None /\ c \notin Admitted
    BY DEF Connect, SlotInv, Admitted
  <1>3. CASE ~CanAdmit(IpOf[c])
    <2>1. /\ conn' = [conn EXCEPT ![c] = "closing"]
          /\ handler' = [handler EXCEPT ![c] = "rejected"]
          /\ UNCHANGED <<slots, ipByClient, bound, lastBeatAt, nextSweep, clock>>
      BY <1>3 DEF Connect
    <2>2. TypeOK'
      BY <2>1 DEF TypeOK
    <2>3. Admitted' = Admitted
      BY <1>2, <2>1 DEF Admitted, TypeOK
    <2>4. QED BY <1>2, <2>1, <2>2, <2>3, SlotsKept DEF TypeOK, SlotInv, SlotsCountOpenSockets
  <1>4. CASE CanAdmit(IpOf[c])
    <2>1. /\ conn' = [conn EXCEPT ![c] = "open"]
          /\ handler' = [handler EXCEPT ![c] = "resolving"]
          /\ slots' = [slots EXCEPT !.byIp[IpOf[c]] = @ + 1, !.total = @ + 1]
          /\ ipByClient' = [ipByClient EXCEPT ![c] = IpOf[c]]
          /\ UNCHANGED <<bound, lastBeatAt, nextSweep, clock>>
      BY <1>4 DEF Connect
    <2>2. /\ slots'.total = slots.total + 1
          /\ slots'.byIp = [slots.byIp EXCEPT ![IpOf[c]] = @ + 1]
          /\ slots' \in [total : Nat, byIp : [Ips -> Nat]]
      <3>1. /\ slots = [total |-> slots.total, byIp |-> slots.byIp]
            /\ slots.total \in Nat /\ slots.byIp \in [Ips -> Nat]
        BY DEF TypeOK
      <3>2. slots' = [total |-> slots.total + 1,
                      byIp |-> [slots.byIp EXCEPT ![IpOf[c]] = @ + 1]]
        BY <2>1, <3>1
      <3>3. [slots.byIp EXCEPT ![IpOf[c]] = @ + 1] \in [Ips -> Nat]
        BY <1>1, <3>1
      <3>4. QED BY <3>1, <3>2, <3>3
    <2>3. TypeOK'
      BY <1>1, <2>1, <2>2 DEF TypeOK
    <2>4. Admitted' = Admitted \cup {c}
      BY <1>1, <2>1 DEF Admitted, TypeOK
    <2>5. \A ip \in Ips : AdmittedAt(ip)' = IF ip = IpOf[c] THEN AdmittedAt(ip) \cup {c}
                                            ELSE AdmittedAt(ip)
      BY <1>2, <2>1, <2>4 DEF AdmittedAt, Admitted, TypeOK
    <2>6. /\ IsFiniteSet(Admitted') 
          /\ Cardinality(Admitted') = slots'.total
          /\ slots'.total <= MaxGlobal
      BY <1>2, <1>4, <2>2, <2>4, FS_AddElement
      DEF SlotInv, SlotsCountOpenSockets, CanAdmit, TypeOK
    <2>7. ASSUME NEW ip \in Ips
          PROVE  /\ slots'.byIp[ip] = Cardinality(AdmittedAt(ip)')
                 /\ slots'.byIp[ip] <= MaxPerIp
      <3>1. IsFiniteSet(AdmittedAt(ip)) /\ c \notin AdmittedAt(ip)
        BY <1>2, FS_Subset DEF AdmittedAt, SlotInv
      <3>2. slots.byIp[ip] = Cardinality(AdmittedAt(ip)) /\ slots.byIp[ip] <= MaxPerIp
        BY DEF SlotInv, SlotsCountOpenSockets, AdmittedAt
      <3>3. CASE ip = IpOf[c]
        BY <1>4, <2>2, <2>5, <3>1, <3>2, <3>3, FS_AddElement DEF CanAdmit, TypeOK
      <3>4. CASE ip # IpOf[c]
        BY <2>2, <2>5, <3>2, <3>4 DEF TypeOK
      <3>5. QED BY <3>3, <3>4
    <2>8. \A d \in Clients : /\ conn'[d] = "open" => ipByClient'[d] # None
                             /\ conn'[d] = "new" => ipByClient'[d] = None
                             /\ conn'[d] = "closed" => ipByClient'[d] = None
      BY <1>1, <2>1 DEF SlotInv, SlotsCountOpenSockets, TypeOK
    <2>9. QED BY <2>3, <2>6, <2>7, <2>8 DEF SlotInv, SlotsCountOpenSockets, AdmittedAt
  <1>5. QED BY <1>3, <1>4

LEMMA CloseSlots ==
    ASSUME TypeOK, SlotInv, NEW c \in Clients, Close(c)
    PROVE  TypeOK' /\ SlotInv'
  <1> USE SessionAssumption
  <1>1. /\ conn[c] \in {"open", "closing"}
        /\ conn' = [conn EXCEPT ![c] = "closed"]
        /\ bound' = bound \ {c}
        /\ UNCHANGED <<handler, clock>>
        /\ lastBeatAt' = [lastBeatAt EXCEPT ![c] = None]
        /\ nextSweep' \in Nat \cup {None}
    BY DEF Close, Track, TimerAfter, TypeOK
  <1>2. CASE ipByClient[c] = None
    <2>1. UNCHANGED <<slots, ipByClient>>
      BY <1>2 DEF Close
    <2>2. TypeOK'
      BY <1>1, <2>1 DEF TypeOK
    <2>3. Admitted' = Admitted
      BY <1>1, <1>2, <2>1 DEF Admitted, TypeOK
    <2>4. QED
      BY <1>1, <1>2, <2>1, <2>2, <2>3, SlotsKept DEF TypeOK, SlotInv, SlotsCountOpenSockets
  <1>3. CASE ipByClient[c] # None
    <2> DEFINE here == ipByClient[c]
    <2>1. /\ here \in Ips
          /\ slots' = [slots EXCEPT !.byIp[here] = @ - 1, !.total = @ - 1]
          /\ ipByClient' = [ipByClient EXCEPT ![c] = None]
      BY <1>3 DEF Close, Released, TypeOK
    <2>2. c \in Admitted /\ c \in AdmittedAt(here)
      BY <1>1, <1>3 DEF Admitted, AdmittedAt
    <2>3. Admitted' = Admitted \ {c}
      BY <1>1, <2>1 DEF Admitted, TypeOK
    <2>4. \A ip \in Ips : AdmittedAt(ip)' = IF ip = here THEN AdmittedAt(ip) \ {c}
                                              ELSE AdmittedAt(ip)
      BY <2>1, <2>3 DEF AdmittedAt, Admitted, TypeOK
    <2>5. /\ slots'.total = slots.total - 1
          /\ slots'.byIp = [slots.byIp EXCEPT ![here] = @ - 1]
          /\ slots' = [total |-> slots'.total, byIp |-> slots'.byIp]
      BY <2>1 DEF TypeOK
    <2>6. /\ IsFiniteSet(Admitted')
          /\ slots'.total = Cardinality(Admitted')
          /\ slots'.total <= MaxGlobal
          /\ slots'.total \in Nat
      <3>1. /\ IsFiniteSet(Admitted)
            /\ slots.total = Cardinality(Admitted) /\ slots.total <= MaxGlobal
            /\ slots.total \in Nat
        BY DEF SlotInv, SlotsCountOpenSockets, TypeOK
      <3>2. /\ IsFiniteSet(Admitted \ {c})
            /\ Cardinality(Admitted \ {c}) = Cardinality(Admitted) - 1
        BY <2>2, <3>1, FS_RemoveElement
      <3>3. Cardinality(Admitted \ {c}) \in Nat
        BY <3>2, FS_CardinalityType
      <3> HIDE DEF here
      <3>4. QED BY <2>3, <2>5, <3>1, <3>2, <3>3
    <2>7. ASSUME NEW ip \in Ips
          PROVE  /\ slots'.byIp[ip] = Cardinality(AdmittedAt(ip)')
                 /\ slots'.byIp[ip] <= MaxPerIp
                 /\ slots'.byIp[ip] \in Nat
      <3>1. IsFiniteSet(AdmittedAt(ip))
        BY FS_Subset DEF AdmittedAt, SlotInv
      <3>2. slots.byIp[ip] = Cardinality(AdmittedAt(ip)) /\ slots.byIp[ip] <= MaxPerIp
        BY DEF SlotInv, SlotsCountOpenSockets, AdmittedAt
      <3>3. CASE ip = here
        <4>1. /\ IsFiniteSet(AdmittedAt(ip) \ {c})
              /\ Cardinality(AdmittedAt(ip) \ {c}) = Cardinality(AdmittedAt(ip)) - 1
          BY <2>2, <3>1, <3>3, FS_RemoveElement
        <4>2. AdmittedAt(ip)' = AdmittedAt(ip) \ {c}
          BY <2>4, <3>3
        <4>3. Cardinality(AdmittedAt(ip) \ {c}) \in Nat
          BY <4>1, FS_CardinalityType
        <4>4. slots'.byIp[ip] = slots.byIp[ip] - 1
          BY <2>5, <3>3 DEF TypeOK
        <4> HIDE DEF here
        <4>5. QED BY <3>2, <4>1, <4>2, <4>3, <4>4 DEF TypeOK
      <3>4. CASE ip # here
        BY <2>4, <2>5, <3>2, <3>4 DEF TypeOK
      <3>5. QED BY <3>3, <3>4
    <2>8. slots' \in [total : Nat, byIp : [Ips -> Nat]]
      <3>1. slots'.byIp \in [Ips -> Nat]
        BY <2>1, <2>5, <2>7 DEF TypeOK
      <3>2. QED BY <2>5, <2>6, <3>1
    <2>9. TypeOK'
      BY <1>1, <2>1, <2>8 DEF TypeOK
    <2>10. \A d \in Clients : /\ conn'[d] = "open" => ipByClient'[d] # None
                              /\ conn'[d] = "new" => ipByClient'[d] = None
                              /\ conn'[d] = "closed" => ipByClient'[d] = None
      BY <1>1, <2>1 DEF SlotInv, SlotsCountOpenSockets, TypeOK
    <2>11. QED
      BY <2>6, <2>7, <2>9, <2>10 DEF SlotInv, SlotsCountOpenSockets, AdmittedAt
  <1>4. QED BY <1>2, <1>3

LEMMA OtherSlots ==
    ASSUME TypeOK, SlotInv,
           \/ \E c \in Clients : RejectOrigin(c) \/ Resolved(c) \/ Unresolved(c) \/ Ping(c)
           \/ Sweep
           \/ Tick
    PROVE  TypeOK' /\ SlotInv'
  <1> USE SessionAssumption
  <1>1. /\ UNCHANGED <<slots, ipByClient>>
        /\ TypeOK'
    <2>1. ASSUME NEW c \in Clients, RejectOrigin(c)
          PROVE  UNCHANGED <<slots, ipByClient>> /\ TypeOK'
      BY <2>1 DEF RejectOrigin, TypeOK
    <2>2. ASSUME NEW c \in Clients, Resolved(c)
          PROVE  UNCHANGED <<slots, ipByClient>> /\ TypeOK'
      BY <2>2 DEF Resolved, Track, TimerAfter, TypeOK
    <2>3. ASSUME NEW c \in Clients, Unresolved(c)
          PROVE  UNCHANGED <<slots, ipByClient>> /\ TypeOK'
      BY <2>3 DEF Unresolved, TypeOK
    <2>4. ASSUME NEW c \in Clients, Ping(c)
          PROVE  UNCHANGED <<slots, ipByClient>> /\ TypeOK'
      BY <2>4 DEF Ping, TypeOK
    <2>5. CASE Sweep
      BY <2>5 DEF Sweep, TypeOK
    <2>6. CASE Tick
      BY <2>6 DEF Tick, TypeOK
    <2>7. QED BY <2>1, <2>2, <2>3, <2>4, <2>5, <2>6
  <1>2. \A d \in Clients :
           /\ conn'[d] = "open" => conn[d] = "open"
           /\ conn'[d] = "new" => conn[d] = "new"
           /\ conn'[d] = "closed" => conn[d] = "closed"
           /\ conn'[d] \in {"open", "closing"} /\ ipByClient[d] # None
                 <=> conn[d] \in {"open", "closing"} /\ ipByClient[d] # None
    BY DEF RejectOrigin, Resolved, Unresolved, Ping, Sweep, Tick, TypeOK, SlotInv
  <1>3. Admitted' = Admitted
    BY <1>1, <1>2 DEF Admitted
  <1>4. QED
    BY <1>1, <1>2, <1>3, SlotsKept DEF SlotInv, SlotsCountOpenSockets

LEMMA NextSlots == TypeOK /\ SlotInv /\ [Next]_vars => (TypeOK /\ SlotInv)'
  <1> SUFFICES ASSUME TypeOK, SlotInv, [Next]_vars PROVE (TypeOK /\ SlotInv)'
    OBVIOUS
  <1>1. ASSUME NEW c \in Clients, SessionStep(c) PROVE (TypeOK /\ SlotInv)'
    BY <1>1, ConnectSlots, CloseSlots, OtherSlots DEF SessionStep
  <1>2. CASE UNCHANGED vars
    BY <1>2 DEF vars, TypeOK, SlotInv, SlotsCountOpenSockets, Admitted
  <1>3. CASE Sweep \/ Tick
    BY <1>3, OtherSlots
  <1>4. QED BY <1>1, <1>2, <1>3, NextSteps

(* The variables of a session keep their types.                             *)
THEOREM SessionTypeCorrect == Spec => []TypeOK
  <1>1. Init => TypeOK /\ SlotInv
    BY InitSlots
  <1>2. TypeOK /\ SlotInv /\ [Next]_vars => (TypeOK /\ SlotInv)'
    BY NextSlots
  <1>3. QED BY <1>1, <1>2, PTL DEF Spec

(* No slot is lost or given back twice, whatever the order in which a socket
   is admitted, authenticated, swept and closed: the limiter's counts are
   those of the open sockets, and the limits hold.                          *)
THEOREM SlotsCounted == Spec => []SlotsCountOpenSockets
  <1>1. Init => TypeOK /\ SlotInv
    BY InitSlots
  <1>2. TypeOK /\ SlotInv /\ [Next]_vars => (TypeOK /\ SlotInv)'
    BY NextSlots
  <1>3. SlotInv => SlotsCountOpenSockets
    BY DEF SlotInv
  <1>4. QED BY <1>1, <1>2, <1>3, PTL DEF Spec

-----------------------------------------------------------------------------
(* The heartbeat monitor.  A sweep that is due holds the clock, so no beat
   grows older than the timeout and the interval up to the next sweep: this
   is what keeps SilenceBounded, which says nothing of the timer.           *)
BeatsInTime ==
    /\ \A c \in Clients : lastBeatAt[c] # None => lastBeatAt[c] <= clock
    /\ nextSweep # None =>
          /\ clock <= nextSweep /\ nextSweep <= clock + SweepInterval
          /\ \A c \in Clients : lastBeatAt[c] # None
                                   => nextSweep - lastBeatAt[c] <= Timeout + SweepInterval

WatchInv == ServedIsWatched /\ BeatsInTime

LEMMA InitWatch == Init => WatchInv
  BY SessionAssumption DEF Init, WatchInv, ServedIsWatched, BeatsInTime, Tracked

(* A step of the monitor that forgets some sockets or hears of them now, and
   sets its timer accordingly.                                              *)
LEMMA TrackKeepsTime ==
    ASSUME TypeOK, WatchInv, NEW beats \in [Clients -> Nat \cup {None}], Track(beats),
           \A c \in Clients : beats[c] \in {lastBeatAt[c], clock, None}, clock' = clock
    PROVE  /\ nextSweep' # None <=> Tracked(lastBeatAt') # {}
           /\ BeatsInTime'
  <1> USE SessionAssumption
  <1>1. lastBeatAt' = beats /\ nextSweep' = TimerAfter(beats) /\ clock \in Nat
    BY DEF Track, TypeOK
  <1>2. \A c \in Clients : beats[c] # None => beats[c] \in Nat /\ beats[c] <= clock
    BY DEF WatchInv, BeatsInTime, TypeOK
  <1>3. CASE Tracked(beats) = {}
    BY <1>1, <1>2, <1>3 DEF TimerAfter, Tracked, BeatsInTime
  <1>4. CASE Tracked(beats) # {} /\ nextSweep = None
    <2>1. nextSweep' = clock + SweepInterval
      BY <1>1, <1>4 DEF TimerAfter
    <2>2. \A c \in Clients : lastBeatAt[c] = None
      BY <1>4 DEF WatchInv, ServedIsWatched, Tracked
    <2>3. \A c \in Clients : beats[c] # None => beats[c] = clock
      BY <2>2
    <2>4. nextSweep' # None
      BY <1>1, <2>1
    <2>5. QED BY <1>1, <1>2, <1>4, <2>1, <2>3, <2>4 DEF BeatsInTime, Tracked
  <1>5. CASE Tracked(beats) # {} /\ nextSweep # None
    <2>1. nextSweep' = nextSweep /\ nextSweep \in Nat
      BY <1>1, <1>5 DEF TimerAfter, TypeOK
    <2>2. clock <= nextSweep /\ nextSweep <= clock + SweepInterval
      BY <1>5 DEF WatchInv, BeatsInTime
    <2>3. \A c \in Clients : lastBeatAt[c] # None
                                => nextSweep - lastBeatAt[c] <= Timeout + SweepInterval
      BY <1>5 DEF WatchInv, BeatsInTime
    <2>4. \A c \in Clients : beats[c] # None
                                => nextSweep - beats[c] <= Timeout + SweepInterval
      BY <1>1, <1>2, <2>1, <2>2, <2>3
    <2>5. QED BY <1>1, <1>2, <1>5, <2>1, <2>2, <2>4 DEF BeatsInTime
  <1>6. QED BY <1>3, <1>4, <1>5

LEMMA SweepWatch ==
    ASSUME TypeOK, WatchInv, Sweep
    PROVE  WatchInv'
  <1> USE SessionAssumption
  <1> DEFINE beats == [c \in Clients |-> IF Stale(c) THEN None ELSE lastBeatAt[c]]
  <1>1. /\ nextSweep = clock /\ clock \in Nat
        /\ conn' = [c \in Clients |-> IF Stale(c) /\ conn[c] = "open" THEN "closing" ELSE conn[c]]
        /\ lastBeatAt' = beats
        /\ nextSweep' = IF Tracked(beats) = {} THEN None ELSE clock + SweepInterval
        /\ UNCHANGED <<handler, bound, clock>>
    BY DEF Sweep, TypeOK
  <1>2. \A c \in Clients : beats[c] # None =>
           /\ beats[c] = lastBeatAt[c] /\ beats[c] \in Nat
           /\ beats[c] <= clock /\ clock - beats[c] <= Timeout
    BY DEF Stale, WatchInv, BeatsInTime, TypeOK
  <1>3. \A c \in Clients : handler[c] = "serving" /\ conn'[c] = "open"
                              => c \in bound /\ beats[c] # None
    BY <1>1 DEF Stale, WatchInv, ServedIsWatched
  <1> HIDE DEF beats
  <1>4. nextSweep' # None <=> Tracked(beats) # {}
    BY <1>1
  <1>5. BeatsInTime'
    BY <1>1, <1>2 DEF BeatsInTime
  <1>6. QED BY <1>1, <1>3, <1>4, <1>5 DEF WatchInv, ServedIsWatched

LEMMA NextWatch == TypeOK /\ WatchInv /\ [Next]_vars => WatchInv'
  <1> SUFFICES ASSUME TypeOK, WatchInv, [Next]_vars PROVE WatchInv'
    OBVIOUS
  <1> USE SessionAssumption
  <1>1. ASSUME NEW c \in Clients, Connect(c) \/ RejectOrigin(c) \/ Unresolved(c)
        PROVE  WatchInv'
    <2>1. /\ UNCHANGED <<bound, lastBeatAt, nextSweep, clock>>
          /\ \A d \in Clients : handler'[d] = "serving" /\ conn'[d] = "open"
                                     => handler[d] = "serving" /\ conn[d] = "open"
      BY <1>1 DEF Connect, RejectOrigin, Unresolved, TypeOK
    <2>2. QED BY <2>1 DEF WatchInv, ServedIsWatched, BeatsInTime
  <1>2. ASSUME NEW c \in Clients, Resolved(c) PROVE WatchInv'
    <2>1. /\ handler' = [handler EXCEPT ![c] = "serving"]
          /\ bound' = bound \cup {c}
          /\ Track([lastBeatAt EXCEPT ![c] = clock])
          /\ UNCHANGED <<conn, clock>>
      BY <1>2 DEF Resolved
    <2>2. /\ nextSweep' # None <=> Tracked(lastBeatAt') # {}
          /\ BeatsInTime'
      BY <2>1, TrackKeepsTime DEF TypeOK
    <2>3. lastBeatAt' = [lastBeatAt EXCEPT ![c] = clock] /\ clock # None
      BY <2>1 DEF Track, TypeOK
    <2>4. QED BY <2>1, <2>2, <2>3 DEF WatchInv, ServedIsWatched, TypeOK
  <1>3. ASSUME NEW c \in Clients, Ping(c) PROVE WatchInv'
    <2>1. /\ lastBeatAt[c] # None
          /\ lastBeatAt' = [lastBeatAt EXCEPT ![c] = clock]
          /\ UNCHANGED <<conn, handler, bound, nextSweep, clock>>
          /\ clock \in Nat /\ clock # None
      BY <1>3 DEF Ping, TypeOK
    <2>2. Tracked(lastBeatAt') = Tracked(lastBeatAt) /\ nextSweep # None
      BY <2>1 DEF Tracked, TypeOK, WatchInv, ServedIsWatched
    <2>3. BeatsInTime'
      BY <2>1, <2>2 DEF BeatsInTime, WatchInv, TypeOK
    <2>4. QED BY <2>1, <2>2, <2>3 DEF WatchInv, ServedIsWatched, TypeOK
  <1>4. ASSUME NEW c \in Clients, Close(c) PROVE WatchInv'
    <2>1. /\ conn' = [conn EXCEPT ![c] = "closed"]
          /\ bound' = bound \ {c}
          /\ Track([lastBeatAt EXCEPT ![c] = None])
          /\ UNCHANGED <<handler, clock>>
      BY <1>4 DEF Close
    <2>2. /\ nextSweep' # None <=> Tracked(lastBeatAt') # {}
          /\ BeatsInTime'
      BY <2>1, TrackKeepsTime DEF TypeOK
    <2>3. lastBeatAt' = [lastBeatAt EXCEPT ![c] = None]
      BY <2>1 DEF Track
    <2>4. QED BY <2>1, <2>2, <2>3 DEF WatchInv, ServedIsWatched, TypeOK
  <1>5. CASE Sweep
    BY <1>5, SweepWatch
  <1>6. CASE Tick
    <2>1. /\ clock # nextSweep /\ clock' = clock + 1 /\ clock \in Nat
          /\ UNCHANGED <<conn, handler, bound, lastBeatAt, nextSweep>>
      BY <1>6 DEF Tick, TypeOK
    <2>2. BeatsInTime'
      BY <2>1 DEF BeatsInTime, WatchInv, TypeOK
    <2>3. QED BY <2>1, <2>2 DEF WatchInv, ServedIsWatched
  <1>7. CASE UNCHANGED vars
    BY <1>7 DEF vars, WatchInv, ServedIsWatched, BeatsInTime
  <1>8. QED BY <1>1, <1>2, <1>3, <1>4, <1>5, <1>6, <1>7, NextSteps DEF SessionStep

(* A socket whose messages are handled has a session and is watched by the
   monitor, whose timer runs exactly while somebody is watched: also when a
   socket closed while its authentication was awaited.                      *)
THEOREM ServedSocketsWatched == Spec => []ServedIsWatched
  <1>1. Init => WatchInv
    BY InitWatch
  <1>2. TypeOK /\ WatchInv /\ [Next]_vars => WatchInv'
    BY NextWatch
  <1>3. WatchInv => ServedIsWatched
    BY DEF WatchInv
  <1>4. QED BY <1>1, <1>2, <1>3, SessionTypeCorrect, PTL DEF Spec

(* No socket is silent for longer than the timeout and one sweep interval
   before the monitor drops it.                                             *)
THEOREM SilenceIsBounded == Spec => []SilenceBounded
  <1>1. Init => WatchInv
    BY InitWatch
  <1>2. TypeOK /\ WatchInv /\ [Next]_vars => WatchInv'
    BY NextWatch
  <1>3. TypeOK /\ WatchInv => SilenceBounded
    <2> SUFFICES ASSUME TypeOK, WatchInv, NEW c \in Clients, lastBeatAt[c] # None
                 PROVE  clock - lastBeatAt[c] <= Timeout + SweepInterval
      BY DEF SilenceBounded
    <2>1. nextSweep # None
      BY DEF WatchInv, ServedIsWatched, Tracked
    <2>2. /\ nextSweep \in Nat /\ lastBeatAt[c] \in Nat /\ clock \in Nat
          /\ clock <= nextSweep /\ nextSweep - lastBeatAt[c] <= Timeout + SweepInterval
      BY <2>1 DEF WatchInv, BeatsInTime, TypeOK
    <2>3. QED BY <2>2, SessionAssumption
  <1>4. QED BY <1>1, <1>2, <1>3, SessionTypeCorrect, PTL DEF Spec

-----------------------------------------------------------------------------
(* With messages.                                                           *)
LEMMA MessageStepsAreSteps == [MNext]_mvars => [Next]_vars
  BY DEF MNext, mvars, Message, CloseResets, Next

(* A session with messages is a session: a message is a heartbeat or changes
   nothing of it.                                                           *)
THEOREM MessagesKeepSession == MSpec => Spec
  <1>1. MInit => Init
    BY DEF MInit
  <1>2. QED BY <1>1, MessageStepsAreSteps, PTL DEF MSpec, Spec

(* What the limiter has of an address are messages handled since its reset,
   and it has all that can still be in its window: so pruning never forgets
   one that counts, and no window of the past can grow.                     *)
RateInv ==
    /\ clock \in Times
    /\ handledAt \in [Ips -> Seq(Times)]
    /\ hits \in [Ips -> SUBSET (Nat \ {0})]
    /\ \A ip \in Ips :
          /\ hits[ip] \subseteq DOMAIN handledAt[ip]
          /\ \A m \in DOMAIN handledAt[ip] :
                /\ handledAt[ip][m] <= clock
                /\ handledAt[ip][m] > clock - RateWindow => m \in hits[ip]
          /\ \A t \in Times : Cardinality(Handled(ip, t - RateWindow + 1, t)) <= RateLimit

LEMMA RecentIsWindow ==
    ASSUME RateInv, NEW ip \in Ips
    PROVE  Recent(ip) = Handled(ip, clock - RateWindow + 1, clock)
  <1>1. \A m \in DOMAIN handledAt[ip] : handledAt[ip][m] \in Int
    <2>1. handledAt[ip] \in Seq(Times) /\ Times \subseteq Int
      BY SessionAssumption DEF RateInv, Times
    <2>2. \A m \in DOMAIN handledAt[ip] : handledAt[ip][m] \in Times
      BY <2>1
    <2>3. QED BY <2>1, <2>2
  <1>2. clock \in Int /\ RateWindow \in Int
    BY SessionAssumption, RateAssumption DEF RateInv, Times
  <1>3. /\ hits[ip] \subseteq DOMAIN handledAt[ip]
        /\ \A m \in DOMAIN handledAt[ip] :
              /\ handledAt[ip][m] <= clock
              /\ handledAt[ip][m] > clock - RateWindow => m \in hits[ip]
    BY DEF RateInv
  <1>4. QED BY <1>1, <1>2, <1>3 DEF Recent, Handled

LEMMA HandledFinite ==
    ASSUME handledAt \in [Ips -> Seq(Times)], NEW ip \in Ips, NEW a \in Int, NEW b \in Int
    PROVE  IsFiniteSet(Handled(ip, a, b))
  <1>1. DOMAIN handledAt[ip] = 1..Len(handledAt[ip]) /\ Len(handledAt[ip]) \in Nat
    OBVIOUS
  <1>2. IsFiniteSet(1..Len(handledAt[ip]))
    BY <1>1, FS_Interval
  <1>3. QED BY <1>1, <1>2, FS_Subset DEF Handled

LEMMA InitRate == MInit => RateInv
  <1> SUFFICES ASSUME MInit PROVE RateInv
    OBVIOUS
  <1> USE SessionAssumption, RateAssumption
  <1>1. /\ clock \in Times
        /\ handledAt \in [Ips -> Seq(Times)]
        /\ hits \in [Ips -> SUBSET (Nat \ {0})]
        /\ \A ip \in Ips : DOMAIN handledAt[ip] = {} /\ hits[ip] = {}
    BY DEF MInit, Init, Times
  <1>2. \A ip \in Ips, t \in Times : Handled(ip, t - RateWindow + 1, t) = {}
    BY <1>1 DEF Handled
  <1>3. Cardinality({}) <= RateLimit
    BY FS_EmptySet
  <1>4. \A ip \in Ips, t \in Times : Cardinality(Handled(ip, t - RateWindow + 1, t)) <= RateLimit
    BY <1>2, <1>3
  <1>5. QED BY <1>1, <1>4 DEF RateInv

(* A handled message: every window that contains it lies in the one that
   ends now, which had room.                                                *)
LEMMA AllowedRate ==
    ASSUME RateInv, NEW ip \in Ips, Allowed(ip), clock' = clock,
           handledAt' = [handledAt EXCEPT ![ip] = Append(@, clock)],
           hits' = [hits EXCEPT ![ip] = Recent(ip) \cup {Len(handledAt[ip]) + 1}]
    PROVE  RateInv'
  <1> USE SessionAssumption, RateAssumption
  <1> DEFINE n == Len(handledAt[ip]) + 1
  <1>1. /\ handledAt[ip] \in Seq(Times) /\ clock \in Times
        /\ n \in Nat \ {0} /\ n \notin DOMAIN handledAt[ip]
        /\ DOMAIN handledAt[ip] = 1..Len(handledAt[ip])
    BY DEF RateInv
  <1>2. /\ handledAt'[ip] = Append(handledAt[ip], clock)
        /\ handledAt' \in [Ips -> Seq(Times)]
        /\ \A q \in Ips : q # ip => handledAt'[q] = handledAt[q]
    BY <1>1 DEF RateInv
  <1>3. /\ DOMAIN handledAt'[ip] = DOMAIN handledAt[ip] \cup {n}
        /\ handledAt'[ip][n] = clock
        /\ \A m \in DOMAIN handledAt[ip] : handledAt'[ip][m] = handledAt[ip][m]
    BY <1>1, <1>2
  <1>4. /\ hits' \in [Ips -> SUBSET (Nat \ {0})]
        /\ hits'[ip] = Recent(ip) \cup {n}
        /\ \A q \in Ips : q # ip => hits'[q] = hits[q]
    BY <1>1 DEF RateInv, Recent
  <1> HIDE DEF n
  <1>5. ASSUME NEW q \in Ips
        PROVE  /\ hits'[q] \subseteq DOMAIN handledAt'[q]
               /\ \A m \in DOMAIN handledAt'[q] :
                     /\ handledAt'[q][m] <= clock
                     /\ handledAt'[q][m] > clock - RateWindow => m \in hits'[q]
    <2>1. CASE q = ip
      BY <1>1, <1>3, <1>4, <2>1 DEF RateInv, Recent, Times
    <2>2. CASE q # ip
      BY <1>2, <1>4, <2>2 DEF RateInv
    <2>3. QED BY <2>1, <2>2
  <1>6. ASSUME NEW q \in Ips, NEW t \in Times
        PROVE  Cardinality(Handled(q, t - RateWindow + 1, t)') <= RateLimit
    <2> DEFINE W == Handled(q, t - RateWindow + 1, t)
    <2>1. Cardinality(W) <= RateLimit /\ t \in Int /\ clock \in Int
      BY <1>1 DEF RateInv, Times
    <2>2. CASE q # ip
      <3>1. W' = W
        BY <1>2, <2>2 DEF Handled
      <3>2. QED BY <2>1, <3>1
    <2>3. CASE q = ip /\ clock \notin (t - RateWindow + 1)..t
      <3>1. W' = W
        BY <1>3, <2>3 DEF Handled
      <3>2. QED BY <2>1, <3>1
    <2>4. CASE q = ip /\ clock \in (t - RateWindow + 1)..t
      <3>1. \A m \in DOMAIN handledAt[ip] : handledAt[ip][m] \in Int /\ handledAt[ip][m] <= clock
        BY <1>1 DEF RateInv, Times
      <3>2. W' = W \cup {n}
        BY <1>3, <2>4 DEF Handled
      <3>3. W \subseteq Handled(ip, clock - RateWindow + 1, clock)
        BY <2>1, <2>4, <3>1 DEF Handled
      <3>4. IsFiniteSet(Handled(ip, clock - RateWindow + 1, clock))
        BY <2>1, HandledFinite DEF RateInv
      <3>5. Cardinality(Handled(ip, clock - RateWindow + 1, clock)) < RateLimit
        BY RecentIsWindow DEF Allowed
      <3>6. /\ IsFiniteSet(W)
            /\ Cardinality(W) <= Cardinality(Handled(ip, clock - RateWindow + 1, clock))
        BY <3>3, <3>4, FS_Subset
      <3>7. n \notin W
        BY <1>1, <2>4 DEF Handled
      <3>8. Cardinality(W \cup {n}) = Cardinality(W) + 1
        BY <3>6, <3>7, FS_AddElement
      <3>9. /\ Cardinality(W) \in Nat
            /\ Cardinality(Handled(ip, clock - RateWindow + 1, clock)) \in Nat
        BY <3>4, <3>6, FS_CardinalityType
      <3>10. Cardinality(W \cup {n}) <= RateLimit
        BY <3>5, <3>6, <3>8, <3>9
      <3>11. QED BY <3>2, <3>10
    <2>5. QED BY <2>2, <2>3, <2>4
  <1>7. QED
    <2>1. \A q \in Ips, t \in Times : Cardinality(Handled(q, t - RateWindow + 1, t)') <= RateLimit
      BY <1>6
    <2>2. QED BY <1>1, <1>2, <1>4, <1>5, <2>1 DEF RateInv

(* A refused message only prunes.                                           *)
LEMMA RefusedRate ==
    ASSUME RateInv, NEW ip \in Ips, UNCHANGED <<clock, handledAt>>,
           hits' = [hits EXCEPT ![ip] = Recent(ip)]
    PROVE  RateInv'
  <1>1. \A q \in Ips : hits'[q] = IF q = ip THEN Recent(ip) ELSE hits[q]
    BY DEF RateInv
  <1>2. hits' \in [Ips -> SUBSET (Nat \ {0})]
    BY DEF RateInv, Recent
  <1>3. \A q \in Ips :
           /\ hits'[q] \subseteq DOMAIN handledAt[q]
           /\ \A m \in DOMAIN handledAt[q] :
                  handledAt[q][m] > clock - RateWindow => m \in hits'[q]
    BY <1>1 DEF RateInv, Recent
  <1>4. \A q \in Ips, t \in Times :
           Handled(q, t - RateWindow + 1, t)' = Handled(q, t - RateWindow + 1, t)
    BY DEF Handled
  <1>5. QED BY <1>2, <1>3, <1>4 DEF RateInv

(* release(): an address starts anew.                                       *)
LEMMA ResetRate ==
    ASSUME RateInv, NEW ip \in Ips, clock' = clock,
           handledAt' = [handledAt EXCEPT ![ip] = << >>],
           hits' = [hits EXCEPT ![ip] = {}]
    PROVE  RateInv'
  <1> USE SessionAssumption, RateAssumption
  <1>1. /\ handledAt' \in [Ips -> Seq(Times)]
        /\ hits' \in [Ips -> SUBSET (Nat \ {0})]
        /\ DOMAIN handledAt'[ip] = {} /\ hits'[ip] = {}
        /\ \A q \in Ips : q # ip => handledAt'[q] = handledAt[q] /\ hits'[q] = hits[q]
    BY DEF RateInv
  <1>2. ASSUME NEW q \in Ips, NEW t \in Times
        PROVE  Cardinality(Handled(q, t - RateWindow + 1, t)') <= RateLimit
    <2>1. CASE q = ip
      <3>1. Handled(q, t - RateWindow + 1, t)' = {}
        BY <1>1, <2>1 DEF Handled
      <3>2. Cardinality({}) <= RateLimit
        BY FS_EmptySet
      <3>3. QED BY <3>1, <3>2
    <2>2. CASE q # ip
      <3>1. Handled(q, t - RateWindow + 1, t)' = Handled(q, t - RateWindow + 1, t)
        BY <1>1, <2>2 DEF Handled
      <3>2. QED BY <3>1 DEF RateInv
    <2>3. QED BY <2>1, <2>2
  <1>3. \A q \in Ips, t \in Times : Cardinality(Handled(q, t - RateWindow + 1, t)') <= RateLimit
    BY <1>2
  <1>4. ASSUME NEW q \in Ips
        PROVE  /\ hits'[q] \subseteq DOMAIN handledAt'[q]
               /\ \A m \in DOMAIN handledAt'[q] :
                     /\ handledAt'[q][m] <= clock
                     /\ handledAt'[q][m] > clock - RateWindow => m \in hits'[q]
    BY <1>1 DEF RateInv
  <1>5. QED BY <1>1, <1>3, <1>4 DEF RateInv

(* Time passes: what leaves the window stays out of it.                     *)
LEMMA TickRate ==
    ASSUME RateInv, clock' \in Times, clock' >= clock, UNCHANGED <<handledAt, hits>>
    PROVE  RateInv'
  <1> USE SessionAssumption, RateAssumption
  <1>1. \A q \in Ips, t \in Times :
           Handled(q, t - RateWindow + 1, t)' = Handled(q, t - RateWindow + 1, t)
    BY DEF Handled
  <1>2. \A q \in Ips : \A m \in DOMAIN handledAt[q] : handledAt[q][m] \in Times
    BY DEF RateInv
  <1>3. ASSUME NEW q \in Ips, NEW m \in DOMAIN handledAt[q]
        PROVE  /\ handledAt[q][m] <= clock'
               /\ handledAt[q][m] > clock' - RateWindow => m \in hits[q]
    <2>1. /\ handledAt[q][m] <= clock
          /\ handledAt[q][m] > clock - RateWindow => m \in hits[q]
          /\ clock \in Times
      BY DEF RateInv
    <2>2. QED BY <1>2, <2>1 DEF Times
  <1>4. QED BY <1>1, <1>3 DEF RateInv

LEMMA NextRate == TypeOK /\ SlotInv /\ RateInv /\ [MNext]_mvars => RateInv'
  <1> SUFFICES ASSUME TypeOK, SlotInv, RateInv, [MNext]_mvars PROVE RateInv'
    OBVIOUS
  <1>1. clock \in Times /\ clock \in Nat
    BY DEF RateInv, TypeOK
  <1>2. ASSUME NEW c \in Clients, NEW kind, Message(c, kind) PROVE RateInv'
    <2> DEFINE ip == ipByClient[c]
    <2>1. ip \in Ips /\ clock' = clock
      BY <1>2 DEF Message, SlotInv, TypeOK, Ping, vars
    <2>2. CASE Allowed(ip)
      <3>1. /\ handledAt' = [handledAt EXCEPT ![ip] = Append(@, clock)]
            /\ hits' = [hits EXCEPT ![ip] = Recent(ip) \cup {Len(handledAt[ip]) + 1}]
        BY <1>2, <2>2 DEF Message
      <3> HIDE DEF ip
      <3>2. QED BY <2>1, <2>2, <3>1, AllowedRate
    <2>3. CASE ~Allowed(ip)
      <3>1. /\ hits' = [hits EXCEPT ![ip] = Recent(ip)]
            /\ UNCHANGED handledAt
        BY <1>2, <2>3 DEF Message
      <3> HIDE DEF ip
      <3>2. QED BY <2>1, <3>1, RefusedRate
    <2>4. QED BY <2>2, <2>3
  <1>3. ASSUME NEW c \in Clients, CloseResets(c) PROVE RateInv'
    <2>1. clock' = clock
      BY <1>3 DEF CloseResets, Close
    <2>2. CASE ipByClient[c] = None
      <3>1. UNCHANGED <<handledAt, hits>>
        BY <1>3, <2>2 DEF CloseResets
      <3>2. QED BY <1>1, <2>1, <3>1, TickRate
    <2>3. CASE ipByClient[c] # None
      <3>1. /\ ipByClient[c] \in Ips
            /\ handledAt' = [handledAt EXCEPT ![ipByClient[c]] = << >>]
            /\ hits' = [hits EXCEPT ![ipByClient[c]] = {}]
        BY <1>3, <2>3 DEF CloseResets, TypeOK
      <3>2. QED BY <2>1, <3>1, ResetRate
    <2>4. QED BY <2>2, <2>3
  <1>4. ASSUME UNCHANGED <<handledAt, hits>>,
               \/ \E c \in Clients : Connect(c) \/ RejectOrigin(c) \/ Resolved(c) \/ Unresolved(c)
               \/ Sweep
               \/ Tick
        PROVE  RateInv'
    <2>1. clock' = clock \/ (clock < MaxTime /\ clock' = clock + 1)
      <3>1. ASSUME NEW c \in Clients,
                   Connect(c) \/ RejectOrigin(c) \/ Resolved(c) \/ Unresolved(c)
            PROVE  clock' = clock
        BY <3>1 DEF Connect, RejectOrigin, Resolved, Unresolved
      <3>2. QED BY <1>4, <3>1 DEF Sweep, Tick
    <2>2. clock' \in Times /\ clock' >= clock
      BY <1>1, <2>1, SessionAssumption DEF Times
    <2>3. QED BY <1>4, <2>2, TickRate
  <1>5. CASE UNCHANGED mvars
    BY <1>1, <1>5, TickRate DEF mvars, vars
  <1>6. QED BY <1>2, <1>3, <1>4, <1>5 DEF MNext

(* The variables of the limiter keep their types.                           *)
THEOREM MessageTypeCorrect == MSpec => []MTypeOK
  <1>1. MInit => TypeOK /\ SlotInv /\ RateInv
    BY InitSlots, InitRate DEF MInit
  <1>2. TypeOK /\ SlotInv /\ RateInv /\ [MNext]_mvars => (TypeOK /\ SlotInv /\ RateInv)'
    BY NextSlots, NextRate, MessageStepsAreSteps
  <1>3. TypeOK /\ RateInv => MTypeOK
    BY DEF RateInv, MTypeOK
  <1>4. QED BY <1>1, <1>2, <1>3, PTL DEF MSpec

(* No window of any position sees more than the limit of an address's
   messages, however they, the refusals and the clock interleave, and a
   message is refused only when the window that ends now is full.           *)
THEOREM RateWindowHolds == MSpec => []RateWindowTrue
  <1>1. MInit => TypeOK /\ SlotInv /\ RateInv
    BY InitSlots, InitRate DEF MInit
  <1>2. TypeOK /\ SlotInv /\ RateInv /\ [MNext]_mvars => (TypeOK /\ SlotInv /\ RateInv)'
    BY NextSlots, NextRate, MessageStepsAreSteps
  <1>3. RateInv => RateWindowTrue
    BY RecentIsWindow DEF RateInv, RateWindowTrue
  <1>4. QED BY <1>1, <1>2, <1>3, PTL DEF MSpec

-----------------------------------------------------------------------------
(* The other end of the connection: CliConnection.

   An attempt, the listeners on its socket and the retry timer are kept in
   variables that several handlers change.  Listening says which socket is
   listened to and how, Waiting what the waiter stands for, Retrying what the
   timer and the flags say of the attempt.  None of the three is inductive
   without the others.                                                       *)

(* The connection of the running attempt was opened.                        *)
Up == at \in {"opened", "greeting", "greeted", "asking", "asked"}

Listening ==
    /\ \A s \in Sockets : /\ heard[s] # "none" => s = cur
                          /\ ready[s] = "connecting" => heard[s] = "connect"
                          /\ heard[s] = "connect" => at = "handshake"
    /\ cur # NoSocket => heard[cur] # "none" /\ ready[cur] # "closed"
    /\ at = "handshake" => cur # NoSocket /\ heard[cur] = "connect"
    /\ at = "tokens" => cur = NoSocket
    /\ Up => cur # NoSocket /\ heard[cur] = "runtime"
    /\ state = "connected" =>
          cur # NoSocket /\ heard[cur] = "runtime" /\ ready[cur] \in {"open", "ending"}

Waiting ==
    /\ waiter = "greeting" <=> at = "greeting"
    /\ waiter = "tunnel" <=> at = "asking"

Retrying ==
    /\ timer <=> state = "reconnecting"
    /\ timer => /\ cur = NoSocket /\ ~intentional
                /\ task = "idle" \/ (task = "start" /\ at = "failed")
    /\ inFlight => task = "retry"
    /\ task = "retry" => inFlight \/ intentional
    /\ task = "idle" /\ ~tunnel => intentional
    /\ Up /\ ~intentional => state = "connected"
    /\ tunnel /\ ~intentional /\ Alive /\ task = "idle" => timer \/ state = "connected"

CliInv == CTypeOK /\ Listening /\ Waiting /\ Retrying

LEMMA CliInit == CInit => CliInv
  BY ConnectionAssumption DEF CInit, CliInv, CTypeOK, Listening, Waiting, Retrying, Up

LEMMA TokensReadyInv ==
    ASSUME CliInv, NEW s \in Sockets, TokensReady(s)
    PROVE  CliInv'
  <1> USE ConnectionAssumption DEF CliInv, TokensReady,
          Quiet, Alive, socketVars, taskVars, flags
  <1>1. CTypeOK'
    BY DEF CTypeOK
  <1>2. Listening'
    BY DEF CTypeOK, Listening, Up
  <1>3. Waiting'
    BY DEF CTypeOK, Listening, Waiting
  <1>4. Retrying'
    BY DEF CTypeOK, Retrying, Up
  <1>5. QED BY <1>1, <1>2, <1>3, <1>4

LEMMA OpenInv ==
    ASSUME CliInv, NEW s \in Sockets, Open(s)
    PROVE  CliInv'
  <1> USE ConnectionAssumption DEF CliInv, Open,
          Quiet, Alive, socketVars, taskVars, flags
  <1>1. CTypeOK'
    BY DEF CTypeOK, Listening
  <1>2. Listening'
    BY DEF CTypeOK, Listening
  <1>3. Waiting'
    BY DEF CTypeOK, Listening, Waiting
  <1>4. Retrying'
    BY DEF Listening, Retrying
  <1>5. QED BY <1>1, <1>2, <1>3, <1>4

LEMMA RefusedInv ==
    ASSUME CliInv, NEW s \in Sockets, Refused(s)
    PROVE  CliInv'
  <1> USE ConnectionAssumption DEF CliInv, Refused, Dispose,
          Quiet, Alive, socketVars, taskVars, flags
  <1>1. CTypeOK'
    BY DEF CTypeOK, Listening
  <1>2. Listening'
    BY DEF CTypeOK, Listening, Up
  <1>3. Waiting'
    BY DEF CTypeOK, Listening, Waiting
  <1>4. Retrying'
    BY DEF Listening, Retrying, Up
  <1>5. QED BY <1>1, <1>2, <1>3, <1>4

LEMMA GreetInv ==
    ASSUME CliInv, NEW s \in Sockets, Greet(s)
    PROVE  CliInv'
  <1> USE ConnectionAssumption DEF CliInv, Greet, Receives,
          Quiet, Alive, socketVars, taskVars, flags
  <1>1. CTypeOK'
    BY DEF CTypeOK, Waiting
  <1>2. Listening'
    BY DEF CTypeOK, Listening, Waiting, Up
  <1>3. Waiting'
    BY DEF Listening, Waiting
  <1>4. Retrying'
    BY DEF Retrying, Waiting, Up
  <1>5. QED BY <1>1, <1>2, <1>3, <1>4

LEMMA AnswerInv ==
    ASSUME CliInv, NEW s \in Sockets, NEW r \in {"asked", "failed"},
           Answer(s, r)
    PROVE  CliInv'
  <1> USE ConnectionAssumption DEF CliInv, Answer, Receives,
          Quiet, Alive, socketVars, taskVars, flags
  <1>1. CTypeOK'
    BY DEF CTypeOK, Waiting
  <1>2. Listening'
    BY DEF CTypeOK, Listening, Waiting, Up
  <1>3. Waiting'
    BY DEF Listening, Waiting
  <1>4. Retrying'
    BY DEF Retrying, Waiting, Up
  <1>5. QED BY <1>1, <1>2, <1>3, <1>4

LEMMA PeerClosesInv ==
    ASSUME CliInv, NEW s \in Sockets, PeerCloses(s)
    PROVE  CliInv'
  <1> USE ConnectionAssumption DEF CliInv, PeerCloses, Receives,
          Quiet, Alive, socketVars, taskVars, flags
  <1>1. CTypeOK'
    BY DEF CTypeOK
  <1>2. Listening'
    BY DEF CTypeOK, Listening, Up
  <1>3. Waiting'
    BY DEF Listening, Waiting
  <1>4. Retrying'
    BY DEF Retrying, Up
  <1>5. QED BY <1>1, <1>2, <1>3, <1>4

LEMMA AwaitGreetingInv ==
    ASSUME CliInv, AwaitGreeting
    PROVE  CliInv'
  <1> USE ConnectionAssumption DEF CliInv, AwaitGreeting,
          Quiet, Alive, socketVars, taskVars, flags
  <1>1. CTypeOK'
    BY DEF CTypeOK
  <1>2. Listening'
    BY DEF CTypeOK, Listening, Up
  <1>3. Waiting'
    BY DEF Listening, Waiting
  <1>4. Retrying'
    BY DEF Retrying, Up
  <1>5. QED BY <1>1, <1>2, <1>3, <1>4

LEMMA AskForTunnelInv ==
    ASSUME CliInv, AskForTunnel
    PROVE  CliInv'
  <1> USE ConnectionAssumption DEF CliInv, AskForTunnel, Sendable,
          Quiet, Alive, socketVars, taskVars, flags
  <1>1. CTypeOK'
    BY DEF CTypeOK
  <1>2. Listening'
    BY DEF CTypeOK, Listening, Up
  <1>3. Waiting'
    BY DEF Listening, Waiting
  <1>4. Retrying'
    BY DEF Retrying, Up
  <1>5. QED BY <1>1, <1>2, <1>3, <1>4

LEMMA EstablishedInv ==
    ASSUME CliInv, Established
    PROVE  CliInv'
  <1> USE ConnectionAssumption DEF CliInv, Established,
          Quiet, Alive, socketVars, taskVars, flags
  <1>1. CTypeOK'
    BY DEF CTypeOK
  <1>2. Listening'
    BY DEF CTypeOK, Listening, Up
  <1>3. Waiting'
    BY DEF Listening, Waiting
  <1>4. Retrying'
    BY DEF Retrying, Up
  <1>5. QED BY <1>1, <1>2, <1>3, <1>4

LEMMA WaitTimeoutInv ==
    ASSUME CliInv, WaitTimeout
    PROVE  CliInv'
  <1> USE ConnectionAssumption DEF CliInv, WaitTimeout,
          Quiet, Alive, socketVars, taskVars, flags
  <1>1. CTypeOK'
    BY DEF CTypeOK, Waiting
  <1>2. Listening'
    BY DEF CTypeOK, Listening, Waiting, Up
  <1>3. Waiting'
    BY DEF CTypeOK, Listening, Waiting
  <1>4. Retrying'
    BY DEF Retrying, Up
  <1>5. QED BY <1>1, <1>2, <1>3, <1>4

LEMMA ShutdownInv ==
    ASSUME CliInv, Shutdown
    PROVE  CliInv'
  <1> USE ConnectionAssumption DEF CliInv, Shutdown, Disconnect,
          Quiet, Alive, socketVars, taskVars, flags
  <1>1. CTypeOK'
    BY DEF CTypeOK
  <1>2. Listening'
    BY DEF CTypeOK, Listening, Up
  <1>3. Waiting'
    BY DEF CTypeOK, Listening, Waiting
  <1>4. Retrying'
    BY DEF Retrying
  <1>5. QED BY <1>1, <1>2, <1>3, <1>4

LEMMA StartFailedInv ==
    ASSUME CliInv, StartFailed
    PROVE  CliInv'
  <1> USE ConnectionAssumption DEF CliInv, StartFailed, Disconnect,
          Quiet, Alive, socketVars, taskVars, flags
  <1>1. CTypeOK'
    BY DEF CTypeOK
  <1>2. Listening'
    BY DEF CTypeOK, Listening, Up
  <1>3. Waiting'
    BY DEF CTypeOK, Listening, Waiting
  <1>4. Retrying'
    BY DEF Retrying
  <1>5. QED BY <1>1, <1>2, <1>3, <1>4

LEMMA RetryFailedInv ==
    ASSUME CliInv, RetryFailed
    PROVE  CliInv'
  <1> USE ConnectionAssumption DEF CliInv, RetryFailed, Dispose, ScheduleReconnect,
          Quiet, Alive, socketVars, taskVars, flags
  <1>1. CTypeOK'
    BY DEF CTypeOK
  <1>2. Listening'
    BY DEF CTypeOK, Listening, Up
  <1>3. Waiting'
    BY DEF CTypeOK, Listening, Waiting
  <1>4. Retrying'
    BY DEF CTypeOK, Retrying, Up
  <1>5. QED BY <1>1, <1>2, <1>3, <1>4

LEMMA TimerFiresInv ==
    ASSUME CliInv, TimerFires
    PROVE  CliInv'
  <1> USE ConnectionAssumption DEF CliInv, TimerFires,
          Quiet, Alive, socketVars, taskVars, flags
  <1>1. CTypeOK'
    BY DEF CTypeOK, Retrying
  <1>2. Listening'
    BY DEF CTypeOK, Listening, Retrying, Up
  <1>3. Waiting'
    BY DEF CTypeOK, Retrying, Waiting
  <1>4. Retrying'
    <2>1. /\ ~timer' /\ inFlight' /\ ~intentional' /\ state' = "connecting"
          /\ task' = "retry" /\ at' = "tokens"
      OBVIOUS
    <2>2. ~Up'
      BY <2>1 DEF Up
    <2> QED BY <2>1, <2>2, Zenon DEF Retrying
  <1>5. QED BY <1>1, <1>2, <1>3, <1>4

LEMMA ClosedInv ==
    ASSUME CliInv, NEW s \in Sockets, Closed(s)
    PROVE  CliInv'
  <1> USE ConnectionAssumption DEF CliInv, Closed, Dispose, ScheduleReconnect,
          Quiet, Alive, socketVars, taskVars, flags
  <1>1. CTypeOK'
    BY DEF CTypeOK, Waiting
  <1>2. Listening'
    BY DEF CTypeOK, Listening, Waiting, Up
  <1>3. Waiting'
    BY DEF CTypeOK, Listening, Waiting
  <1>4. Retrying'
    BY DEF CTypeOK, Listening, Retrying, Waiting, Up
  <1>5. QED BY <1>1, <1>2, <1>3, <1>4

LEMMA CliNext == CliInv /\ [CNext]_cvars => CliInv'
  <1> SUFFICES ASSUME CliInv, [CNext]_cvars PROVE CliInv'
    OBVIOUS
  <1>1. ASSUME NEW s \in Sockets, SocketStep(s) PROVE CliInv'
    BY <1>1, TokensReadyInv, OpenInv, RefusedInv, GreetInv, AnswerInv, PeerClosesInv, ClosedInv
    DEF SocketStep
  <1>2. CASE Continuation
    BY <1>2, AwaitGreetingInv, AskForTunnelInv, EstablishedInv, StartFailedInv, RetryFailedInv
    DEF Continuation
  <1>3. CASE WaitTimeout \/ TimerFires \/ Shutdown
    BY <1>3, WaitTimeoutInv, TimerFiresInv, ShutdownInv
  <1>4. CASE UNCHANGED cvars
    BY <1>4 DEF cvars, socketVars, taskVars, flags, Alive,
                CliInv, CTypeOK, Listening, Waiting, Retrying, Up
  <1>5. QED BY <1>1, <1>2, <1>3, <1>4 DEF CNext

LEMMA CliInvariance == CSpec => []CliInv
  <1>1. CInit => CliInv
    BY CliInit
  <1>2. CliInv /\ [CNext]_cvars => CliInv'
    BY CliNext
  <1>3. QED BY <1>1, <1>2, PTL DEF CSpec

(* The variables keep their types; only a client that had its tunnel
   retries.                                                                 *)
THEOREM ConnectionTypeCorrect == CSpec => []CTypeOK
  <1>1. CliInv => CTypeOK
    BY DEF CliInv
  <1>2. CSpec => []CliInv
    BY CliInvariance
  <1>3. QED BY <1>1, <1>2, PTL

(* However attempts fail, sockets close and the shutdown comes in between, a
   client that had its tunnel and was not told to stop is never left with
   nothing to do, and its retry timer runs exactly when it says so.         *)
THEOREM NeverLeftIdle == CSpec => []KeepsTrying
  <1>1. CliInv => KeepsTrying
    BY DEF CliInv, Retrying, KeepsTrying
  <1>2. CSpec => []CliInv
    BY CliInvariance
  <1>3. QED BY <1>1, <1>2, PTL

(* Neither a connection nor a wait outlasts its socket unnoticed.           *)
THEOREM ConnectionsAreWatched == CSpec => []ConnectedIsWatched
  <1>1. CliInv => ConnectedIsWatched
    <2> SUFFICES ASSUME CliInv PROVE ConnectedIsWatched
      OBVIOUS
    <2>1. Listening
      BY DEF CliInv
    <2>2. QED BY <2>1 DEF Listening, Up, ConnectedIsWatched
  <1>2. CSpec => []CliInv
    BY CliInvariance
  <1>3. QED BY <1>1, <1>2, PTL

=============================================================================
