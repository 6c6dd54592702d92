------------------------- MODULE HttpExchangeProofs -------------------------
(***************************************************************************)
(* Proofs about HttpExchange, for any requests, sockets and limits: the    *)
(* coordinator's map holds exactly the open exchanges, memory is bounded,  *)
(* no wakeup is lost, each request gets one outcome, the true one, and     *)
(* bodies are kept: in order always, whole while the tunnel never moves.   *)
(***************************************************************************)
EXTENDS HttpExchange, FiniteSetTheorems, SequenceTheorems, TLAPS

(* Frames on their way to the server: a chunk has a number.                *)
Arriving == {f \in Frames : f.type = "chunk" => f.seq \in Chunks}

FramesOK == toServer \in [Sockets -> Seq(Arriving)]

PendingBounded == IsFiniteSet(pending) /\ Cardinality(pending) <= MaxPending

(* The flags of an exchange agree with each other, with the progress of
   forward() and with the body iterator.                                   *)
FlagsOK(r) ==
    /\ ex[r].failed => ex[r].ended /\ ex[r].start # "waiting"
    /\ ex[r].start = "rejected" => ex[r].failed
    /\ ex[r].start = "unborn" => ~ex[r].ended
    /\ fwd[r] \in {"new", "refused"} <=> ex[r].start = "unborn"
    /\ r \in pending <=> ex[r].start # "unborn" /\ ~ex[r].ended
    /\ Len(ex[r].buffer) <= MaxBuffer

IteratorOK(r) ==
    /\ pull[r] # "idle" => fwd[r] \in {"streaming", "returning"}
    /\ pull[r] = "waiting" => ex[r].buffer = << >> /\ ~ex[r].ended /\ ~ex[r].failed
    /\ pull[r] = "woken" /\ slot[r] = Done => ex[r].ended

OutcomeOK(r) ==
    /\ fwd[r] = "returned" => /\ events[r] = <<"received", "returned">>
                              /\ ex[r].ended /\ ~ex[r].failed
    /\ fwd[r] = "failed"   => events[r] = <<"received", "failed">> /\ ex[r].failed
    /\ fwd[r] = "new"      => events[r] = << >>
    /\ fwd[r] = "refused"  => events[r] \in {<< >>, <<"failed">>}
    /\ fwd[r] \in {"awaiting", "streaming", "returning", "abandoned"}
                           => events[r] = <<"received">>

RequestInv(r) == FlagsOK(r) /\ IteratorOK(r) /\ OutcomeOK(r)

Inv == TypeOK /\ FramesOK /\ PendingBounded /\ \A r \in Requests : RequestInv(r)

-----------------------------------------------------------------------------
(* What the coordinator does to one exchange, as a state of its fields.     *)
Others(r) ==
    \A q \in Requests : q # r =>
        /\ ex'[q] = ex[q] /\ pull'[q] = pull[q] /\ slot'[q] = slot[q]
        /\ q \in pending' <=> q \in pending

CoordTypes ==
    /\ ex' \in [Requests -> Exchange]
    /\ pending' \subseteq Requests
    /\ pull' \in [Requests -> {"idle", "waiting", "woken"}]
    /\ slot' \in [Requests -> Chunks \cup {Done}]

LEMMA ResolveEffect ==
    ASSUME TypeOK, NEW r \in Requests, NEW value \in Chunks \cup {Done}, Resolve(r, value)
    PROVE  /\ pull' \in [Requests -> {"idle", "waiting", "woken"}]
           /\ slot' \in [Requests -> Chunks \cup {Done}]
           /\ \A q \in Requests : q # r => pull'[q] = pull[q] /\ slot'[q] = slot[q]
           /\ pull[r] = "waiting" => pull'[r] = "woken" /\ slot'[r] = value
           /\ pull[r] # "waiting" => pull'[r] = pull[r] /\ slot'[r] = slot[r]
  BY DEF Resolve, TypeOK

(* failExchange() ends an exchange as failed, and wakes what waits for it.  *)
LEMMA FailEffect ==
    ASSUME TypeOK, NEW r \in Requests, FlagsOK(r), IteratorOK(r), FailExchange(r)
    PROVE  /\ CoordTypes /\ Others(r)
           /\ pending' = pending \ {r}
           /\ ex'[r].failed /\ ex'[r].ended
           /\ ex'[r].buffer = ex[r].buffer
           /\ ex'[r].start = IF ex[r].start = "waiting" THEN "rejected" ELSE ex[r].start
           /\ pull'[r] = IF pull[r] = "waiting" THEN "woken" ELSE pull[r]
  <1>1. CASE ex[r].failed
    <2>1. r \notin pending /\ pull[r] # "waiting" /\ ex[r].start # "waiting" /\ ex[r].ended
      BY <1>1 DEF FlagsOK, IteratorOK
    <2>2. UNCHANGED <<ex, pending, pull, slot>>
      BY <1>1 DEF FailExchange
    <2>3. QED BY <1>1, <2>1, <2>2 DEF CoordTypes, Others, TypeOK
  <1>2. CASE ~ex[r].failed
    <2> DEFINE e == [start  |-> IF ex[r].start = "waiting" THEN "rejected" ELSE ex[r].start,
                     buffer |-> ex[r].buffer, ended |-> TRUE, failed |-> TRUE]
    <2>1. ex' = [ex EXCEPT ![r] = e] /\ e \in Exchange
      BY <1>2 DEF FailExchange, TypeOK, Exchange
    <2>2. pending' = pending \ {r} /\ Resolve(r, Done)
      BY <1>2 DEF FailExchange
    <2>3. ex' \in [Requests -> Exchange] /\ ex'[r] = e
          /\ \A q \in Requests : q # r => ex'[q] = ex[q]
      BY <2>1 DEF TypeOK
    <2>4. QED BY <2>2, <2>3, ResolveEffect DEF CoordTypes, Others, TypeOK
  <1>3. QED BY <1>1, <1>2

(* An exchange that is over stays so and takes nothing more in.             *)
Closed(r) == ex[r].ended => ex'[r].ended /\ Len(ex'[r].buffer) <= Len(ex[r].buffer)

(* What every operation of the coordinator on the exchange of r achieves.   *)
Coord(r) ==
    /\ CoordTypes /\ Others(r) /\ Closed(r)
    /\ pending' \in {pending, pending \ {r}}
    /\ FlagsOK(r)' /\ IteratorOK(r)' /\ OutcomeOK(r)'

(* An open exchange, or one whose start is still awaited, may fail.         *)
LEMMA FailCoord ==
    ASSUME TypeOK, NEW r \in Requests, RequestInv(r), FailExchange(r),
           r \in pending \/ fwd[r] = "awaiting", UNCHANGED <<fwd, events>>
    PROVE  Coord(r)
  <1>1. /\ CoordTypes /\ Others(r)
        /\ pending' = pending \ {r}
        /\ ex'[r].failed /\ ex'[r].ended
        /\ ex'[r].buffer = ex[r].buffer
        /\ ex'[r].start = IF ex[r].start = "waiting" THEN "rejected" ELSE ex[r].start
        /\ pull'[r] = IF pull[r] = "waiting" THEN "woken" ELSE pull[r]
    BY FailEffect DEF RequestInv
  <1>2. ex[r].buffer \in Seq(Chunks) /\ ex[r].start # "unborn"
    BY DEF TypeOK, Exchange, RequestInv, FlagsOK
  <1>3. FlagsOK(r)'
    BY <1>1, <1>2 DEF RequestInv, FlagsOK
  <1>4. IteratorOK(r)'
    BY <1>1, <1>2 DEF RequestInv, IteratorOK
  <1>5. OutcomeOK(r)'
    BY <1>1, <1>2 DEF RequestInv, FlagsOK, OutcomeOK
  <1>6. Closed(r)
    BY <1>1, <1>2 DEF Closed
  <1>7. QED BY <1>1, <1>3, <1>4, <1>5, <1>6 DEF Coord

LEMMA StartCoord ==
    ASSUME TypeOK, NEW r \in pending, RequestInv(r), OnResponseStart(r),
           UNCHANGED <<fwd, events>>
    PROVE  Coord(r)
  <1> r \in Requests
    BY DEF TypeOK
  <1>1. CASE ex[r].start = "waiting"
    <2> DEFINE e == [start |-> "resolved", buffer |-> ex[r].buffer,
                     ended |-> ex[r].ended, failed |-> ex[r].failed]
    <2>1. ex' = [ex EXCEPT ![r] = e] /\ e \in Exchange
      BY <1>1 DEF OnResponseStart, TypeOK, Exchange
    <2>2. ex' \in [Requests -> Exchange] /\ ex'[r] = e
          /\ \A q \in Requests : q # r => ex'[q] = ex[q]
      BY <2>1 DEF TypeOK
    <2>3. UNCHANGED <<pending, pull, slot>>
      BY <1>1 DEF OnResponseStart
    <2>4. CoordTypes /\ Others(r) /\ pending' \in {pending, pending \ {r}}
      BY <2>2, <2>3 DEF CoordTypes, Others, TypeOK
    <2>5. Closed(r) /\ FlagsOK(r)'
      BY <1>1, <2>2, <2>3 DEF Closed, FlagsOK, RequestInv
    <2>6. IteratorOK(r)' /\ OutcomeOK(r)'
      BY <2>2, <2>3 DEF IteratorOK, OutcomeOK, RequestInv
    <2>7. QED BY <2>4, <2>5, <2>6 DEF Coord
  <1>2. CASE ex[r].start # "waiting"
    BY <1>2, FailCoord DEF OnResponseStart
  <1>3. QED BY <1>1, <1>2

LEMMA ChunkCoord ==
    ASSUME TypeOK, NEW r \in pending, RequestInv(r), NEW seq \in Chunks,
           OnResponseChunk(r, seq), UNCHANGED <<fwd, events>>
    PROVE  Coord(r)
  <1> r \in Requests
    BY DEF TypeOK
  <1>0. ~ex[r].ended /\ ex[r].buffer \in Seq(Chunks)
    BY DEF RequestInv, FlagsOK, TypeOK, Exchange
  <1>1. CASE pull[r] = "waiting"
    <2>1. Resolve(r, seq) /\ UNCHANGED <<ex, pending>>
      BY <1>0, <1>1 DEF OnResponseChunk
    <2>2. /\ pull' \in [Requests -> {"idle", "waiting", "woken"}]
          /\ slot' \in [Requests -> Chunks \cup {Done}]
          /\ \A q \in Requests : q # r => pull'[q] = pull[q] /\ slot'[q] = slot[q]
          /\ pull'[r] = "woken" /\ slot'[r] = seq
      BY <1>1, <2>1, ResolveEffect
    <2>3. CoordTypes /\ Others(r)
      BY <2>1, <2>2 DEF CoordTypes, Others, TypeOK
    <2>4. Closed(r) /\ FlagsOK(r)' /\ OutcomeOK(r)'
      BY <1>0, <2>1, <2>2 DEF Closed, FlagsOK, OutcomeOK, RequestInv
    <2>5. seq # Done
      BY DEF Chunks, Done
    <2>6. IteratorOK(r)'
      BY <1>1, <2>1, <2>2, <2>5 DEF IteratorOK, RequestInv
    <2>7. QED BY <2>1, <2>3, <2>4, <2>6 DEF Coord
  <1>2. CASE pull[r] # "waiting" /\ Len(ex[r].buffer) < MaxBuffer
    <2> DEFINE e == [start |-> ex[r].start, buffer |-> Append(ex[r].buffer, seq),
                     ended |-> ex[r].ended, failed |-> ex[r].failed]
    <2>1. ex' = [ex EXCEPT ![r] = e] /\ e \in Exchange
      BY <1>0, <1>2 DEF OnResponseChunk, TypeOK, Exchange
    <2>2. ex' \in [Requests -> Exchange] /\ ex'[r] = e
          /\ \A q \in Requests : q # r => ex'[q] = ex[q]
      BY <2>1 DEF TypeOK
    <2>3. UNCHANGED <<pending, pull, slot>>
      BY <1>0, <1>2 DEF OnResponseChunk
    <2>4. CoordTypes /\ Others(r)
      BY <2>2, <2>3 DEF CoordTypes, Others, TypeOK
    <2>5. Len(ex'[r].buffer) <= MaxBuffer
      BY <1>0, <1>2, <2>2, ExchangeAssumption
    <2>6. Closed(r) /\ FlagsOK(r)'
      BY <1>0, <2>2, <2>3, <2>5 DEF Closed, FlagsOK, RequestInv
    <2>7. IteratorOK(r)' /\ OutcomeOK(r)'
      BY <1>2, <2>2, <2>3 DEF IteratorOK, OutcomeOK, RequestInv
    <2>8. QED BY <2>3, <2>4, <2>6, <2>7 DEF Coord
  <1>3. CASE pull[r] # "waiting" /\ ~(Len(ex[r].buffer) < MaxBuffer)
    <2>1. FailExchange(r)
      BY <1>0, <1>3 DEF OnResponseChunk
    <2>2. QED BY <2>1, FailCoord
  <1>4. QED BY <1>1, <1>2, <1>3

LEMMA EndCoord ==
    ASSUME TypeOK, NEW r \in pending, RequestInv(r), OnResponseEnd(r),
           UNCHANGED <<fwd, events>>
    PROVE  Coord(r)
  <1> r \in Requests
    BY DEF TypeOK
  <1> DEFINE e == [start |-> ex[r].start, buffer |-> ex[r].buffer,
                   ended |-> TRUE, failed |-> ex[r].failed]
  <1>0. ~ex[r].ended
    BY DEF RequestInv, FlagsOK
  <1>1. ex' = [ex EXCEPT ![r] = e] /\ e \in Exchange
    BY <1>0 DEF OnResponseEnd, TypeOK, Exchange
  <1>2. ex' \in [Requests -> Exchange] /\ ex'[r] = e
        /\ \A q \in Requests : q # r => ex'[q] = ex[q]
    BY <1>1 DEF TypeOK
  <1>3. pending' = pending \ {r} /\ Resolve(r, Done)
    BY <1>0 DEF OnResponseEnd
  <1>4. /\ pull' \in [Requests -> {"idle", "waiting", "woken"}]
        /\ slot' \in [Requests -> Chunks \cup {Done}]
        /\ \A q \in Requests : q # r => pull'[q] = pull[q] /\ slot'[q] = slot[q]
        /\ pull[r] = "waiting" => pull'[r] = "woken" /\ slot'[r] = Done
        /\ pull[r] # "waiting" => pull'[r] = pull[r] /\ slot'[r] = slot[r]
    BY <1>3, ResolveEffect
  <1>5. CoordTypes /\ Others(r)
    BY <1>2, <1>3, <1>4 DEF CoordTypes, Others, TypeOK
  <1>6. Closed(r) /\ FlagsOK(r)'
    BY <1>0, <1>2, <1>3 DEF Closed, FlagsOK, RequestInv
  <1>7. IteratorOK(r)'
    BY <1>0, <1>2, <1>4 DEF IteratorOK, RequestInv
  <1>8. OutcomeOK(r)'
    BY <1>0, <1>2 DEF FlagsOK, OutcomeOK, RequestInv
  <1>9. QED BY <1>3, <1>5, <1>6, <1>7, <1>8 DEF Coord

-----------------------------------------------------------------------------
(* Every step concerns one request: the invariant of the others is kept.    *)
Same(q) ==
    /\ ex'[q] = ex[q] /\ pull'[q] = pull[q] /\ slot'[q] = slot[q]
    /\ fwd'[q] = fwd[q] /\ events'[q] = events[q]
    /\ q \in pending' <=> q \in pending

LEMMA OneRequest ==
    ASSUME TypeOK, NEW r \in Requests, \A q \in Requests : RequestInv(q),
           \A q \in Requests : q # r => Same(q), RequestInv(r)', Closed(r)
    PROVE  /\ \A q \in Requests : RequestInv(q)'
           /\ \A q \in Requests : Closed(q)
  <1>1. ASSUME NEW q \in Requests, q # r
        PROVE  RequestInv(q)' /\ Closed(q)
    <2>1. Same(q) /\ RequestInv(q) /\ ex[q].buffer \in Seq(Chunks)
      BY <1>1 DEF TypeOK, Exchange
    <2>2. FlagsOK(q)'
      BY <2>1 DEF Same, RequestInv, FlagsOK
    <2>3. IteratorOK(q)'
      BY <2>1 DEF Same, RequestInv, IteratorOK
    <2>4. OutcomeOK(q)'
      BY <2>1 DEF Same, RequestInv, OutcomeOK
    <2>5. Closed(q)
      BY <2>1 DEF Same, Closed
    <2>6. QED BY <2>2, <2>3, <2>4, <2>5 DEF RequestInv
  <1>2. QED BY <1>1

(* Entries leave the map one at a time, which keeps it within its limit.    *)
LEMMA PendingShrinks ==
    ASSUME PendingBounded, NEW r, pending' \in {pending, pending \ {r}}
    PROVE  PendingBounded'
  <1>1. IsFiniteSet(pending \ {r}) /\ Cardinality(pending \ {r}) <= Cardinality(pending)
    <2>1. CASE r \in pending
      <3>1. IsFiniteSet(pending) /\ Cardinality(pending) \in Nat
        BY FS_CardinalityType DEF PendingBounded
      <3>2. /\ IsFiniteSet(pending \ {r})
            /\ Cardinality(pending \ {r}) = Cardinality(pending) - 1
        BY <2>1, <3>1, FS_RemoveElement
      <3>3. QED BY <3>1, <3>2
    <2>2. CASE r \notin pending
      <3>1. pending \ {r} = pending
        BY <2>2
      <3>2. QED BY <3>1, FS_CardinalityType DEF PendingBounded
    <2>3. QED BY <2>1, <2>2
  <1>2. Cardinality(pending) \in Nat /\ Cardinality(pending \ {r}) \in Nat /\ MaxPending \in Nat
    BY <1>1, FS_CardinalityType, ExchangeAssumption DEF PendingBounded
  <1>3. QED BY <1>1, <1>2 DEF PendingBounded

LEMMA CoordInv ==
    ASSUME Inv, NEW r \in Requests, Coord(r), UNCHANGED <<fwd, events>>
    PROVE  /\ CoordTypes /\ PendingBounded'
           /\ \A q \in Requests : RequestInv(q)'
           /\ \A q \in Requests : Closed(q)
  <1>1. PendingBounded'
    BY PendingShrinks DEF Inv, Coord
  <1>2. RequestInv(r)' /\ Closed(r)
    BY DEF Coord, RequestInv
  <1>3. \A q \in Requests : q # r => Same(q)
    BY DEF Coord, Others, Same
  <1>4. QED BY <1>1, <1>2, <1>3, OneRequest DEF Inv, Coord

(* A frame that finds no pending exchange changes nothing.                  *)
LEMMA Untouched ==
    ASSUME Inv, UNCHANGED <<ex, pending, pull, slot, fwd, events>>
    PROVE  /\ PendingBounded'
           /\ \A q \in Requests : RequestInv(q)'
           /\ \A q \in Requests : Closed(q)
  <1>1. PendingBounded'
    BY DEF Inv, PendingBounded
  <1>2. ASSUME NEW q \in Requests
        PROVE  RequestInv(q)' /\ Closed(q)
    <2>1. RequestInv(q) /\ ex[q].buffer \in Seq(Chunks)
      BY DEF Inv, TypeOK, Exchange
    <2>2. RequestInv(q)'
      BY <2>1 DEF RequestInv, FlagsOK, IteratorOK, OutcomeOK
    <2>3. Closed(q)
      BY <2>1 DEF Closed
    <2>4. QED BY <2>2, <2>3
  <1>3. QED BY <1>1, <1>2

(* Frames appended to a channel keep its type.                              *)
LEMMA SentType ==
    ASSUME NEW S, NEW ch \in [Sockets -> Seq(S)], NEW g \in Sockets, NEW fs \in Seq(S)
    PROVE  Sent(ch, g, fs) \in [Sockets -> Seq(S)]
  <1>1. ch[g] \o fs \in Seq(S)
    OBVIOUS
  <1>2. QED BY <1>1 DEF Sent

LEMMA TakenType ==
    ASSUME NEW S, NEW ch \in [Sockets -> Seq(S)], NEW g \in Sockets, ch[g] # << >>
    PROVE  /\ Head(ch[g]) \in S
           /\ [ch EXCEPT ![g] = Tail(@)] \in [Sockets -> Seq(S)]
  <1>1. Head(ch[g]) \in S /\ Tail(ch[g]) \in Seq(S)
    OBVIOUS
  <1>2. QED BY <1>1

-----------------------------------------------------------------------------
(* forward(), the timer, and the frames that arrive.                        *)
LEMMA ForwardKeeps ==
    ASSUME Inv, NEW r \in Requests, Forward(r)
    PROVE  Inv' /\ \A q \in Requests : Closed(q)
  <1> DEFINE e == [start |-> "waiting", buffer |-> ex[r].buffer,
                   ended |-> ex[r].ended, failed |-> ex[r].failed]
             f == <<Frame("start", r), Frame("end", r)>>
  <1>1. TypeOK /\ RequestInv(r) /\ fwd[r] = "new" /\ tunnelSock \in Sockets
    BY DEF Inv, Forward, TypeOK
  <1>2. ex' = [ex EXCEPT ![r] = e] /\ e \in Exchange
    <2>1. /\ ex' = [ex EXCEPT ![r].start = "waiting"]
          /\ ex \in [Requests -> Exchange] /\ ex[r] \in Exchange
      BY <1>1 DEF Forward, TypeOK
    <2>2. [ex[r] EXCEPT !.start = "waiting"] = e
      BY <2>1 DEF Exchange
    <2>3. ex' = [ex EXCEPT ![r] = e]
      BY <2>1, <2>2
    <2>4. e \in Exchange
      BY <2>1 DEF Exchange
    <2>5. QED BY <2>3, <2>4
  <1>3. ex' \in [Requests -> Exchange] /\ ex'[r] = e
        /\ \A q \in Requests : q # r => ex'[q] = ex[q]
    BY <1>1, <1>2 DEF TypeOK
  <1>4. f \in Seq(Frames)
    BY ExchangeAssumption DEF Frame, Frames
  <1>5. toCli' \in [Sockets -> Seq(Frames)]
    BY <1>1, <1>4, SentType DEF Forward, TypeOK
  <1>6. events' \in [Requests -> Seq({"received", "returned", "failed"})]
        /\ events'[r] = <<"received">>
        /\ \A q \in Requests : q # r => events'[q] = events[q]
    <2>1. events[r] = << >> /\ <<"received">> \in Seq({"received", "returned", "failed"})
      BY <1>1 DEF RequestInv, OutcomeOK
    <2>2. events' = [events EXCEPT ![r] = <<"received">>]
      BY <1>1, <2>1 DEF Forward, TypeOK
    <2>3. QED BY <1>1, <2>1, <2>2 DEF TypeOK
  <1>7. TypeOK'
    BY <1>1, <1>3, <1>5, <1>6 DEF Forward, TypeOK, cliVars
  <1>8. FramesOK'
    BY DEF Inv, FramesOK, Forward
  <1>9. PendingBounded'
    <2>1. /\ IsFiniteSet(pending \cup {r}) /\ r \notin pending
          /\ Cardinality(pending \cup {r}) = Cardinality(pending) + 1
      BY <1>1, FS_AddElement DEF Inv, PendingBounded, RequestInv, FlagsOK
    <2>2. Cardinality(pending) \in Nat /\ Cardinality(pending) < MaxPending
      BY FS_CardinalityType DEF Inv, PendingBounded, Forward
    <2>3. QED BY <2>1, <2>2, ExchangeAssumption DEF Forward, PendingBounded
  <1>10. /\ ex[r].start = "unborn" /\ ~ex[r].ended /\ ~ex[r].failed
         /\ fwd'[r] = "awaiting" /\ pull'[r] = "idle" /\ pending' = pending \cup {r}
         /\ Len(ex[r].buffer) <= MaxBuffer
    BY <1>1 DEF Forward, RequestInv, FlagsOK, IteratorOK, TypeOK
  <1>11. RequestInv(r)' /\ Closed(r)
    BY <1>3, <1>6, <1>10 DEF RequestInv, FlagsOK, IteratorOK, OutcomeOK, Closed
  <1>12. \A q \in Requests : q # r => Same(q)
    BY <1>1, <1>3, <1>6 DEF Same, Forward, TypeOK
  <1>13. QED BY <1>1, <1>7, <1>8, <1>9, <1>11, <1>12, OneRequest DEF Inv

LEMMA DeliverKeeps ==
    ASSUME Inv, NEW g \in Sockets, Deliver(g)
    PROVE  Inv' /\ \A q \in Requests : Closed(q)
  <1> DEFINE f == Head(toServer[g])
             r == f.req
  <1>1. /\ f \in Arriving /\ f \in Frames
        /\ toServer' \in [Sockets -> Seq(Arriving)]
        /\ toServer' \in [Sockets -> Seq(Frames)]
    BY TakenType DEF Deliver, Inv, FramesOK, TypeOK
  <1>2. r \in Requests /\ (f.type = "chunk" => f.seq \in Chunks)
    BY <1>1 DEF Arriving, Frames
  <1>3. UNCHANGED <<fwd, events>>
    BY DEF Deliver
  <1> HIDE DEF f, r
  <1>4. UNCHANGED <<ex, pending, pull, slot>> \/ Coord(r)
    <2>1. CASE UNCHANGED <<ex, pending, pull, slot>>
      BY <2>1
    <2>2. CASE ~UNCHANGED <<ex, pending, pull, slot>>
      <3>0. r \in pending
        BY <2>2 DEF Deliver, f, r
      <3>1. TypeOK /\ RequestInv(r) /\ r \in pending
        BY <1>2, <3>0 DEF Inv
      <3>2. CASE f.type = "start"
        <4>1. OnResponseStart(r)
          BY <2>2, <3>2 DEF Deliver, f, r
        <4>2. QED BY <1>3, <3>1, <4>1, StartCoord
      <3>3. CASE f.type = "chunk"
        <4>1. OnResponseChunk(r, f.seq)
          BY <2>2, <3>3 DEF Deliver, f, r
        <4>2. QED BY <1>2, <1>3, <3>1, <3>3, <4>1, ChunkCoord
      <3>4. CASE f.type = "end"
        <4>1. OnResponseEnd(r)
          BY <2>2, <3>4 DEF Deliver, f, r
        <4>2. QED BY <1>3, <3>1, <4>1, EndCoord
      <3>5. CASE f.type \notin {"start", "chunk", "end"}
        <4>1. FailExchange(r)
          BY <2>2, <3>5 DEF Deliver, f, r
        <4>2. QED BY <1>2, <1>3, <3>1, <4>1, FailCoord
      <3>6. QED BY <3>2, <3>3, <3>4, <3>5
    <2>3. QED BY <2>1, <2>2
  <1>5. /\ CoordTypes /\ PendingBounded'
        /\ \A q \in Requests : RequestInv(q)'
        /\ \A q \in Requests : Closed(q)
    <2>1. CASE Coord(r)
      BY <1>2, <1>3, <2>1, CoordInv
    <2>2. CASE UNCHANGED <<ex, pending, pull, slot>>
      <3>1. CoordTypes
        BY <2>2 DEF CoordTypes, Inv, TypeOK
      <3>2. QED BY <1>3, <2>2, <3>1, Untouched
    <2>3. QED BY <1>4, <2>1, <2>2
  <1>6. TypeOK'
    BY <1>1, <1>5 DEF Deliver, Inv, TypeOK, CoordTypes, cliVars
  <1>7. QED BY <1>1, <1>5, <1>6 DEF Inv, FramesOK

LEMMA TimeoutKeeps ==
    ASSUME Inv, NEW r \in Requests, Timeout(r)
    PROVE  Inv' /\ \A q \in Requests : Closed(q)
  <1>1. TypeOK /\ RequestInv(r) /\ UNCHANGED <<fwd, events>>
    BY DEF Inv, Timeout
  <1>2. FailExchange(r) /\ fwd[r] = "awaiting"
    BY DEF Timeout
  <1>3. /\ CoordTypes /\ PendingBounded'
        /\ \A q \in Requests : RequestInv(q)'
        /\ \A q \in Requests : Closed(q)
    BY <1>1, <1>2, FailCoord, CoordInv
  <1>4. toCli' \in [Sockets -> Seq(Frames)]
    <2>1. CASE sock[r] \in Sockets
      <3>1. <<Frame("cancel", r)>> \in Seq(Frames)
        BY ExchangeAssumption DEF Frame, Frames
      <3>2. QED BY <1>1, <2>1, <3>1, SentType DEF Timeout, TypeOK
    <2>2. CASE sock[r] \notin Sockets
      BY <1>1, <2>2 DEF Timeout, TypeOK, Sent
    <2>3. QED BY <2>1, <2>2
  <1>5. TypeOK'
    BY <1>1, <1>3, <1>4 DEF Timeout, TypeOK, CoordTypes, cliVars
  <1>6. QED BY <1>3, <1>5 DEF Inv, FramesOK, Timeout

-----------------------------------------------------------------------------
(* The rest of forward() and the body iterator.                             *)
ServerTypes ==
    /\ fwd' \in [Requests -> {"new", "refused", "awaiting", "streaming",
                              "returning", "returned", "failed", "abandoned"}]
    /\ events' \in [Requests -> Seq({"received", "returned", "failed"})]
    /\ received' \in [Requests -> Seq(Chunks)]

Elsewhere(r) == \A q \in Requests : q # r => fwd'[q] = fwd[q] /\ events'[q] = events[q]

LEMMA AppendPair ==
    ASSUME NEW S, NEW a \in S, NEW b \in S
    PROVE  Append(<<a>>, b) = <<a, b>>
  <1> DEFINE s == Append(<<a>>, b)
             t == <<a, b>>
  <1>1. <<a>> \in Seq(S) /\ t \in Seq(S)
    OBVIOUS
  <1>2. s \in Seq(S) /\ Len(s) = 2 /\ s[1] = a /\ s[2] = b
    BY <1>1
  <1>3. Len(t) = 2 /\ t[1] = a /\ t[2] = b
    OBVIOUS
  <1> HIDE DEF s, t
  <1>4. \A i \in 1..Len(s) : s[i] = t[i]
    BY <1>2, <1>3
  <1>5. s = t
    BY <1>1, <1>2, <1>3, <1>4, SeqEqual
  <1>6. QED BY <1>5 DEF s, t

LEMMA PublishEffect ==
    ASSUME TypeOK, NEW r \in Requests, NEW outcome \in {"returned", "failed"},
           events' = [events EXCEPT ![r] = Append(@, outcome)]
    PROVE  /\ events' \in [Requests -> Seq({"received", "returned", "failed"})]
           /\ events[r] = << >> => events'[r] = <<outcome>>
           /\ events[r] = <<"received">> => events'[r] = <<"received", outcome>>
           /\ \A q \in Requests : q # r => events'[q] = events[q]
  <1>1. events \in [Requests -> Seq({"received", "returned", "failed"})]
    BY DEF TypeOK
  <1>2. Append(events[r], outcome) \in Seq({"received", "returned", "failed"})
    BY <1>1
  <1>3. /\ Append(<< >>, outcome) = <<outcome>>
        /\ Append(<<"received">>, outcome) = <<"received", outcome>>
    <2> DEFINE S == {"received", "returned", "failed"}
    <2>1. "received" \in S /\ outcome \in S
      OBVIOUS
    <2> HIDE DEF S
    <2>2. Append(<<"received">>, outcome) = <<"received", outcome>>
      BY <2>1, AppendPair
    <2>3. QED BY <2>2
  <1>4. /\ events'[r] = Append(events[r], outcome)
        /\ \A q \in Requests : q # r => events'[q] = events[q]
        /\ events' \in [Requests -> Seq({"received", "returned", "failed"})]
    BY <1>1, <1>2
  <1>5. QED BY <1>3, <1>4

LEMMA FinishedEffect ==
    ASSUME TypeOK, NEW r \in Requests, NEW outcome \in {"returned", "failed"},
           events[r] = <<"received">>, Finished(r, outcome)
    PROVE  /\ ServerTypes /\ Elsewhere(r)
           /\ fwd'[r] = outcome /\ events'[r] = <<"received", outcome>>
  <1>1. fwd' = [fwd EXCEPT ![r] = outcome] /\ received' = received
    BY DEF Finished
  <1>2. /\ events' \in [Requests -> Seq({"received", "returned", "failed"})]
        /\ events'[r] = <<"received", outcome>>
        /\ \A q \in Requests : q # r => events'[q] = events[q]
    BY PublishEffect DEF Finished
  <1>3. QED BY <1>1, <1>2 DEF ServerTypes, Elsewhere, TypeOK

LEMMA HandedEffect ==
    ASSUME TypeOK, NEW r \in Requests, NEW chunk \in Chunks, Handed(r, chunk)
    PROVE  /\ ServerTypes /\ Elsewhere(r) /\ events' = events
           /\ fwd'[r] = IF fwd[r] = "returning" THEN "abandoned" ELSE fwd[r]
  <1>1. received \in [Requests -> Seq(Chunks)]
    BY DEF TypeOK
  <1>2. Append(received[r], chunk) \in Seq(Chunks)
    BY <1>1
  <1>3. received' \in [Requests -> Seq(Chunks)]
    BY <1>1, <1>2 DEF Handed
  <1>4. fwd' = [fwd EXCEPT ![r] = IF @ = "returning" THEN "abandoned" ELSE @]
        /\ events' = events
    BY DEF Handed
  <1>5. QED BY <1>3, <1>4 DEF ServerTypes, Elsewhere, TypeOK

LEMMA RefusedKeeps ==
    ASSUME Inv, NEW r \in Requests, ForwardOverLimit(r) \/ ForwardNotOpen(r)
    PROVE  Inv' /\ \A q \in Requests : Closed(q)
  <1>1. /\ TypeOK /\ RequestInv(r) /\ fwd[r] = "new"
        /\ fwd' = [fwd EXCEPT ![r] = "refused"]
        /\ UNCHANGED <<netVars, cliVars, ex, pending, pull, slot, sock, received>>
    BY DEF Inv, ForwardOverLimit, ForwardNotOpen
  <1>2. /\ events' \in [Requests -> Seq({"received", "returned", "failed"})]
        /\ events'[r] \in {<< >>, <<"failed">>}
        /\ \A q \in Requests : q # r => events'[q] = events[q]
    <2>1. events[r] = << >>
      BY <1>1 DEF RequestInv, OutcomeOK
    <2>2. CASE ForwardOverLimit(r)
      BY <1>1, <2>1, <2>2 DEF ForwardOverLimit, TypeOK
    <2>3. CASE ForwardNotOpen(r)
      BY <1>1, <2>1, <2>3, PublishEffect DEF ForwardNotOpen
    <2>4. QED BY <2>2, <2>3
  <1>3. TypeOK'
    BY <1>1, <1>2 DEF TypeOK, netVars, cliVars
  <1>4. FramesOK' /\ PendingBounded'
    BY <1>1 DEF Inv, FramesOK, PendingBounded, netVars
  <1>5. FlagsOK(r)' /\ IteratorOK(r)' /\ fwd'[r] = "refused"
    BY <1>1 DEF RequestInv, FlagsOK, IteratorOK, TypeOK
  <1>6. RequestInv(r)'
    BY <1>2, <1>5 DEF RequestInv, OutcomeOK
  <1>7. \A q \in Requests : q # r => Same(q)
    BY <1>1, <1>2 DEF Same, TypeOK
  <1>8. Closed(r)
    BY <1>1 DEF Closed, RequestInv, FlagsOK
  <1>9. QED BY <1>1, <1>3, <1>4, <1>6, <1>7, <1>8, OneRequest DEF Inv

LEMMA SettledKeeps ==
    ASSUME Inv, NEW r \in Requests, StartSettled(r)
    PROVE  Inv' /\ \A q \in Requests : Closed(q)
  <1>1. /\ TypeOK /\ RequestInv(r) /\ fwd[r] = "awaiting"
        /\ UNCHANGED <<netVars, cliVars, ex, pull, slot, sock, received>>
    BY DEF Inv, StartSettled
  <1>2. events[r] = <<"received">> /\ pull[r] = "idle" /\ ex[r].buffer \in Seq(Chunks)
    BY <1>1 DEF RequestInv, OutcomeOK, IteratorOK, TypeOK, Exchange
  <1>3. CASE ex[r].start = "resolved" /\ fwd' = [fwd EXCEPT ![r] = "streaming"]
             /\ UNCHANGED <<pending, events>>
    <2>1. TypeOK'
      BY <1>1, <1>3 DEF TypeOK, netVars, cliVars
    <2>2. FramesOK' /\ PendingBounded'
      BY <1>1, <1>3 DEF Inv, FramesOK, PendingBounded, netVars
    <2>3. fwd'[r] = "streaming" /\ \A q \in Requests : q # r => Same(q)
      BY <1>1, <1>3 DEF Same, TypeOK
    <2>4. FlagsOK(r)' /\ IteratorOK(r)' /\ OutcomeOK(r)' /\ Closed(r)
      BY <1>1, <1>2, <1>3, <2>3 DEF RequestInv, FlagsOK, IteratorOK, OutcomeOK, Closed
    <2>5. RequestInv(r)'
      BY <2>4 DEF RequestInv
    <2>6. QED BY <1>1, <2>1, <2>2, <2>3, <2>4, <2>5, OneRequest DEF Inv
  <1>4. CASE ex[r].start = "rejected" /\ fwd' = [fwd EXCEPT ![r] = "failed"]
             /\ pending' = pending \ {r}
             /\ events' = [events EXCEPT ![r] = Append(@, "failed")]
    <2>1. /\ events' \in [Requests -> Seq({"received", "returned", "failed"})]
          /\ events'[r] = <<"received", "failed">>
          /\ \A q \in Requests : q # r => events'[q] = events[q]
      BY <1>1, <1>2, <1>4, PublishEffect
    <2>2. ex[r].failed /\ ex[r].ended /\ pending' = pending
      BY <1>1, <1>4 DEF RequestInv, FlagsOK
    <2>3. TypeOK'
      BY <1>1, <1>4, <2>1, <2>2 DEF TypeOK, netVars, cliVars
    <2>4. FramesOK' /\ PendingBounded'
      BY <1>1, <2>2 DEF Inv, FramesOK, PendingBounded, netVars
    <2>5. fwd'[r] = "failed" /\ \A q \in Requests : q # r => Same(q)
      BY <1>1, <1>4, <2>1, <2>2 DEF Same, TypeOK
    <2>6. FlagsOK(r)' /\ IteratorOK(r)' /\ OutcomeOK(r)' /\ Closed(r)
      BY <1>1, <1>2, <2>1, <2>2, <2>5 DEF RequestInv, FlagsOK, IteratorOK, OutcomeOK, Closed
    <2>7. RequestInv(r)'
      BY <2>6 DEF RequestInv
    <2>8. QED BY <1>1, <2>3, <2>4, <2>5, <2>6, <2>7, OneRequest DEF Inv
  <1>5. QED BY <1>3, <1>4 DEF StartSettled

LEMMA AbandonKeeps ==
    ASSUME Inv, NEW r \in Requests, Abandon(r)
    PROVE  Inv' /\ \A q \in Requests : Closed(q)
  <1>1. /\ TypeOK /\ RequestInv(r) /\ fwd[r] = "streaming"
        /\ UNCHANGED <<netVars, cliVars, ex, pending, pull, slot, sock, received, events>>
        /\ fwd' = [fwd EXCEPT ![r] = IF pull[r] = "idle" THEN "abandoned" ELSE "returning"]
    BY DEF Inv, Abandon
  <1>2. TypeOK'
    BY <1>1 DEF TypeOK, netVars, cliVars
  <1>3. FramesOK' /\ PendingBounded'
    BY <1>1 DEF Inv, FramesOK, PendingBounded, netVars
  <1>4. /\ fwd'[r] = IF pull[r] = "idle" THEN "abandoned" ELSE "returning"
        /\ ex[r].buffer \in Seq(Chunks)
        /\ \A q \in Requests : q # r => Same(q)
    BY <1>1 DEF Same, TypeOK, Exchange
  <1>5. FlagsOK(r)' /\ IteratorOK(r)' /\ OutcomeOK(r)' /\ Closed(r)
    BY <1>1, <1>4 DEF RequestInv, FlagsOK, IteratorOK, OutcomeOK, Closed
  <1>6. RequestInv(r)'
    BY <1>5 DEF RequestInv
  <1>7. QED BY <1>1, <1>2, <1>3, <1>4, <1>5, <1>6, OneRequest DEF Inv

LEMMA WakeKeeps ==
    ASSUME Inv, NEW r \in Requests, Wake(r)
    PROVE  Inv' /\ \A q \in Requests : Closed(q)
  <1>1. /\ TypeOK /\ RequestInv(r) /\ pull[r] = "woken"
        /\ pull' = [pull EXCEPT ![r] = "idle"]
        /\ UNCHANGED <<netVars, cliVars, ex, pending, slot, sock>>
    BY DEF Inv, Wake
  <1>2. /\ fwd[r] \in {"streaming", "returning"} /\ events[r] = <<"received">>
        /\ slot[r] \in Chunks \cup {Done} /\ ex[r].buffer \in Seq(Chunks)
        /\ slot[r] = Done => ex[r].ended
    BY <1>1 DEF RequestInv, OutcomeOK, IteratorOK, TypeOK, Exchange
  <1>3. /\ ServerTypes /\ Elsewhere(r)
        /\ \/ fwd'[r] = "failed" /\ events'[r] = <<"received", "failed">> /\ ex[r].failed
           \/ /\ fwd'[r] = "returned" /\ events'[r] = <<"received", "returned">>
              /\ ex[r].ended /\ ~ex[r].failed
           \/ fwd'[r] \in {"streaming", "abandoned"} /\ events'[r] = <<"received">>
    <2>1. CASE ex[r].failed
      BY <1>1, <1>2, <2>1, FinishedEffect DEF Wake
    <2>2. CASE ~ex[r].failed /\ slot[r] = Done
      BY <1>1, <1>2, <2>2, FinishedEffect DEF Wake
    <2>3. CASE ~ex[r].failed /\ slot[r] # Done
      BY <1>1, <1>2, <2>3, HandedEffect DEF Wake
    <2>4. QED BY <2>1, <2>2, <2>3
  <1>4. TypeOK'
    BY <1>1, <1>3 DEF TypeOK, ServerTypes, netVars, cliVars
  <1>5. FramesOK' /\ PendingBounded'
    BY <1>1 DEF Inv, FramesOK, PendingBounded, netVars
  <1>6. pull'[r] = "idle" /\ \A q \in Requests : q # r => Same(q)
    BY <1>1, <1>3 DEF Same, Elsewhere, TypeOK
  <1>7. FlagsOK(r)' /\ Closed(r)
    BY <1>1, <1>2, <1>3 DEF RequestInv, FlagsOK, Closed
  <1>8. IteratorOK(r)' /\ OutcomeOK(r)'
    BY <1>1, <1>3, <1>6 DEF IteratorOK, OutcomeOK
  <1>9. RequestInv(r)'
    BY <1>7, <1>8 DEF RequestInv
  <1>10. QED BY <1>1, <1>4, <1>5, <1>6, <1>7, <1>9, OneRequest DEF Inv

LEMMA PullKeeps ==
    ASSUME Inv, NEW r \in Requests, Pull(r)
    PROVE  Inv' /\ \A q \in Requests : Closed(q)
  <1>1. /\ TypeOK /\ RequestInv(r) /\ fwd[r] = "streaming" /\ pull[r] = "idle"
        /\ UNCHANGED <<netVars, cliVars, pending, slot, sock>>
    BY DEF Inv, Pull
  <1>2. /\ events[r] = <<"received">> /\ ex[r].buffer \in Seq(Chunks)
        /\ ex \in [Requests -> Exchange] /\ ex[r] \in Exchange
    BY <1>1 DEF RequestInv, OutcomeOK, TypeOK, Exchange
  <1>3. /\ ServerTypes /\ Elsewhere(r)
        /\ ex' \in [Requests -> Exchange]
        /\ pull' \in [Requests -> {"idle", "waiting", "woken"}]
        /\ \A q \in Requests : q # r => ex'[q] = ex[q] /\ pull'[q] = pull[q]
        /\ FlagsOK(r)' /\ IteratorOK(r)' /\ OutcomeOK(r)' /\ Closed(r)
    <2>1. CASE ex[r].failed /\ Finished(r, "failed") /\ UNCHANGED <<ex, pull>>
      <3>1. /\ ServerTypes /\ Elsewhere(r)
            /\ fwd'[r] = "failed" /\ events'[r] = <<"received", "failed">>
        BY <1>1, <1>2, <2>1, FinishedEffect
      <3>2. FlagsOK(r)' /\ Closed(r)
        BY <1>1, <1>2, <2>1, <3>1 DEF RequestInv, FlagsOK, Closed
      <3>3. IteratorOK(r)' /\ OutcomeOK(r)'
        BY <1>1, <2>1, <3>1 DEF IteratorOK, OutcomeOK
      <3>4. QED BY <1>1, <1>2, <2>1, <3>1, <3>2, <3>3 DEF TypeOK
    <2>2. CASE ~ex[r].failed /\ ex[r].buffer # << >> /\ Handed(r, Head(ex[r].buffer))
               /\ ex' = [ex EXCEPT ![r].buffer = Tail(@)] /\ UNCHANGED pull
      <3> DEFINE rest == Tail(ex[r].buffer)
                 e == [start |-> ex[r].start, buffer |-> rest,
                       ended |-> ex[r].ended, failed |-> ex[r].failed]
      <3>1. /\ Head(ex[r].buffer) \in Chunks /\ rest \in Seq(Chunks)
            /\ Len(rest) <= Len(ex[r].buffer)
            /\ Len(rest) \in Nat /\ Len(ex[r].buffer) \in Nat
        BY <1>2, <2>2
      <3> HIDE DEF rest
      <3>2. /\ ServerTypes /\ Elsewhere(r)
            /\ events'[r] = <<"received">> /\ fwd'[r] = "streaming"
        BY <1>1, <1>2, <2>2, <3>1, HandedEffect
      <3>3. [ex[r] EXCEPT !.buffer = rest] = e /\ e \in Exchange
        BY <1>2, <3>1 DEF Exchange
      <3>4. ex' = [ex EXCEPT ![r] = [ex[r] EXCEPT !.buffer = rest]]
        BY <1>2, <2>2 DEF rest
      <3>5. ex' \in [Requests -> Exchange] /\ ex'[r] = e
            /\ \A q \in Requests : q # r => ex'[q] = ex[q]
        BY <1>2, <3>3, <3>4
      <3>6. Len(rest) <= MaxBuffer
        BY <1>1, <3>1, ExchangeAssumption DEF RequestInv, FlagsOK
      <3>7. FlagsOK(r)' /\ Closed(r)
        BY <1>1, <3>1, <3>2, <3>5, <3>6 DEF RequestInv, FlagsOK, Closed
      <3>8. IteratorOK(r)' /\ OutcomeOK(r)'
        BY <1>1, <2>2, <3>2 DEF IteratorOK, OutcomeOK
      <3>9. QED BY <1>1, <2>2, <3>2, <3>5, <3>7, <3>8 DEF TypeOK
    <2>3. CASE ~ex[r].failed /\ ex[r].ended /\ Finished(r, "returned")
               /\ UNCHANGED <<ex, pull>>
      <3>1. /\ ServerTypes /\ Elsewhere(r)
            /\ fwd'[r] = "returned" /\ events'[r] = <<"received", "returned">>
        BY <1>1, <1>2, <2>3, FinishedEffect
      <3>2. FlagsOK(r)' /\ Closed(r)
        BY <1>1, <1>2, <2>3, <3>1 DEF RequestInv, FlagsOK, Closed
      <3>3. IteratorOK(r)' /\ OutcomeOK(r)'
        BY <1>1, <2>3, <3>1 DEF IteratorOK, OutcomeOK
      <3>4. QED BY <1>1, <1>2, <2>3, <3>1, <3>2, <3>3 DEF TypeOK
    <2>4. CASE ~ex[r].failed /\ ex[r].buffer = << >> /\ ~ex[r].ended
               /\ pull' = [pull EXCEPT ![r] = "waiting"]
               /\ UNCHANGED <<ex, fwd, events, received>>
      <3>1. /\ pull'[r] = "waiting" /\ pull' \in [Requests -> {"idle", "waiting", "woken"}]
            /\ \A q \in Requests : q # r => pull'[q] = pull[q]
        BY <1>1, <2>4 DEF TypeOK
      <3>2. ServerTypes /\ Elsewhere(r)
        BY <1>1, <2>4 DEF ServerTypes, Elsewhere, TypeOK
      <3>3. FlagsOK(r)' /\ Closed(r)
        BY <1>1, <1>2, <2>4 DEF RequestInv, FlagsOK, Closed
      <3>4. IteratorOK(r)' /\ OutcomeOK(r)'
        BY <1>1, <2>4, <3>1 DEF RequestInv, IteratorOK, OutcomeOK
      <3>5. QED BY <1>2, <2>4, <3>1, <3>2, <3>3, <3>4
    <2>5. QED BY <2>1, <2>2, <2>3, <2>4 DEF Pull
  <1>4. TypeOK'
    BY <1>1, <1>3 DEF TypeOK, ServerTypes, netVars, cliVars
  <1>5. FramesOK' /\ PendingBounded'
    BY <1>1 DEF Inv, FramesOK, PendingBounded, netVars
  <1>6. \A q \in Requests : q # r => Same(q)
    BY <1>1, <1>3 DEF Same, Elsewhere
  <1>7. RequestInv(r)'
    BY <1>3 DEF RequestInv
  <1>8. QED BY <1>1, <1>3, <1>4, <1>5, <1>6, <1>7, OneRequest DEF Inv

-----------------------------------------------------------------------------
(* The CLI and the connections: the server's part is untouched.             *)
LEMMA ServerUntouched ==
    ASSUME Inv, TypeOK', FramesOK', UNCHANGED serverVars
    PROVE  Inv' /\ \A q \in Requests : Closed(q)
  <1>1. UNCHANGED <<ex, pending, pull, slot, fwd, events>>
    BY DEF serverVars
  <1>2. QED BY <1>1, Untouched DEF Inv

LEMMA CliReceiveKeeps ==
    ASSUME Inv, NEW g \in Sockets, CliReceive(g)
    PROVE  Inv' /\ \A q \in Requests : Closed(q)
  <1> DEFINE f == Head(toCli[g])
             S == {"idle", "buffered", "proxying", "streaming", "done"}
  <1>1. /\ TypeOK /\ f \in Frames /\ toCli' \in [Sockets -> Seq(Frames)]
        /\ UNCHANGED <<link, toServer, tunnelSock, cliSock, kept, serverVars, sent>>
    BY TakenType DEF CliReceive, Inv, TypeOK
  <1>2. cli' \in [Requests -> S]
    <2> DEFINE c == CASE f.type = "start"                                -> "buffered"
                      [] f.type = "end" /\ cli[f.req] = "buffered"       -> "proxying"
                      [] f.type = "cancel" /\ cli[f.req] # "idle"        -> "done"
                      [] OTHER                                           -> cli[f.req]
    <2>1. f.req \in Requests /\ cli \in [Requests -> S]
      BY <1>1 DEF Frames, TypeOK
    <2>2. cli' = [cli EXCEPT ![f.req] = c]
      BY DEF CliReceive
    <2>3. c \in S
      BY <2>1
    <2> HIDE DEF c, f
    <2>4. QED BY <2>1, <2>2, <2>3
  <1>3. TypeOK'
    BY <1>1, <1>2 DEF TypeOK, serverVars
  <1>4. FramesOK'
    BY <1>1 DEF Inv, FramesOK
  <1>5. QED BY <1>1, <1>3, <1>4, ServerUntouched

LEMMA CliStepKeeps ==
    ASSUME Inv, NEW r \in Requests, CliStep(r)
    PROVE  Inv' /\ \A q \in Requests : Closed(q)
  <1>1. TypeOK /\ FramesOK
    BY DEF Inv
  <1>2. ASSUME NEW f \in Arriving, CliSend(f)
        PROVE  /\ toServer' \in [Sockets -> Seq(Frames)] /\ FramesOK'
               /\ UNCHANGED <<link, toCli, tunnelSock, cliSock, kept, serverVars>>
    <2>1. /\ cliSock \in Sockets /\ <<f>> \in Seq(Arriving) /\ <<f>> \in Seq(Frames)
          /\ toServer' = Sent(toServer, cliSock, <<f>>)
      BY <1>1, <1>2 DEF CliSend, TypeOK, Arriving
    <2>2. toServer' \in [Sockets -> Seq(Frames)]
      BY <1>1, <2>1, SentType DEF TypeOK
    <2>3. toServer' \in [Sockets -> Seq(Arriving)]
      BY <1>1, <2>1, SentType DEF FramesOK
    <2>4. QED BY <1>2, <2>2, <2>3 DEF CliSend, FramesOK
  <1>3. \A t \in {"start", "end", "error"} : Frame(t, r) \in Arriving
    BY ExchangeAssumption DEF Frame, Arriving, Frames
  <1>4. /\ toServer' \in [Sockets -> Seq(Frames)] /\ FramesOK'
        /\ UNCHANGED <<link, toCli, tunnelSock, cliSock, kept, serverVars>>
        /\ cli' \in [Requests -> {"idle", "buffered", "proxying", "streaming", "done"}]
        /\ sent' \in [Requests -> 0..MaxChunks]
    <2>1. CASE CliRespond(r)
      BY <1>1, <1>2, <1>3, <2>1 DEF CliRespond, TypeOK
    <2>2. CASE CliChunk(r)
      <3> DEFINE f == [type |-> "chunk", req |-> r, seq |-> sent[r] + 1]
      <3>1. sent[r] \in 0..MaxChunks /\ sent[r] < MaxChunks
        BY <1>1, <2>2 DEF CliChunk, TypeOK
      <3>2. sent[r] + 1 \in Chunks /\ sent[r] + 1 \in 0..MaxChunks
        BY <3>1, ExchangeAssumption DEF Chunks
      <3>3. f \in Arriving
        BY <3>2 DEF Arriving, Frames
      <3>4. CliSend(f) /\ sent' = [sent EXCEPT ![r] = sent[r] + 1] /\ UNCHANGED cli
        BY <2>2 DEF CliChunk
      <3> HIDE DEF f
      <3>5. QED BY <1>1, <1>2, <3>2, <3>3, <3>4 DEF TypeOK
    <2>3. CASE CliEnd(r)
      BY <1>1, <1>2, <1>3, <2>3 DEF CliEnd, TypeOK
    <2>4. CASE CliFail(r)
      BY <1>1, <1>2, <1>3, <2>4 DEF CliFail, TypeOK
    <2>5. CASE CliThrow(r)
      BY <1>1, <2>5 DEF CliThrow, TypeOK, FramesOK, netVars, serverVars
    <2>6. QED BY <2>1, <2>2, <2>3, <2>4, <2>5 DEF CliStep
  <1>5. TypeOK'
    BY <1>1, <1>4 DEF TypeOK, serverVars
  <1>6. QED BY <1>4, <1>5, ServerUntouched

LEMMA ConnectionKeeps ==
    ASSUME Inv, NEW g \in Sockets,
           Break(g) \/ ServerDetach(g) \/ CliDetect(g) \/ Reconnect(g)
    PROVE  Inv' /\ \A q \in Requests : Closed(q)
  <1>1. TypeOK /\ FramesOK /\ UNCHANGED <<serverVars, cliVars>>
    BY DEF Inv, Break, ServerDetach, CliDetect, Reconnect
  <1>2. /\ toCli' \in [Sockets -> Seq(Frames)]
        /\ toServer' \in [Sockets -> Seq(Frames)]
        /\ toServer' \in [Sockets -> Seq(Arriving)]
    <2>1. CASE Break(g)
      <3>1. << >> \in Seq(Frames) /\ << >> \in Seq(Arriving)
        OBVIOUS
      <3>2. QED BY <1>1, <2>1, <3>1 DEF Break, TypeOK, FramesOK
    <2>2. CASE ServerDetach(g) \/ CliDetect(g) \/ Reconnect(g)
      BY <1>1, <2>2 DEF ServerDetach, CliDetect, Reconnect, TypeOK, FramesOK
    <2>3. QED BY <2>1, <2>2
  <1>3. /\ link' \in [Sockets -> {"unused", "up", "down"}]
        /\ tunnelSock' \in Sockets \cup {None} /\ cliSock' \in Sockets \cup {None}
        /\ kept' \in BOOLEAN
    BY <1>1 DEF Break, ServerDetach, CliDetect, Reconnect, TypeOK
  <1>4. TypeOK'
    BY <1>1, <1>2, <1>3 DEF TypeOK, serverVars, cliVars
  <1>5. FramesOK'
    BY <1>2 DEF FramesOK
  <1>6. QED BY <1>1, <1>4, <1>5, ServerUntouched

-----------------------------------------------------------------------------
(* The invariant, and what follows from it.                                 *)
LEMMA InitInv == Init => Inv
  <1> SUFFICES ASSUME Init PROVE Inv
    OBVIOUS
  <1>1. << >> \in Seq(Frames) /\ << >> \in Seq(Arriving) /\ << >> \in Seq(Chunks)
        /\ << >> \in Seq({"received", "returned", "failed"}) /\ Len(<< >>) = 0
    OBVIOUS
  <1>2. [start |-> "unborn", buffer |-> << >>, ended |-> FALSE, failed |-> FALSE] \in Exchange
    BY <1>1 DEF Exchange
  <1>3. TypeOK
    BY <1>1, <1>2, ExchangeAssumption DEF Init, TypeOK
  <1>4. FramesOK
    BY <1>1 DEF Init, FramesOK
  <1>5. PendingBounded
    BY FS_EmptySet, ExchangeAssumption DEF Init, PendingBounded
  <1>6. ASSUME NEW r \in Requests PROVE RequestInv(r)
    BY <1>1, ExchangeAssumption DEF Init, RequestInv, FlagsOK, IteratorOK, OutcomeOK
  <1>7. QED BY <1>3, <1>4, <1>5, <1>6 DEF Inv

LEMMA NextInv ==
    ASSUME Inv, [Next]_vars
    PROVE  Inv' /\ \A q \in Requests : Closed(q)
  <1>1. CASE UNCHANGED vars
    <2>1. TypeOK' /\ FramesOK'
      BY <1>1 DEF Inv, TypeOK, FramesOK, vars, serverVars, cliVars, netVars
    <2>2. QED BY <1>1, <2>1, ServerUntouched DEF vars
  <1>2. ASSUME NEW r \in Requests, ServerStep(r)
        PROVE  Inv' /\ \A q \in Requests : Closed(q)
    BY <1>2, ForwardKeeps, RefusedKeeps, SettledKeeps, TimeoutKeeps, PullKeeps,
       WakeKeeps, AbandonKeeps DEF ServerStep
  <1>3. ASSUME NEW g \in Sockets, SocketStep(g)
        PROVE  Inv' /\ \A q \in Requests : Closed(q)
    BY <1>3, DeliverKeeps, CliReceiveKeeps, ConnectionKeeps DEF SocketStep
  <1>4. QED BY <1>1, <1>2, <1>3, CliStepKeeps DEF Next

THEOREM InvHolds == Spec => []Inv
  <1>1. Inv /\ [Next]_vars => Inv'
    BY NextInv
  <1>2. QED BY <1>1, InitInv, PTL DEF Spec

(* Every value of the model stays in its type.                              *)
THEOREM TypesHold == Spec => []TypeOK
  <1>1. Inv => TypeOK
    BY DEF Inv
  <1>2. QED BY <1>1, InvHolds, PTL

(* The map of the coordinator holds the open exchanges and no other.        *)
THEOREM SlotsHold == Spec => []SlotsAreOpenExchanges
  <1>1. Inv => SlotsAreOpenExchanges
    BY DEF Inv, RequestInv, FlagsOK, SlotsAreOpenExchanges, Begun
  <1>2. QED BY <1>1, InvHolds, PTL

(* Open exchanges and unread chunks stay within their limits.               *)
THEOREM MemoryHolds == Spec => []MemoryBounded
  <1>1. Inv => MemoryBounded
    <2> SUFFICES ASSUME Inv PROVE MemoryBounded
      OBVIOUS
    <2>1. {r \in Requests : Begun(r) /\ ~ex[r].ended} = pending
      BY DEF Inv, TypeOK, RequestInv, FlagsOK, Begun
    <2>2. \A r \in Requests : Len(ex[r].buffer) <= MaxBuffer
      BY DEF Inv, RequestInv, FlagsOK
    <2>3. QED BY <2>1, <2>2 DEF Inv, PendingBounded, MemoryBounded
  <1>2. QED BY <1>1, InvHolds, PTL

(* No wakeup of a body iterator is ever lost.                               *)
THEOREM WakeupsHold == Spec => []WaiterHasNothingToRead
  <1>1. Inv => WaiterHasNothingToRead
    BY DEF Inv, RequestInv, IteratorOK, WaiterHasNothingToRead
  <1>2. QED BY <1>1, InvHolds, PTL

(* A forwarded request gets one outcome, and the one that happened.         *)
THEOREM OutcomesHold == Spec => []OneTrueOutcome
  <1>1. Inv => OneTrueOutcome
    <2> SUFFICES ASSUME Inv, NEW r \in Requests
                 PROVE  CASE fwd[r] = "returned" -> /\ events[r] = <<"received", "returned">>
                                                    /\ ex[r].ended /\ ~ex[r].failed
                          [] fwd[r] = "failed"   -> /\ events[r] = <<"received", "failed">>
                                                    /\ ex[r].failed
                          [] fwd[r] = "new"      -> events[r] = << >>
                          [] fwd[r] = "refused"  -> events[r] \in {<< >>, <<"failed">>}
                          [] OTHER               -> events[r] = <<"received">>
      BY DEF OneTrueOutcome
    <2>1. OutcomeOK(r)
      BY DEF Inv, RequestInv
    <2>2. fwd[r] \in {"new", "refused", "awaiting", "streaming",
                      "returning", "returned", "failed", "abandoned"}
      BY DEF Inv, TypeOK
    <2>3. QED BY <2>1, <2>2 DEF OutcomeOK
  <1>2. QED BY <1>1, InvHolds, PTL

(* Frames that arrive late neither reopen an exchange nor add to its body.  *)
THEOREM LateHolds == Spec => LateFramesDropped
  <1>1. Inv /\ [Next]_vars =>
            [\A r \in Requests : ex[r].ended =>
                /\ Len(ex'[r].buffer) <= Len(ex[r].buffer)
                /\ ex'[r].ended /\ r \notin pending']_vars
    <2> SUFFICES ASSUME Inv, [Next]_vars, NEW r \in Requests, ex[r].ended
                 PROVE  /\ Len(ex'[r].buffer) <= Len(ex[r].buffer)
                        /\ ex'[r].ended /\ r \notin pending'
      OBVIOUS
    <2>1. Closed(r) /\ FlagsOK(r)'
      BY NextInv DEF Inv, RequestInv
    <2>2. QED BY <2>1 DEF Closed, FlagsOK
  <1>2. QED BY <1>1, InvHolds, PTL DEF Spec, LateFramesDropped

-----------------------------------------------------------------------------
(* The chunks of a body, from the channel to the public response.           *)
ChunkOf(f, r) == f.type = "chunk" /\ f.req = r
EndOf(f, r)   == f.type = "end" /\ f.req = r

Increasing(s) == \A j, k \in DOMAIN s : j < k => s[j] < s[k]
Counting(s)   == \A k \in DOMAIN s : s[k] = k

(* What arrived, then what channel c still holds: numbers that only rise,
   none above the n chunks that were sent.                                  *)
InLine(body, c, r, n) ==
    /\ Increasing(body)
    /\ \A j \in DOMAIN body : body[j] <= n
    /\ \A k \in DOMAIN c : ChunkOf(c[k], r) =>
          /\ c[k].seq <= n
          /\ \A j \in DOMAIN body : body[j] < c[k].seq
          /\ \A i \in DOMAIN c : i < k /\ ChunkOf(c[i], r) => c[i].seq < c[k].seq

(* Whatever has not arrived is in channel c.                                *)
Complete(body, c, r, n) ==
    \A x \in Nat : Len(body) < x /\ x <= n =>
        \E k \in DOMAIN c : ChunkOf(c[k], r) /\ c[k].seq = x

EndLast(c, r) == \A j, k \in DOMAIN c : EndOf(c[j], r) /\ ChunkOf(c[k], r) => k < j

LEMMA TailAt ==
    ASSUME NEW S, NEW c \in Seq(S), c # << >>
    PROVE  /\ Tail(c) \in Seq(S) /\ Len(Tail(c)) = Len(c) - 1 /\ Len(c) \in Nat \ {0}
           /\ 1 \in DOMAIN c /\ Head(c) = c[1] /\ Head(c) \in S
           /\ \A k \in DOMAIN Tail(c) : k \in Nat \ {0} /\ k + 1 \in DOMAIN c /\ Tail(c)[k] = c[k + 1]
           /\ \A k \in DOMAIN c : k # 1 => k - 1 \in DOMAIN Tail(c) /\ Tail(c)[k - 1] = c[k]
  OBVIOUS

LEMMA SentAt ==
    ASSUME NEW S, NEW c \in Seq(S), NEW f \in S
    PROVE  /\ c \o <<f>> \in Seq(S) /\ Len(c \o <<f>>) = Len(c) + 1 /\ Len(c) \in Nat
           /\ (c \o <<f>>)[Len(c) + 1] = f /\ Len(c) + 1 \in DOMAIN (c \o <<f>>)
           /\ \A k \in DOMAIN c : /\ k \in Nat /\ k <= Len(c)
                                  /\ k \in DOMAIN (c \o <<f>>) /\ (c \o <<f>>)[k] = c[k]
           /\ \A k \in DOMAIN (c \o <<f>>) : k # Len(c) + 1 => k \in DOMAIN c
  OBVIOUS

LEMMA AppendAt ==
    ASSUME NEW S, NEW s \in Seq(S), NEW x \in S
    PROVE  /\ Append(s, x) \in Seq(S) /\ Len(Append(s, x)) = Len(s) + 1 /\ Len(s) \in Nat
           /\ Append(s, x)[Len(s) + 1] = x
           /\ \A k \in DOMAIN s : /\ k \in Nat \ {0} /\ k <= Len(s)
                                  /\ Append(s, x)[k] = s[k]
           /\ \A k \in DOMAIN Append(s, x) : k # Len(s) + 1 => k \in DOMAIN s
  OBVIOUS

(* A frame leaves the channel without adding to the body.                   *)
LEMMA TailInLine ==
    ASSUME NEW c \in Seq(Arriving), c # << >>, NEW r, NEW n \in Nat, NEW body \in Seq(Chunks)
    PROVE  /\ InLine(body, c, r, n) => InLine(body, Tail(c), r, n)
           /\ EndLast(c, r) => EndLast(Tail(c), r)
           /\ Complete(body, c, r, n) /\ ~ChunkOf(Head(c), r) => Complete(body, Tail(c), r, n)
  <1> DEFINE d == Tail(c)
  <1>1. /\ d \in Seq(Arriving) /\ Head(c) = c[1] /\ 1 \in DOMAIN c
        /\ \A k \in DOMAIN d : k \in Nat \ {0} /\ k + 1 \in DOMAIN c /\ d[k] = c[k + 1]
        /\ \A k \in DOMAIN c : k # 1 => k - 1 \in DOMAIN d /\ d[k - 1] = c[k]
    BY TailAt
  <1> HIDE DEF d
  <1>2. ASSUME InLine(body, c, r, n)
        PROVE  InLine(body, d, r, n)
    <2>1. ASSUME NEW k \in DOMAIN d, ChunkOf(d[k], r)
          PROVE  /\ d[k].seq <= n
                 /\ \A j \in DOMAIN body : body[j] < d[k].seq
                 /\ \A i \in DOMAIN d : i < k /\ ChunkOf(d[i], r) => d[i].seq < d[k].seq
      <3>1. k \in Nat \ {0} /\ k + 1 \in DOMAIN c /\ d[k] = c[k + 1]
        BY <1>1
      <3>2. \A i \in DOMAIN d : i + 1 \in DOMAIN c /\ d[i] = c[i + 1] /\ (i < k => i + 1 < k + 1)
        BY <1>1, <3>1
      <3>3. QED BY <1>2, <2>1, <3>1, <3>2 DEF InLine
    <2>2. QED BY <1>2, <2>1 DEF InLine
  <1>3. EndLast(c, r) => EndLast(d, r)
    BY <1>1 DEF EndLast
  <1>4. ASSUME Complete(body, c, r, n), ~ChunkOf(Head(c), r), NEW x \in Nat,
               Len(body) < x, x <= n
        PROVE  \E k \in DOMAIN d : ChunkOf(d[k], r) /\ d[k].seq = x
    <2>1. PICK k \in DOMAIN c : ChunkOf(c[k], r) /\ c[k].seq = x
      BY <1>4 DEF Complete
    <2>2. k # 1
      BY <1>1, <1>4, <2>1
    <2>3. k - 1 \in DOMAIN d /\ d[k - 1] = c[k]
      BY <1>1, <2>2
    <2>4. QED BY <2>1, <2>3
  <1>5. QED BY <1>2, <1>3, <1>4 DEF Complete, d

(* A chunk leaves the channel and joins the body.                           *)
LEMMA TakeInLine ==
    ASSUME NEW c \in Seq(Arriving), c # << >>, NEW r, NEW n \in Nat, NEW body \in Seq(Chunks),
           ChunkOf(Head(c), r), InLine(body, c, r, n)
    PROVE  /\ Head(c).seq \in Chunks /\ Append(body, Head(c).seq) \in Seq(Chunks)
           /\ InLine(Append(body, Head(c).seq), Tail(c), r, n)
           /\ Counting(body) /\ Complete(body, c, r, n) =>
                 /\ Counting(Append(body, Head(c).seq))
                 /\ Complete(Append(body, Head(c).seq), Tail(c), r, n)
  <1> DEFINE d == Tail(c)
             y == c[1].seq
             b == Append(body, y)
  <1>1. /\ d \in Seq(Arriving) /\ Head(c) = c[1] /\ 1 \in DOMAIN c /\ c[1] \in Arriving
        /\ \A k \in DOMAIN d : k \in Nat \ {0} /\ k + 1 \in DOMAIN c /\ d[k] = c[k + 1]
        /\ \A k \in DOMAIN c : k # 1 => k - 1 \in DOMAIN d /\ d[k - 1] = c[k]
    BY TailAt
  <1>2. y \in Chunks /\ y \in Nat /\ y <= n
    BY <1>1 DEF Arriving, ChunkOf, InLine, Chunks
  <1> HIDE DEF y
  <1>3. /\ b \in Seq(Chunks) /\ Len(b) = Len(body) + 1 /\ Len(body) \in Nat
        /\ b[Len(body) + 1] = y
        /\ \A k \in DOMAIN body : k \in Nat \ {0} /\ k <= Len(body) /\ b[k] = body[k]
        /\ \A k \in DOMAIN b : k # Len(body) + 1 => k \in DOMAIN body
    BY <1>2, AppendAt
  <1>4. DOMAIN b = 1..(Len(body) + 1) /\ DOMAIN body = 1..Len(body)
    BY <1>3
  <1> HIDE DEF d, b
  <1>5. \A j \in DOMAIN body : body[j] < y
    BY <1>1 DEF InLine, y
  <1>6. InLine(b, d, r, n)
    <2>1. ASSUME NEW j \in DOMAIN b, NEW k \in DOMAIN b, j < k
          PROVE  b[j] < b[k]
      <3>1. j \in DOMAIN body /\ b[j] = body[j]
        BY <1>3, <1>4, <2>1
      <3>2. CASE k = Len(body) + 1
        BY <1>3, <1>5, <3>1, <3>2
      <3>3. CASE k # Len(body) + 1
        BY <1>3, <2>1, <3>1, <3>3 DEF InLine, Increasing
      <3>4. QED BY <3>2, <3>3
    <2>2. \A j \in DOMAIN b : b[j] <= n
      BY <1>2, <1>3, <1>4 DEF InLine
    <2>3. ASSUME NEW k \in DOMAIN d, ChunkOf(d[k], r)
          PROVE  /\ d[k].seq <= n
                 /\ \A j \in DOMAIN b : b[j] < d[k].seq
                 /\ \A i \in DOMAIN d : i < k /\ ChunkOf(d[i], r) => d[i].seq < d[k].seq
      <3>1. k + 1 \in DOMAIN c /\ d[k] = c[k + 1] /\ k \in Nat \ {0}
        BY <1>1
      <3>2. y < d[k].seq
        <4>1. 1 < k + 1
          BY <3>1
        <4>2. ChunkOf(c[1], r) /\ ChunkOf(c[k + 1], r)
          BY <1>1, <2>3, <3>1
        <4>3. QED BY <1>1, <3>1, <4>1, <4>2 DEF InLine, y
      <3>3. \A j \in DOMAIN body : body[j] < d[k].seq
        BY <2>3, <3>1 DEF InLine
      <3>4. \A j \in DOMAIN b : b[j] < d[k].seq
        BY <1>3, <3>2, <3>3
      <3>5. ASSUME NEW i \in DOMAIN d, i < k, ChunkOf(d[i], r)
            PROVE  d[i].seq < d[k].seq
        <4>1. i + 1 \in DOMAIN c /\ d[i] = c[i + 1] /\ i + 1 < k + 1
          BY <1>1, <3>1, <3>5
        <4>2. QED BY <2>3, <3>1, <3>5, <4>1 DEF InLine
      <3>6. QED BY <2>3, <3>1, <3>4, <3>5 DEF InLine
    <2>4. QED BY <2>1, <2>2, <2>3 DEF InLine, Increasing
  <1>7. ASSUME Counting(body), Complete(body, c, r, n)
        PROVE  Counting(b) /\ Complete(b, d, r, n)
    <2>1. Len(body) < y
      <3>1. CASE Len(body) = 0
        BY <1>2, <3>1 DEF Chunks
      <3>2. CASE Len(body) # 0
        <4>1. Len(body) \in DOMAIN body /\ body[Len(body)] = Len(body)
          BY <1>3, <1>4, <1>7, <3>2 DEF Counting
        <4>2. QED BY <1>5, <4>1
      <3>3. QED BY <3>1, <3>2
    <2>2. y = Len(body) + 1
      <3>1. Len(body) + 1 \in Nat /\ Len(body) < Len(body) + 1 /\ Len(body) + 1 <= n
        BY <1>2, <1>3, <2>1
      <3>2. PICK k \in DOMAIN c : ChunkOf(c[k], r) /\ c[k].seq = Len(body) + 1
        BY <1>7, <3>1 DEF Complete
      <3>3. k = 1 \/ y < c[k].seq
        <4>1. k \in Nat \ {0}
          OBVIOUS
        <4>2. QED BY <1>1, <3>2, <4>1 DEF InLine, y
      <3>4. QED BY <1>2, <1>3, <2>1, <3>2, <3>3 DEF y
    <2>3. Counting(b)
      BY <1>3, <1>7, <2>2 DEF Counting
    <2>4. ASSUME NEW x \in Nat, Len(b) < x, x <= n
          PROVE  \E k \in DOMAIN d : ChunkOf(d[k], r) /\ d[k].seq = x
      <3>1. PICK k \in DOMAIN c : ChunkOf(c[k], r) /\ c[k].seq = x
        BY <1>3, <1>7, <2>4 DEF Complete
      <3>2. k # 1
        BY <1>3, <2>2, <2>4, <3>1 DEF y
      <3>3. QED BY <1>1, <3>1, <3>2
    <2>5. QED BY <2>3, <2>4 DEF Complete
  <1>8. QED BY <1>1, <1>2, <1>3, <1>6, <1>7 DEF d, b, y

(* A frame joins the channel: the next chunk, or another kind of frame.     *)
LEMMA SentInLine ==
    ASSUME NEW c \in Seq(Arriving), NEW f \in Arriving, NEW r, NEW n \in Nat, NEW m \in Nat,
           NEW body \in Seq(Chunks),
           IF ChunkOf(f, r) THEN f.seq = m /\ m = n + 1 ELSE m = n
    PROVE  /\ InLine(body, c, r, n) => InLine(body, c \o <<f>>, r, m)
           /\ Complete(body, c, r, n) => Complete(body, c \o <<f>>, r, m)
  <1> DEFINE d == c \o <<f>>
  <1>1. /\ d \in Seq(Arriving) /\ Len(c) \in Nat /\ d[Len(c) + 1] = f
        /\ Len(c) + 1 \in DOMAIN d
        /\ \A k \in DOMAIN c : k \in Nat /\ k <= Len(c) /\ k \in DOMAIN d /\ d[k] = c[k]
        /\ \A k \in DOMAIN d : k # Len(c) + 1 => k \in DOMAIN c
    BY SentAt
  <1>2. n <= m
    OBVIOUS
  <1>3. \A j \in DOMAIN body : body[j] \in Nat
    <2>1. \A j \in DOMAIN body : body[j] \in Chunks
      OBVIOUS
    <2>2. QED BY <2>1 DEF Chunks
  <1>4. \A k \in DOMAIN c : ChunkOf(c[k], r) => c[k].seq \in Nat
    <2>1. \A k \in DOMAIN c : c[k] \in Arriving
      OBVIOUS
    <2>2. QED BY <2>1 DEF Arriving, ChunkOf, Chunks
  <1> HIDE DEF d
  <1>5. ASSUME InLine(body, c, r, n)
        PROVE  InLine(body, d, r, m)
    <2>1. \A j \in DOMAIN body : body[j] <= m
      BY <1>2, <1>3, <1>5 DEF InLine
    <2>2. ASSUME NEW k \in DOMAIN d, ChunkOf(d[k], r)
          PROVE  /\ d[k].seq <= m
                 /\ \A j \in DOMAIN body : body[j] < d[k].seq
                 /\ \A i \in DOMAIN d : i < k /\ ChunkOf(d[i], r) => d[i].seq < d[k].seq
      <3>1. CASE k = Len(c) + 1
        <4>1. ChunkOf(f, r) /\ d[k].seq = m /\ m = n + 1
          BY <1>1, <2>2, <3>1
        <4>2. \A i \in DOMAIN d : i < k => i \in DOMAIN c /\ d[i] = c[i]
          BY <1>1, <3>1
        <4>3. QED BY <1>3, <1>4, <1>5, <4>1, <4>2 DEF InLine
      <3>2. CASE k # Len(c) + 1
        <4>1. k \in DOMAIN c /\ d[k] = c[k] /\ k <= Len(c) /\ k \in Nat
          BY <1>1, <3>2
        <4>2. \A i \in DOMAIN d : i < k => i \in DOMAIN c /\ d[i] = c[i]
          BY <1>1, <4>1
        <4>3. QED BY <1>2, <1>4, <1>5, <2>2, <4>1, <4>2 DEF InLine
      <3>3. QED BY <3>1, <3>2
    <2>3. QED BY <1>5, <2>1, <2>2 DEF InLine
  <1>6. ASSUME Complete(body, c, r, n), NEW x \in Nat, Len(body) < x, x <= m
        PROVE  \E k \in DOMAIN d : ChunkOf(d[k], r) /\ d[k].seq = x
    <2>1. CASE x <= n
      <3>1. PICK k \in DOMAIN c : ChunkOf(c[k], r) /\ c[k].seq = x
        BY <1>6, <2>1 DEF Complete
      <3>2. QED BY <1>1, <3>1
    <2>2. CASE ~(x <= n)
      <3>1. ChunkOf(f, r) /\ f.seq = x
        BY <1>6, <2>2
      <3>2. QED BY <1>1, <3>1
    <2>3. QED BY <2>1, <2>2
  <1>7. QED BY <1>5, <1>6 DEF Complete, d

(* A frame joins the channel: no chunk follows the end of its body.         *)
LEMMA SentEndLast ==
    ASSUME NEW c \in Seq(Arriving), NEW f \in Arriving, NEW r, EndLast(c, r),
           ChunkOf(f, r) => \A k \in DOMAIN c : ~EndOf(c[k], r)
    PROVE  EndLast(c \o <<f>>, r)
  <1> DEFINE d == c \o <<f>>
  <1>1. /\ d \in Seq(Arriving) /\ Len(c) \in Nat /\ d[Len(c) + 1] = f
        /\ \A k \in DOMAIN c : k \in Nat /\ k <= Len(c) /\ k \in DOMAIN d /\ d[k] = c[k]
        /\ \A k \in DOMAIN d : k # Len(c) + 1 => k \in DOMAIN c
    BY SentAt
  <1>2. ~(ChunkOf(f, r) /\ EndOf(f, r))
    BY DEF ChunkOf, EndOf
  <1> HIDE DEF d
  <1>3. ASSUME NEW j \in DOMAIN d, NEW k \in DOMAIN d, EndOf(d[j], r), ChunkOf(d[k], r)
        PROVE  k < j
    <2>1. CASE k = Len(c) + 1
      <3>1. ChunkOf(f, r) /\ j # Len(c) + 1
        BY <1>1, <1>2, <1>3, <2>1
      <3>2. j \in DOMAIN c /\ d[j] = c[j]
        BY <1>1, <3>1
      <3>3. QED BY <1>3, <3>1, <3>2
    <2>2. CASE k # Len(c) + 1
      <3>1. k \in DOMAIN c /\ d[k] = c[k] /\ k <= Len(c) /\ k \in Nat
        BY <1>1, <2>2
      <3>2. CASE j = Len(c) + 1
        BY <1>1, <3>1, <3>2
      <3>3. CASE j # Len(c) + 1
        BY <1>1, <1>3, <3>1, <3>3 DEF EndLast
      <3>4. QED BY <3>2, <3>3
    <2>3. QED BY <2>1, <2>2
  <1>4. QED BY <1>3 DEF EndLast, d

(* A body that loses its last chunks is still in line.                      *)
LEMMA PrefixInLine ==
    ASSUME NEW body \in Seq(Chunks), NEW b \in Seq(Chunks), Len(b) <= Len(body),
           \A k \in 1..Len(b) : b[k] = body[k]
    PROVE  /\ \A c, r, n : InLine(body, c, r, n) => InLine(b, c, r, n)
           /\ Increasing(body) => Increasing(b)
           /\ Counting(body) => Counting(b)
  <1>1. \A k \in DOMAIN b : k \in DOMAIN body /\ b[k] = body[k]
    OBVIOUS
  <1>2. QED BY <1>1 DEF InLine, Increasing, Counting

-----------------------------------------------------------------------------
(* The CLI works on a request once: a request that is new has no start frame
   on its way, one that is begun has at most one, until the CLI takes it.   *)
StartOf(f, r) == f.type = "start" /\ f.req = r

NoStart(ch, r) == \A g \in Sockets : \A j \in DOMAIN ch[g] : ~StartOf(ch[g][j], r)

OneStart(ch, r) ==
    \A g, h \in Sockets : \A j \in DOMAIN ch[g], k \in DOMAIN ch[h] :
        StartOf(ch[g][j], r) /\ StartOf(ch[h][k], r) => g = h /\ j = k

StartsOK(r) ==
    /\ ex[r].start = "unborn" => cli[r] = "idle"
    /\ ex[r].start = "unborn" \/ cli[r] # "idle" => NoStart(toCli, r)
    /\ OneStart(toCli, r)
    /\ cli[r] \in {"idle", "buffered", "proxying"} => sent[r] = 0

(* The end of a body is its last frame, and the CLI is done when it sent it. *)
EndsOK(r) ==
    \A g \in Sockets :
        /\ EndLast(toServer[g], r)
        /\ \A k \in DOMAIN toServer[g] : EndOf(toServer[g][k], r) => cli[r] = "done"

(* Frames joining channel g: a start frame, if any, comes first.            *)
LEMMA SentStarts ==
    ASSUME NEW ch \in [Sockets -> Seq(Frames)], NEW g \in Sockets,
           NEW fs \in Seq(Frames), NEW r
    PROVE  /\ (\A k \in DOMAIN fs : ~StartOf(fs[k], r)) =>
                 /\ NoStart(ch, r) => NoStart(Sent(ch, g, fs), r)
                 /\ OneStart(ch, r) => OneStart(Sent(ch, g, fs), r)
           /\ (\A k \in DOMAIN fs : StartOf(fs[k], r) => k = 1) /\ NoStart(ch, r) =>
                 OneStart(Sent(ch, g, fs), r)
  <1> DEFINE d == Sent(ch, g, fs)
             n == Len(ch[g])
  <1>1. CASE link[g] # "up"
    <2>1. d = ch
      BY <1>1 DEF Sent
    <2>2. QED BY <2>1 DEF NoStart, OneStart
  <1>2. CASE link[g] = "up"
    <2>1. d = [ch EXCEPT ![g] = ch[g] \o fs]
      BY <1>2 DEF Sent
    <2>2. /\ n \in Nat
          /\ \A k \in DOMAIN (ch[g] \o fs) : k \in Nat /\
                \/ k \in DOMAIN ch[g] /\ (ch[g] \o fs)[k] = ch[g][k]
                \/ k - n \in DOMAIN fs /\ (ch[g] \o fs)[k] = fs[k - n]
      OBVIOUS
    <2>3. /\ \A h \in Sockets : h # g => d[h] = ch[h]
          /\ \A k \in DOMAIN d[g] : k \in Nat /\
                \/ k \in DOMAIN ch[g] /\ d[g][k] = ch[g][k]
                \/ k - n \in DOMAIN fs /\ d[g][k] = fs[k - n]
      BY <2>1, <2>2
    <2> HIDE DEF d, n
    <2>4. ASSUME \A k \in DOMAIN fs : ~StartOf(fs[k], r)
          PROVE  /\ NoStart(ch, r) => NoStart(d, r)
                 /\ OneStart(ch, r) => OneStart(d, r)
      <3>1. \A h \in Sockets : \A k \in DOMAIN d[h] :
               StartOf(d[h][k], r) => k \in DOMAIN ch[h] /\ StartOf(ch[h][k], r)
        BY <2>3, <2>4
      <3>2. QED BY <3>1 DEF NoStart, OneStart
    <2>5. ASSUME \A k \in DOMAIN fs : StartOf(fs[k], r) => k = 1, NoStart(ch, r)
          PROVE  OneStart(d, r)
      <3>1. ASSUME NEW h \in Sockets, NEW k \in DOMAIN d[h], StartOf(d[h][k], r)
            PROVE  h = g /\ k = n + 1
        <4>1. h = g
          BY <2>3, <2>5, <3>1 DEF NoStart
        <4>2. k \in Nat /\ k - n \in DOMAIN fs /\ d[g][k] = fs[k - n]
          BY <2>3, <2>5, <3>1, <4>1 DEF NoStart
        <4>3. k - n = 1
          BY <2>5, <3>1, <4>1, <4>2
        <4>4. QED BY <2>2, <4>1, <4>2, <4>3
      <3>2. QED BY <3>1 DEF OneStart
    <2>6. QED BY <2>4, <2>5 DEF d
  <1>3. QED BY <1>1, <1>2

(* Frames leaving channel g.                                                *)
LEMMA TakenStarts ==
    ASSUME NEW ch \in [Sockets -> Seq(Frames)], NEW g \in Sockets, ch[g] # << >>, NEW r
    PROVE  LET d == [ch EXCEPT ![g] = Tail(ch[g])]
           IN  /\ NoStart(ch, r) => NoStart(d, r)
               /\ OneStart(ch, r) => OneStart(d, r)
               /\ OneStart(ch, r) /\ StartOf(Head(ch[g]), r) => NoStart(d, r)
  <1> DEFINE d == [ch EXCEPT ![g] = Tail(ch[g])]
  <1>1. /\ Head(ch[g]) = ch[g][1] /\ 1 \in DOMAIN ch[g]
        /\ \A k \in DOMAIN Tail(ch[g]) : /\ k \in Nat \ {0} /\ k + 1 \in DOMAIN ch[g]
                                         /\ Tail(ch[g])[k] = ch[g][k + 1]
    BY TailAt
  <1>2. /\ \A h \in Sockets : h # g => d[h] = ch[h]
        /\ \A k \in DOMAIN d[g] : k \in Nat \ {0} /\ k + 1 \in DOMAIN ch[g] /\ d[g][k] = ch[g][k + 1]
    BY <1>1
  <1> HIDE DEF d
  <1>3. NoStart(ch, r) => NoStart(d, r)
    BY <1>2 DEF NoStart
  <1>4. ASSUME OneStart(ch, r), NEW h \in Sockets, NEW i \in Sockets,
               NEW j \in DOMAIN d[h], NEW k \in DOMAIN d[i],
               StartOf(d[h][j], r), StartOf(d[i][k], r)
        PROVE  h = i /\ j = k
    <2>1. CASE h = g /\ i = g
      <3>1. /\ j + 1 \in DOMAIN ch[g] /\ StartOf(ch[g][j + 1], r) /\ j \in Nat
            /\ k + 1 \in DOMAIN ch[g] /\ StartOf(ch[g][k + 1], r) /\ k \in Nat
        BY <1>2, <1>4, <2>1
      <3>2. j + 1 = k + 1
        BY <1>4, <3>1 DEF OneStart
      <3>3. QED BY <2>1, <3>1, <3>2
    <2>2. CASE h # g \/ i # g
      BY <1>2, <1>4, <2>2 DEF OneStart
    <2>3. QED BY <2>1, <2>2
  <1>5. ASSUME OneStart(ch, r), StartOf(Head(ch[g]), r), NEW h \in Sockets, NEW k \in DOMAIN d[h],
               StartOf(d[h][k], r)
        PROVE  FALSE
    <2>1. CASE h = g
      <3>1. k + 1 \in DOMAIN ch[g] /\ StartOf(ch[g][k + 1], r) /\ k \in Nat \ {0}
        BY <1>2, <1>5, <2>1
      <3>2. k + 1 = 1
        BY <1>1, <1>5, <3>1 DEF OneStart
      <3>3. QED BY <3>1, <3>2
    <2>2. CASE h # g
      <3>1. k \in DOMAIN ch[h] /\ StartOf(ch[h][k], r)
        BY <1>2, <1>5, <2>2
      <3>2. QED BY <1>1, <1>5, <2>2, <3>1 DEF OneStart
    <2>3. QED BY <2>1, <2>2
  <1>6. QED BY <1>3, <1>4, <1>5 DEF OneStart, NoStart, d

LEMMA EmptiedStarts ==
    ASSUME NEW ch \in [Sockets -> Seq(Frames)], NEW g \in Sockets, NEW r,
           NEW d, d = [ch EXCEPT ![g] = << >>]
    PROVE  /\ NoStart(ch, r) => NoStart(d, r)
           /\ OneStart(ch, r) => OneStart(d, r)
  <1>1. \A h \in Sockets : \A k \in DOMAIN d[h] : h # g /\ d[h] = ch[h]
    OBVIOUS
  <1>2. QED BY <1>1 DEF NoStart, OneStart

(* An exchange that has begun stays begun.                                  *)
LEMMA StaysBegun ==
    ASSUME Inv, [Next]_vars, NEW r \in Requests, ex'[r].start = "unborn"
    PROVE  ex[r].start = "unborn"
  <1>1. FlagsOK(r) /\ FlagsOK(r)' /\ fwd \in [Requests -> {"new", "refused", "awaiting",
           "streaming", "returning", "returned", "failed", "abandoned"}]
    BY NextInv DEF Inv, RequestInv, TypeOK
  <1>2. fwd'[r] \in {"new", "refused"}
    BY <1>1 DEF FlagsOK
  <1>3. fwd[r] \in {"new", "refused"}
    <2>1. CASE UNCHANGED fwd
      BY <1>2, <2>1
    <2>2. ASSUME NEW q \in Requests, ServerStep(q)
          PROVE  fwd[r] \in {"new", "refused"}
      <3>1. CASE Timeout(q)
        BY <1>2, <3>1 DEF Timeout
      <3>2. CASE \E x \in {"awaiting", "streaming", "failed", "abandoned", "returning"} :
                    fwd' = [fwd EXCEPT ![q] = x]
        BY <1>1, <1>2, <3>2
      <3>3. CASE Forward(q) \/ StartSettled(q) \/ Abandon(q)
        BY <3>2, <3>3 DEF Forward, StartSettled, Abandon
      <3>4. CASE ForwardOverLimit(q) \/ ForwardNotOpen(q)
        BY <1>1, <1>2, <3>4 DEF ForwardOverLimit, ForwardNotOpen
      <3>5. CASE Pull(q) \/ Wake(q)
        BY <1>1, <1>2, <3>5 DEF Pull, Wake, Finished, Handed
      <3>6. QED BY <2>2, <3>1, <3>3, <3>4, <3>5 DEF ServerStep
    <2>3. ASSUME NEW q \in Requests, CliStep(q)
          PROVE  UNCHANGED fwd
      BY <2>3 DEF CliStep, CliRespond, CliChunk, CliEnd, CliFail, CliThrow, CliSend, serverVars
    <2>4. ASSUME NEW g \in Sockets, SocketStep(g)
          PROVE  UNCHANGED fwd
      BY <2>4 DEF SocketStep, Deliver, CliReceive, Break, ServerDetach, CliDetect,
                  Reconnect, serverVars
    <2>5. QED BY <2>1, <2>2, <2>3, <2>4 DEF Next, vars, serverVars
  <1>4. QED BY <1>1, <1>3 DEF FlagsOK

(* Only forward() sends a start frame, and it does so once.                 *)
LEMMA ForwardStarts ==
    ASSUME Inv, NEW r \in Requests, StartsOK(r), NEW q \in Requests, Forward(q)
    PROVE  StartsOK(r)'
  <1> DEFINE fs == <<Frame("start", q), Frame("end", q)>>
  <1>1. /\ TypeOK /\ toCli' = Sent(toCli, tunnelSock, fs) /\ tunnelSock \in Sockets
        /\ ex' = [ex EXCEPT ![q].start = "waiting"] /\ fwd[q] = "new"
        /\ UNCHANGED <<cli, sent>>
    BY DEF Inv, Forward, TypeOK, cliVars
  <1>2. fs \in Seq(Frames) /\ \A k \in DOMAIN fs : StartOf(fs[k], r) => k = 1 /\ r = q
    <2>1. Frame("start", q) \in Frames /\ Frame("end", q) \in Frames
      BY ExchangeAssumption DEF Frame, Frames
    <2>2. DOMAIN fs = {1, 2} /\ fs[1] = Frame("start", q) /\ fs[2] = Frame("end", q)
      OBVIOUS
    <2>3. fs \in Seq(Frames)
      BY <2>1
    <2> HIDE DEF fs
    <2>4. QED BY <2>2, <2>3 DEF Frame, StartOf
  <1> HIDE DEF fs
  <1>3. ex \in [Requests -> Exchange] /\ ex[q].start = "unborn"
    BY <1>1 DEF Inv, RequestInv, FlagsOK, TypeOK
  <1>4. CASE r = q
    <2>1. ex'[r].start = "waiting" /\ cli[r] = "idle" /\ NoStart(toCli, r) /\ sent[r] = 0
      BY <1>1, <1>3, <1>4 DEF Exchange, StartsOK
    <2>2. OneStart(toCli', r)
      BY <1>1, <1>2, <2>1, SentStarts DEF TypeOK
    <2>3. QED BY <1>1, <2>1, <2>2 DEF StartsOK
  <1>5. CASE r # q
    <2>1. ex'[r] = ex[r]
      BY <1>1, <1>3, <1>5
    <2>2. /\ NoStart(toCli, r) => NoStart(toCli', r)
          /\ OneStart(toCli, r) => OneStart(toCli', r)
      BY <1>1, <1>2, <1>5, SentStarts DEF TypeOK
    <2>3. QED BY <1>1, <2>1, <2>2 DEF StartsOK
  <1>6. QED BY <1>4, <1>5

LEMMA StartsKept ==
    ASSUME Inv, NEW r \in Requests, StartsOK(r), [Next]_vars
    PROVE  StartsOK(r)'
  <1>1. TypeOK /\ (ex'[r].start = "unborn" => ex[r].start = "unborn")
    BY StaysBegun DEF Inv
  <1>2. ASSUME UNCHANGED <<toCli, cli, sent>>
        PROVE  StartsOK(r)'
    BY <1>1, <1>2 DEF StartsOK
  <1>3. ASSUME NEW q \in Requests, Timeout(q)
        PROVE  StartsOK(r)'
    <2>1. toCli' = Sent(toCli, sock[q], <<Frame("cancel", q)>>) /\ UNCHANGED <<cli, sent>>
      BY <1>3 DEF Timeout, cliVars
    <2>2. CASE sock[q] \in Sockets
      <3>1. /\ <<Frame("cancel", q)>> \in Seq(Frames)
            /\ \A k \in DOMAIN <<Frame("cancel", q)>> : ~StartOf(<<Frame("cancel", q)>>[k], r)
        BY ExchangeAssumption DEF Frame, Frames, StartOf
      <3>2. /\ NoStart(toCli, r) => NoStart(toCli', r)
            /\ OneStart(toCli, r) => OneStart(toCli', r)
        BY <1>1, <2>1, <2>2, <3>1, SentStarts DEF TypeOK
      <3>3. QED BY <1>1, <2>1, <3>2 DEF StartsOK
    <2>3. CASE sock[q] \notin Sockets
      BY <1>1, <1>2, <2>1, <2>3 DEF TypeOK, Sent
    <2>4. QED BY <2>2, <2>3
  <1>4. ASSUME NEW q \in Requests, ServerStep(q)
        PROVE  StartsOK(r)'
    <2>1. CASE Pull(q) \/ Wake(q) \/ Abandon(q) \/ StartSettled(q)
               \/ ForwardOverLimit(q) \/ ForwardNotOpen(q)
      BY <1>2, <2>1 DEF Pull, Wake, Abandon, StartSettled, ForwardOverLimit, ForwardNotOpen,
                        netVars, cliVars
    <2>2. QED BY <1>3, <1>4, <2>1, ForwardStarts DEF ServerStep
  <1>5. ASSUME NEW q \in Requests, CliStep(q)
        PROVE  StartsOK(r)'
    <2>1. UNCHANGED toCli
      BY <1>5 DEF CliStep, CliRespond, CliChunk, CliEnd, CliFail, CliThrow, CliSend, netVars
    <2>2. /\ cli[r] # "idle" <=> cli'[r] # "idle"
          /\ cli'[r] \in {"idle", "buffered", "proxying"} =>
                cli[r] \in {"idle", "buffered", "proxying"} /\ sent'[r] = sent[r]
      BY <1>1, <1>5 DEF CliStep, CliRespond, CliChunk, CliEnd, CliFail, CliThrow, netVars, TypeOK
    <2>3. QED BY <1>1, <2>1, <2>2 DEF StartsOK
  <1>6. ASSUME NEW g \in Sockets, CliReceive(g)
        PROVE  StartsOK(r)'
    <2> DEFINE f == Head(toCli[g])
    <2>1. /\ toCli[g] # << >> /\ toCli' = [toCli EXCEPT ![g] = Tail(@)]
          /\ f \in Frames /\ UNCHANGED sent
      BY <1>1, <1>6, TakenType DEF CliReceive, TypeOK
    <2>2. /\ NoStart(toCli, r) => NoStart(toCli', r)
          /\ OneStart(toCli, r) => OneStart(toCli', r)
          /\ OneStart(toCli, r) /\ StartOf(f, r) => NoStart(toCli', r)
      <3>1. toCli \in [Sockets -> Seq(Frames)]
        BY <1>1 DEF TypeOK
      <3>2. toCli' = [toCli EXCEPT ![g] = Tail(toCli[g])]
        BY <2>1, <3>1
      <3>3. QED BY <2>1, <3>1, <3>2, TakenStarts
    <2>3. StartOf(f, r) => ~NoStart(toCli, r)
      <3>1. f = toCli[g][1] /\ 1 \in DOMAIN toCli[g]
        BY <1>1, <2>1, TailAt DEF TypeOK
      <3>2. QED BY <3>1 DEF NoStart
    <2>4. \/ StartOf(f, r) /\ cli'[r] = "buffered"
          \/ cli[r] # "idle" /\ cli'[r] = "done"
          \/ cli[r] = "buffered" /\ cli'[r] = "proxying"
          \/ cli'[r] = cli[r]
      <3>1. cli' = [cli EXCEPT ![f.req] =
                      CASE f.type = "start"                     -> "buffered"
                        [] f.type = "end" /\ @ = "buffered"     -> "proxying"
                        [] f.type = "cancel" /\ @ # "idle"      -> "done"
                        [] OTHER                                -> @]
        BY <1>6 DEF CliReceive
      <3> HIDE DEF f
      <3>2. CASE f.req # r
        BY <1>1, <3>1, <3>2 DEF TypeOK
      <3>3. CASE f.req = r
        BY <1>1, <3>1, <3>3 DEF TypeOK, StartOf
      <3>4. QED BY <3>2, <3>3
    <2> HIDE DEF f
    <2>5. QED BY <1>1, <2>1, <2>2, <2>3, <2>4 DEF StartsOK
  <1>7. ASSUME NEW g \in Sockets, Break(g)
        PROVE  StartsOK(r)'
    <2>1. toCli' = [toCli EXCEPT ![g] = << >>] /\ UNCHANGED <<cli, sent>>
      BY <1>7 DEF Break, cliVars
    <2>2. /\ NoStart(toCli, r) => NoStart(toCli', r)
          /\ OneStart(toCli, r) => OneStart(toCli', r)
      BY <1>1, <2>1, EmptiedStarts DEF TypeOK
    <2>3. QED BY <1>1, <2>1, <2>2 DEF StartsOK
  <1>8. ASSUME NEW g \in Sockets, SocketStep(g)
        PROVE  StartsOK(r)'
    <2>1. CASE Deliver(g) \/ ServerDetach(g) \/ CliDetect(g) \/ Reconnect(g)
      BY <1>2, <2>1 DEF Deliver, ServerDetach, CliDetect, Reconnect, cliVars
    <2>2. QED BY <1>6, <1>7, <1>8, <2>1 DEF SocketStep
  <1>9. QED BY <1>2, <1>4, <1>5, <1>8 DEF Next, vars, cliVars, netVars

(* What the CLI sends: one frame, over its socket if the connection is up.  *)
CliFrame(f, r) ==
    /\ \A g \in Sockets : toServer'[g] = IF g = cliSock /\ link[g] = "up"
                                         THEN toServer[g] \o <<f>> ELSE toServer[g]
    /\ ChunkOf(f, r) => /\ cli[r] = "streaming" /\ cliSock # None
                        /\ sent'[r] = sent[r] + 1 /\ f.seq = sent'[r]
    /\ ~ChunkOf(f, r) => sent'[r] = sent[r]
    /\ EndOf(f, r) \/ cli[r] = "done" => cli'[r] = "done" /\ sent'[r] = sent[r]

LEMMA CliSends ==
    ASSUME Inv, NEW q \in Requests, CliStep(q)
    PROVE  /\ UNCHANGED <<link, tunnelSock, cliSock, serverVars>>
           /\ \E f \in Arriving : \A r \in Requests : CliFrame(f, r)
  <1>1. TypeOK /\ toServer \in [Sockets -> Seq(Arriving)]
    BY DEF Inv, FramesOK
  <1>2. ASSUME NEW f \in Arriving, CliSend(f)
        PROVE  /\ UNCHANGED <<link, tunnelSock, cliSock, serverVars>>
               /\ \A g \in Sockets : toServer'[g] = IF g = cliSock /\ link[g] = "up"
                                                    THEN toServer[g] \o <<f>> ELSE toServer[g]
    BY <1>1, <1>2 DEF CliSend, Sent, TypeOK
  <1>3. \A t \in {"start", "end", "error"} : Frame(t, q) \in Arriving /\ ~ChunkOf(Frame(t, q), q)
    BY ExchangeAssumption DEF Frame, Arriving, Frames, ChunkOf
  <1>4. \A t : Frame(t, q).type = t /\ Frame(t, q).req = q
    BY DEF Frame
  <1>5. CASE CliRespond(q) \/ CliFail(q)
    <2>1. PICK t \in {"start", "error"} : CliSend(Frame(t, q))
      BY <1>5 DEF CliRespond, CliFail
    <2>2. \A r \in Requests : CliFrame(Frame(t, q), r)
      BY <1>1, <1>2, <1>3, <1>4, <1>5, <2>1
         DEF CliRespond, CliFail, CliFrame, ChunkOf, EndOf, TypeOK
    <2>3. QED BY <1>2, <1>3, <2>1, <2>2
  <1>6. CASE CliEnd(q)
    <2>1. CliSend(Frame("end", q))
      BY <1>6 DEF CliEnd
    <2>2. \A r \in Requests : CliFrame(Frame("end", q), r)
      BY <1>1, <1>2, <1>3, <1>4, <1>6, <2>1 DEF CliEnd, CliFrame, ChunkOf, EndOf, TypeOK
    <2>3. QED BY <1>2, <1>3, <2>1, <2>2
  <1>7. CASE CliChunk(q)
    <2> DEFINE f == [type |-> "chunk", req |-> q, seq |-> sent[q] + 1]
    <2>1. f \in Arriving
      BY <1>1, <1>7, ExchangeAssumption DEF CliChunk, TypeOK, Arriving, Frames, Chunks
    <2>2. /\ CliSend(f) /\ sent' = [sent EXCEPT ![q] = sent[q] + 1] /\ UNCHANGED cli
          /\ cli[q] = "streaming" /\ cliSock # None
      BY <1>7 DEF CliChunk, CliSend
    <2>3. f.type = "chunk" /\ f.req = q /\ f.seq = sent[q] + 1
      OBVIOUS
    <2> HIDE DEF f
    <2>4. \A r \in Requests : CliFrame(f, r)
      BY <1>1, <1>2, <2>1, <2>2, <2>3 DEF CliFrame, ChunkOf, EndOf, TypeOK
    <2>5. QED BY <1>2, <2>1, <2>2, <2>4
  <1>8. CASE CliThrow(q)
    <2>1. /\ UNCHANGED <<netVars, serverVars, sent>> /\ cliSock \notin Sockets
          /\ cli' = [cli EXCEPT ![q] = "done"]
      BY <1>8, ExchangeAssumption DEF CliThrow
    <2>2. \A r \in Requests : CliFrame(Frame("error", q), r)
      BY <1>1, <1>3, <1>4, <2>1 DEF CliFrame, ChunkOf, EndOf, TypeOK, netVars
    <2>3. QED BY <1>3, <2>1, <2>2 DEF netVars
  <1>9. QED BY <1>5, <1>6, <1>7, <1>8 DEF CliStep

(* Nothing the CLI receives makes it resume a request it is done with.      *)
LEMMA StaysDone ==
    ASSUME Inv, NEW r \in Requests, StartsOK(r), NEW g \in Sockets, CliReceive(g),
           cli[r] = "done"
    PROVE  cli'[r] = "done"
  <1> DEFINE f == Head(toCli[g])
  <1>1. /\ toCli \in [Sockets -> Seq(Frames)] /\ cli \in [Requests -> {"idle", "buffered",
              "proxying", "streaming", "done"}]
        /\ toCli[g] # << >> /\ f \in Frames
    BY TakenType DEF Inv, TypeOK, CliReceive
  <1>2. ~StartOf(f, r)
    <2>1. f = toCli[g][1] /\ 1 \in DOMAIN toCli[g]
      BY <1>1, TailAt
    <2>2. NoStart(toCli, r)
      BY DEF StartsOK
    <2>3. QED BY <2>1, <2>2 DEF NoStart
  <1>3. cli' = [cli EXCEPT ![f.req] =
                  CASE f.type = "start"                     -> "buffered"
                    [] f.type = "end" /\ @ = "buffered"     -> "proxying"
                    [] f.type = "cancel" /\ @ # "idle"      -> "done"
                    [] OTHER                                -> @]
    BY DEF CliReceive
  <1> HIDE DEF f
  <1>4. CASE f.req # r
    BY <1>1, <1>3, <1>4
  <1>5. CASE f.req = r
    BY <1>1, <1>2, <1>3, <1>5 DEF StartOf
  <1>6. QED BY <1>4, <1>5

LEMMA ServerSends ==
    ASSUME NEW q \in Requests, ServerStep(q)
    PROVE  UNCHANGED <<link, toServer, tunnelSock, cliSock, cli, sent>>
  BY DEF ServerStep, Forward, ForwardOverLimit, ForwardNotOpen, StartSettled, Timeout, Pull,
         Wake, Abandon, netVars, cliVars

LEMMA EndsKept ==
    ASSUME Inv, NEW r \in Requests, StartsOK(r), EndsOK(r), [Next]_vars
    PROVE  EndsOK(r)'
  <1>1. toServer \in [Sockets -> Seq(Arriving)]
    BY DEF Inv, FramesOK
  <1>2. CASE UNCHANGED <<toServer, cli>>
    BY <1>2 DEF EndsOK
  <1>3. ASSUME NEW q \in Requests, CliStep(q)
        PROVE  EndsOK(r)'
    <2>1. PICK f \in Arriving : CliFrame(f, r)
      BY <1>3, CliSends
    <2>2. ASSUME NEW g \in Sockets
          PROVE  /\ EndLast(toServer'[g], r)
                 /\ \A k \in DOMAIN toServer'[g] : EndOf(toServer'[g][k], r) => cli'[r] = "done"
      <3>1. CASE toServer'[g] = toServer[g]
        BY <2>1, <3>1 DEF CliFrame, EndsOK
      <3>2. CASE toServer'[g] = toServer[g] \o <<f>>
        <4>1. EndLast(toServer'[g], r)
          BY <1>1, <2>1, <3>2, SentEndLast DEF CliFrame, EndsOK
        <4>2. \A k \in DOMAIN toServer'[g] :
                 toServer'[g][k] = f \/ (k \in DOMAIN toServer[g] /\ toServer'[g][k] = toServer[g][k])
          BY <1>1, <3>2, SentAt
        <4>3. QED BY <2>1, <4>1, <4>2 DEF CliFrame, EndsOK
      <3>3. QED BY <2>1, <3>1, <3>2 DEF CliFrame
    <2>3. QED BY <2>2 DEF EndsOK
  <1>4. ASSUME NEW g \in Sockets, Deliver(g)
        PROVE  EndsOK(r)'
    <2>1. toServer[g] # << >> /\ toServer' = [toServer EXCEPT ![g] = Tail(toServer[g])]
          /\ UNCHANGED cli
      BY <1>1, <1>4 DEF Deliver, cliVars
    <2>2. EndLast(Tail(toServer[g]), r)
      <3>1. toServer[g] \in Seq(Arriving) /\ EndLast(toServer[g], r)
        BY <1>1 DEF EndsOK
      <3>2. << >> \in Seq(Chunks) /\ 0 \in Nat
        OBVIOUS
      <3>3. QED BY <2>1, <3>1, <3>2, TailInLine
    <2>3. \A k \in DOMAIN Tail(toServer[g]) :
             k + 1 \in DOMAIN toServer[g] /\ Tail(toServer[g])[k] = toServer[g][k + 1]
      BY <1>1, <2>1, TailAt
    <2>4. QED BY <1>1, <2>1, <2>2, <2>3 DEF EndsOK
  <1>5. ASSUME NEW g \in Sockets, CliReceive(g)
        PROVE  EndsOK(r)'
    <2>1. UNCHANGED toServer /\ (cli[r] = "done" => cli'[r] = "done")
      BY <1>5, StaysDone DEF CliReceive
    <2>2. QED BY <2>1 DEF EndsOK
  <1>6. ASSUME NEW g \in Sockets, Break(g)
        PROVE  EndsOK(r)'
    <2>1. /\ \A h \in Sockets : toServer'[h] = toServer[h] \/ DOMAIN toServer'[h] = {}
          /\ UNCHANGED cli
      BY <1>1, <1>6 DEF Break, cliVars
    <2>2. QED BY <2>1 DEF EndsOK, EndLast
  <1>7. ASSUME NEW g \in Sockets, SocketStep(g)
        PROVE  EndsOK(r)'
    <2>1. CASE ServerDetach(g) \/ CliDetect(g) \/ Reconnect(g)
      BY <1>2, <2>1 DEF ServerDetach, CliDetect, Reconnect, cliVars
    <2>2. QED BY <1>4, <1>5, <1>6, <1>7, <2>1 DEF SocketStep
  <1>8. QED BY <1>2, <1>3, <1>7, ServerSends DEF Next, vars, cliVars, netVars

-----------------------------------------------------------------------------
(* The connections.  As long as the first is the only one, frames reach the
   server over it and the tunnel stays on it.                               *)
NeverReconnected == \A g \in Sockets \ {FirstSocket} : link[g] = "unused"

LinksOK ==
    /\ \A g \in Sockets : link[g] # "up" => toServer[g] = << >>
    /\ \A g \in Sockets : link[g] = "up" => cliSock = g
    /\ link[FirstSocket] # "unused"
    /\ cliSock # None => link[cliSock] # "unused"
    /\ NeverReconnected /\ link[FirstSocket] = "up" => tunnelSock = FirstSocket

LEMMA LinksKept ==
    ASSUME Inv, LinksOK, [Next]_vars
    PROVE  LinksOK' /\ (NeverReconnected' => NeverReconnected)
  <1> USE DEF LinksOK, NeverReconnected
  <1>1. /\ TypeOK /\ FirstSocket \in Sockets /\ None \notin Sockets
        /\ toServer \in [Sockets -> Seq(Arriving)] /\ link \in [Sockets -> {"unused", "up", "down"}]
        /\ cliSock \in Sockets \cup {None}
    BY ExchangeAssumption DEF Inv, FramesOK, TypeOK
  <1>2. CASE UNCHANGED <<link, toServer, tunnelSock, cliSock>>
    BY <1>2
  <1>3. ASSUME NEW q \in Requests, CliStep(q)
        PROVE  LinksOK' /\ (NeverReconnected' => NeverReconnected)
    <2>1. PICK f \in Arriving : CliFrame(f, q)
      BY <1>3, CliSends
    <2>2. UNCHANGED <<link, tunnelSock, cliSock>>
      BY <1>3, CliSends
    <2>3. QED BY <2>1, <2>2 DEF CliFrame
  <1>4. ASSUME NEW g \in Sockets, Deliver(g)
        PROVE  LinksOK' /\ (NeverReconnected' => NeverReconnected)
    <2>1. /\ toServer[g] # << >> /\ UNCHANGED <<link, tunnelSock, cliSock>>
          /\ \A h \in Sockets : h # g => toServer'[h] = toServer[h]
      BY <1>1, <1>4 DEF Deliver
    <2>2. QED BY <1>1, <2>1
  <1>5. ASSUME NEW g \in Sockets, Break(g)
        PROVE  LinksOK' /\ (NeverReconnected' => NeverReconnected)
    BY <1>1, <1>5 DEF Break
  <1>6. ASSUME NEW g \in Sockets, Reconnect(g)
        PROVE  LinksOK' /\ (NeverReconnected' => NeverReconnected)
    <2>1. /\ g # FirstSocket /\ link'[g] = "up" /\ cliSock' = g /\ UNCHANGED toServer
          /\ \A h \in Sockets : h # g => link'[h] = link[h]
      BY <1>1, <1>6 DEF Reconnect
    <2>2. link[FirstSocket] # "up"
      BY <1>1, <1>6 DEF Reconnect
    <2>3. ~NeverReconnected'
      BY <2>1
    <2>4. /\ \A h \in Sockets : link'[h] # "up" => toServer'[h] = << >>
          /\ \A h \in Sockets : link'[h] = "up" => cliSock' = h
      BY <1>1, <1>6, <2>1 DEF Reconnect
    <2>5. link'[FirstSocket] # "unused" /\ link'[cliSock'] # "unused"
      BY <1>1, <2>1
    <2>6. QED BY <2>3, <2>4, <2>5
  <1>7. ASSUME NEW g \in Sockets, SocketStep(g)
        PROVE  LinksOK' /\ (NeverReconnected' => NeverReconnected)
    <2>1. CASE CliReceive(g)
      BY <1>2, <2>1 DEF CliReceive
    <2>2. CASE ServerDetach(g) \/ CliDetect(g)
      BY <1>1, <2>2 DEF ServerDetach, CliDetect
    <2>3. QED BY <1>4, <1>5, <1>6, <1>7, <2>1, <2>2 DEF SocketStep
  <1>8. QED BY <1>2, <1>3, <1>7, ServerSends DEF Next, vars, netVars

-----------------------------------------------------------------------------
(* What the server has of a body: what the public response got, the chunk in
   the iterator's hand, and the buffer.  A failed exchange hands on no more. *)
Hand(p, s) == IF p = "woken" /\ s # Done THEN <<s>> ELSE << >>

BodyOf(e, p, s, rec) == IF e.failed THEN rec ELSE rec \o Hand(p, s) \o e.buffer

Body(r) == BodyOf(ex[r], pull[r], slot[r], received[r])

(* Nothing is buffered behind the end of a body.                            *)
DrainedOK(r) ==
    (pull[r] = "woken" /\ slot[r] = Done) \/ fwd[r] = "returned" => ex[r].buffer = << >>

LEMMA BodyType ==
    ASSUME TypeOK, NEW r \in Requests
    PROVE  /\ Body(r) \in Seq(Chunks) /\ received[r] \in Seq(Chunks)
           /\ Len(received[r]) <= Len(Body(r))
           /\ \A k \in 1..Len(received[r]) : received[r][k] = Body(r)[k]
  <1> DEFINE h == Hand(pull[r], slot[r])
             b == ex[r].buffer
  <1>1. received[r] \in Seq(Chunks) /\ h \in Seq(Chunks) /\ b \in Seq(Chunks)
    BY DEF TypeOK, Exchange, Hand
  <1> HIDE DEF h, b
  <1>2. /\ received[r] \o h \o b \in Seq(Chunks)
        /\ Len(received[r]) <= Len(received[r] \o h \o b)
        /\ \A k \in 1..Len(received[r]) : received[r][k] = (received[r] \o h \o b)[k]
    BY <1>1
  <1>3. Body(r) = IF ex[r].failed THEN received[r] ELSE received[r] \o h \o b
    BY DEF Body, BodyOf, h, b
  <1>4. QED BY <1>1, <1>2, <1>3

LEMMA ConcatAppend ==
    ASSUME NEW S, NEW s \in Seq(S), NEW t \in Seq(S), NEW x \in S
    PROVE  s \o Append(t, x) = Append(s \o t, x)
  OBVIOUS

LEMMA ConcatHeadTail ==
    ASSUME NEW S, NEW s \in Seq(S), NEW t \in Seq(S), t # << >>
    PROVE  Append(s, Head(t)) \o Tail(t) = s \o t
  OBVIOUS

LEMMA ConcatOne ==
    ASSUME NEW S, NEW s \in Seq(S), NEW x \in S
    PROVE  s \o << >> = s /\ s \o <<x>> = Append(s, x) /\ Append(s, x) \in Seq(S)
  OBVIOUS

(* A chunk is given to a waiting iterator, or buffered.                     *)
LEMMA ChunkJoins ==
    ASSUME NEW rec \in Seq(Chunks), NEW e \in Exchange, NEW e2 \in Exchange, NEW x \in Chunks,
           NEW p, NEW s \in Chunks \cup {Done}, NEW p2, NEW s2, ~e.failed, ~e2.failed,
           \/ p = "waiting" /\ e.buffer = << >> /\ e2.buffer = << >> /\ p2 = "woken" /\ s2 = x
           \/ e2.buffer = Append(e.buffer, x) /\ p2 = p /\ s2 = s
    PROVE  BodyOf(e2, p2, s2, rec) = Append(BodyOf(e, p, s, rec), x)
  <1>1. CASE p = "waiting" /\ e.buffer = << >> /\ e2.buffer = << >> /\ p2 = "woken" /\ s2 = x
    <2>1. Hand(p, s) = << >> /\ Hand(p2, s2) = <<x>>
      BY <1>1 DEF Hand, Chunks, Done
    <2>2. rec \o << >> = rec /\ rec \o <<x>> = Append(rec, x)
          /\ Append(rec, x) \o << >> = Append(rec, x)
      BY ConcatOne
    <2>3. QED BY <1>1, <2>1, <2>2 DEF BodyOf
  <1>2. CASE e2.buffer = Append(e.buffer, x) /\ p2 = p /\ s2 = s
    <2>1. Hand(p, s) \in Seq(Chunks) /\ e.buffer \in Seq(Chunks)
      <3>1. s # Done => <<s>> \in Seq(Chunks)
        OBVIOUS
      <3>2. << >> \in Seq(Chunks)
        OBVIOUS
      <3>3. QED BY <3>1, <3>2 DEF Hand, Exchange
    <2> DEFINE h == rec \o Hand(p, s)
               b == e.buffer
    <2>2. h \in Seq(Chunks) /\ b \in Seq(Chunks)
      BY <2>1
    <2> HIDE DEF h, b
    <2>3. h \o Append(b, x) = Append(h \o b, x)
      BY <2>2, ConcatAppend
    <2>4. QED BY <1>2, <2>3 DEF BodyOf, h, b
  <1>3. QED BY <1>1, <1>2

Steady(r)  == /\ ex'[r].failed = ex[r].failed /\ ex'[r].ended = ex[r].ended
              /\ Body(r)' = Body(r)
Failing(r) == ex'[r].failed /\ Body(r)' = received[r]

(* What a frame does to the body of q.                                      *)
DeliverBody(g, f, q) ==
    \/ /\ Steady(q)
       /\ ChunkOf(f, q) \/ EndOf(f, q) => q \notin pending \/ tunnelSock # g
    \/ Failing(q)
    \/ /\ ChunkOf(f, q) /\ Body(q)' = Append(Body(q), f.seq)
       /\ ~ex[q].failed /\ ~ex[q].ended /\ ~ex'[q].failed /\ ~ex'[q].ended
    \/ /\ EndOf(f, q) /\ Body(q)' = Body(q)
       /\ ~ex[q].failed /\ ~ex[q].ended /\ ~ex'[q].failed /\ ex'[q].ended

LEMMA DeliverBodies ==
    ASSUME Inv, NEW g \in Sockets, Deliver(g), NEW q \in Requests, DrainedOK(q)
    PROVE  DeliverBody(g, Head(toServer[g]), q) /\ DrainedOK(q)'
  <1> DEFINE f == Head(toServer[g])
             r == f.req
  <1>1. /\ TypeOK /\ f \in Arriving /\ toServer[g] # << >> /\ UNCHANGED <<received, fwd>>
        /\ RequestInv(q)
    BY TakenType DEF Deliver, Inv, FramesOK
  <1>2. r \in Requests /\ (f.type = "chunk" => f.seq \in Chunks)
    BY <1>1 DEF Arriving, Frames
  <1>3. \/ /\ UNCHANGED <<ex, pending, pull, slot>>
           /\ r \notin pending \/ tunnelSock # g \/ f.type = "error"
        \/ /\ r \in pending
           /\ \/ f.type = "start" /\ OnResponseStart(r)
              \/ f.type = "chunk" /\ OnResponseChunk(r, f.seq)
              \/ f.type = "end" /\ OnResponseEnd(r)
              \/ FailExchange(r)
    BY DEF Deliver
  <1> HIDE DEF f, r
  <1>4. ASSUME ex'[q] = ex[q], pull'[q] = pull[q], slot'[q] = slot[q]
        PROVE  Steady(q) /\ DrainedOK(q)'
    BY <1>1, <1>4 DEF Steady, Body, DrainedOK
  <1>5. CASE /\ UNCHANGED <<ex, pending, pull, slot>>
             /\ r \notin pending \/ tunnelSock # g \/ f.type = "error"
    <2>1. ChunkOf(f, q) \/ EndOf(f, q) => r = q /\ f.type # "error"
      BY DEF ChunkOf, EndOf, r
    <2>2. QED BY <1>1, <1>4, <1>5, <2>1 DEF DeliverBody, f
  <1>6. CASE q # r /\ r \in pending
             /\ \/ OnResponseStart(r) \/ OnResponseChunk(r, f.seq)
                \/ OnResponseEnd(r) \/ FailExchange(r)
    <2>1. ex'[q] = ex[q] /\ pull'[q] = pull[q] /\ slot'[q] = slot[q]
      BY <1>1, <1>2, <1>6 DEF OnResponseStart, OnResponseChunk, OnResponseEnd, FailExchange,
                              Resolve, TypeOK
    <2>2. ~ChunkOf(f, q) /\ ~EndOf(f, q)
      BY <1>6 DEF ChunkOf, EndOf, r
    <2>3. QED BY <1>4, <2>1, <2>2 DEF DeliverBody, f
  <1>7. ASSUME q = r, FailExchange(q)
        PROVE  Failing(q) /\ DrainedOK(q)'
    <2>1. /\ ex'[q].failed /\ ex'[q].buffer = ex[q].buffer
          /\ pull'[q] = IF pull[q] = "waiting" THEN "woken" ELSE pull[q]
          /\ slot'[q] = IF pull[q] = "waiting" THEN slot'[q] ELSE slot[q]
      <3>1. slot'[q] = IF pull[q] = "waiting" THEN slot'[q] ELSE slot[q]
        BY <1>1, <1>7 DEF FailExchange, Resolve, TypeOK
      <3>2. QED BY <1>1, <1>7, <3>1, FailEffect DEF RequestInv
    <2>2. Failing(q)
      BY <1>1, <2>1 DEF Failing, Body, BodyOf
    <2>3. DrainedOK(q)'
      BY <1>1, <2>1 DEF DrainedOK, RequestInv, IteratorOK
    <2>4. QED BY <2>2, <2>3
  <1>8. CASE q = r /\ r \in pending
             /\ \/ f.type = "start" /\ OnResponseStart(r)
                \/ f.type = "chunk" /\ OnResponseChunk(r, f.seq)
                \/ f.type = "end" /\ OnResponseEnd(r)
                \/ FailExchange(r)
    <2>1. /\ ~ex[q].ended /\ ~ex[q].failed /\ ex[q] \in Exchange /\ ex \in [Requests -> Exchange]
          /\ fwd[q] # "returned"
      BY <1>1, <1>8 DEF RequestInv, FlagsOK, OutcomeOK, TypeOK
    <2>7. received[q] \in Seq(Chunks) /\ slot[q] \in Chunks \cup {Done}
      BY <1>1 DEF TypeOK
    <2>2. CASE FailExchange(r)
      BY <1>7, <1>8, <2>2 DEF DeliverBody, f
    <2>3. CASE f.type = "start" /\ OnResponseStart(r) /\ ~FailExchange(r)
      <3>1. /\ ex' = [ex EXCEPT ![r].start = "resolved"] /\ UNCHANGED <<pull, slot>>
        BY <2>3 DEF OnResponseStart
      <3>2. ex'[q] = [ex[q] EXCEPT !.start = "resolved"]
        BY <1>1, <1>8, <2>1, <3>1
      <3>3. /\ ex'[q].buffer = ex[q].buffer /\ ex'[q].failed = ex[q].failed
            /\ ex'[q].ended = ex[q].ended
        BY <2>1, <3>2 DEF Exchange
      <3>4. Steady(q) /\ DrainedOK(q)' /\ ~ChunkOf(f, q) /\ ~EndOf(f, q)
        BY <1>1, <2>3, <3>1, <3>3 DEF Steady, Body, BodyOf, DrainedOK, ChunkOf, EndOf
      <3>5. QED BY <3>4 DEF DeliverBody, f
    <2>4. CASE f.type = "chunk" /\ OnResponseChunk(r, f.seq) /\ ~FailExchange(r)
      <3>1. ChunkOf(f, q) /\ f.seq \in Chunks /\ f.seq # Done
        BY <1>2, <1>8, <2>4 DEF ChunkOf, r, Chunks, Done
      <3>2. /\ \/ /\ pull[q] = "waiting" /\ ex' = ex
                  /\ pull'[q] = "woken" /\ slot'[q] = f.seq
               \/ /\ pull[q] # "waiting" /\ ex' = [ex EXCEPT ![q].buffer = Append(@, f.seq)]
                  /\ pull' = pull /\ slot' = slot
        BY <1>1, <1>8, <2>1, <2>4 DEF OnResponseChunk, Resolve, TypeOK
      <3>3. CASE pull[q] = "waiting" /\ ex' = ex /\ pull'[q] = "woken" /\ slot'[q] = f.seq
        <4>1. ex[q].buffer = << >>
          BY <1>1, <3>3 DEF RequestInv, IteratorOK
        <4>2. Body(q)' = Append(Body(q), f.seq)
          BY <1>1, <2>1, <2>7, <3>1, <3>3, <4>1, ChunkJoins DEF Body
        <4>3. DrainedOK(q)'
          BY <3>3, <4>1 DEF DrainedOK
        <4>4. QED BY <2>1, <3>1, <3>3, <4>2, <4>3 DEF DeliverBody, f
      <3>4. CASE /\ pull[q] # "waiting" /\ ex' = [ex EXCEPT ![q].buffer = Append(@, f.seq)]
                 /\ pull' = pull /\ slot' = slot
        <4>1. ex'[q] = [ex[q] EXCEPT !.buffer = Append(ex[q].buffer, f.seq)]
          BY <2>1, <3>4
        <4>2. ex[q].buffer \in Seq(Chunks) /\ Append(ex[q].buffer, f.seq) \in Seq(Chunks)
          BY <2>1, <3>1 DEF Exchange
        <4>3. /\ ex'[q].buffer = Append(ex[q].buffer, f.seq) /\ ex'[q] \in Exchange
              /\ ~ex'[q].failed /\ ~ex'[q].ended
          BY <2>1, <4>1, <4>2 DEF Exchange
        <4>4. Body(q)' = Append(Body(q), f.seq)
          <5>1. BodyOf(ex'[q], pull[q], slot[q], received[q]) =
                   Append(BodyOf(ex[q], pull[q], slot[q], received[q]), f.seq)
            BY <2>1, <2>7, <3>1, <4>3, ChunkJoins
          <5>2. pull'[q] = pull[q] /\ slot'[q] = slot[q] /\ received'[q] = received[q]
            BY <1>1, <3>4
          <5>3. QED BY <5>1, <5>2 DEF Body
        <4>5. DrainedOK(q)'
          BY <1>1, <2>1, <3>4 DEF DrainedOK, RequestInv, IteratorOK
        <4>6. QED BY <2>1, <3>1, <4>3, <4>4, <4>5 DEF DeliverBody, f
      <3>5. QED BY <3>2, <3>3, <3>4
    <2>5. CASE f.type = "end" /\ OnResponseEnd(r) /\ ~FailExchange(r)
      <3>1. /\ ex' = [ex EXCEPT ![q].ended = TRUE]
            /\ pull'[q] = IF pull[q] = "waiting" THEN "woken" ELSE pull[q]
            /\ slot'[q] = IF pull[q] = "waiting" THEN Done ELSE slot[q]
        BY <1>1, <1>8, <2>1, <2>5 DEF OnResponseEnd, Resolve, TypeOK
      <3>2. ex'[q] = [ex[q] EXCEPT !.ended = TRUE]
        BY <2>1, <3>1
      <3>3. /\ ex'[q].buffer = ex[q].buffer /\ ~ex'[q].failed /\ ex'[q].ended
        BY <2>1, <3>2 DEF Exchange
      <3>4. Hand(pull'[q], slot'[q]) = Hand(pull[q], slot[q])
        BY <3>1 DEF Hand
      <3>5. Body(q)' = Body(q) /\ EndOf(f, q)
        BY <1>1, <1>8, <2>1, <2>5, <3>3, <3>4 DEF Body, BodyOf, EndOf, r
      <3>6. DrainedOK(q)'
        BY <1>1, <2>1, <3>1, <3>3 DEF DrainedOK, RequestInv, IteratorOK
      <3>7. QED BY <2>1, <3>3, <3>5, <3>6 DEF DeliverBody, f
    <2>6. QED BY <1>8, <2>2, <2>3, <2>4, <2>5
  <1>9. QED BY <1>3, <1>5, <1>6, <1>8

(* The iterator moves chunks on and loses none, unless the exchange failed. *)
LEMMA PullBody ==
    ASSUME Inv, NEW r \in Requests, DrainedOK(r), Pull(r)
    PROVE  Steady(r) /\ DrainedOK(r)'
  <1>1. /\ TypeOK /\ RequestInv(r) /\ fwd[r] = "streaming" /\ pull[r] = "idle" /\ UNCHANGED slot
        /\ ex[r] \in Exchange /\ ex \in [Requests -> Exchange] /\ received[r] \in Seq(Chunks)
        /\ ex[r].buffer \in Seq(Chunks)
    BY DEF Inv, Pull, TypeOK, Exchange
  <1>2. CASE ex[r].failed /\ Finished(r, "failed") /\ UNCHANGED <<ex, pull>>
    BY <1>1, <1>2 DEF Finished, Steady, Body, DrainedOK, TypeOK
  <1>3. CASE ~ex[r].failed /\ ex[r].buffer # << >> /\ Handed(r, Head(ex[r].buffer))
             /\ ex' = [ex EXCEPT ![r].buffer = Tail(@)] /\ UNCHANGED pull
    <2> DEFINE b == ex[r].buffer
               s == received[r]
    <2>1. b \in Seq(Chunks) /\ s \in Seq(Chunks) /\ b # << >>
      BY <1>1, <1>3
    <2>2. ex'[r] = [ex[r] EXCEPT !.buffer = Tail(b)]
      BY <1>1, <1>3
    <2>3. /\ ex'[r].buffer = Tail(b) /\ ~ex'[r].failed
          /\ ex'[r].failed = ex[r].failed /\ ex'[r].ended = ex[r].ended
      BY <1>1, <1>3, <2>2 DEF Exchange
    <2>4. /\ received'[r] = Append(s, Head(b)) /\ pull'[r] = "idle" /\ pull[r] = "idle"
          /\ fwd'[r] = "streaming"
      BY <1>1, <1>3 DEF Handed, TypeOK
    <2>5. Hand("idle", slot[r]) = << >> /\ slot'[r] = slot[r]
      BY <1>1 DEF Hand
    <2> HIDE DEF b, s
    <2>6. /\ Append(s, Head(b)) \in Seq(Chunks)
          /\ Append(s, Head(b)) \o << >> = Append(s, Head(b)) /\ s \o << >> = s
      <3>1. Head(b) \in Chunks
        BY <2>1
      <3>2. QED BY <2>1, <3>1, ConcatOne
    <2>7. Append(s, Head(b)) \o Tail(b) = s \o b
      BY <2>1, ConcatHeadTail
    <2>8. Body(r)' = Append(s, Head(b)) \o Hand("idle", slot[r]) \o Tail(b)
      BY <2>3, <2>4, <2>5 DEF Body, BodyOf
    <2>9. Body(r) = s \o Hand("idle", slot[r]) \o b
      BY <1>3, <2>4 DEF Body, BodyOf, s, b
    <2>10. Steady(r)
      <3>1. Body(r)' = Append(s, Head(b)) \o Tail(b)
        BY <2>5, <2>6, <2>8
      <3>2. Body(r) = s \o b
        BY <2>5, <2>6, <2>9
      <3>3. QED BY <1>3, <2>3, <2>7, <3>1, <3>2 DEF Steady
    <2>11. QED BY <2>4, <2>10 DEF DrainedOK
  <1>4. CASE ~ex[r].failed /\ ex[r].buffer = << >> /\ ex[r].ended /\ Finished(r, "returned")
             /\ UNCHANGED <<ex, pull>>
    BY <1>1, <1>4 DEF Finished, Steady, Body, DrainedOK
  <1>5. CASE ~ex[r].failed /\ ex[r].buffer = << >> /\ ~ex[r].ended
             /\ pull' = [pull EXCEPT ![r] = "waiting"] /\ UNCHANGED <<ex, fwd, events, received>>
    <2>1. pull'[r] = "waiting"
      BY <1>1, <1>5 DEF TypeOK
    <2>2. Hand(pull'[r], slot'[r]) = Hand(pull[r], slot[r])
      BY <1>1, <2>1 DEF Hand
    <2>3. Body(r)' = Body(r)
      <3>1. /\ Body(r)' = received[r] \o Hand(pull'[r], slot'[r]) \o ex[r].buffer
            /\ Body(r) = received[r] \o Hand(pull[r], slot[r]) \o ex[r].buffer
        BY <1>5 DEF Body, BodyOf
      <3>2. QED BY <2>2, <3>1
    <2>4. QED BY <1>1, <1>5, <2>1, <2>3 DEF Steady, DrainedOK
  <1>6. QED BY <1>2, <1>3, <1>4, <1>5 DEF Pull

LEMMA WakeBody ==
    ASSUME Inv, NEW r \in Requests, DrainedOK(r), Wake(r)
    PROVE  Steady(r) /\ DrainedOK(r)'
  <1>1. /\ TypeOK /\ RequestInv(r) /\ pull[r] = "woken" /\ pull'[r] = "idle"
        /\ UNCHANGED <<ex, slot>>
        /\ received[r] \in Seq(Chunks) /\ slot[r] \in Chunks \cup {Done}
    BY DEF Inv, Wake, TypeOK
  <1>2. Hand(pull'[r], slot'[r]) = << >>
    BY <1>1 DEF Hand
  <1>3. fwd[r] \in {"streaming", "returning"}
    BY <1>1 DEF RequestInv, IteratorOK
  <1>4. CASE ex[r].failed /\ Finished(r, "failed")
    <2>1. received'[r] = received[r] /\ fwd'[r] = "failed"
      BY <1>1, <1>4 DEF Finished, TypeOK
    <2>2. QED BY <1>1, <1>4, <2>1 DEF Steady, Body, BodyOf, DrainedOK
  <1>5. CASE ~ex[r].failed /\ slot[r] = Done /\ Finished(r, "returned")
    <2>1. received'[r] = received[r] /\ Hand(pull[r], slot[r]) = << >>
      BY <1>1, <1>5 DEF Finished, Hand
    <2>2. QED BY <1>1, <1>2, <1>5, <2>1 DEF Steady, Body, BodyOf, DrainedOK
  <1>6. CASE ~ex[r].failed /\ slot[r] # Done /\ Handed(r, slot[r])
    <2>1. /\ received'[r] = Append(received[r], slot[r]) /\ fwd'[r] \in {"streaming", "abandoned"}
          /\ Hand(pull[r], slot[r]) = <<slot[r]>> /\ slot[r] \in Chunks
      BY <1>1, <1>3, <1>6 DEF Handed, Hand, TypeOK
    <2>2. /\ received[r] \o <<slot[r]>> = Append(received[r], slot[r])
          /\ Append(received[r], slot[r]) \o << >> = Append(received[r], slot[r])
      BY <1>1, <2>1, ConcatOne
    <2>3. QED BY <1>1, <1>2, <1>6, <2>1, <2>2 DEF Steady, Body, BodyOf, DrainedOK
  <1>7. QED BY <1>4, <1>5, <1>6 DEF Wake

LEMMA TimeoutBody ==
    ASSUME Inv, NEW r \in Requests, DrainedOK(r), Timeout(r)
    PROVE  Failing(r) /\ DrainedOK(r)'
  <1>1. TypeOK /\ RequestInv(r) /\ FailExchange(r) /\ UNCHANGED <<received, fwd>>
    BY DEF Inv, Timeout
  <1>2. /\ ex'[r].failed /\ ex'[r].buffer = ex[r].buffer
        /\ pull'[r] = IF pull[r] = "waiting" THEN "woken" ELSE pull[r]
    BY <1>1, FailEffect DEF RequestInv
  <1>3. pull[r] # "waiting" => slot'[r] = slot[r]
    BY <1>1 DEF FailExchange, Resolve, TypeOK
  <1>4. Failing(r)
    BY <1>1, <1>2 DEF Failing, Body, BodyOf
  <1>5. DrainedOK(r)'
    BY <1>1, <1>2, <1>3 DEF DrainedOK, RequestInv, IteratorOK
  <1>6. QED BY <1>4, <1>5

LEMMA ServerBodies ==
    ASSUME Inv, NEW q \in Requests, ServerStep(q), NEW r \in Requests, DrainedOK(r)
    PROVE  (Steady(r) \/ Failing(r)) /\ DrainedOK(r)'
  <1>1. TypeOK
    BY DEF Inv
  <1>2. CASE r # q
    <2>1. /\ ex'[r] = ex[r] /\ pull'[r] = pull[r] /\ slot'[r] = slot[r]
          /\ received'[r] = received[r] /\ fwd'[r] = fwd[r]
      <3>1. CASE Forward(q) \/ ForwardOverLimit(q) \/ ForwardNotOpen(q) \/ StartSettled(q)
        BY <1>1, <1>2, <3>1
        DEF Forward, ForwardOverLimit, ForwardNotOpen, StartSettled, Finished, TypeOK
      <3>2. CASE Timeout(q)
        BY <1>1, <1>2, <3>2 DEF Timeout, FailExchange, Resolve, TypeOK
      <3>3. CASE Pull(q)
        BY <1>1, <1>2, <3>3 DEF Pull, Finished, Handed, TypeOK
      <3>4. CASE Wake(q)
        <4>1. /\ ex' = ex /\ slot' = slot /\ pull' = [pull EXCEPT ![q] = "idle"]
              /\ \/ Finished(q, "failed") \/ Finished(q, "returned") \/ Handed(q, slot[q])
          BY <3>4 DEF Wake
        <4>2. received'[r] = received[r] /\ fwd'[r] = fwd[r]
          BY <1>1, <1>2, <4>1 DEF Finished, Handed, TypeOK
        <4>3. QED BY <1>1, <1>2, <4>1, <4>2 DEF TypeOK
      <3>5. CASE Abandon(q)
        BY <1>1, <1>2, <3>5 DEF Abandon, TypeOK
      <3>6. QED BY <3>1, <3>2, <3>3, <3>4, <3>5 DEF ServerStep
    <2>2. QED BY <2>1 DEF Steady, Body, DrainedOK
  <1>3. CASE r = q /\ (Forward(r) \/ ForwardOverLimit(r) \/ ForwardNotOpen(r)
                       \/ StartSettled(r) \/ Abandon(r))
    <2>1. /\ UNCHANGED <<pull, slot, received>> /\ fwd'[r] # "returned"
          /\ UNCHANGED ex \/ ex' = [ex EXCEPT ![r].start = "waiting"]
      BY <1>1, <1>3 DEF Forward, ForwardOverLimit, ForwardNotOpen, StartSettled, Abandon, TypeOK
    <2>2. /\ ex'[r].buffer = ex[r].buffer /\ ex'[r].failed = ex[r].failed
          /\ ex'[r].ended = ex[r].ended
      <3>1. ex'[r] = ex[r] \/ ex'[r] = [ex[r] EXCEPT !.start = "waiting"]
        BY <1>1, <2>1 DEF TypeOK
      <3>2. ex[r] \in Exchange
        BY <1>1 DEF TypeOK
      <3>3. QED BY <3>1, <3>2 DEF Exchange
    <2>3. QED BY <2>1, <2>2 DEF Steady, Body, BodyOf, DrainedOK
  <1>4. QED BY <1>2, <1>3, PullBody, WakeBody, TimeoutBody DEF ServerStep

LEMMA OtherBodies ==
    ASSUME NEW r \in Requests, DrainedOK(r), UNCHANGED serverVars
    PROVE  Steady(r) /\ DrainedOK(r)'
  BY DEF serverVars, Steady, Body, DrainedOK

-----------------------------------------------------------------------------
(* The body of r, on its way: in line, and whole if the tunnel never moved.  *)
LineOK(r) == \A g \in Sockets : InLine(Body(r), toServer[g], r, sent[r])

WholeOK(r) ==
    NeverReconnected =>
        /\ Counting(Body(r))
        /\ ~ex[r].failed /\ ex[r].ended => Len(Body(r)) = sent[r] /\ cli[r] = "done"
        /\ ~ex[r].failed /\ ~ex[r].ended /\ link[FirstSocket] = "up" =>
              Complete(Body(r), toServer[FirstSocket], r, sent[r])

LEMMA QuietBodies ==
    ASSUME Inv, NEW r \in Requests, LineOK(r), WholeOK(r), Steady(r) \/ Failing(r),
           UNCHANGED <<toServer, sent>>, cli[r] = "done" => cli'[r] = "done",
           NeverReconnected' => NeverReconnected,
           link'[FirstSocket] = "up" => link[FirstSocket] = "up"
    PROVE  LineOK(r)' /\ WholeOK(r)'
  <1>1. CASE Steady(r)
    BY <1>1 DEF Steady, LineOK, WholeOK
  <1>2. CASE Failing(r)
    <2>1. /\ Body(r) \in Seq(Chunks) /\ received[r] \in Seq(Chunks)
          /\ Len(received[r]) <= Len(Body(r))
          /\ \A k \in 1..Len(received[r]) : received[r][k] = Body(r)[k]
      BY BodyType DEF Inv
    <2>2. /\ \A c, q, n : InLine(Body(r), c, q, n) => InLine(received[r], c, q, n)
          /\ Counting(Body(r)) => Counting(received[r])
      BY <2>1, PrefixInLine
    <2>3. QED BY <1>2, <2>2 DEF Failing, LineOK, WholeOK
  <1>3. QED BY <1>1, <1>2

(* A frame is delivered to the exchange it is for.                          *)
LEMMA DeliveredLine ==
    ASSUME Inv, LinksOK, NEW r \in Requests, StartsOK(r), EndsOK(r), DrainedOK(r),
           LineOK(r), WholeOK(r), NEW g \in Sockets, Deliver(g)
    PROVE  LineOK(r)' /\ WholeOK(r)'
  <1> DEFINE c == toServer[g]
             f == Head(toServer[g])
             n == sent[r]
             b == Body(r)
  <1>1. /\ TypeOK /\ toServer \in [Sockets -> Seq(Arriving)] /\ c \in Seq(Arriving) /\ c # << >>
        /\ toServer' = [toServer EXCEPT ![g] = Tail(c)]
        /\ UNCHANGED <<link, cli, sent, received>>
    BY DEF Inv, FramesOK, Deliver, cliVars
  <1>2. n \in Nat /\ b \in Seq(Chunks) /\ received[r] \in Seq(Chunks)
    BY <1>1, BodyType, ExchangeAssumption DEF TypeOK
  <1>3. /\ toServer'[g] = Tail(c) /\ Tail(c) \in Seq(Arriving)
        /\ \A h \in Sockets : h # g => toServer'[h] = toServer[h]
        /\ f = c[1] /\ 1 \in DOMAIN c /\ f \in Arriving
    BY <1>1, TailAt
  <1>4. NeverReconnected => g = FirstSocket /\ link[FirstSocket] = "up" /\ tunnelSock = g
    BY <1>1 DEF NeverReconnected, LinksOK
  <1>5. \A h \in Sockets : InLine(b, toServer[h], r, n)
    BY DEF LineOK
  <1>6. \A h \in Sockets : InLine(b, toServer'[h], r, n)
    BY <1>1, <1>2, <1>3, <1>5, TailInLine
  <1>7. /\ NeverReconnected' => NeverReconnected
        /\ NeverReconnected => Counting(b)
        /\ NeverReconnected /\ ~ex[r].failed /\ ex[r].ended => Len(b) = n /\ cli[r] = "done"
        /\ NeverReconnected /\ ~ex[r].failed /\ ~ex[r].ended => Complete(b, c, r, n)
    BY <1>1, <1>4 DEF NeverReconnected, WholeOK
  <1>8. DeliverBody(g, f, r)
    BY DeliverBodies
  <1> HIDE DEF c, f, n, b
  <1>9. CASE /\ Steady(r)
             /\ ChunkOf(f, r) \/ EndOf(f, r) => r \notin pending \/ tunnelSock # g
    <2>1. NeverReconnected /\ ~ex[r].failed /\ ~ex[r].ended => Complete(b, Tail(c), r, n)
      <3>1. CASE ~ChunkOf(f, r)
        BY <1>1, <1>2, <1>7, <3>1, TailInLine DEF f, c
      <3>2. CASE ChunkOf(f, r) /\ NeverReconnected /\ ~ex[r].ended
        <4>1. r \notin pending
          BY <1>4, <1>9, <3>2
        <4>2. ex[r].start = "unborn"
          BY <3>2, <4>1 DEF Inv, RequestInv, FlagsOK
        <4>3. n = 0
          BY <4>2 DEF StartsOK, n
        <4>4. f.seq <= n
          BY <1>3, <1>5, <3>2 DEF InLine, c
        <4>5. f.seq \in Chunks
          BY <1>3, <3>2 DEF Arriving, ChunkOf
        <4>6. QED BY <4>3, <4>4, <4>5 DEF Chunks
      <3>3. QED BY <3>1, <3>2
    <2>2. QED BY <1>1, <1>3, <1>4, <1>6, <1>7, <1>9, <2>1 DEF Steady, LineOK, WholeOK, b, n
  <1>10. CASE Failing(r)
    <2>1. /\ Len(received[r]) <= Len(b) /\ \A k \in 1..Len(received[r]) : received[r][k] = b[k]
      BY <1>1, BodyType DEF b
    <2>2. /\ \A d, q, m : InLine(b, d, q, m) => InLine(received[r], d, q, m)
          /\ Counting(b) => Counting(received[r])
      BY <1>2, <2>1, PrefixInLine
    <2>3. QED BY <1>1, <1>6, <1>7, <1>10, <2>2 DEF Failing, LineOK, WholeOK, n
  <1>11. CASE /\ ChunkOf(f, r) /\ Body(r)' = Append(b, f.seq)
              /\ ~ex[r].failed /\ ~ex[r].ended /\ ~ex'[r].failed /\ ~ex'[r].ended
    <2>1. /\ Append(b, f.seq) \in Seq(Chunks) /\ InLine(Append(b, f.seq), Tail(c), r, n)
          /\ f.seq \in Chunks
          /\ Counting(b) /\ Complete(b, c, r, n) =>
                Counting(Append(b, f.seq)) /\ Complete(Append(b, f.seq), Tail(c), r, n)
      <3>1. InLine(b, c, r, n)
        BY <1>5 DEF c
      <3>2. QED BY <1>1, <1>2, <1>11, <3>1, TakeInLine DEF f, c
    <2>2. ASSUME NEW h \in Sockets
          PROVE  InLine(Append(b, f.seq), toServer'[h], r, n)
      <3>1. CASE h = g
        BY <1>3, <2>1, <3>1
      <3>2. CASE h # g
        <4>1. link[g] = "up"
          BY <1>1 DEF LinksOK, c
        <4>2. link[h] # "up"
          BY <3>2, <4>1 DEF LinksOK
        <4>3. toServer'[h] = << >>
          BY <1>3, <3>2, <4>2 DEF LinksOK
        <4>4. QED BY <2>1, <4>3 DEF InLine
      <3>3. QED BY <3>1, <3>2
    <2>3. LineOK(r)'
      BY <1>1, <1>11, <2>2 DEF LineOK, n
    <2>4. WholeOK(r)'
      BY <1>1, <1>3, <1>4, <1>7, <1>11, <2>1 DEF WholeOK, n
    <2>5. QED BY <2>3, <2>4
  <1>12. CASE /\ EndOf(f, r) /\ Body(r)' = b
              /\ ~ex[r].failed /\ ~ex[r].ended /\ ~ex'[r].failed /\ ex'[r].ended
    <2>1. cli[r] = "done" /\ \A k \in DOMAIN c : ~ChunkOf(c[k], r)
      <3>1. EndOf(c[1], r) /\ 1 \in DOMAIN c
        BY <1>3, <1>12
      <3>2. \A k \in DOMAIN c : k \in Nat \ {0}
        BY <1>1
      <3>3. cli[r] = "done" /\ \A k \in DOMAIN c : ChunkOf(c[k], r) => k < 1
        BY <3>1 DEF EndsOK, EndLast, c
      <3>4. QED BY <3>2, <3>3
    <2>2. NeverReconnected => Len(b) = n
      <3> SUFFICES ASSUME NeverReconnected PROVE Len(b) = n
        OBVIOUS
      <3>1. Complete(b, c, r, n) /\ Counting(b) /\ Len(b) \in Nat
        BY <1>2, <1>7, <1>12
      <3>2. ~(Len(b) < n)
        <4>1. Len(b) < n => \E k \in DOMAIN c : ChunkOf(c[k], r)
          BY <1>2, <3>1 DEF Complete
        <4>2. QED BY <2>1, <4>1
      <3>3. Len(b) <= n
        <4>1. CASE Len(b) = 0
          BY <1>2, <4>1
        <4>2. CASE Len(b) # 0
          <5>1. Len(b) \in DOMAIN b
            BY <1>2, <4>2
          <5>2. b[Len(b)] = Len(b) /\ b[Len(b)] <= n
            BY <1>5, <3>1, <5>1 DEF Counting, InLine
          <5>3. QED BY <5>2
        <4>3. QED BY <4>1, <4>2
      <3>4. QED BY <1>2, <3>1, <3>2, <3>3
    <2>3. QED BY <1>1, <1>6, <1>7, <1>12, <2>1, <2>2 DEF LineOK, WholeOK, n
  <1>13. QED BY <1>8, <1>9, <1>10, <1>11, <1>12 DEF DeliverBody, b

(* The CLI sends: the next chunk, or a frame that is no chunk of r.         *)
LEMMA SentLine ==
    ASSUME Inv, LinksOK, NEW r \in Requests, StartsOK(r), EndsOK(r), DrainedOK(r),
           LineOK(r), WholeOK(r), NEW q \in Requests, CliStep(q)
    PROVE  LineOK(r)' /\ WholeOK(r)'
  <1> DEFINE n == sent[r]
             m == sent'[r]
             b == Body(r)
  <1>1. /\ TypeOK /\ toServer \in [Sockets -> Seq(Arriving)] /\ UNCHANGED link
        /\ UNCHANGED serverVars /\ cliSock' = cliSock
    BY CliSends DEF Inv, FramesOK
  <1>2. PICK f \in Arriving : CliFrame(f, r)
    BY CliSends
  <1>3. Steady(r)
    BY <1>1, OtherBodies
  <1>4. /\ n \in Nat /\ m \in Nat /\ b \in Seq(Chunks) /\ n <= m
        /\ IF ChunkOf(f, r) THEN f.seq = m /\ m = n + 1 ELSE m = n
    <2>1. n \in Nat /\ b \in Seq(Chunks)
      BY <1>1, BodyType, ExchangeAssumption DEF TypeOK
    <2>2. IF ChunkOf(f, r) THEN f.seq = m /\ m = n + 1 ELSE m = n
      BY <1>2 DEF CliFrame
    <2>3. QED BY <2>1, <2>2
  <1> HIDE DEF n, m, b
  <1>5. ASSUME NEW g \in Sockets
        PROVE  InLine(b, toServer'[g], r, m)
    <2>1. InLine(b, toServer[g], r, n) /\ toServer[g] \in Seq(Arriving)
      BY <1>1 DEF LineOK, b, n
    <2>2. CASE toServer'[g] = toServer[g]
      <3>1. \A j \in DOMAIN b : b[j] \in Nat
        <4>1. \A j \in DOMAIN b : b[j] \in Chunks
          BY <1>4
        <4>2. QED BY <4>1 DEF Chunks
      <3>2. \A k \in DOMAIN toServer[g] : ChunkOf(toServer[g][k], r) => toServer[g][k].seq \in Nat
        <4>1. \A k \in DOMAIN toServer[g] : toServer[g][k] \in Arriving
          BY <2>1
        <4>2. QED BY <4>1 DEF Arriving, ChunkOf, Chunks
      <3>3. QED BY <1>4, <2>1, <2>2, <3>1, <3>2 DEF InLine
    <2>3. CASE toServer'[g] = toServer[g] \o <<f>>
      BY <1>4, <2>1, <2>3, SentInLine
    <2>4. QED BY <1>2, <2>2, <2>3 DEF CliFrame
  <1>6. LineOK(r)'
    BY <1>3, <1>5 DEF Steady, LineOK, b, m
  <1>7. ASSUME NeverReconnected, Complete(b, toServer[FirstSocket], r, n),
               link[FirstSocket] = "up"
        PROVE  Complete(b, toServer'[FirstSocket], r, m)
    <2>1. FirstSocket \in Sockets /\ cliSock = FirstSocket /\ toServer[FirstSocket] \in Seq(Arriving)
      BY <1>1, <1>7, ExchangeAssumption DEF LinksOK
    <2>2. toServer'[FirstSocket] = toServer[FirstSocket] \o <<f>>
      BY <1>2, <1>7, <2>1 DEF CliFrame
    <2>3. QED BY <1>4, <1>7, <2>1, <2>2, SentInLine
  <1>8. cli[r] = "done" => cli'[r] = "done" /\ m = n
    BY <1>2 DEF CliFrame, m, n
  <1>9. WholeOK(r)'
    BY <1>1, <1>3, <1>7, <1>8 DEF Steady, WholeOK, NeverReconnected, b, m, n
  <1>10. QED BY <1>6, <1>9

LEMMA BrokenLine ==
    ASSUME Inv, LinksOK, NEW r \in Requests, LineOK(r), WholeOK(r), DrainedOK(r),
           NEW g \in Sockets, Break(g), NeverReconnected' => NeverReconnected
    PROVE  LineOK(r)' /\ WholeOK(r)'
  <1>1. /\ toServer' = [toServer EXCEPT ![g] = << >>] /\ link' = [link EXCEPT ![g] = "down"]
        /\ toServer \in [Sockets -> Seq(Arriving)] /\ link \in [Sockets -> {"unused", "up", "down"}]
        /\ UNCHANGED <<serverVars, cli, sent>> /\ link[g] = "up"
    BY DEF Break, Inv, FramesOK, TypeOK, cliVars
  <1>2. Steady(r)
    BY <1>1, OtherBodies
  <1>3. \A h \in Sockets : toServer'[h] = toServer[h] \/ DOMAIN toServer'[h] = {}
    BY <1>1
  <1>4. LineOK(r)'
    BY <1>1, <1>2, <1>3 DEF Steady, LineOK, InLine
  <1>5. link'[FirstSocket] # "up" \/ toServer'[FirstSocket] = toServer[FirstSocket]
    BY <1>1, ExchangeAssumption
  <1>6. link'[FirstSocket] = "up" => link[FirstSocket] = "up"
    BY <1>1, ExchangeAssumption
  <1>7. WholeOK(r)'
    BY <1>1, <1>2, <1>5, <1>6 DEF Steady, WholeOK
  <1>8. QED BY <1>4, <1>7

-----------------------------------------------------------------------------
BodyInv ==
    /\ LinksOK
    /\ \A r \in Requests : StartsOK(r) /\ EndsOK(r) /\ DrainedOK(r) /\ LineOK(r) /\ WholeOK(r)

LEMMA InitBody == Init => BodyInv
  <1> SUFFICES ASSUME Init PROVE BodyInv
    OBVIOUS
  <1>1. LinksOK
    BY ExchangeAssumption DEF Init, LinksOK, NeverReconnected
  <1>2. ASSUME NEW r \in Requests
        PROVE  StartsOK(r) /\ EndsOK(r) /\ DrainedOK(r) /\ LineOK(r) /\ WholeOK(r)
    <2>1. \A g \in Sockets : DOMAIN toServer[g] = {} /\ DOMAIN toCli[g] = {}
      BY DEF Init
    <2>2. StartsOK(r) /\ EndsOK(r) /\ DrainedOK(r)
      BY <2>1 DEF Init, StartsOK, NoStart, OneStart, EndsOK, EndLast, DrainedOK
    <2>3. Body(r) = << >>
      <3>1. Body(r) = << >> \o << >> \o << >>
        BY DEF Init, Body, BodyOf, Hand
      <3>2. << >> \in Seq(Chunks)
        OBVIOUS
      <3>3. QED BY <3>1, <3>2, ConcatEmptySeq
    <2>4. LineOK(r)
      BY <2>1, <2>3 DEF LineOK, InLine, Increasing
    <2>5. Counting(Body(r)) /\ Complete(Body(r), toServer[FirstSocket], r, sent[r])
      BY <2>3 DEF Init, Counting, Complete
    <2>6. WholeOK(r)
      BY <2>5 DEF Init, WholeOK
    <2>7. QED BY <2>2, <2>4, <2>6
  <1>3. QED BY <1>1, <1>2 DEF BodyInv

LEMMA NextBody ==
    ASSUME Inv, BodyInv, [Next]_vars
    PROVE  BodyInv'
  <1>1. LinksOK' /\ (NeverReconnected' => NeverReconnected)
    BY LinksKept DEF BodyInv
  <1>2. SUFFICES ASSUME NEW r \in Requests
                 PROVE  /\ StartsOK(r)' /\ EndsOK(r)'
                        /\ DrainedOK(r)' /\ LineOK(r)' /\ WholeOK(r)'
    BY <1>1 DEF BodyInv
  <1>3. LinksOK /\ StartsOK(r) /\ EndsOK(r) /\ DrainedOK(r) /\ LineOK(r) /\ WholeOK(r)
    BY DEF BodyInv
  <1>4. StartsOK(r)' /\ EndsOK(r)'
    BY <1>3, StartsKept, EndsKept
  <1>5. ASSUME UNCHANGED <<serverVars, toServer, sent>>, cli[r] = "done" => cli'[r] = "done",
               link'[FirstSocket] = "up" => link[FirstSocket] = "up"
        PROVE  DrainedOK(r)' /\ LineOK(r)' /\ WholeOK(r)'
    BY <1>1, <1>3, <1>5, OtherBodies, QuietBodies
  <1>6. ASSUME NEW q \in Requests, ServerStep(q)
        PROVE  DrainedOK(r)' /\ LineOK(r)' /\ WholeOK(r)'
    BY <1>1, <1>3, <1>6, ServerBodies, ServerSends, QuietBodies
  <1>7. ASSUME NEW q \in Requests, CliStep(q)
        PROVE  DrainedOK(r)' /\ LineOK(r)' /\ WholeOK(r)'
    BY <1>3, <1>7, CliSends, OtherBodies, SentLine
  <1>8. ASSUME NEW g \in Sockets, SocketStep(g)
        PROVE  DrainedOK(r)' /\ LineOK(r)' /\ WholeOK(r)'
    <2>1. CASE Deliver(g)
      BY <1>3, <2>1, DeliverBodies, DeliveredLine
    <2>2. CASE CliReceive(g)
      <3>1. cli[r] = "done" => cli'[r] = "done"
        BY <1>3, <2>2, StaysDone
      <3>2. UNCHANGED <<serverVars, toServer, sent, link>>
        BY <2>2 DEF CliReceive
      <3>3. QED BY <1>5, <3>1, <3>2
    <2>3. CASE Break(g)
      <3>1. UNCHANGED serverVars
        BY <2>3 DEF Break
      <3>2. QED BY <1>1, <1>3, <2>3, <3>1, OtherBodies, BrokenLine
    <2>4. CASE ServerDetach(g) \/ CliDetect(g)
      BY <1>5, <2>4 DEF ServerDetach, CliDetect, cliVars
    <2>5. CASE Reconnect(g)
      <3>1. /\ link' = [link EXCEPT ![g] = "up"] /\ link[g] = "unused"
            /\ UNCHANGED <<serverVars, cliVars, toServer>>
        BY <2>5 DEF Reconnect
      <3>2. g # FirstSocket /\ link'[FirstSocket] = link[FirstSocket]
        BY <1>3, <3>1, ExchangeAssumption DEF LinksOK, Inv, TypeOK
      <3>3. QED BY <1>5, <3>1, <3>2 DEF cliVars
    <2>6. QED BY <1>8, <2>1, <2>2, <2>3, <2>4, <2>5 DEF SocketStep
  <1>9. CASE UNCHANGED vars
    BY <1>4, <1>5, <1>9 DEF vars, netVars, cliVars
  <1>10. DrainedOK(r)' /\ LineOK(r)' /\ WholeOK(r)'
    BY <1>6, <1>7, <1>8, <1>9 DEF Next
  <1>11. QED BY <1>4, <1>10

(* The public response gets the chunks of a body once and in their order;
   and, on a tunnel that never moved, all of them if it ends normally.      *)
THEOREM BodyHolds == Spec => []BodyKept
  <1>1. Inv /\ BodyInv => BodyKept
    <2> SUFFICES ASSUME Inv, BodyInv PROVE BodyKept
      OBVIOUS
    <2>1. ASSUME NEW r \in Requests
          PROVE  /\ Increasing(received[r])
                 /\ NeverReconnected /\ fwd[r] = "returned" =>
                       received[r] = [k \in 1..sent[r] |-> k]
      <3>1. /\ Body(r) \in Seq(Chunks) /\ received[r] \in Seq(Chunks)
            /\ Len(received[r]) <= Len(Body(r))
            /\ \A k \in 1..Len(received[r]) : received[r][k] = Body(r)[k]
        BY BodyType DEF Inv
      <3>2. InLine(Body(r), toServer[FirstSocket], r, sent[r])
        BY ExchangeAssumption DEF BodyInv, LineOK
      <3>3. Increasing(received[r])
        BY <3>1, <3>2, PrefixInLine DEF InLine
      <3>4. ASSUME NeverReconnected, fwd[r] = "returned"
            PROVE  received[r] = [k \in 1..sent[r] |-> k]
        <4>1. ex[r].ended /\ ~ex[r].failed /\ pull[r] = "idle" /\ ex[r].buffer = << >>
          BY <3>4 DEF Inv, TypeOK, RequestInv, OutcomeOK, IteratorOK, BodyInv, DrainedOK
        <4>2. Body(r) = received[r]
          <5>1. Body(r) = received[r] \o << >> \o << >>
            BY <4>1 DEF Body, BodyOf, Hand
          <5>2. received[r] \o << >> = received[r]
            BY <3>1, ConcatEmptySeq
          <5>3. QED BY <5>1, <5>2
        <4>3. Len(received[r]) = sent[r] /\ \A k \in DOMAIN received[r] : received[r][k] = k
          BY <3>4, <4>1, <4>2 DEF BodyInv, WholeOK, Counting
        <4>4. received[r] \in [1..sent[r] -> Chunks]
          BY <3>1, <4>3, LenProperties
        <4>5. QED BY <4>3, <4>4
      <3>5. QED BY <3>3, <3>4
    <2>2. QED BY <2>1 DEF BodyKept, NeverReconnected, Increasing
  <1>2. Inv /\ BodyInv /\ [Next]_vars => BodyInv'
    BY NextBody
  <1>3. QED BY <1>1, <1>2, InvHolds, InitBody, PTL DEF Spec
=============================================================================
