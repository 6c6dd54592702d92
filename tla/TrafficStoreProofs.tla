------------------------- MODULE TrafficStoreProofs -------------------------
(***************************************************************************)
(* Proofs about TrafficStore and TrafficReads, for every set of requests,  *)
(* every size of the store, every number of overlapping tasks and every    *)
(* query, and about RequestExplorer, which shows what they hold, for every *)
(* set of requests, workspaces and searches.                               *)
(*                                                                         *)
(* Three invariants of the store, of which the second needs the first: the *)
(* events of a request are applied in order, whatever tasks of other       *)
(* requests do (EventsInOrder); as long as no two tasks overlap, the index *)
(* and the records differ by what the one running task has still to write  *)
(* (Serial); and a listing in progress has found, of the part of the index *)
(* it has read, what was asked for and is not lost (ReadInv).              *)
(*                                                                         *)
(* One invariant of the explorer: what a query holds, and the answer that  *)
(* is on its way to it, fit the query (ExplorerInv).                       *)
(***************************************************************************)
EXTENDS TrafficReads, RequestExplorer, FiniteSetTheorems, SequenceTheorems, TLAPS

(* The index a task evicts from is never empty.                             *)
TypeInv ==
    /\ TypeOK
    /\ \A r \in Requests : task[r].at = "evict" => Len(task[r].index) > MaxRecords

LEMMA InitType == Init => TypeInv
  <1> SUFFICES ASSUME Init PROVE TypeInv
    OBVIOUS
  <1>1. Idle \in Task /\ Idle.at = "idle"
    BY DEF Idle, Task
  <1>2. TypeOK
    <2>1. << >> \in Seq(Status) /\ << >> \in Seq(Requests)
      OBVIOUS
    <2>2. QED BY <1>1, <2>1 DEF Init, TypeOK
  <1>3. QED BY <1>1, <1>2 DEF Init, TypeInv

(* What a step leaves to the other requests.                                *)
Others(r) == \A x \in Requests : x # r => task'[x] = task[x]

LEMMA PublishType ==
    ASSUME TypeInv, NEW r \in Requests, NEW status \in Status, Publish(r, status)
    PROVE  TypeInv'
  <1>1. queue[r] \in Seq(Status) /\ Append(queue[r], status) \in Seq(Status)
    BY DEF TypeInv, TypeOK
  <1>2. QED BY <1>1 DEF Publish, TypeInv, TypeOK

LEMMA BeginEffect ==
    ASSUME TypeInv, NEW r \in Requests, Begin(r)
    PROVE  /\ Head(queue[r]) \in Status
           /\ task'[r] = [at |-> IF Head(queue[r]) = "open" THEN "lookup" ELSE "update",
                          status |-> Head(queue[r]), existing |-> None, index |-> << >>]
           /\ Others(r) /\ TypeInv'
  <1>1. queue[r] \in Seq(Status) /\ queue[r] # << >>
    BY DEF Begin, TypeInv, TypeOK
  <1>2. Head(queue[r]) \in Status /\ Tail(queue[r]) \in Seq(Status)
    BY <1>1
  <1> DEFINE at == IF Head(queue[r]) = "open" THEN "lookup" ELSE "update"
             new == [at |-> at, status |-> Head(queue[r]), existing |-> None, index |-> << >>]
  <1>3. /\ task' = [task EXCEPT ![r] = new]
        /\ queue' = [queue EXCEPT ![r] = Tail(@)]
        /\ UNCHANGED <<published, data, order>>
    <2> HIDE DEF at
    <2>1. PICK t : t = [Idle EXCEPT !.status = Head(queue[r]), !.at = at]
      OBVIOUS
    <2>2. t = new
      BY <2>1 DEF Idle
    <2>3. task' = [task EXCEPT ![r] = t]
      BY <2>1, Zenon DEF Begin, at
    <2>4. QED BY <2>2, <2>3 DEF Begin
  <1>4. at \in {"lookup", "update"}
    OBVIOUS
  <1> HIDE DEF at
  <1>5. new \in Task
    BY <1>2, <1>4 DEF Task
  <1>6. task'[r] = new /\ Others(r) /\ task' \in [Requests -> Task]
    BY <1>3, <1>5 DEF TypeInv, TypeOK, Others
  <1>7. TypeInv'
    <2>1. queue' \in [Requests -> Seq(Status)]
      BY <1>2, <1>3 DEF TypeInv, TypeOK
    <2>2. \A x \in Requests : task'[x].at = "evict" => Len(task'[x].index) > MaxRecords
      BY <1>4, <1>6 DEF Others, TypeInv
    <2>3. overlapped' \in BOOLEAN
      BY DEF Begin, TypeInv, TypeOK
    <2>4. QED BY <1>3, <1>6, <2>1, <2>2, <2>3 DEF TypeInv, TypeOK
  <1>8. QED BY <1>2, <1>6, <1>7 DEF at

(* A step that sets fields of the task to values of their types.            *)
LEMMA TaskSet ==
    ASSUME TypeInv, NEW r \in Requests, NEW t \in Task,
           t.at = "evict" => Len(t.index) > MaxRecords,
           task' = [task EXCEPT ![r] = t],
           data' \in [Requests -> Status \cup {None}], order' \in Seq(Requests),
           UNCHANGED <<published, queue, overlapped>>
    PROVE  task'[r] = t /\ Others(r) /\ TypeInv'
  BY DEF TypeInv, TypeOK, Others

LEMMA IdleTask == Idle \in Task /\ Idle.at = "idle"
  BY DEF Idle, Task

LEMMA UpdateGetEffect ==
    ASSUME TypeInv, NEW r \in Requests, UpdateGet(r)
    PROVE  /\ task'[r] = [task[r] EXCEPT !.at = IF data[r] = None THEN "lookup" ELSE "merge"]
           /\ Others(r) /\ TypeInv'
  <1> DEFINE t == [task[r] EXCEPT !.at = IF data[r] = None THEN "lookup" ELSE "merge"]
  <1>1. task[r] \in Task /\ t \in Task /\ t.at # "evict"
    BY DEF TypeInv, TypeOK, Task
  <1>2. task' = [task EXCEPT ![r] = t] /\ UNCHANGED <<published, queue, data, order, overlapped>>
    BY DEF UpdateGet
  <1>3. data' \in [Requests -> Status \cup {None}] /\ order' \in Seq(Requests)
    BY <1>2 DEF TypeInv, TypeOK
  <1> HIDE DEF t
  <1>4. task'[r] = t /\ Others(r) /\ TypeInv'
    BY <1>1, <1>2, <1>3, TaskSet
  <1>5. QED BY <1>4 DEF t

LEMMA UpdateSaveEffect ==
    ASSUME TypeInv, NEW r \in Requests, UpdateSave(r)
    PROVE  /\ data' = [data EXCEPT ![r] = task[r].status]
           /\ task'[r] = Idle /\ Others(r) /\ TypeInv'
  <1>1. task[r].status \in Status \cup {None}
    BY DEF TypeInv, TypeOK, Task
  <1>2. /\ task' = [task EXCEPT ![r] = Idle]
        /\ data' = [data EXCEPT ![r] = task[r].status]
        /\ UNCHANGED <<published, queue, order, overlapped>>
    BY DEF UpdateSave
  <1>3. data' \in [Requests -> Status \cup {None}] /\ order' \in Seq(Requests)
    BY <1>1, <1>2 DEF TypeInv, TypeOK
  <1>4. QED BY <1>2, <1>3, TaskSet, IdleTask

LEMMA SaveGetEffect ==
    ASSUME TypeInv, NEW r \in Requests, SaveGet(r)
    PROVE  /\ task'[r] = [task[r] EXCEPT !.at = "store", !.existing = data[r]]
           /\ Others(r) /\ TypeInv'
  <1> DEFINE t == [task[r] EXCEPT !.at = "store", !.existing = data[r]]
  <1>1. task[r] \in Task /\ data[r] \in Status \cup {None}
    BY DEF TypeInv, TypeOK
  <1>2. t \in Task /\ t.at # "evict"
    BY <1>1 DEF Task
  <1>3. task' = [task EXCEPT ![r] = t] /\ UNCHANGED <<published, queue, data, order, overlapped>>
    BY DEF SaveGet, TypeInv, TypeOK
  <1>4. data' \in [Requests -> Status \cup {None}] /\ order' \in Seq(Requests)
    BY <1>3 DEF TypeInv, TypeOK
  <1> HIDE DEF t
  <1>5. task'[r] = t /\ Others(r) /\ TypeInv'
    BY <1>2, <1>3, <1>4, TaskSet
  <1>6. QED BY <1>5 DEF t

LEMMA SaveStoreEffect ==
    ASSUME TypeInv, NEW r \in Requests, SaveStore(r)
    PROVE  /\ data' = [data EXCEPT ![r] = task[r].status]
           /\ task'[r] = IF task[r].existing # None THEN Idle ELSE [task[r] EXCEPT !.at = "index"]
           /\ Others(r) /\ TypeInv'
  <1> DEFINE t == IF task[r].existing # None THEN Idle ELSE [task[r] EXCEPT !.at = "index"]
  <1>1. task[r] \in Task /\ task[r].status \in Status \cup {None}
    BY DEF TypeInv, TypeOK, Task
  <1>2. t \in Task /\ t.at # "evict"
    BY <1>1, IdleTask DEF Task
  <1>3. /\ task' = [task EXCEPT ![r] = t]
        /\ data' = [data EXCEPT ![r] = task[r].status]
        /\ UNCHANGED <<published, queue, order, overlapped>>
    BY DEF SaveStore
  <1>4. data' \in [Requests -> Status \cup {None}] /\ order' \in Seq(Requests)
    BY <1>1, <1>3 DEF TypeInv, TypeOK
  <1> HIDE DEF t
  <1>5. task'[r] = t /\ Others(r) /\ TypeInv'
    BY <1>2, <1>3, <1>4, TaskSet
  <1>6. QED BY <1>3, <1>5 DEF t

LEMMA ReadOrderEffect ==
    ASSUME TypeInv, NEW r \in Requests, ReadOrder(r)
    PROVE  /\ task'[r] = [task[r] EXCEPT !.index = Append(order, r),
                             !.at = IF Len(order) + 1 > MaxRecords THEN "evict" ELSE "write"]
           /\ Others(r) /\ TypeInv'
  <1> DEFINE at == IF Len(order) + 1 > MaxRecords THEN "evict" ELSE "write"
             t == [task[r] EXCEPT !.index = Append(order, r), !.at = at]
  <1>1. /\ task[r] \in Task /\ Append(order, r) \in Seq(Requests)
        /\ Len(Append(order, r)) = Len(order) + 1
    BY DEF TypeInv, TypeOK
  <1>2. at \in {"evict", "write"} /\ (at = "evict" => Len(Append(order, r)) > MaxRecords)
    BY <1>1
  <1>3. task' = [task EXCEPT ![r] = t] /\ UNCHANGED <<published, queue, data, order, overlapped>>
    BY <1>1 DEF ReadOrder, TypeInv, TypeOK
  <1> HIDE DEF at
  <1>4. t \in Task /\ t.at = at /\ t.index = Append(order, r)
    BY <1>1, <1>2 DEF Task
  <1>5. data' \in [Requests -> Status \cup {None}] /\ order' \in Seq(Requests)
    BY <1>3 DEF TypeInv, TypeOK
  <1> HIDE DEF t
  <1>6. task'[r] = t /\ Others(r) /\ TypeInv'
    BY <1>2, <1>3, <1>4, <1>5, TaskSet
  <1>7. QED BY <1>6 DEF t, at

LEMMA EvictEffect ==
    ASSUME TypeInv, NEW r \in Requests, Evict(r)
    PROVE  /\ task[r].index \in Seq(Requests) /\ task[r].index # << >>
           /\ Head(task[r].index) \in Requests
           /\ data' = [data EXCEPT ![Head(task[r].index)] = None]
           /\ task'[r] = [task[r] EXCEPT !.index = Tail(@),
                             !.at = IF Len(task[r].index) - 1 > MaxRecords
                                    THEN "evict" ELSE "write"]
           /\ Others(r) /\ TypeInv'
  <1> DEFINE at == IF Len(task[r].index) - 1 > MaxRecords THEN "evict" ELSE "write"
             t == [task[r] EXCEPT !.index = Tail(@), !.at = at]
  <1>1. /\ task[r] \in Task /\ task[r].index \in Seq(Requests)
        /\ Len(task[r].index) > MaxRecords /\ MaxRecords \in Nat
    BY StoreAssumption DEF Evict, TypeInv, TypeOK, Task
  <1>2. /\ task[r].index # << >> /\ Head(task[r].index) \in Requests
        /\ Tail(task[r].index) \in Seq(Requests)
        /\ Len(Tail(task[r].index)) = Len(task[r].index) - 1
    BY <1>1
  <1>3. at \in {"evict", "write"} /\ (at = "evict" => Len(Tail(task[r].index)) > MaxRecords)
    BY <1>2
  <1>4. /\ task' = [task EXCEPT ![r] = t]
        /\ data' = [data EXCEPT ![Head(task[r].index)] = None]
        /\ UNCHANGED <<published, queue, order, overlapped>>
    BY DEF Evict, TypeInv, TypeOK
  <1> HIDE DEF at
  <1>5. t \in Task /\ t.at = at /\ t.index = Tail(task[r].index)
    BY <1>1, <1>2, <1>3 DEF Task
  <1>6. data' \in [Requests -> Status \cup {None}] /\ order' \in Seq(Requests)
    BY <1>2, <1>4 DEF TypeInv, TypeOK
  <1> HIDE DEF t
  <1>7. task'[r] = t /\ Others(r) /\ TypeInv'
    BY <1>3, <1>4, <1>5, <1>6, TaskSet
  <1>8. QED BY <1>1, <1>2, <1>4, <1>7 DEF t, at

LEMMA WriteOrderEffect ==
    ASSUME TypeInv, NEW r \in Requests, WriteOrder(r)
    PROVE  /\ order' = task[r].index
           /\ task'[r] = Idle /\ Others(r) /\ TypeInv'
  <1>1. task[r].index \in Seq(Requests)
    BY DEF TypeInv, TypeOK, Task
  <1>2. /\ task' = [task EXCEPT ![r] = Idle] /\ order' = task[r].index
        /\ UNCHANGED <<published, queue, data, overlapped>>
    BY DEF WriteOrder
  <1>3. data' \in [Requests -> Status \cup {None}] /\ order' \in Seq(Requests)
    BY <1>1, <1>2 DEF TypeInv, TypeOK
  <1>4. QED BY <1>2, <1>3, TaskSet, IdleTask

LEMMA NextType == TypeInv /\ [Next]_vars => TypeInv'
  <1> SUFFICES ASSUME TypeInv, [Next]_vars PROVE TypeInv'
    OBVIOUS
  <1>1. CASE UNCHANGED vars
    BY <1>1 DEF vars, TypeInv, TypeOK
  <1>2. QED
    BY <1>1, PublishType, BeginEffect, UpdateGetEffect, UpdateSaveEffect, SaveGetEffect,
       SaveStoreEffect, ReadOrderEffect, EvictEffect, WriteOrderEffect DEF Next, Step

-----------------------------------------------------------------------------
(* A task that has not stored its record yet.                               *)
Pending(t) == t.at \in {"update", "merge", "lookup", "store"}

(* Of a request with p published, queue q, task t and record d: the queue
   holds the last events published; before them comes the running task's,
   until it is stored; before that, what the record shows.                  *)
InOrder(p, q, t, d) ==
    /\ p = None => Len(q) = 0 /\ t.at = "idle" /\ d = None
    /\ Len(q) <= 2
    /\ Len(q) > 0 => q[Len(q)] = p
    /\ Len(q) = 0 => IF Pending(t) THEN t.status = p /\ d \in {None, "open"}
                     ELSE d \in {None, p}
    /\ Len(q) = 1 => /\ Pending(t) => t.status = "open"
                     /\ d \in {None, "open"}
                     /\ p = "open" => t.at = "idle" /\ d = None
    /\ Len(q) = 2 => q[1] = "open" /\ p # "open" /\ t.at = "idle" /\ d = None
    /\ Pending(t) /\ t.status = "open" => d = None /\ t.at \in {"lookup", "store"}

EventsInOrder == \A r \in Requests : InOrder(published[r], queue[r], task[r], data[r])

(* Another request's task may evict the record, and does nothing else to it. *)
LEMMA EvictedInOrder ==
    ASSUME NEW p, NEW q, NEW t, NEW d, InOrder(p, q, t, d)
    PROVE  InOrder(p, q, t, None)
  BY DEF InOrder

LEMMA QueueBounds ==
    ASSUME NEW p, NEW q \in Seq(Status), NEW t, NEW d, InOrder(p, q, t, d)
    PROVE  /\ Len(q) = 0 \/ Len(q) = 1 \/ Len(q) = 2
           /\ p = None => Len(q) = 0
           /\ Len(q) = 2 => q[2] = p /\ q[1] = "open"
           /\ Len(q) = 1 => q[1] = p
  <1>1. Len(q) \in Nat
    OBVIOUS
  <1>2. Len(q) <= 2 /\ (Len(q) > 0 => q[Len(q)] = p)
    BY DEF InOrder
  <1>3. Len(q) = 0 \/ Len(q) = 1 \/ Len(q) = 2
    <2>1. ASSUME NEW n \in Nat, n <= 2 PROVE n = 0 \/ n = 1 \/ n = 2
      BY <2>1
    <2>2. QED BY <1>1, <1>2, <2>1, Zenon
  <1>4. (Len(q) = 1 => q[1] = p) /\ (Len(q) = 2 => q[2] = p)
    BY <1>2
  <1>5. (p = None => Len(q) = 0) /\ (Len(q) = 2 => q[1] = "open")
    BY DEF InOrder
  <1>6. QED BY <1>3, <1>4, <1>5

LEMMA AppendInOrder ==
    ASSUME NEW p, NEW q \in Seq(Status), NEW t, NEW d, InOrder(p, q, t, d),
           NEW s \in Status, p = IF s = "open" THEN None ELSE "open"
    PROVE  InOrder(s, Append(q, s), t, d)
  <1> DEFINE a == Append(q, s)
  <1> SUFFICES InOrder(s, a, t, d)
    OBVIOUS
  <1>1. /\ Len(q) \in Nat /\ Len(a) = Len(q) + 1 /\ a[Len(a)] = s
        /\ Len(q) = 1 => a[1] = q[1]
    OBVIOUS
  <1>2. s \in {"open", "returned", "failed"} /\ s # None /\ None # "open"
    BY StoreAssumption DEF Status
  <1> HIDE DEF a
  <1>3. (Len(q) = 0 \/ Len(q) = 1 \/ Len(q) = 2) /\ (p = None => Len(q) = 0) /\ (Len(q) = 2 => q[1] = "open" /\ q[2] = p)
    BY QueueBounds
  <1>4. CASE s = "open"
    <2>1. p = None /\ t.at = "idle" /\ d = None /\ Len(a) = 1
      BY <1>1, <1>3, <1>4 DEF InOrder
    <2>2. QED BY <1>1, <1>2, <1>4, <2>1 DEF InOrder, Pending
  <1>5. CASE s # "open"
    <2>1. p = "open" /\ p # None
      BY <1>2, <1>5
    <2>2. Len(q) # 2
      BY <2>1 DEF InOrder
    <2>3. CASE Len(q) = 0
      <3>1. Len(a) = 1
        BY <1>1, <2>3
      <3>2. QED BY <1>1, <1>2, <1>5, <2>1, <2>3, <3>1 DEF InOrder, Pending
    <2>4. CASE Len(q) = 1
      <3>1. Len(a) = 2 /\ a[1] = "open"
        BY <1>1, <2>1, <2>4, QueueBounds
      <3>2. t.at = "idle" /\ d = None
        BY <2>1, <2>4 DEF InOrder
      <3>3. a[2] = s /\ ~Pending(t)
        BY <1>1, <3>1, <3>2 DEF Pending
      <3>4. Len(a) <= 2 /\ Len(a) # 0 /\ Len(a) # 1 /\ a[Len(a)] = s
        BY <3>1, <3>3
      <3>5. QED BY <1>2, <1>5, <3>1, <3>2, <3>3, <3>4 DEF InOrder
    <2>5. QED BY <1>3, <2>2, <2>3, <2>4
  <1>6. QED BY <1>4, <1>5

LEMMA TailInOrder ==
    ASSUME NEW p, NEW q \in Seq(Status), NEW t, NEW d, InOrder(p, q, t, d),
           q # << >>, t.at = "idle", NEW u, u.status = Head(q),
           u.at = IF Head(q) = "open" THEN "lookup" ELSE "update"
    PROVE  InOrder(p, Tail(q), u, d)
  <1> DEFINE a == Tail(q)
  <1> SUFFICES InOrder(p, a, u, d)
    OBVIOUS
  <1>1. /\ Len(q) \in Nat \ {0} /\ Len(a) = Len(q) - 1 /\ Head(q) = q[1]
        /\ Len(q) = 2 => a[1] = q[2]
    OBVIOUS
  <1> HIDE DEF a
  <1>2. (Len(q) = 1 \/ Len(q) = 2) /\ p # None
    BY <1>1, QueueBounds
  <1>3. u.at \in {"lookup", "update"} /\ Pending(u)
    BY DEF Pending
  <1>4. CASE Len(q) = 1
    <2>1. Len(a) = 0 /\ u.status = p /\ d \in {None, "open"}
      BY <1>1, <1>4, QueueBounds DEF InOrder
    <2>2. u.status = "open" => d = None /\ u.at = "lookup"
      BY <1>1, <1>4, <2>1 DEF InOrder
    <2>3. QED BY <1>2, <1>3, <2>1, <2>2 DEF InOrder
  <1>5. CASE Len(q) = 2
    <2>1. /\ Len(a) = 1 /\ a[1] = p /\ u.status = "open" /\ u.at = "lookup"
          /\ p # "open" /\ d = None
      BY <1>1, <1>5, QueueBounds DEF InOrder
    <2>2. Len(a) <= 2 /\ Len(a) # 0 /\ Len(a) # 2 /\ a[Len(a)] = p
      BY <2>1
    <2>3. d \in {None, "open"} /\ u.at \in {"lookup", "store"}
      BY <2>1
    <2>4. QED BY <1>2, <1>3, <2>1, <2>2, <2>3 DEF InOrder
  <1>6. QED BY <1>2, <1>4, <1>5

LEMMA RestInOrder ==
    ASSUME EventsInOrder, NEW r \in Requests,
           InOrder(published'[r], queue'[r], task'[r], data'[r]),
           \A x \in Requests : x # r =>
               /\ published'[x] = published[x] /\ queue'[x] = queue[x]
               /\ task'[x] = task[x] /\ data'[x] \in {data[x], None}
    PROVE  EventsInOrder'
  <1>1. ASSUME NEW x \in Requests
        PROVE  InOrder(published'[x], queue'[x], task'[x], data'[x])
    <2>1. CASE x = r
      BY <2>1
    <2>2. CASE x # r
      <3>1. InOrder(published[x], queue[x], task[x], data[x])
        BY DEF EventsInOrder
      <3>2. InOrder(published[x], queue[x], task[x], None)
        BY <3>1, EvictedInOrder
      <3>3. QED BY <2>2, <3>1, <3>2
    <2>3. QED BY <2>1, <2>2
  <1>2. QED BY <1>1 DEF EventsInOrder

LEMMA PublishInOrder ==
    ASSUME TypeInv, EventsInOrder, NEW r \in Requests, NEW status \in Status, Publish(r, status)
    PROVE  EventsInOrder'
  <1>1. /\ queue[r] \in Seq(Status)
        /\ queue'[r] = Append(queue[r], status) /\ published'[r] = status
        /\ published[r] = IF status = "open" THEN None ELSE "open"
        /\ \A x \in Requests : x # r => published'[x] = published[x] /\ queue'[x] = queue[x]
        /\ UNCHANGED <<data, task>>
    BY DEF Publish, TypeInv, TypeOK
  <1>2. InOrder(published[r], queue[r], task[r], data[r])
    BY DEF EventsInOrder
  <1>3. InOrder(published'[r], queue'[r], task'[r], data'[r])
    BY <1>1, <1>2, AppendInOrder
  <1>4. QED BY <1>1, <1>3, RestInOrder

LEMMA BeginInOrder ==
    ASSUME TypeInv, EventsInOrder, NEW r \in Requests, Begin(r)
    PROVE  EventsInOrder'
  <1>1. /\ queue[r] \in Seq(Status) /\ queue[r] # << >> /\ task[r].at = "idle"
        /\ queue'[r] = Tail(queue[r])
        /\ \A x \in Requests : x # r => queue'[x] = queue[x]
        /\ UNCHANGED <<published, data>>
    BY DEF Begin, TypeInv, TypeOK
  <1>2. task'[r] = [at |-> IF Head(queue[r]) = "open" THEN "lookup" ELSE "update",
                    status |-> Head(queue[r]), existing |-> None, index |-> << >>]
    BY BeginEffect
  <1>3. InOrder(published[r], queue[r], task[r], data[r])
    BY DEF EventsInOrder
  <1>4. /\ task'[r].at = IF Head(queue[r]) = "open" THEN "lookup" ELSE "update"
        /\ task'[r].status = Head(queue[r])
    BY <1>2
  <1>5. InOrder(published'[r], queue'[r], task'[r], data'[r])
    BY <1>1, <1>3, <1>4, TailInOrder
  <1>6. QED BY <1>1, <1>5, BeginEffect, RestInOrder DEF Others

LEMMA StepInOrder ==
    ASSUME TypeInv, EventsInOrder, NEW r \in Requests, Step(r)
    PROVE  EventsInOrder'
  <1>1. UNCHANGED <<published, queue>>
    BY DEF Step, UpdateGet, UpdateSave, SaveGet, SaveStore, ReadOrder, Evict, WriteOrder
  <1>2. InOrder(published[r], queue[r], task[r], data[r])
    BY DEF EventsInOrder
  <1>3. task[r] \in Task /\ data \in [Requests -> Status \cup {None}]
    BY DEF TypeInv, TypeOK
  <1>4. ASSUME InOrder(published'[r], queue'[r], task'[r], data'[r]), Others(r),
               \A x \in Requests : x # r => data'[x] \in {data[x], None}
        PROVE  EventsInOrder'
    BY <1>1, <1>4, RestInOrder DEF Others
  <1>5. CASE UpdateGet(r)
    <2>1. InOrder(published'[r], queue'[r], task'[r], data'[r])
      BY <1>1, <1>2, <1>3, <1>5, UpdateGetEffect DEF UpdateGet, InOrder, Pending, Task
    <2>2. QED BY <1>4, <1>5, <2>1, UpdateGetEffect DEF UpdateGet
  <1>6. CASE UpdateSave(r)
    <2>1. task[r].at = "merge" /\ data'[r] = task[r].status /\ task'[r] = Idle
      BY <1>3, <1>6, UpdateSaveEffect DEF UpdateSave
    <2>2. InOrder(published'[r], queue'[r], task'[r], data'[r])
      BY <1>1, <1>2, <2>1 DEF InOrder, Pending, Idle
    <2>3. QED BY <1>3, <1>4, <1>6, <2>2, UpdateSaveEffect
  <1>7. CASE SaveGet(r)
    <2>1. InOrder(published'[r], queue'[r], task'[r], data'[r])
      <3>1. task'[r] = [task[r] EXCEPT !.at = "store", !.existing = data[r]]
        BY <1>7, SaveGetEffect
      <3>2. task[r].at = "lookup" /\ data'[r] = data[r]
        BY <1>3, <1>7 DEF SaveGet
      <3>3. task'[r].at = "store" /\ task'[r].status = task[r].status
        BY <1>3, <3>1 DEF Task
      <3>4. QED BY <1>1, <1>2, <3>2, <3>3 DEF InOrder, Pending
    <2>2. QED BY <1>4, <1>7, <2>1, SaveGetEffect DEF SaveGet
  <1>8. CASE SaveStore(r)
    <2>1. task[r].at = "store" /\ data'[r] = task[r].status
      BY <1>3, <1>8, SaveStoreEffect DEF SaveStore
    <2>2. task'[r].at \in {"idle", "index"}
      <3>1. task'[r] = IF task[r].existing # None THEN Idle ELSE [task[r] EXCEPT !.at = "index"]
        BY <1>8, SaveStoreEffect
      <3>2. QED BY <1>3, <3>1, IdleTask DEF Task
    <2>3. InOrder(published'[r], queue'[r], task'[r], data'[r])
      BY <1>1, <1>2, <2>1, <2>2 DEF InOrder, Pending
    <2>4. QED BY <1>3, <1>4, <1>8, <2>3, SaveStoreEffect
  <1>9. CASE ReadOrder(r)
    <2>1. /\ task[r].at = "index" /\ task'[r].at \in {"evict", "write"} /\ data' = data
      <3>1. task'[r] = [task[r] EXCEPT !.index = Append(order, r),
                           !.at = IF Len(order) + 1 > MaxRecords THEN "evict" ELSE "write"]
        BY <1>9, ReadOrderEffect
      <3>2. task'[r].at \in {"evict", "write"}
        BY <1>3, <3>1 DEF Task
      <3>3. QED BY <1>9, <3>2 DEF ReadOrder
    <2>2. InOrder(published'[r], queue'[r], task'[r], data'[r])
      BY <1>1, <1>2, <2>1 DEF InOrder, Pending
    <2>3. QED BY <1>4, <1>9, <2>1, <2>2, ReadOrderEffect
  <1>10. CASE Evict(r)
    <2>1. /\ task[r].at = "evict" /\ task'[r].at \in {"evict", "write"}
          /\ \A x \in Requests : data'[x] \in {data[x], None}
      <3>1. /\ task'[r] = [task[r] EXCEPT !.index = Tail(@),
                              !.at = IF Len(task[r].index) - 1 > MaxRecords
                                     THEN "evict" ELSE "write"]
            /\ data' = [data EXCEPT ![Head(task[r].index)] = None]
        BY <1>10, EvictEffect
      <3>2. task'[r].at \in {"evict", "write"}
        BY <1>3, <3>1 DEF Task
      <3>3. QED BY <1>3, <1>10, <3>1, <3>2 DEF Evict
    <2>2. InOrder(published'[r], queue'[r], task'[r], data'[r])
      BY <1>1, <1>2, <2>1 DEF InOrder, Pending
    <2>3. QED BY <1>4, <1>10, <2>1, <2>2, EvictEffect
  <1>11. CASE WriteOrder(r)
    <2>1. task[r].at = "write" /\ task'[r].at = "idle" /\ data' = data
      BY <1>11, WriteOrderEffect, IdleTask DEF WriteOrder
    <2>2. InOrder(published'[r], queue'[r], task'[r], data'[r])
      BY <1>1, <1>2, <2>1 DEF InOrder, Pending
    <2>3. QED BY <1>4, <1>11, <2>1, <2>2, WriteOrderEffect
  <1>12. QED BY <1>5, <1>6, <1>7, <1>8, <1>9, <1>10, <1>11 DEF Step

LEMMA InitInOrder == Init => EventsInOrder
  BY IdleTask DEF Init, EventsInOrder, InOrder, Pending

LEMMA NextInOrder == TypeInv /\ EventsInOrder /\ [Next]_vars => EventsInOrder'
  <1> SUFFICES ASSUME TypeInv, EventsInOrder, [Next]_vars PROVE EventsInOrder'
    OBVIOUS
  <1>1. CASE UNCHANGED vars
    BY <1>1 DEF vars, EventsInOrder, InOrder, Pending
  <1>2. QED BY <1>1, PublishInOrder, BeginInOrder, StepInOrder DEF Next

-----------------------------------------------------------------------------
Names(o)      == {o[k] : k \in DOMAIN o}
Distinct(o) == \A j, k \in DOMAIN o : o[j] = o[k] => j = k

(* Of the only running task t, for request r, when the index is o and st are
   the requests with a record: what separates the index from the records.   *)
SerialTask(r, t, o, st) ==
    /\ t.at \in {"idle", "update", "merge", "lookup", "store"} => Names(o) = st
    /\ t.at = "merge" => r \in st
    /\ t.at \in {"lookup", "store"} => r \notin st
    /\ t.at = "store" => t.existing = None
    /\ t.at \in {"index", "evict", "write"} => r \in st /\ r \notin Names(o)
    /\ t.at \in {"index", "evict"} => st = Names(o) \cup {r}
    /\ t.at = "evict" => t.index = Append(o, r) /\ Len(o) = MaxRecords
    /\ t.at = "write" =>
          \/ /\ t.index = Append(o, r) /\ Len(o) < MaxRecords
             /\ st = Names(o) \cup {r}
          \/ /\ t.index = Append(Tail(o), r) /\ Len(o) = MaxRecords
             /\ st = (Names(o) \ {Head(o)}) \cup {r}

Serial ==
    ~overlapped =>
        /\ Distinct(order) /\ Len(order) <= MaxRecords
        /\ Active = {} => Names(order) = Stored
        /\ \A r \in Active : Active = {r} /\ SerialTask(r, task[r], order, Stored)

LEMMA NamesOfAppend ==
    ASSUME NEW o \in Seq(Requests), NEW r \in Requests
    PROVE  /\ Names(Append(o, r)) = Names(o) \cup {r}
           /\ Distinct(o) /\ r \notin Names(o) => Distinct(Append(o, r))
  <1> DEFINE a == Append(o, r)
  <1>1. /\ Len(o) \in Nat /\ DOMAIN o = 1..Len(o) /\ DOMAIN a = 1..(Len(o) + 1)
        /\ a[Len(o) + 1] = r /\ \A k \in 1..Len(o) : a[k] = o[k]
    OBVIOUS
  <1>2. DOMAIN a = DOMAIN o \cup {Len(o) + 1} /\ Len(o) + 1 \notin DOMAIN o
    BY <1>1
  <1> HIDE DEF a
  <1>3. Names(a) = Names(o) \cup {r}
    BY <1>1, <1>2 DEF Names
  <1>4. ASSUME Distinct(o), r \notin Names(o), NEW j \in DOMAIN a, NEW k \in DOMAIN a, a[j] = a[k]
        PROVE  j = k
    BY <1>1, <1>2, <1>4 DEF Distinct, Names
  <1>5. QED BY <1>3, <1>4 DEF Distinct, a

LEMMA NamesOfTail ==
    ASSUME NEW o \in Seq(Requests), o # << >>, Distinct(o)
    PROVE  /\ Distinct(Tail(o)) /\ Tail(o) \in Seq(Requests) /\ Len(Tail(o)) = Len(o) - 1
           /\ Head(o) = o[1] /\ Head(o) \in Names(o) /\ Names(Tail(o)) = Names(o) \ {Head(o)}
  <1> DEFINE a == Tail(o)
  <1>1. /\ Len(o) \in Nat \ {0} /\ DOMAIN o = 1..Len(o)
        /\ a \in Seq(Requests) /\ Len(a) = Len(o) - 1 /\ DOMAIN a = 1..(Len(o) - 1)
        /\ Head(o) = o[1] /\ \A k \in 1..(Len(o) - 1) : a[k] = o[k + 1]
    OBVIOUS
  <1> HIDE DEF a
  <1>2. Head(o) \in Names(o)
    BY <1>1 DEF Names
  <1>3. ASSUME NEW j \in DOMAIN a, NEW k \in DOMAIN a, a[j] = a[k]
        PROVE  j = k
    BY <1>1, <1>3 DEF Distinct
  <1>4. ASSUME NEW x \in Names(a) PROVE x \in Names(o) \ {Head(o)}
    <2>1. PICK k \in 1..(Len(o) - 1) : x = o[k + 1]
      BY <1>1 DEF Names
    <2>2. k + 1 \in DOMAIN o /\ 1 \in DOMAIN o /\ k + 1 # 1
      BY <1>1, <2>1
    <2>3. QED BY <1>1, <2>1, <2>2 DEF Distinct, Names
  <1>5. ASSUME NEW x \in Names(o) \ {Head(o)} PROVE x \in Names(a)
    <2>1. PICK k \in DOMAIN o : x = o[k]
      BY DEF Names
    <2>2. k # 1 /\ k - 1 \in 1..(Len(o) - 1) /\ (k - 1) + 1 = k
      BY <1>1, <2>1
    <2>3. QED BY <1>1, <2>1, <2>2 DEF Names
  <1>6. QED BY <1>1, <1>2, <1>3, <1>4, <1>5 DEF Distinct, a

(* A task that has an outcome to record, or a record to make, has a status. *)
LEMMA PendingStatus ==
    ASSUME TypeInv, EventsInOrder, NEW r \in Requests, Pending(task[r])
    PROVE  /\ task[r].status \in Status /\ task[r].status # None
           /\ task[r].at = "merge" => task[r].status # "open" /\ data[r] \in {None, "open"}
  <1>1. InOrder(published[r], queue[r], task[r], data[r])
    BY DEF EventsInOrder
  <1>2. queue[r] \in Seq(Status) /\ published[r] \in Status \cup {None} /\ task[r].at # "idle"
    BY DEF TypeInv, TypeOK, Pending
  <1>3. published[r] # None
    BY <1>1, <1>2 DEF InOrder
  <1>4. Len(queue[r]) = 0 \/ Len(queue[r]) = 1
    <2>1. Len(queue[r]) # 2
      BY <1>1, <1>2 DEF InOrder
    <2>2. QED BY <1>1, <1>2, <2>1, QueueBounds
  <1>5. task[r].status = published[r] \/ task[r].status = "open"
    BY <1>1, <1>4 DEF InOrder
  <1>6. "open" \in Status /\ "open" # None
    BY StoreAssumption DEF Status
  <1>7. ASSUME task[r].at = "merge" PROVE task[r].status # "open" /\ data[r] \in {None, "open"}
    BY <1>1, <1>4, <1>7 DEF InOrder, Pending
  <1>8. QED BY <1>2, <1>3, <1>5, <1>6, <1>7

(* While the tasks do not overlap, r's is the only one running.             *)
LEMMA Alone ==
    ASSUME TypeInv, Serial, ~overlapped, NEW r \in Requests, task[r].at # "idle"
    PROVE  /\ SerialTask(r, task[r], order, Stored)
           /\ \A x \in Requests : x # r => task[x].at = "idle"
           /\ Distinct(order) /\ Len(order) <= MaxRecords
           /\ order \in Seq(Requests) /\ Len(order) \in Nat
  BY DEF Serial, Active, TypeInv, TypeOK

LEMMA StillSerial ==
    ASSUME NEW r \in Requests, \A x \in Requests : x # r => task[x].at = "idle", Others(r),
           Distinct(order'), Len(order') <= MaxRecords,
           SerialTask(r, task'[r], order', Stored')
    PROVE  Serial'
  <1>1. Active' \in SUBSET {r}
    BY DEF Active, Others
  <1>2. task'[r].at = "idle" => Names(order') = Stored'
    BY DEF SerialTask
  <1>3. CASE task'[r].at = "idle"
    <2>1. Active' = {}
      BY <1>1, <1>3 DEF Active
    <2>2. QED BY <1>2, <1>3, <2>1 DEF Serial
  <1>4. CASE task'[r].at # "idle"
    <2>1. Active' = {r}
      BY <1>1, <1>4 DEF Active
    <2>2. QED BY <2>1 DEF Serial
  <1>5. QED BY <1>3, <1>4

LEMMA BeginSerial ==
    ASSUME TypeInv, EventsInOrder, Serial, NEW r \in Requests, Begin(r)
    PROVE  Serial'
  <1> SUFFICES ASSUME ~overlapped' PROVE Serial'
    BY DEF Serial
  <1>1. /\ ~overlapped /\ Active = {} /\ task[r].at = "idle" /\ queue[r] # << >>
        /\ UNCHANGED <<order, data>>
    BY DEF Begin, TypeInv, TypeOK
  <1>2. /\ \A x \in Requests : x # r => task[x].at = "idle"
        /\ Distinct(order) /\ Len(order) <= MaxRecords /\ Names(order) = Stored
    BY <1>1 DEF Active, Serial
  <1>3. /\ task'[r] = [at |-> IF Head(queue[r]) = "open" THEN "lookup" ELSE "update",
                       status |-> Head(queue[r]), existing |-> None, index |-> << >>]
        /\ Others(r)
    BY BeginEffect
  <1>4. Stored' = Stored
    BY <1>1 DEF Stored
  <1>5. Head(queue[r]) = "open" => r \notin Stored
    <2>1. InOrder(published[r], queue[r], task[r], data[r]) /\ queue[r] \in Seq(Status)
      BY DEF EventsInOrder, TypeInv, TypeOK
    <2>2. Head(queue[r]) = queue[r][1] /\ Len(queue[r]) # 0
      BY <1>1, <2>1
    <2>3. Len(queue[r]) = 1 \/ Len(queue[r]) = 2
      BY <2>1, <2>2, QueueBounds
    <2>4. CASE Len(queue[r]) = 1
      BY <2>1, <2>2, <2>4, QueueBounds DEF InOrder, Stored
    <2>5. CASE Len(queue[r]) = 2
      BY <2>1, <2>5 DEF InOrder, Stored
    <2>6. QED BY <2>3, <2>4, <2>5
  <1>6. SerialTask(r, task'[r], order', Stored')
    <2>1. task'[r].at = IF Head(queue[r]) = "open" THEN "lookup" ELSE "update"
      BY <1>3
    <2>2. QED BY <1>1, <1>2, <1>4, <1>5, <2>1 DEF SerialTask
  <1>7. QED BY <1>1, <1>2, <1>3, <1>6, StillSerial

(* A stored record appears, and an evicted one goes; nothing else changes.  *)
LEMMA StoredAfter ==
    ASSUME TypeInv, NEW r \in Requests, NEW status \in Status \cup {None},
           data' = [data EXCEPT ![r] = status]
    PROVE  Stored' = IF status = None THEN Stored \ {r} ELSE Stored \cup {r}
  BY DEF TypeInv, TypeOK, Stored

LEMMA StepSerial ==
    ASSUME TypeInv, EventsInOrder, Serial, NEW r \in Requests, Step(r)
    PROVE  Serial'
  <1> SUFFICES ASSUME ~overlapped' PROVE Serial'
    BY DEF Serial
  <1>1. task[r].at # "idle" /\ ~overlapped
    BY DEF Step, UpdateGet, UpdateSave, SaveGet, SaveStore, ReadOrder, Evict, WriteOrder
  <1>2. /\ SerialTask(r, task[r], order, Stored)
        /\ \A x \in Requests : x # r => task[x].at = "idle"
        /\ Distinct(order) /\ Len(order) <= MaxRecords
        /\ order \in Seq(Requests) /\ Len(order) \in Nat /\ MaxRecords \in Nat \ {0}
    BY <1>1, Alone, StoreAssumption
  <1>3. task[r] \in Task /\ data \in [Requests -> Status \cup {None}]
    BY DEF TypeInv, TypeOK
  <1>4. ASSUME Others(r), order' = order, SerialTask(r, task'[r], order, Stored')
        PROVE  Serial'
    BY <1>2, <1>4, StillSerial
  <1>5. CASE UpdateGet(r)
    <2>1. /\ task'[r] = [task[r] EXCEPT !.at = IF data[r] = None THEN "lookup" ELSE "merge"]
          /\ Others(r) /\ UNCHANGED <<order, data>> /\ task[r].at = "update"
      BY <1>5, UpdateGetEffect DEF UpdateGet
    <2>2. task'[r].at = IF data[r] = None THEN "lookup" ELSE "merge"
      BY <1>3, <2>1 DEF Task
    <2>3. Stored' = Stored /\ (data[r] = None <=> r \notin Stored)
      BY <2>1 DEF Stored
    <2>4. SerialTask(r, task'[r], order, Stored')
      BY <1>2, <2>1, <2>2, <2>3 DEF SerialTask
    <2>5. QED BY <1>4, <2>1, <2>4
  <1>6. CASE UpdateSave(r)
    <2>1. /\ task'[r] = Idle /\ Others(r) /\ order' = order /\ task[r].at = "merge"
          /\ data' = [data EXCEPT ![r] = task[r].status]
      BY <1>6, UpdateSaveEffect DEF UpdateSave
    <2>2. task[r].status \in Status /\ task[r].status # None
      BY <2>1, PendingStatus DEF Pending
    <2>3. Stored' = Stored
      <3>1. Stored' = Stored \cup {r}
        BY <2>1, <2>2, StoredAfter
      <3>2. QED BY <1>2, <2>1, <3>1 DEF SerialTask
    <2>4. SerialTask(r, task'[r], order, Stored')
      BY <1>2, <2>1, <2>3, IdleTask DEF SerialTask
    <2>5. QED BY <1>4, <2>1, <2>4
  <1>7. CASE SaveGet(r)
    <2>1. /\ task'[r] = [task[r] EXCEPT !.at = "store", !.existing = data[r]]
          /\ Others(r) /\ UNCHANGED <<order, data>> /\ task[r].at = "lookup"
      BY <1>7, SaveGetEffect DEF SaveGet
    <2>2. task'[r].at = "store" /\ task'[r].existing = data[r]
      BY <1>3, <2>1 DEF Task
    <2>3. Stored' = Stored /\ (data[r] = None <=> r \notin Stored)
      BY <2>1 DEF Stored
    <2>4. SerialTask(r, task'[r], order, Stored')
      BY <1>2, <2>1, <2>2, <2>3 DEF SerialTask
    <2>5. QED BY <1>4, <2>1, <2>4
  <1>8. CASE SaveStore(r)
    <2>1. /\ task[r].at = "store" /\ task[r].existing = None
          /\ Names(order) = Stored /\ r \notin Stored
      BY <1>2, <1>8 DEF SaveStore, SerialTask
    <2>2. /\ task'[r] = [task[r] EXCEPT !.at = "index"]
          /\ Others(r) /\ order' = order /\ data' = [data EXCEPT ![r] = task[r].status]
      BY <1>8, <2>1, SaveStoreEffect DEF SaveStore
    <2>3. task[r].status \in Status /\ task[r].status # None
      BY <2>1, PendingStatus DEF Pending
    <2>4. Stored' = Stored \cup {r} /\ task'[r].at = "index"
      BY <1>3, <2>2, <2>3, StoredAfter DEF Task
    <2>5. SerialTask(r, task'[r], order, Stored')
      BY <2>1, <2>4 DEF SerialTask
    <2>6. QED BY <1>4, <2>2, <2>5
  <1>9. CASE ReadOrder(r)
    <2>1. /\ task'[r] = [task[r] EXCEPT !.index = Append(order, r),
                            !.at = IF Len(order) + 1 > MaxRecords THEN "evict" ELSE "write"]
          /\ Others(r) /\ UNCHANGED <<order, data>> /\ task[r].at = "index"
      BY <1>9, ReadOrderEffect DEF ReadOrder
    <2>2. /\ task'[r].at = IF Len(order) + 1 > MaxRecords THEN "evict" ELSE "write"
          /\ task'[r].index = Append(order, r)
      BY <1>3, <2>1 DEF Task
    <2>3. Stored' = Stored /\ r \in Stored /\ r \notin Names(order) /\ Stored = Names(order) \cup {r}
      BY <1>2, <2>1 DEF Stored, SerialTask
    <2>4. CASE Len(order) = MaxRecords
      <3>1. task'[r].at = "evict"
        BY <1>2, <2>2, <2>4
      <3>2. SerialTask(r, task'[r], order, Stored')
        BY <2>2, <2>3, <2>4, <3>1 DEF SerialTask
      <3>3. QED BY <1>4, <2>1, <3>2
    <2>5. CASE Len(order) # MaxRecords
      <3>1. Len(order) < MaxRecords /\ task'[r].at = "write"
        BY <1>2, <2>2, <2>5
      <3>2. SerialTask(r, task'[r], order, Stored')
        BY <2>2, <2>3, <3>1 DEF SerialTask
      <3>3. QED BY <1>4, <2>1, <3>2
    <2>6. QED BY <2>4, <2>5
  <1>10. CASE Evict(r)
    <2>1. /\ task[r].at = "evict" /\ task[r].index = Append(order, r)
          /\ Len(order) = MaxRecords /\ r \in Stored /\ r \notin Names(order)
          /\ Stored = Names(order) \cup {r}
      BY <1>2, <1>10 DEF Evict, SerialTask
    <2>2. /\ task'[r] = [task[r] EXCEPT !.index = Tail(@),
                            !.at = IF Len(task[r].index) - 1 > MaxRecords
                                   THEN "evict" ELSE "write"]
          /\ Others(r) /\ order' = order
          /\ data' = [data EXCEPT ![Head(task[r].index)] = None]
      BY <1>10, EvictEffect DEF Evict
    <2>3. /\ order # << >> /\ Len(Append(order, r)) = Len(order) + 1
          /\ Head(Append(order, r)) = Head(order) /\ Head(order) \in Requests
          /\ Tail(Append(order, r)) = Append(Tail(order), r)
      BY <1>2, <2>1
    <2>4. task'[r].at = "write" /\ task'[r].index = Append(Tail(order), r)
      BY <1>2, <1>3, <2>1, <2>2, <2>3 DEF Task
    <2>5. Stored' = Stored \ {Head(order)}
      BY <2>1, <2>2, <2>3, StoredAfter
    <2>6. Stored' = (Names(order) \ {Head(order)}) \cup {r} /\ r \in Stored'
      BY <1>2, <2>1, <2>3, <2>5, NamesOfTail
    <2>7. SerialTask(r, task'[r], order, Stored')
      BY <2>1, <2>4, <2>6 DEF SerialTask
    <2>8. QED BY <1>4, <2>2, <2>7
  <1>11. CASE WriteOrder(r)
    <2>1. /\ task[r].at = "write" /\ task'[r] = Idle /\ Others(r)
          /\ order' = task[r].index /\ data' = data
      BY <1>11, WriteOrderEffect DEF WriteOrder
    <2>2. Stored' = Stored /\ r \notin Names(order)
      BY <1>2, <2>1 DEF Stored, SerialTask
    <2>3. Distinct(order') /\ Len(order') <= MaxRecords /\ Names(order') = Stored
      <3>1. CASE /\ task[r].index = Append(order, r) /\ Len(order) < MaxRecords
                 /\ Stored = Names(order) \cup {r}
        <4>1. Len(Append(order, r)) = Len(order) + 1
          BY <1>2
        <4>2. QED BY <1>2, <2>1, <2>2, <3>1, <4>1, NamesOfAppend
      <3>2. CASE /\ task[r].index = Append(Tail(order), r) /\ Len(order) = MaxRecords
                 /\ Stored = (Names(order) \ {Head(order)}) \cup {r}
        <4>1. order # << >>
          BY <1>2, <3>2
        <4>2. /\ Distinct(Tail(order)) /\ Tail(order) \in Seq(Requests)
              /\ Len(Tail(order)) = Len(order) - 1 /\ Names(Tail(order)) = Names(order) \ {Head(order)}
          BY <1>2, <4>1, NamesOfTail
        <4>3. Len(Append(Tail(order), r)) = Len(order)
          BY <1>2, <4>2
        <4>4. /\ Names(Append(Tail(order), r)) = (Names(order) \ {Head(order)}) \cup {r}
              /\ Distinct(Append(Tail(order), r))
          BY <2>2, <4>2, NamesOfAppend
        <4>5. QED BY <1>2, <2>1, <3>2, <4>3, <4>4
      <3>3. QED BY <1>2, <2>1, <3>1, <3>2 DEF SerialTask
    <2>4. SerialTask(r, task'[r], order', Stored')
      BY <2>1, <2>2, <2>3, IdleTask DEF SerialTask
    <2>5. QED BY <1>2, <2>1, <2>3, <2>4, StillSerial
  <1>12. QED BY <1>5, <1>6, <1>7, <1>8, <1>9, <1>10, <1>11 DEF Step

LEMMA InitSerial == Init => Serial
  <1> SUFFICES ASSUME Init PROVE Serial
    OBVIOUS
  <1>1. order = << >> /\ DOMAIN order = {} /\ Len(order) = 0 /\ 0 <= MaxRecords
    BY StoreAssumption DEF Init
  <1>2. Names(order) = {} /\ Distinct(order)
    BY <1>1 DEF Names, Distinct
  <1>3. Stored = {} /\ Active = {}
    BY IdleTask DEF Init, Stored, Active
  <1>4. QED BY <1>1, <1>2, <1>3 DEF Serial

LEMMA NextSerial == TypeInv /\ EventsInOrder /\ Serial /\ [Next]_vars => Serial'
  <1> SUFFICES ASSUME TypeInv, EventsInOrder, Serial, [Next]_vars PROVE Serial'
    OBVIOUS
  <1>1. ASSUME UNCHANGED <<data, order, task, overlapped>> PROVE Serial'
    <2>1. Active' = Active /\ Stored' = Stored
      BY <1>1 DEF Active, Stored
    <2>2. QED BY <1>1, <2>1 DEF Serial
  <1>2. QED BY <1>1, BeginSerial, StepSerial DEF Next, vars, Publish

-----------------------------------------------------------------------------
(* An index without duplicates has as many entries as it names requests.    *)
LEMMA DistinctLength ==
    ASSUME NEW o \in Seq(Requests), Distinct(o)
    PROVE  Len(o) = Cardinality(Names(o))
  <1>1. Len(o) \in Nat /\ DOMAIN o = 1..Len(o) /\ o \in [1..Len(o) -> Names(o)]
    BY DEF Names
  <1>2. o \in Bijection(1..Len(o), Names(o))
    BY <1>1 DEF Bijection, Injection, Surjection, IsInjective, Distinct, Names
  <1>3. IsFiniteSet(1..Len(o)) /\ Cardinality(1..Len(o)) = Len(o)
    BY <1>1, FS_Interval
  <1>4. QED BY <1>2, <1>3, FS_Bijection DEF ExistsBijection

(* The listing as a function of the index and the records: all of the index,
   but for its head once that record has been evicted.                      *)
RowsOf(o, d) == [n \in 1..Len(o) |-> [id |-> o[n], status |-> d[o[n]]]]
Kept(o, d) == IF o # << >> /\ d[o[1]] = None THEN Tail(o) ELSE o

Visible == ~overlapped => Listing = RowsOf(Kept(order, data), data)

(* What is missing from the records, if anything, is the head of the index. *)
LEMMA OnlyHeadMissing ==
    ASSUME TypeInv, Serial, ~overlapped, NEW k \in DOMAIN order, data[order[k]] = None
    PROVE  k = 1
  <1>1. order \in Seq(Requests) /\ order[k] \in Names(order) /\ order[k] \notin Stored
    BY DEF TypeInv, TypeOK, Names, Stored
  <1>2. Names(order) # Stored
    BY <1>1
  <1>3. PICK r \in Active : SerialTask(r, task[r], order, Stored)
    BY <1>2 DEF Serial
  <1>4. /\ task[r].at = "write" /\ Len(order) = MaxRecords
        /\ Stored = (Names(order) \ {Head(order)}) \cup {r}
    <2>1. r \in Requests /\ task[r] \in Task
      BY DEF Active, TypeInv, TypeOK
    <2>2. task[r].at \in {"idle", "update", "merge", "lookup", "store", "index", "evict", "write"}
      BY <2>1 DEF Task
    <2>3. QED BY <1>1, <1>3, <2>2 DEF SerialTask
  <1>5. order[k] = Head(order) /\ order # << >>
    BY <1>1, <1>4
  <1>6. Head(order) = order[1] /\ 1 \in DOMAIN order
    BY <1>1, <1>5
  <1>7. Distinct(order)
    BY DEF Serial
  <1>8. QED BY <1>5, <1>6, <1>7 DEF Distinct

(* The places from f on, counted: the n-th of them is f + n - 1.            *)
LEMMA NthOfInterval ==
    ASSUME NEW m \in Nat, NEW f \in {1, 2}, f <= m + 1
    PROVE  /\ Cardinality(f..m) = m + 1 - f
           /\ \A n \in 1..(m + 1 - f) :
                 Nth(f..m, n) = n + f - 1
  <1>1. Cardinality(f..m) = m + 1 - f
    BY FS_Interval
  <1>2. ASSUME NEW k \in f..m PROVE Cardinality({j \in f..m : j < k}) = k - f
    <2>1. {j \in f..m : j < k} = f..(k - 1) /\ k - 1 \in Int /\ f \in Int
      OBVIOUS
    <2>2. Cardinality(f..(k - 1)) = k - f
      <3>1. Cardinality(f..(k - 1)) = IF f > k - 1 THEN 0 ELSE (k - 1) - f + 1
        BY <2>1, FS_Interval
      <3>2. QED BY <3>1
    <2>3. QED BY <2>1, <2>2
  <1>3. ASSUME NEW n \in 1..(m + 1 - f)
        PROVE  Nth(f..m, n) = n + f - 1
    <2>1. n + f - 1 \in f..m /\ (n + f - 1) - f = n - 1
      OBVIOUS
    <2>2. Cardinality({j \in f..m : j < n + f - 1}) = n - 1
      BY <1>2, <2>1
    <2>3. ASSUME NEW k \in f..m, Cardinality({j \in f..m : j < k}) = n - 1
          PROVE  k = n + f - 1
      <3>1. k - f = n - 1
        BY <1>2, <2>3
      <3>2. QED BY <3>1
    <2>4. QED BY <2>1, <2>2, <2>3 DEF Nth
  <1>4. QED BY <1>1, <1>3

LEMMA ListingShown == TypeInv /\ Serial => Visible
  <1> SUFFICES ASSUME TypeInv, Serial, ~overlapped
               PROVE  Listing = RowsOf(Kept(order, data), data)
    BY DEF Visible
  <1> DEFINE m == Len(order)
  <1>1. order \in Seq(Requests) /\ m \in Nat /\ DOMAIN order = 1..m
    BY DEF TypeInv, TypeOK
  <1>2. \A k \in 1..m : data[order[k]] = None => k = 1
    BY <1>1, OnlyHeadMissing
  <1>3. CASE order # << >> /\ data[order[1]] = None
    <2>1. m > 0 /\ Live = 2..m
      BY <1>1, <1>2, <1>3 DEF Live
    <2>2. Cardinality(Live) = m - 1 /\ \A n \in 1..(m - 1) : Nth(Live, n) = n + 1
      <3>1. 2 <= m + 1 /\ m + 1 - 2 = m - 1 /\ \A n \in 1..(m - 1) : n + 2 - 1 = n + 1
        BY <1>1, <2>1
      <3>2. QED BY <1>1, <2>1, <3>1, NthOfInterval
    <2>3. /\ Len(Tail(order)) = m - 1 /\ Kept(order, data) = Tail(order)
          /\ \A n \in 1..(m - 1) : Tail(order)[n] = order[n + 1]
      BY <1>1, <1>3 DEF Kept
    <2>4. Listing = [n \in 1..(m - 1) |-> [id |-> order[n + 1], status |-> data[order[n + 1]]]]
      BY <2>2 DEF Listing
    <2>5. QED BY <2>3, <2>4 DEF RowsOf
  <1>4. CASE ~(order # << >> /\ data[order[1]] = None)
    <2>1. Live = 1..m
      BY <1>1, <1>2, <1>4 DEF Live
    <2>2. Cardinality(Live) = m /\ \A n \in 1..m : Nth(Live, n) = n
      <3>1. 1 <= m + 1 /\ m + 1 - 1 = m /\ \A n \in 1..m : n + 1 - 1 = n
        BY <1>1
      <3>2. /\ Cardinality(1..m) = m + 1 - 1
            /\ \A n \in 1..(m + 1 - 1) : Nth(1..m, n) = n + 1 - 1
        BY <1>1, <3>1, NthOfInterval
      <3>3. QED BY <2>1, <3>1, <3>2
    <2>3. Listing = [n \in 1..m |-> [id |-> order[n], status |-> data[order[n]]]]
      BY <2>2 DEF Listing
    <2>4. QED BY <1>4, <2>3 DEF RowsOf, Kept
  <1>5. QED BY <1>3, <1>4

(* A record of the log changes, and a row is added: the rows as sequences.  *)
LEMMA RowsAre ==
    ASSUME NEW o \in Seq(Requests), NEW d
    PROVE  /\ Len(RowsOf(o, d)) = Len(o) /\ DOMAIN RowsOf(o, d) = 1..Len(o) /\ Len(o) \in Nat
           /\ \A n \in 1..Len(o) : RowsOf(o, d)[n] = [id |-> o[n], status |-> d[o[n]]]
           /\ RowsOf(o, d) \in Seq({[id |-> o[n], status |-> d[o[n]]] : n \in 1..Len(o)})
  <1>1. Len(o) \in Nat
    OBVIOUS
  <1> DEFINE S == {[id |-> o[n], status |-> d[o[n]]] : n \in 1..Len(o)}
  <1>2. RowsOf(o, d) \in [1..Len(o) -> S]
    BY DEF RowsOf
  <1> HIDE DEF S
  <1>3. RowsOf(o, d) \in Seq(S) /\ Len(RowsOf(o, d)) = Len(o)
    BY <1>1, <1>2
  <1>4. QED BY <1>1, <1>2, <1>3 DEF RowsOf, S

LEMMA RowsOfAppend ==
    ASSUME NEW o \in Seq(Requests), NEW r \in Requests, NEW d
    PROVE  RowsOf(Append(o, r), d) = Append(RowsOf(o, d), [id |-> r, status |-> d[r]])
  <1> DEFINE a == Append(o, r)
             w == [id |-> r, status |-> d[r]]
             b == RowsOf(o, d)
             c == RowsOf(a, d)
  <1>1. /\ a \in Seq(Requests) /\ Len(a) = Len(o) + 1 /\ a[Len(o) + 1] = r
        /\ \A k \in 1..Len(o) : a[k] = o[k]
    OBVIOUS
  <1>2. /\ Len(b) = Len(o) /\ Len(o) \in Nat
        /\ \A n \in 1..Len(o) : b[n] = [id |-> o[n], status |-> d[o[n]]]
        /\ b \in Seq({[id |-> o[n], status |-> d[o[n]]] : n \in 1..Len(o)})
    BY RowsAre
  <1> DEFINE S == {[id |-> o[n], status |-> d[o[n]]] : n \in 1..Len(o)} \cup {w}
  <1>3. b \in Seq(S) /\ w \in S
    BY <1>2
  <1>4. c = [n \in 1..(Len(o) + 1) |-> [id |-> a[n], status |-> d[a[n]]]]
    BY <1>1 DEF RowsOf
  <1> HIDE DEF a, b, c, w, S
  <1>5. /\ DOMAIN Append(b, w) = 1..(Len(o) + 1) /\ Append(b, w)[Len(o) + 1] = w
        /\ \A n \in 1..Len(o) : Append(b, w)[n] = b[n]
        /\ Append(b, w) = [n \in 1..(Len(o) + 1) |-> Append(b, w)[n]]
    <2>1. /\ Append(b, w) \in Seq(S) /\ Len(Append(b, w)) = Len(o) + 1
          /\ Append(b, w)[Len(o) + 1] = w
          /\ \A n \in 1..Len(o) : Append(b, w)[n] = b[n]
      BY <1>2, <1>3
    <2>2. Append(b, w) \in [1..(Len(o) + 1) -> S]
      BY <2>1, LenProperties
    <2>3. QED BY <2>1, <2>2
  <1>6. ASSUME NEW n \in 1..(Len(o) + 1)
        PROVE  [id |-> a[n], status |-> d[a[n]]] = Append(b, w)[n]
    <2>1. CASE n = Len(o) + 1
      BY <1>1, <1>5, <2>1 DEF w
    <2>2. CASE n # Len(o) + 1
      <3>1. n \in 1..Len(o)
        BY <1>2, <2>2
      <3>2. QED BY <1>1, <1>2, <1>5, <3>1
    <2>3. QED BY <2>1, <2>2
  <1>7. c = Append(b, w)
    BY <1>4, <1>5, <1>6
  <1>8. QED BY <1>7 DEF a, b, c, w

LEMMA RowsOfTail ==
    ASSUME NEW o \in Seq(Requests), o # << >>, NEW d
    PROVE  RowsOf(Tail(o), d) = Tail(RowsOf(o, d))
  <1> DEFINE a == Tail(o)
             b == RowsOf(o, d)
             c == RowsOf(a, d)
  <1>1. /\ a \in Seq(Requests) /\ Len(a) = Len(o) - 1 /\ Len(o) \in Nat \ {0}
        /\ \A k \in 1..(Len(o) - 1) : a[k] = o[k + 1]
    OBVIOUS
  <1> DEFINE S == {[id |-> o[n], status |-> d[o[n]]] : n \in 1..Len(o)}
  <1>2. /\ Len(b) = Len(o) /\ b \in Seq(S)
        /\ \A n \in 1..Len(o) : b[n] = [id |-> o[n], status |-> d[o[n]]]
    BY RowsAre
  <1>3. c = [n \in 1..(Len(o) - 1) |-> [id |-> a[n], status |-> d[a[n]]]]
    BY <1>1 DEF RowsOf
  <1> HIDE DEF a, b, c, S
  <1>4. Tail(b) = [n \in 1..(Len(o) - 1) |-> b[n + 1]]
    <2>1. b # << >>
      BY <1>1, <1>2
    <2>2. /\ Tail(b) \in Seq(S) /\ Len(Tail(b)) = Len(o) - 1
          /\ \A n \in 1..(Len(o) - 1) : Tail(b)[n] = b[n + 1]
      BY <1>1, <1>2, <2>1
    <2>3. Tail(b) \in [1..(Len(o) - 1) -> S]
      BY <2>2, LenProperties
    <2>4. QED BY <2>2, <2>3
  <1>5. \A n \in 1..(Len(o) - 1) : [id |-> a[n], status |-> d[a[n]]] = b[n + 1]
    <2> TAKE n \in 1..(Len(o) - 1)
    <2>1. n + 1 \in 1..Len(o)
      BY <1>1
    <2>2. b[n + 1] = [id |-> o[n + 1], status |-> d[o[n + 1]]]
      BY <1>2, <2>1
    <2>3. QED BY <1>1, <2>2
  <1>6. c = Tail(b)
    BY <1>3, <1>4, <1>5
  <1>7. QED BY <1>6 DEF a, b, c

(* Every step of a task that runs alone is a step of the log, or none.      *)
LEMMA StepLogs ==
    ASSUME TypeInv, EventsInOrder, Serial, Visible, Visible', NEW r \in Requests, Step(r)
    PROVE  [Log!Next]_<<Listing, ~overlapped>>
  <1> SUFFICES ASSUME ~overlapped' PROVE [Log!Next]_<<Listing, ~overlapped>>
    BY DEF Log!Next
  <1>1. task[r].at # "idle" /\ ~overlapped
    BY DEF Step, UpdateGet, UpdateSave, SaveGet, SaveStore, ReadOrder, Evict, WriteOrder
  <1>2. /\ SerialTask(r, task[r], order, Stored) /\ Distinct(order)
        /\ order \in Seq(Requests) /\ Len(order) \in Nat /\ MaxRecords \in Nat \ {0}
    BY <1>1, Alone, StoreAssumption
  <1>3. task[r] \in Task /\ data \in [Requests -> Status \cup {None}]
    BY DEF TypeInv, TypeOK
  <1>4. /\ Listing = RowsOf(Kept(order, data), data)
        /\ Listing' = RowsOf(Kept(order', data'), data')
    BY <1>1 DEF Visible
  <1>5. ASSUME Log!Record PROVE [Log!Next]_<<Listing, ~overlapped>>
    BY <1>1, <1>5 DEF Log!Next
  <1>6. ASSUME UNCHANGED <<order, data, overlapped>> PROVE [Log!Next]_<<Listing, ~overlapped>>
    BY <1>4, <1>6
  (* The index names only requests with a record, until one is evicted.     *)
  <1>7. ASSUME Names(order) \subseteq Stored PROVE Kept(order, data) = order
    BY <1>2, <1>7 DEF Kept, Names, Stored
  <1>8. CASE UpdateSave(r)
    <2>1. /\ task[r].at = "merge" /\ order' = order
          /\ data' = [data EXCEPT ![r] = task[r].status]
      BY <1>8 DEF UpdateSave
    <2>2. task[r].status \in {"returned", "failed"} /\ task[r].status # None /\ data[r] \in {None, "open"}
      BY <2>1, PendingStatus DEF Pending, Status
    <2>3. Names(order) = Stored /\ r \in Stored
      BY <1>2, <2>1 DEF SerialTask
    <2>4. data[r] = "open" /\ Kept(order, data) = order
      BY <1>7, <2>2, <2>3 DEF Stored
    <2>5. PICK k \in 1..Len(order) : order[k] = r
      BY <1>2, <2>3 DEF Names
    <2>6. Kept(order', data') = order
      BY <1>2, <1>3, <2>1, <2>2, <2>3 DEF Kept, Names, Stored
    <2>7. \A n \in 1..Len(order) : order[n] = r <=> n = k
      BY <1>2, <2>5 DEF Distinct
    <2> DEFINE s == task[r].status
    <2>8. /\ Listing = [n \in 1..Len(order) |-> [id |-> order[n], status |-> data[order[n]]]]
          /\ Listing' = [n \in 1..Len(order) |-> [id |-> order[n], status |-> data'[order[n]]]]
      BY <1>4, <2>4, <2>6 DEF RowsOf
    <2>9. k \in DOMAIN Listing /\ Listing[k] = [id |-> r, status |-> "open"]
      BY <2>4, <2>5, <2>8
    <2>10. ASSUME NEW n \in 1..Len(order)
           PROVE  Listing'[n] = IF n = k THEN [Listing[k] EXCEPT !.status = s] ELSE Listing[n]
      <3>1. CASE n = k
        <4>1. order[n] = r /\ data'[r] = s
          BY <1>3, <2>1, <2>5, <3>1
        <4>2. Listing'[n] = [id |-> r, status |-> s]
          BY <2>8, <4>1
        <4>3. QED BY <2>9, <3>1, <4>2
      <3>2. CASE n # k
        <4>1. data'[order[n]] = data[order[n]] /\ order[n] \in Requests
          BY <1>2, <1>3, <2>1, <2>7, <3>2
        <4>2. QED BY <2>8, <3>2, <4>1
      <3>3. QED BY <3>1, <3>2
    <2>11. Listing' = [Listing EXCEPT ![k].status = s]
      <3> HIDE DEF s
      <3>1. DOMAIN Listing = 1..Len(order) /\ Listing' = [n \in 1..Len(order) |-> Listing'[n]]
        BY <2>8
      <3>2. QED BY <2>10, <3>1
    <2>12. Log!Conclude(k, s)
      BY <2>9, <2>11 DEF Log!Conclude
    <2>13. Log!Record
      BY <2>2, <2>9, <2>12 DEF Log!Record
    <2>14. QED BY <1>5, <2>13
  <1>9. CASE SaveStore(r)
    <2>1. task[r].at = "store" /\ order' = order /\ data' = [data EXCEPT ![r] = task[r].status]
          /\ overlapped' = overlapped
      BY <1>9 DEF SaveStore
    <2>2. Names(order) = Stored /\ r \notin Stored
      BY <1>2, <2>1 DEF SerialTask
    <2>3. \A n \in 1..Len(order) : data'[order[n]] = data[order[n]]
      BY <1>2, <1>3, <2>1, <2>2 DEF Names
    <2>4. Kept(order, data) = order /\ Kept(order', data') = order
      BY <1>2, <1>7, <2>1, <2>2, <2>3 DEF Kept, Names, Stored
    <2>5. Listing' = Listing
      BY <1>4, <2>3, <2>4 DEF RowsOf
    <2>6. QED BY <2>1, <2>5
  <1>10. CASE Evict(r)
    <2>1. /\ task[r].at = "evict" /\ order' = order
          /\ data' = [data EXCEPT ![Head(task[r].index)] = None]
      BY <1>10 DEF Evict
    <2>2. /\ task[r].index = Append(order, r) /\ Len(order) = MaxRecords
          /\ Names(order) \subseteq Stored
      BY <1>2, <2>1 DEF SerialTask
    <2>3. order # << >> /\ Head(Append(order, r)) = order[1] /\ order[1] \in Requests
      BY <1>2, <2>2
    <2>4. Kept(order, data) = order /\ Kept(order', data') = Tail(order)
      BY <1>3, <1>7, <2>1, <2>2, <2>3 DEF Kept
    <2>5. Tail(order) \in Seq(Requests) /\ \A n \in 1..Len(Tail(order)) : Tail(order)[n] = order[n + 1]
      BY <1>2, <2>3
    <2>6. \A n \in 1..Len(Tail(order)) : data'[Tail(order)[n]] = data[Tail(order)[n]]
      BY <1>2, <1>3, <2>1, <2>2, <2>3, <2>5 DEF Distinct
    <2>7. RowsOf(Tail(order), data') = RowsOf(Tail(order), data)
      BY <2>6 DEF RowsOf
    <2>8. Listing' = Tail(Listing) /\ Listing = RowsOf(order, data)
      BY <1>2, <1>4, <2>3, <2>4, <2>7, RowsOfTail
    <2>9. Len(Listing) = MaxRecords /\ Listing # << >>
      BY <1>2, <2>2, <2>8, RowsAre
    <2>10. Log!DropOldest
      BY <2>8, <2>9 DEF Log!DropOldest
    <2>11. QED BY <1>5, <2>10 DEF Log!Record
  <1>11. CASE WriteOrder(r)
    <2>1. /\ task[r].at = "write" /\ order' = task[r].index /\ data' = data
      BY <1>11 DEF WriteOrder
    <2>2. r \in Stored /\ r \notin Names(order) /\ data[r] \in Status
      BY <1>2, <1>3, <2>1 DEF SerialTask, Stored
    <2> DEFINE o == Kept(order, data)
    <2>3. /\ o \in Seq(Requests) /\ Len(o) < MaxRecords /\ r \notin Names(o)
          /\ order' = Append(o, r) /\ Kept(order', data') = Append(o, r)
      <3>1. ASSUME NEW q \in Seq(Requests), Names(q) \subseteq Stored
            PROVE  Kept(Append(q, r), data) = Append(q, r)
        <4>1. 1 \in DOMAIN Append(q, r)
          OBVIOUS
        <4>2. Append(q, r)[1] \in Names(q) \cup {r}
          BY <4>1, NamesOfAppend DEF Names
        <4>3. Append(q, r)[1] \in Stored
          BY <2>2, <3>1, <4>2
        <4>4. QED BY <4>3 DEF Kept, Stored
      <3>2. CASE /\ task[r].index = Append(order, r) /\ Len(order) < MaxRecords
                 /\ Stored = Names(order) \cup {r}
        <4>1. Names(order) \subseteq Stored /\ o = order
          BY <1>7, <3>2
        <4>2. QED BY <1>2, <2>1, <2>2, <3>1, <3>2, <4>1
      <3>3. CASE /\ task[r].index = Append(Tail(order), r) /\ Len(order) = MaxRecords
                 /\ Stored = (Names(order) \ {Head(order)}) \cup {r}
        <4>1. order # << >>
          BY <1>2, <3>3
        <4>2. /\ Tail(order) \in Seq(Requests) /\ Len(Tail(order)) = Len(order) - 1
              /\ Head(order) = order[1] /\ Head(order) \in Names(order)
              /\ Names(Tail(order)) = Names(order) \ {Head(order)}
          BY <1>2, <4>1, NamesOfTail
        <4>3. order[1] \in Requests /\ order[1] \notin Stored
          BY <1>2, <2>2, <3>3, <4>1, <4>2
        <4>4. o = Tail(order)
          BY <4>1, <4>3 DEF Kept, Stored
        <4>5. Names(o) \subseteq Stored /\ r \notin Names(o)
          BY <2>2, <3>3, <4>2, <4>4
        <4>6. o \in Seq(Requests) /\ Len(o) < MaxRecords
          BY <1>2, <3>3, <4>2, <4>4
        <4>7. order' = Append(o, r) /\ Kept(order', data') = Append(o, r)
          BY <2>1, <3>1, <3>3, <4>4, <4>5, <4>6
        <4>8. QED BY <4>5, <4>6, <4>7
      <3>4. QED BY <1>2, <2>1, <3>2, <3>3 DEF SerialTask
    <2> HIDE DEF o
    <2>4. /\ Listing = RowsOf(o, data)
          /\ Listing' = Append(RowsOf(o, data), [id |-> r, status |-> data[r]])
      BY <1>4, <2>1, <2>3, RowsOfAppend DEF o
    <2>5. /\ Len(Listing) = Len(o) /\ DOMAIN Listing = 1..Len(o) /\ DOMAIN o = 1..Len(o)
          /\ \A n \in 1..Len(o) : Listing[n].id = o[n]
      <3>1. /\ Len(Listing) = Len(o) /\ DOMAIN Listing = 1..Len(o)
            /\ \A n \in 1..Len(o) : Listing[n] = [id |-> o[n], status |-> data[o[n]]]
        BY <2>3, <2>4, RowsAre
      <3>2. DOMAIN o = 1..Len(o)
        BY <2>3
      <3>3. QED BY <3>1, <3>2
    <2>6. r \notin Log!Listed
      BY <2>3, <2>5 DEF Log!Listed, Names
    <2>7. Log!Insert(r, data[r])
      BY <2>3, <2>4, <2>5, <2>6 DEF Log!Insert
    <2>8. QED BY <1>5, <2>2, <2>7 DEF Log!Record, Status
  <1>12. QED
    BY <1>6, <1>8, <1>9, <1>10, <1>11 DEF Step, UpdateGet, SaveGet, ReadOrder

LEMMA NextLogs ==
    TypeInv /\ EventsInOrder /\ Serial /\ Visible /\ Visible' /\ [Next]_vars
        => [Log!Next]_<<Listing, ~overlapped>>
  <1> SUFFICES ASSUME TypeInv, EventsInOrder, Serial, Visible, Visible', [Next]_vars
               PROVE  [Log!Next]_<<Listing, ~overlapped>>
    OBVIOUS
  <1>1. ASSUME UNCHANGED <<data, order>>, overlapped => overlapped'
        PROVE  [Log!Next]_<<Listing, ~overlapped>>
    <2>1. CASE overlapped'
      BY <2>1 DEF Log!Next
    <2>2. CASE ~overlapped'
      BY <1>1, <2>2 DEF Visible, Log!Next
    <2>3. QED BY <2>1, <2>2
  <1>2. CASE UNCHANGED vars
    BY <1>1, <1>2 DEF vars
  <1>3. ASSUME NEW r \in Requests, NEW status \in Status, Publish(r, status)
        PROVE  [Log!Next]_<<Listing, ~overlapped>>
    BY <1>1, <1>3 DEF Publish
  <1>4. ASSUME NEW r \in Requests, Begin(r)
        PROVE  [Log!Next]_<<Listing, ~overlapped>>
    <2>1. UNCHANGED <<data, order>> /\ overlapped' = (overlapped \/ Active # {})
      BY <1>4 DEF Begin
    <2>2. QED BY <1>1, <2>1
  <1>5. QED
    BY <1>2, <1>3, <1>4, StepLogs DEF Next

-----------------------------------------------------------------------------
(* Reading.  The n newest ids of the listing's index have been looked at:
   what was found are their records, in order, but for those that are not of
   the workspace and those that were not stored all the time.               *)
Reads(n, index, found, gone, kinds) ==
    \E g \in [1..Len(found) -> 1..n] :
        /\ \A k \in 1..Len(found) : index[g[k]] = found[k] /\ kinds[found[k]] # "foreign"
        /\ \A j, k \in 1..Len(found) : j < k => g[j] < g[k]
        /\ \A i \in 1..n : kinds[index[i]] # "foreign" /\ index[i] \notin gone
                            => \E k \in 1..Len(found) : g[k] = i

(* What is left to read is the rest of the index; a limit has not been
   reached while there is something to read, and is not passed.             *)
ReaderOK(rd, gone, kinds) ==
    rd.at # "idle" =>
        LET n     == Len(rd.order) - Len(rd.left)
            limit == StoreLimit(rd.search, rd.limit)
        IN  /\ n \in Nat /\ Reads(n, rd.order, rd.found, gone, kinds)
            /\ \A k \in 1..Len(rd.left) : rd.left[k] = rd.order[n + k]
            /\ rd.at = "reading" => /\ Len(rd.left) > 0
                                    /\ limit # None => Len(rd.found) < Admitted(limit)
            /\ rd.at = "done" => \/ Len(rd.left) = 0
                                 \/ limit # None /\ Len(rd.found) = Admitted(limit)

ReadInv ==
    /\ TypeInv /\ RTypeOK
    /\ ReaderOK(reader, lost, kind)
    /\ reader.at = "reading" => \A r \in Requests : data[r] = None => r \in lost

(* A record that is passed over, and one that is taken.                     *)
LEMMA PassedOver ==
    ASSUME NEW index \in Seq(Requests), NEW found \in Seq(Requests), NEW gone, NEW kinds,
           NEW n \in Nat, Reads(n, index, found, gone, kinds),
           kinds[index[n + 1]] = "foreign" \/ index[n + 1] \in gone
    PROVE  Reads(n + 1, index, found, gone, kinds)
  <1>1. PICK g \in [1..Len(found) -> 1..n] :
           /\ \A k \in 1..Len(found) : index[g[k]] = found[k] /\ kinds[found[k]] # "foreign"
           /\ \A j, k \in 1..Len(found) : j < k => g[j] < g[k]
           /\ \A i \in 1..n : kinds[index[i]] # "foreign" /\ index[i] \notin gone
                               => \E k \in 1..Len(found) : g[k] = i
    BY DEF Reads
  <1>2. 1..n \subseteq 1..(n + 1) /\ \A i \in 1..(n + 1) : i \in 1..n \/ i = n + 1
    OBVIOUS
  <1>3. g \in [1..Len(found) -> 1..(n + 1)]
    BY <1>2
  <1>4. QED BY <1>1, <1>2, <1>3 DEF Reads

LEMMA TakenUp ==
    ASSUME NEW index \in Seq(Requests), NEW found \in Seq(Requests), NEW gone, NEW kinds,
           NEW n \in Nat, Reads(n, index, found, gone, kinds),
           index[n + 1] \in Requests, kinds[index[n + 1]] # "foreign"
    PROVE  Reads(n + 1, index, Append(found, index[n + 1]), gone, kinds)
  <1> DEFINE m == Len(found)
             r == index[n + 1]
             more == Append(found, r)
  <1>1. PICK g \in [1..m -> 1..n] :
           /\ \A k \in 1..m : index[g[k]] = found[k] /\ kinds[found[k]] # "foreign"
           /\ \A j, k \in 1..m : j < k => g[j] < g[k]
           /\ \A i \in 1..n : kinds[index[i]] # "foreign" /\ index[i] \notin gone
                               => \E k \in 1..m : g[k] = i
    BY DEF Reads
  <1>2. /\ m \in Nat /\ Len(more) = m + 1 /\ more[m + 1] = r
        /\ \A k \in 1..m : more[k] = found[k]
    OBVIOUS
  <1> HIDE DEF m, r, more
  <1>3. /\ \A k \in 1..(m + 1) : k \in 1..m \/ k = m + 1
        /\ \A i \in 1..(n + 1) : i \in 1..n \/ i = n + 1
        /\ 1..m \subseteq 1..(m + 1) /\ 1..n \subseteq 1..(n + 1)
        /\ m + 1 \in 1..(m + 1) /\ n + 1 \in 1..(n + 1) /\ m + 1 \notin 1..m
    BY <1>2
  <1> DEFINE h == [k \in 1..(m + 1) |-> IF k = m + 1 THEN n + 1 ELSE g[k]]
  <1>4. /\ h \in [1..(m + 1) -> 1..(n + 1)] /\ h[m + 1] = n + 1
        /\ \A k \in 1..m : h[k] = g[k] /\ g[k] \in 1..n
    BY <1>3
  <1> HIDE DEF h
  <1>5. \A k \in 1..(m + 1) : index[h[k]] = more[k] /\ kinds[more[k]] # "foreign"
    BY <1>1, <1>2, <1>3, <1>4 DEF r
  <1>6. ASSUME NEW j \in 1..(m + 1), NEW k \in 1..(m + 1), j < k PROVE h[j] < h[k]
    <2>1. j \in 1..m
      BY <1>2, <1>6
    <2>2. CASE k = m + 1
      <3>1. g[j] \in 1..n /\ h[j] = g[j] /\ h[k] = n + 1
        BY <1>4, <2>1, <2>2
      <3>2. QED BY <3>1
    <2>3. CASE k # m + 1
      BY <1>1, <1>3, <1>4, <1>6, <2>1, <2>3
    <2>4. QED BY <2>2, <2>3
  <1>7. \A i \in 1..(n + 1) : kinds[index[i]] # "foreign" /\ index[i] \notin gone
                               => \E k \in 1..(m + 1) : h[k] = i
    BY <1>1, <1>3, <1>4
  <1>8. Reads(n + 1, index, more, gone, kinds)
    <2>1. h \in [1..Len(more) -> 1..(n + 1)]
      BY <1>2, <1>4
    <2>2. \A k \in 1..Len(more) : index[h[k]] = more[k] /\ kinds[more[k]] # "foreign"
      BY <1>2, <1>5
    <2>3. \A j, k \in 1..Len(more) : j < k => h[j] < h[k]
      BY <1>2, <1>6
    <2>4. \A i \in 1..(n + 1) : kinds[index[i]] # "foreign" /\ index[i] \notin gone
                                  => \E k \in 1..Len(more) : h[k] = i
      BY <1>2, <1>7
    <2>5. QED BY <2>1, <2>2, <2>3, <2>4, Zenon DEF Reads
  <1>9. QED BY <1>8 DEF more, r

(* Records that are lost meanwhile need not have been found.                *)
LEMMA MoreGone ==
    ASSUME NEW rd, NEW gone, NEW more, NEW kinds, gone \subseteq more,
           ReaderOK(rd, gone, kinds)
    PROVE  ReaderOK(rd, more, kinds)
  BY DEF ReaderOK, Reads

(* The members of a finite set of numbers, one after the other.             *)
LEMMA NthMember ==
    ASSUME NEW S \in SUBSET Nat, IsFiniteSet(S)
    PROVE  /\ Cardinality(S) \in Nat
           /\ \A n \in 1..Cardinality(S) : Nth(S, n) \in S
           /\ \A m, n \in 1..Cardinality(S) : m < n => Nth(S, m) < Nth(S, n)
           /\ \A k \in S : \E n \in 1..Cardinality(S) : Nth(S, n) = k
  <1> DEFINE c == Cardinality(S)
             below(k) == {j \in S : j < k}
             rank == [k \in S |-> Cardinality(below(k)) + 1]
  <1>1. c \in Nat
    BY FS_CardinalityType
  <1>2. ASSUME NEW k \in S
        PROVE  Cardinality(below(k)) \in Nat /\ Cardinality(below(k)) + 1 \in 1..c
    <2>1. below(k) \in SUBSET S /\ k \notin below(k) /\ k \in Nat
      OBVIOUS
    <2>2. /\ IsFiniteSet(below(k)) /\ Cardinality(below(k)) <= c
          /\ c = Cardinality(below(k)) => S = below(k)
      BY <2>1, FS_Subset
    <2>3. Cardinality(below(k)) \in Nat
      BY <2>2, FS_CardinalityType
    <2>4. Cardinality(below(k)) # c
      BY <2>1, <2>2
    <2> HIDE DEF below, c
    <2>5. QED BY <1>1, <2>2, <2>3, <2>4
  <1>3. ASSUME NEW j \in S, NEW k \in S, j < k
        PROVE  Cardinality(below(j)) < Cardinality(below(k))
    <2>1. below(j) \in SUBSET below(k) /\ j \in below(k) /\ j \notin below(j)
      <3>1. j \in Nat /\ k \in Nat /\ \A i \in S : i \in Nat
        OBVIOUS
      <3>2. \A i \in S : i < j => i < k
        BY <1>3, <3>1
      <3>3. below(j) \in SUBSET below(k)
        BY <3>2
      <3>4. j \in below(k) /\ j \notin below(j)
        BY <1>3, <3>1
      <3>5. QED BY <3>3, <3>4
    <2>2. IsFiniteSet(below(k))
      BY FS_Subset
    <2>3. /\ Cardinality(below(j)) <= Cardinality(below(k))
          /\ Cardinality(below(k)) = Cardinality(below(j)) => below(k) = below(j)
      BY <2>1, <2>2, FS_Subset
    <2>4. Cardinality(below(k)) # Cardinality(below(j))
      BY <2>1, <2>3
    <2>5. Cardinality(below(j)) \in Nat /\ Cardinality(below(k)) \in Nat
      BY <1>2
    <2> HIDE DEF below
    <2>6. QED BY <2>3, <2>4, <2>5
  <1> HIDE DEF below, c
  <1>4. rank \in [S -> 1..c]
    BY <1>2
  <1>5. ASSUME NEW j \in S, NEW k \in S, rank[j] = rank[k] PROVE j = k
    <2>1. Cardinality(below(j)) = Cardinality(below(k))
      BY <1>2, <1>5
    <2>2. ~(j < k) /\ ~(k < j)
      <3>1. ASSUME j < k PROVE FALSE
        BY <1>2, <1>3, <2>1, <3>1
      <3>2. ASSUME k < j PROVE FALSE
        BY <1>2, <1>3, <2>1, <3>2
      <3>3. QED BY <3>1, <3>2
    <2>3. j \in Nat /\ k \in Nat
      OBVIOUS
    <2>4. QED BY <2>2, <2>3
  <1>6. rank \in Surjection(S, 1..c)
    <2>1. rank \in Injection(S, 1..c)
      BY <1>4, <1>5 DEF Injection, IsInjective
    <2>2. IsFiniteSet(1..c) /\ Cardinality(1..c) = c
      BY <1>1, FS_Interval
    <2>3. QED BY <2>1, <2>2, FS_Injection DEF c
  <1>7. ASSUME NEW n \in 1..c
        PROVE  Nth(S, n) \in S /\ rank[Nth(S, n)] = n
    <2>1. PICK k \in S : rank[k] = n
      BY <1>6 DEF Surjection
    <2>2. Cardinality(below(k)) = n - 1
      BY <1>2, <2>1
    <2>3. Nth(S, n) \in S /\ Cardinality(below(Nth(S, n))) = n - 1
      BY <2>2 DEF Nth, below
    <2>4. QED BY <1>2, <2>3
  <1>8. ASSUME NEW m \in 1..c, NEW n \in 1..c, m < n
        PROVE  Nth(S, m) < Nth(S, n)
    <2>1. Nth(S, m) \in S /\ Nth(S, n) \in S
          /\ rank[Nth(S, m)] = m /\ rank[Nth(S, n)] = n
      BY <1>7
    <2>2. Nth(S, m) \in Nat /\ Nth(S, n) \in Nat
      BY <2>1
    <2>3. Nth(S, m) # Nth(S, n)
      BY <1>8, <2>1
    <2>4. ~(Nth(S, n) < Nth(S, m))
      <3> SUFFICES ASSUME Nth(S, n) < Nth(S, m) PROVE FALSE
        OBVIOUS
      <3>1. Cardinality(below(Nth(S, n))) < Cardinality(below(Nth(S, m)))
        BY <1>3, <2>1
      <3>2. Cardinality(below(Nth(S, n))) + 1 = n /\ Cardinality(below(Nth(S, m))) + 1 = m
            /\ Cardinality(below(Nth(S, n))) \in Nat /\ Cardinality(below(Nth(S, m))) \in Nat
        BY <1>2, <2>1
      <3>3. QED BY <1>8, <3>1, <3>2
    <2>5. QED BY <2>2, <2>3, <2>4
  <1>9. ASSUME NEW k \in S PROVE \E n \in 1..c : Nth(S, n) = k
    <2>1. rank[k] \in 1..c
      BY <1>4
    <2>2. Nth(S, rank[k]) \in S /\ rank[Nth(S, rank[k])] = rank[k]
      BY <1>7, <2>1
    <2>3. QED BY <1>5, <2>1, <2>2
  <1>10. QED BY <1>1, <1>7, <1>8, <1>9 DEF c

LEMMA InitReads == RInit => ReadInv
  <1> SUFFICES ASSUME RInit PROVE ReadInv
    OBVIOUS
  <1>1. TypeInv /\ TypeOK
    BY InitType DEF RInit, TypeInv
  <1>2. reader = NoList /\ lost = {} /\ kind \in [Requests -> Kinds]
    BY ReadsAssumption DEF RInit
  <1>3. << >> \in Seq(Requests) /\ NoList.at = "idle"
    BY DEF NoList
  <1>4. NoList \in [at : {"idle", "reading", "done"}, search : BOOLEAN,
                    limit : Nat \cup {None},
                    order : Seq(Requests), left : Seq(Requests), found : Seq(Requests)]
    BY <1>3 DEF NoList
  <1>5. RTypeOK
    BY <1>1, <1>2, <1>4 DEF RTypeOK
  <1>6. QED BY <1>1, <1>2, <1>3, <1>5 DEF ReadInv, ReaderOK

(* Reading an index, and one record after the other of it.                  *)
LEMMA OrderReads ==
    ASSUME ReadInv, UNCHANGED vars, UNCHANGED kind,
           NEW q \in Queries, ListOrder(q.search, q.limit)
    PROVE  ReadInv'
  <1>1. q.search \in BOOLEAN /\ q.limit \in Nat \cup {None}
    BY ReadsAssumption
  <1> DEFINE back == Reverse(order)
  <1>2. order \in Seq(Requests) /\ Len(order) \in Nat
    BY DEF ReadInv, TypeInv, TypeOK
  <1>3. back \in Seq(Requests) /\ Len(back) = Len(order)
    <2>1. \A i \in 1..Len(order) : Len(order) - i + 1 \in 1..Len(order)
      BY <1>2
    <2>2. \A i \in 1..Len(order) : order[Len(order) - i + 1] \in Requests
      BY <1>2, <2>1
    <2>3. back = [i \in 1..Len(order) |-> order[Len(order) - i + 1]]
      BY DEF Reverse
    <2>4. back \in [1..Len(order) -> Requests]
      BY <2>2, <2>3
    <2>5. QED BY <1>2, <2>4
  <1> HIDE DEF back
  <1>4. /\ reader' = [at |-> IF order = << >> THEN "done" ELSE "reading",
                      search |-> q.search, limit |-> q.limit,
                      order |-> back, left |-> back, found |-> << >>]
        /\ lost' = {r \in Requests : data[r] = None}
    BY DEF ListOrder, back
  <1>5. << >> \in Seq(Requests) /\ Len(<< >>) = 0 /\ 1..0 = {}
    OBVIOUS
  <1>6. RTypeOK' /\ TypeInv'
    <2>1. reader' \in [at : {"idle", "reading", "done"}, search : BOOLEAN,
                       limit : Nat \cup {None},
                       order : Seq(Requests), left : Seq(Requests), found : Seq(Requests)]
      BY <1>1, <1>3, <1>4, <1>5
    <2>2. lost' \subseteq Requests
      BY <1>4
    <2>3. QED BY <2>1, <2>2 DEF ReadInv, RTypeOK, TypeInv, TypeOK, vars
  <1>7. ReaderOK(reader', lost', kind')
    <2> DEFINE limit == StoreLimit(q.search, q.limit)
    <2>1. Len(back) - Len(back) = 0 /\ 0 \in Nat /\ Len(back) \in Nat
      BY <1>2, <1>3
    <2>2. Reads(0, back, << >>, lost', kind')
      <3>1. [k \in 1..0 |-> 0] \in [1..Len(<< >>) -> 1..0]
        BY <1>5
      <3>2. QED BY <1>5, <3>1 DEF Reads
    <2>3. \A k \in 1..Len(back) : back[k] = back[0 + k]
      OBVIOUS
    <2>4. order = << >> <=> Len(back) = 0
      BY <1>2, <1>3
    <2>5. limit # None => 0 < Admitted(limit)
      BY <1>1 DEF StoreLimit, Admitted
    <2>6. /\ reader'.order = back /\ reader'.left = back /\ reader'.found = << >>
          /\ reader'.search = q.search /\ reader'.limit = q.limit
          /\ reader'.at = IF order = << >> THEN "done" ELSE "reading"
      BY <1>4
    <2> HIDE DEF limit
    <2>7. QED BY <1>5, <2>1, <2>2, <2>3, <2>4, <2>5, <2>6 DEF ReaderOK, limit
  <1>8. \A r \in Requests : data'[r] = None => r \in lost'
    BY <1>4 DEF vars
  <1>9. QED BY <1>6, <1>7, <1>8 DEF ReadInv

LEMMA RecordReads ==
    ASSUME ReadInv, UNCHANGED vars, UNCHANGED kind, ListRecord
    PROVE  ReadInv'
  <1> DEFINE index == reader.order
             left  == reader.left
             n     == Len(index) - Len(left)
             limit == StoreLimit(reader.search, reader.limit)
             r     == Head(left)
             taken == data[r] # None /\ kind[r] # "foreign"
             found == IF taken THEN Append(reader.found, r) ELSE reader.found
             full  == taken /\ Full(limit, found)
             at    == IF Tail(left) = << >> \/ full THEN "done" ELSE "reading"
  <1>1. /\ reader.search \in BOOLEAN /\ reader.limit \in Nat \cup {None}
        /\ index \in Seq(Requests) /\ left \in Seq(Requests) /\ reader.found \in Seq(Requests)
    BY DEF ReadInv, RTypeOK
  <1>2. reader.at = "reading" /\ lost' = lost /\ data' = data /\ kind' = kind
    BY DEF ListRecord, vars
  <1>3. reader' = [reader EXCEPT !.left = Tail(left), !.found = found, !.at = at]
    BY DEF ListRecord
  <1>4. /\ n \in Nat /\ Reads(n, index, reader.found, lost, kind)
        /\ \A k \in 1..Len(left) : left[k] = index[n + k]
        /\ Len(left) > 0
        /\ limit # None => Len(reader.found) < Admitted(limit)
    BY <1>2 DEF ReadInv, ReaderOK
  <1>5. /\ Len(left) \in Nat /\ Len(index) \in Nat /\ Len(reader.found) \in Nat
        /\ left # << >> /\ r \in Requests /\ r = left[1] /\ Tail(left) \in Seq(Requests)
        /\ Len(Tail(left)) = Len(left) - 1
        /\ \A k \in 1..Len(Tail(left)) : Tail(left)[k] = left[k + 1]
    BY <1>1, <1>4
  <1>6. r = index[n + 1] /\ Len(index) - Len(Tail(left)) = n + 1
    <2>1. 1 \in 1..Len(left)
      BY <1>4, <1>5
    <2>2. left[1] = index[n + 1]
      BY <1>4, <2>1
    <2>3. Len(index) - (Len(left) - 1) = (Len(index) - Len(left)) + 1
      BY <1>5
    <2>4. QED BY <1>5, <2>2, <2>3
  <1>7. taken \in BOOLEAN /\ found \in Seq(Requests)
    BY <1>1, <1>5
  <1>8. reader.at = "reading" => \A x \in Requests : data[x] = None => x \in lost
    BY DEF ReadInv
  <1>9. Reads(n + 1, index, found, lost, kind)
    <2>1. CASE taken
      BY <1>1, <1>4, <1>5, <1>6, <2>1, TakenUp
    <2>2. CASE ~taken
      <3>1. kind[r] = "foreign" \/ r \in lost
        BY <1>2, <1>5, <1>8, <2>2
      <3>2. QED BY <1>1, <1>4, <1>6, <2>2, <3>1, PassedOver
    <2>3. QED BY <2>1, <2>2
  <1>10. \A k \in 1..Len(Tail(left)) : Tail(left)[k] = index[n + 1 + k]
    <2> SUFFICES ASSUME NEW k \in 1..Len(Tail(left))
                 PROVE  Tail(left)[k] = index[n + 1 + k]
      OBVIOUS
    <2>1. k \in 1..(Len(left) - 1)
      BY <1>5
    <2>2. k + 1 \in 1..Len(left)
      BY <1>5, <2>1
    <2>3. ASSUME NEW a \in Nat PROVE a + (k + 1) = a + 1 + k
      BY <2>1
    <2>4. left[k + 1] = index[n + (k + 1)] /\ Tail(left)[k] = left[k + 1]
      BY <1>4, <1>5, <2>2
    <2>5. QED BY <1>4, <2>3, <2>4
  <1>11. limit # None =>
            IF full THEN Len(found) = Admitted(limit) ELSE Len(found) < Admitted(limit)
    <2> SUFFICES ASSUME limit # None
                 PROVE  IF full THEN Len(found) = Admitted(limit)
                        ELSE Len(found) < Admitted(limit)
      OBVIOUS
    <2>1. limit \in Nat /\ Admitted(limit) \in Nat /\ (limit = 0 => Admitted(limit) = 1)
          /\ (limit # 0 => Admitted(limit) = limit)
      BY <1>1, ReadsAssumption DEF StoreLimit, Admitted
    <2>2. CASE taken
      <3>1. Len(found) = Len(reader.found) + 1
        BY <1>1, <1>5, <2>2
      <3>2. full <=> Len(found) >= limit
        BY <2>2 DEF Full
      <3>3. QED BY <1>4, <1>5, <2>1, <3>1, <3>2
    <2>3. CASE ~taken
      BY <1>4, <2>3
    <2>4. QED BY <2>2, <2>3
  <1>12. full => limit # None
    BY DEF Full
  <1> HIDE DEF index, left, n, limit, r, taken, found, full
  <1>13. /\ reader'.order = index /\ reader'.left = Tail(left) /\ reader'.found = found
         /\ reader'.search = reader.search /\ reader'.limit = reader.limit
         /\ reader'.at = at
    BY <1>3 DEF ReadInv, RTypeOK, index
  <1>14. RTypeOK' /\ TypeInv'
    <2>1. reader' \in [at : {"idle", "reading", "done"}, search : BOOLEAN,
                       limit : Nat \cup {None},
                       order : Seq(Requests), left : Seq(Requests), found : Seq(Requests)]
      BY <1>3, <1>5, <1>7 DEF ReadInv, RTypeOK
    <2>2. QED BY <1>2, <2>1 DEF ReadInv, RTypeOK, TypeInv, TypeOK, vars
  <1>15. ReaderOK(reader', lost', kind')
    <2>1. Len(Tail(left)) \in Nat /\ (Tail(left) = << >> <=> Len(Tail(left)) = 0)
      <3>1. \A s \in Seq(Requests) : Len(s) \in Nat /\ (s = << >> <=> Len(s) = 0)
        OBVIOUS
      <3>2. QED BY <1>5, <3>1
    <2>2. at # "idle" /\ (at = "reading" => Len(Tail(left)) > 0 /\ ~full)
          /\ (at = "done" => Len(Tail(left)) = 0 \/ full)
      BY <2>1
    <2>3. n + 1 \in Nat /\ StoreLimit(reader'.search, reader'.limit) = limit
      BY <1>4, <1>13 DEF limit
    <2>4. QED
      BY <1>2, <1>6, <1>9, <1>10, <1>11, <1>12, <1>13, <2>2, <2>3 DEF ReaderOK
  <1>16. QED BY <1>2, <1>8, <1>14, <1>15 DEF ReadInv

LEMMA NextReads == ReadInv /\ [RNext]_<<vars, kind, reader, lost>> => ReadInv'
  <1> SUFFICES ASSUME ReadInv, [RNext]_<<vars, kind, reader, lost>> PROVE ReadInv'
    OBVIOUS
  <1>1. TypeInv'
    <2>1. [Next]_vars
      BY DEF RNext, Write
    <2>2. QED BY <2>1, NextType DEF ReadInv
  <1>2. CASE UNCHANGED <<vars, kind, reader, lost>>
    BY <1>1, <1>2 DEF ReadInv, RTypeOK, TypeInv, vars
  <1>3. CASE Write /\ UNCHANGED kind
    <2>1. reader' = reader /\ kind' = kind /\ lost \subseteq lost' /\ lost' \subseteq Requests
      BY <1>3 DEF Write, ReadInv, RTypeOK
    <2>2. RTypeOK'
      BY <1>1, <2>1 DEF ReadInv, RTypeOK, TypeInv
    <2>3. ReaderOK(reader, lost', kind)
      BY <2>1, MoreGone DEF ReadInv
    <2>4. ASSUME reader.at = "reading", NEW r \in Requests, data'[r] = None
          PROVE  r \in lost'
      BY <1>3, <2>4 DEF Write, ReadInv
    <2>5. QED BY <1>1, <2>1, <2>2, <2>3, <2>4 DEF ReadInv
  <1>4. CASE Read /\ UNCHANGED vars /\ UNCHANGED kind
    <2>1. CASE ListAnswered
      <3>1. reader' = NoList /\ lost' = {} /\ NoList.at = "idle"
        BY <2>1 DEF ListAnswered, NoList
      <3>2. << >> \in Seq(Requests)
        OBVIOUS
      <3>3. NoList \in [at : {"idle", "reading", "done"}, search : BOOLEAN,
                        limit : Nat \cup {None},
                        order : Seq(Requests), left : Seq(Requests), found : Seq(Requests)]
        BY <3>2 DEF NoList
      <3>4. RTypeOK'
        BY <1>1, <1>4, <3>1, <3>3 DEF ReadInv, RTypeOK, TypeInv
      <3>5. QED BY <1>1, <3>1, <3>4 DEF ReadInv, ReaderOK
    <2>2. QED BY <1>4, <2>1, OrderReads, RecordReads DEF Read
  <1>5. QED BY <1>2, <1>3, <1>4 DEF RNext

(* What has been found makes the answer: all of it, or the matches in it up
   to the limit.                                                            *)
LEMMA FoundIsComplete == ReadInv => ListingComplete
  <1> SUFFICES ASSUME ReadInv, reader.at = "done"
               PROVE  /\ \A k \in DOMAIN Answer : Wanted(Answer[k])
                      /\ \E f \in [DOMAIN Answer -> DOMAIN reader.order] :
                            /\ \A k \in DOMAIN Answer : reader.order[f[k]] = Answer[k]
                            /\ \A j, k \in DOMAIN Answer : j < k => f[j] < f[k]
                            /\ \A i \in DOMAIN reader.order :
                                  Wanted(reader.order[i]) /\ reader.order[i] \notin lost
                                  => \/ \E k \in DOMAIN Answer : f[k] = i
                                     \/ /\ Admitted(reader.limit) = Len(Answer)
                                        /\ \A k \in DOMAIN Answer : f[k] < i
    BY DEF ListingComplete
  <1> DEFINE index == reader.order
             found == reader.found
             n     == Len(index) - Len(reader.left)
             limit == StoreLimit(reader.search, reader.limit)
  <1>1. /\ reader.search \in BOOLEAN /\ reader.limit \in Nat \cup {None}
        /\ index \in Seq(Requests) /\ reader.left \in Seq(Requests) /\ found \in Seq(Requests)
        /\ kind \in [Requests -> Kinds]
    BY DEF ReadInv, RTypeOK
  <1>2. /\ n \in Nat /\ Reads(n, index, found, lost, kind)
        /\ Len(reader.left) = 0 \/ (limit # None /\ Len(found) = Admitted(limit))
    BY DEF ReadInv, ReaderOK
  <1>3. /\ Len(index) \in Nat /\ DOMAIN index = 1..Len(index)
        /\ Len(found) \in Nat /\ DOMAIN found = 1..Len(found)
        /\ \A i \in DOMAIN index : index[i] \in Requests
        /\ \A k \in DOMAIN found : found[k] \in Requests
    BY <1>1
  <1>4. Len(reader.left) = 0 => n = Len(index)
    BY <1>3
  <1>5. 1..n \subseteq DOMAIN index
    <2>1. Len(reader.left) \in Nat
      BY <1>1
    <2>2. n <= Len(index)
      <3>1. \A a, b \in Nat : a - b <= a
        OBVIOUS
      <3>2. QED BY <1>3, <2>1, <3>1
    <2> HIDE DEF n
    <2>3. QED BY <1>2, <1>3, <2>2
  <1> HIDE DEF n, limit, index, found
  <1>6. PICK g \in [1..Len(found) -> 1..n] :
           /\ \A k \in 1..Len(found) : index[g[k]] = found[k] /\ kind[found[k]] # "foreign"
           /\ \A j, k \in 1..Len(found) : j < k => g[j] < g[k]
           /\ \A i \in 1..n : kind[index[i]] # "foreign" /\ index[i] \notin lost
                               => \E k \in 1..Len(found) : g[k] = i
    BY <1>2 DEF Reads
  <1>7. \A r \in Requests : kind[r] \in {"foreign", "miss", "hit"}
    BY <1>1 DEF Kinds
  <1>8. CASE ~reader.search
    <2>1. Answer = found /\ limit = reader.limit
      BY <1>8 DEF Answer, found, StoreLimit, limit
    <2>2. \A r \in Requests : Wanted(r) <=> kind[r] # "foreign"
      BY <1>7, <1>8 DEF Wanted
    <2>3. g \in [DOMAIN Answer -> DOMAIN index] /\ DOMAIN Answer = 1..Len(found)
      BY <1>3, <1>5, <2>1
    <2>4. \A k \in DOMAIN Answer : Wanted(Answer[k])
      BY <1>3, <1>6, <2>1, <2>2
    <2>5. ASSUME NEW i \in DOMAIN index, Wanted(index[i]), index[i] \notin lost
          PROVE  \/ \E k \in DOMAIN Answer : g[k] = i
                 \/ /\ Admitted(reader.limit) = Len(Answer)
                    /\ \A k \in DOMAIN Answer : g[k] < i
      <3>1. CASE i \in 1..n
        BY <1>3, <1>6, <2>2, <2>3, <2>5, <3>1
      <3>2. CASE i \notin 1..n
        <4>1. i \in 1..Len(index) /\ i > n
          BY <1>2, <1>3, <2>5, <3>2
        <4>2. Len(reader.left) # 0
          BY <1>3, <1>4, <4>1
        <4>3. Len(found) = Admitted(reader.limit)
          BY <1>2, <2>1, <4>2
        <4>4. ASSUME NEW k \in DOMAIN Answer PROVE g[k] < i
          <5>1. g[k] \in 1..n
            BY <2>3
          <5>2. QED BY <1>2, <1>3, <4>1, <5>1
        <4>5. QED BY <2>1, <4>3, <4>4
      <3>3. QED BY <3>1, <3>2
    <2>6. QED BY <1>6, <2>1, <2>3, <2>4, <2>5 DEF index
  <1>9. CASE reader.search
    <2> DEFINE c == Cardinality(Hits)
               a == Answered
    <2>1. n = Len(index)
      BY <1>2, <1>4, <1>9 DEF StoreLimit, limit
    <2>2. Hits \in SUBSET (1..Len(found)) /\ Hits \in SUBSET Nat
          /\ \A k \in 1..Len(found) : k \in Hits <=> kind[found[k]] = "hit"
      BY <1>3 DEF Hits, found
    <2>3. IsFiniteSet(Hits)
      <3>1. IsFiniteSet(1..Len(found))
        BY <1>3, FS_Interval
      <3>2. QED BY <2>2, <3>1, FS_Subset
    <2>4. /\ c \in Nat
          /\ \A m \in 1..c : Nth(Hits, m) \in Hits
          /\ \A l, m \in 1..c : l < m => Nth(Hits, l) < Nth(Hits, m)
          /\ \A k \in Hits : \E m \in 1..c : Nth(Hits, m) = k
      BY <2>2, <2>3, NthMember
    <2>5. a \in Nat /\ a <= c /\ (a < c => Admitted(reader.limit) = a)
      <3>1. reader.limit # None => Admitted(reader.limit) \in Nat
        BY <1>1 DEF Admitted
      <3> HIDE DEF c
      <3>2. a = IF reader.limit # None /\ c > Admitted(reader.limit)
                THEN Admitted(reader.limit) ELSE c
        BY DEF Answered, c
      <3>3. QED BY <2>4, <3>1, <3>2
    <2> HIDE DEF c, a
    <2>6. 1..a \subseteq 1..c
      BY <2>4, <2>5
    <2>7. Answer = [m \in 1..a |-> found[Nth(Hits, m)]]
      BY <1>9 DEF Answer, a, found
    <2>8. DOMAIN Answer = 1..a /\ Len(Answer) = a
          /\ \A m \in 1..a : Answer[m] = found[Nth(Hits, m)]
      BY <2>5, <2>7
    <2> DEFINE f == [m \in 1..a |-> g[Nth(Hits, m)]]
    <2>9. \A m \in 1..c : Nth(Hits, m) \in Hits /\ Nth(Hits, m) \in 1..Len(found)
                          /\ Nth(Hits, m) \in Nat
      BY <2>2, <2>4
    <2>10. f \in [DOMAIN Answer -> DOMAIN index]
      BY <1>5, <1>6, <2>6, <2>8, <2>9
    <2>11. \A m \in 1..a : f[m] = g[Nth(Hits, m)]
      OBVIOUS
    <2> HIDE DEF f
    <2>12. \A m \in DOMAIN Answer : Wanted(Answer[m]) /\ index[f[m]] = Answer[m]
      BY <1>6, <2>2, <2>6, <2>8, <2>9, <2>11 DEF Wanted
    <2>13. \A l, m \in DOMAIN Answer : l < m => f[l] < f[m]
      BY <1>6, <2>4, <2>6, <2>8, <2>9, <2>11
    <2>14. ASSUME NEW i \in DOMAIN index, Wanted(index[i]), index[i] \notin lost
           PROVE  \/ \E m \in DOMAIN Answer : f[m] = i
                  \/ /\ Admitted(reader.limit) = Len(Answer)
                     /\ \A m \in DOMAIN Answer : f[m] < i
      <3>1. kind[index[i]] = "hit"
        BY <1>9, <2>14 DEF Wanted
      <3>2. PICK k \in 1..Len(found) : g[k] = i
        BY <1>3, <1>6, <2>1, <2>14, <3>1
      <3>3. k \in Hits
        BY <1>6, <2>2, <3>1, <3>2
      <3>4. PICK m \in 1..c : Nth(Hits, m) = k
        BY <2>4, <3>3
      <3>5. CASE m \in 1..a
        BY <2>8, <2>11, <3>2, <3>4, <3>5
      <3>6. CASE m \notin 1..a
        <4>1. a < m /\ a < c
          BY <2>4, <2>5, <3>6
        <4>2. ASSUME NEW l \in 1..a PROVE f[l] < i
          <5>1. l \in 1..c /\ l < m
            BY <2>4, <2>5, <2>6, <4>1
          <5>2. Nth(Hits, l) < k
            BY <2>4, <3>4, <5>1
          <5>3. QED BY <1>6, <2>9, <2>11, <3>2, <5>1, <5>2
        <4>3. QED BY <2>5, <2>8, <4>1, <4>2
      <3>7. QED BY <3>5, <3>6
    <2>15. QED BY <2>10, <2>12, <2>13, <2>14 DEF index
  <1>10. QED BY <1>1, <1>8, <1>9

-----------------------------------------------------------------------------
(* The variables of the recorder keep their types.                          *)
THEOREM StoreTypeCorrect == Spec => []TypeOK
  <1>1. TypeInv => TypeOK
    BY DEF TypeInv
  <1>2. QED BY <1>1, InitType, NextType, PTL DEF Spec

(* However many tasks overlap and whatever they evict, a record that is
   stored once its request's tasks are done has the last status published.  *)
THEOREM LastEventIsRecorded == Spec => []LastEventRecorded
  <1>1. TypeInv /\ EventsInOrder => LastEventRecorded
    <2> SUFFICES ASSUME TypeInv, EventsInOrder, NEW r \in Requests,
                        queue[r] = << >>, task[r].at = "idle", data[r] # None
                 PROVE  data[r] = published[r]
      BY DEF LastEventRecorded
    <2>1. InOrder(published[r], queue[r], task[r], data[r]) /\ Len(queue[r]) = 0
      BY DEF EventsInOrder
    <2>2. QED BY <2>1 DEF InOrder, Pending
  <1>2. QED BY <1>1, InitType, NextType, InitInOrder, NextInOrder, PTL DEF Spec

(* Between tasks that did not overlap the index names every stored record,
   once: read, changed and written back in several storage calls, it loses no
   id and keeps none of an evicted record.                                  *)
THEOREM IndexIsExact == Spec => []IndexNamesRecords
  <1>1. TypeInv /\ Serial => IndexNamesRecords
    <2> SUFFICES ASSUME TypeInv, Serial, Active = {}, ~overlapped
                 PROVE  Indexed = Stored /\ Len(order) = Cardinality(Indexed)
      BY DEF IndexNamesRecords, Quiescent
    <2>1. Indexed = Names(order)
      BY DEF Indexed, Names
    <2>2. Names(order) = Stored /\ Distinct(order) /\ order \in Seq(Requests)
      BY DEF Serial, TypeInv, TypeOK
    <2>3. QED BY <2>1, <2>2, DistinctLength
  <1>2. QED
    BY <1>1, InitType, NextType, InitInOrder, NextInOrder, InitSerial, NextSerial, PTL
       DEF Spec

(* The store implements the log: as long as tasks do not overlap, readers see
   a bounded listing that grows at its end, drops its oldest record to make
   room and gives each record its outcome once.                             *)
THEOREM StoreIsLog == Spec => ImplementsLog
  <1>1. Init => Log!Init
    <2> SUFFICES ASSUME Init PROVE Log!Init
      OBVIOUS
    <2>1. order = << >> /\ order \in Seq(Requests) /\ ~overlapped
      BY DEF Init
    <2>2. Listing = RowsOf(<< >>, data)
      BY <2>1, InitType, InitSerial, ListingShown DEF Visible, Kept
    <2>3. Len(RowsOf(<< >>, data)) = 0 /\ RowsOf(<< >>, data) = << >>
      BY DEF RowsOf
    <2>4. QED BY <2>1, <2>2, <2>3 DEF Log!Init
  <1>2. QED
    BY <1>1, InitType, NextType, InitInOrder, NextInOrder, InitSerial, NextSerial,
       ListingShown, NextLogs, PTL
       DEF Spec, ImplementsLog, Log!Spec

(* However the recorder saves, updates and evicts while a listing is being
   read, and whatever is asked for, the answer is the newest of what was
   asked for, in order: nothing that stayed stored is left out of it.       *)
THEOREM ListingIsComplete == RSpec => []ListingComplete
  <1>1. QED BY InitReads, NextReads, FoundIsComplete, PTL DEF RSpec

-----------------------------------------------------------------------------
(* The explorer.  A list of rows fits a query if it says nothing false of
   what it lists, and, for a list, holds each request once and no others than
   the query's.  What a query holds fits it, and so does the answer that is on
   its way: it was read from a store that has only gone on since.           *)
Once(rows) == \A i, j \in DOMAIN rows : rows[i].id = rows[j].id => i = j

Belongs(q, r) == HomeOf[r] = q.ws /\ (q.of # Nothing => r \in Matches[q.of])

Truthful(row, known) ==
    /\ known[row.id] # "unseen"
    /\ row.status \in {"completed", "failed"} => known[row.id] = row.status

Fits(q, rows, known) ==
    /\ \A i \in DOMAIN rows : Truthful(rows[i], known)
    /\ q \in Lists => /\ Once(rows)
                      /\ \A i \in DOMAIN rows : Belongs(q, rows[i].id)

Entry == [loaded : BOOLEAN, invalid : BOOLEAN, failed : BOOLEAN,
          fetch : {"idle", "asked", "answered"}, items : Seq(Rows), answer : Seq(Rows)]

EntryOK(q, e, known) == Fits(q, e.items, known) /\ Fits(q, e.answer, known)

(* A message was sent after what it tells had happened.                     *)
MessageOK(msg, known) ==
    /\ known[msg.id] # "unseen"
    /\ msg.type = "response_completed" => known[msg.id] = "completed"

ExplorerInv ==
    /\ ETypeOK
    /\ \A i \in DOMAIN recorded : outcome[recorded[i]] # "unseen"
    /\ \A k \in DOMAIN feed : MessageOK(feed[k], outcome)
    /\ \A q \in Keys : EntryOK(q, cache[q], outcome)

(* What happens to a request in the store.                                  *)
Later(known, then) ==
    \A r \in Traffic : known[r] # "unseen" =>
        then[r] = known[r] \/ (known[r] = "pending" /\ then[r] # "unseen")

LEMMA FitsLater ==
    ASSUME NEW q, NEW rows \in Seq(Rows), NEW known, NEW then, Later(known, then),
           Fits(q, rows, known)
    PROVE  Fits(q, rows, then)
  <1>1. ASSUME NEW i \in DOMAIN rows PROVE Truthful(rows[i], then)
    <2>1. rows[i] \in Rows
      OBVIOUS
    <2>2. rows[i].id \in Traffic
      BY <2>1 DEF Rows
    <2>3. Truthful(rows[i], known)
      BY DEF Fits
    <2>4. QED BY <2>2, <2>3 DEF Truthful, Later
  <1>2. QED BY <1>1 DEF Fits

LEMMA BlankFits == \A q, known : Fits(q, <<>>, known)
  BY DEF Fits, Once

-----------------------------------------------------------------------------
(* The places that are picked, one after the other.                         *)
LEMMA PickedMember ==
    ASSUME NEW T, NEW s \in Seq(T), NEW places \in SUBSET DOMAIN s
    PROVE  /\ Picked(s, places) \in Seq(T)
           /\ \A n \in DOMAIN Picked(s, places) :
                 Nth(places, n) \in places /\ Picked(s, places)[n] = s[Nth(places, n)]
           /\ \A m, n \in DOMAIN Picked(s, places) :
                 Nth(places, m) = Nth(places, n) => m = n
  <1>1. DOMAIN s = 1..Len(s) /\ Len(s) \in Nat
    OBVIOUS
  <1>2. places \in SUBSET Nat /\ IsFiniteSet(places)
    <2>1. places \in SUBSET (1..Len(s)) /\ IsFiniteSet(1..Len(s))
      BY <1>1, FS_Interval
    <2>2. QED BY <1>1, <2>1, FS_Subset
  <1> DEFINE c == Cardinality(places)
  <1>3. /\ c \in Nat /\ \A n \in 1..c : Nth(places, n) \in places
        /\ \A m, n \in 1..c : m < n => Nth(places, m) < Nth(places, n)
    BY <1>2, NthMember
  <1>4. Picked(s, places) = [n \in 1..c |-> s[Nth(places, n)]]
    BY DEF Picked
  <1> HIDE DEF c
  <1>5. \A n \in 1..c : s[Nth(places, n)] \in T
    BY <1>3
  <1>6. Picked(s, places) \in Seq(T) /\ DOMAIN Picked(s, places) = 1..c
    BY <1>3, <1>4, <1>5
  <1>7. ASSUME NEW m \in 1..c, NEW n \in 1..c, Nth(places, m) = Nth(places, n) PROVE m = n
    <2>1. Nth(places, m) \in Nat /\ Nth(places, n) \in Nat
      BY <1>2, <1>3
    <2>2. ~(m < n) /\ ~(n < m)
      BY <1>3, <1>7, <2>1
    <2>3. QED BY <1>3, <2>2
  <1>8. QED BY <1>3, <1>4, <1>6, <1>7

(* slice(0, limit).                                                         *)
LEMMA SlicedFits ==
    ASSUME NEW q, NEW known, NEW rows \in Seq(Rows), Fits(q, rows, known)
    PROVE  Sliced(rows) \in Seq(Rows) /\ Fits(q, Sliced(rows), known)
  <1> DEFINE n == IF Len(rows) < Limit THEN Len(rows) ELSE Limit
  <1>1. n \in Nat /\ n <= Len(rows)
    BY ExplorerAssumption
  <1>2. Sliced(rows) = SubSeq(rows, 1, n)
    BY DEF Sliced
  <1> HIDE DEF n
  <1>3. /\ Sliced(rows) \in Seq(Rows) /\ DOMAIN Sliced(rows) \subseteq DOMAIN rows
        /\ \A i \in DOMAIN Sliced(rows) : Sliced(rows)[i] = rows[i]
    BY <1>1, <1>2
  <1>4. QED BY <1>3 DEF Fits, Once

(* A row in front of those of other requests.                               *)
LEMMA InFront ==
    ASSUME NEW q, NEW known, NEW rows \in Seq(Rows), Fits(q, rows, known),
           NEW row \in Rows, Truthful(row, known), q \in Lists => Belongs(q, row.id),
           \A i \in DOMAIN rows : rows[i].id # row.id
    PROVE  <<row>> \o rows \in Seq(Rows) /\ Fits(q, <<row>> \o rows, known)
  <1> DEFINE all == <<row>> \o rows
  <1>1. /\ all \in Seq(Rows) /\ Len(all) = Len(rows) + 1 /\ all[1] = row
        /\ \A i \in DOMAIN all : i # 1 => i - 1 \in DOMAIN rows /\ all[i] = rows[i - 1]
    OBVIOUS
  <1> HIDE DEF all
  <1>2. DOMAIN all \subseteq Int
    BY <1>1
  <1>3. \A i \in DOMAIN all : /\ Truthful(all[i], known)
                              /\ q \in Lists => Belongs(q, all[i].id)
    BY <1>1 DEF Fits
  <1>4. ASSUME NEW i \in DOMAIN all, NEW j \in DOMAIN all, all[i].id = all[j].id, q \in Lists
        PROVE  i = j
    <2>1. CASE i = 1 \/ j = 1
      BY <1>1, <1>4, <2>1
    <2>2. CASE i # 1 /\ j # 1
      <3>1. rows[i - 1].id = rows[j - 1].id /\ i - 1 \in DOMAIN rows /\ j - 1 \in DOMAIN rows
        BY <1>1, <1>4, <2>2
      <3>2. i - 1 = j - 1
        BY <1>4, <3>1 DEF Fits, Once
      <3>3. QED BY <1>2, <3>2
    <2>3. QED BY <2>1, <2>2
  <1>5. QED BY <1>1, <1>3, <1>4 DEF Fits, Once, all

-----------------------------------------------------------------------------
(* What the server answers.                                                 *)
LEMMA ReplyFits ==
    ASSUME ExplorerInv, NEW q \in Keys
    PROVE  Reply(q) \in Seq(Rows) /\ Fits(q, Reply(q), outcome)
  <1> USE ExplorerAssumption
  <1>1. /\ recorded \in Seq(Traffic) /\ IsInjective(recorded)
        /\ outcome \in [Traffic -> {"unseen", "pending", "completed", "failed"}]
        /\ \A i \in DOMAIN recorded : outcome[recorded[i]] # "unseen"
    BY DEF ExplorerInv, ETypeOK
  <1>2. ASSUME NEW r \in Traffic, outcome[r] # "unseen"
        PROVE  /\ Row(r, outcome[r]) \in Rows /\ Row(r, outcome[r]).id = r
               /\ Truthful(Row(r, outcome[r]), outcome)
    BY <1>1, <1>2 DEF Row, Rows, Truthful
  <1>3. CASE q \in Lists
    <2> DEFINE places == {i \in DOMAIN recorded :
                             /\ HomeOf[recorded[i]] = q.ws
                             /\ q.of = Nothing \/ recorded[i] \in Matches[q.of]}
               mine == Picked(recorded, places)
               rows == [i \in DOMAIN mine |-> Row(mine[i], outcome[mine[i]])]
    <2>1. Reply(q) = Sliced(rows)
      BY <1>3 DEF Reply, Listed, Lists
    <2>2. places \in SUBSET DOMAIN recorded
      OBVIOUS
    <2>3. \A i \in places : Belongs(q, recorded[i])
      BY DEF Belongs
    <2> HIDE DEF places
    <2>4. /\ mine \in Seq(Traffic)
          /\ \A n \in DOMAIN mine : Nth(places, n) \in places
                                    /\ mine[n] = recorded[Nth(places, n)]
          /\ \A m, n \in DOMAIN mine : Nth(places, m) = Nth(places, n) => m = n
      BY <1>1, <2>2, PickedMember
    <2> HIDE DEF mine
    <2>5. \A n \in DOMAIN mine : /\ mine[n] \in Traffic /\ outcome[mine[n]] # "unseen"
                                 /\ Belongs(q, mine[n])
      BY <1>1, <2>2, <2>3, <2>4
    <2>6. \A m, n \in DOMAIN mine : mine[m] = mine[n] => m = n
      <3> SUFFICES ASSUME NEW m \in DOMAIN mine, NEW n \in DOMAIN mine, mine[m] = mine[n]
                   PROVE  m = n
        OBVIOUS
      <3>1. Nth(places, m) \in DOMAIN recorded /\ Nth(places, n) \in DOMAIN recorded
        BY <2>2, <2>4
      <3>2. Nth(places, m) = Nth(places, n)
        BY <1>1, <2>4, <3>1 DEF IsInjective
      <3>3. QED BY <2>4, <3>2
    <2>7. DOMAIN mine = 1..Len(mine) /\ Len(mine) \in Nat
      BY <2>4
    <2>8. \A n \in DOMAIN mine : /\ rows[n] \in Rows /\ rows[n].id = mine[n]
                                 /\ Truthful(rows[n], outcome)
      BY <1>2, <2>5
    <2>9. rows \in Seq(Rows) /\ DOMAIN rows = DOMAIN mine
      BY <2>7, <2>8
    <2> HIDE DEF rows
    <2>10. Fits(q, rows, outcome)
      BY <2>5, <2>6, <2>8, <2>9 DEF Fits, Once
    <2>11. QED BY <2>1, <2>9, <2>10, SlicedFits
  <1>4. CASE q \notin Lists
    <2>1. q \in Details /\ q.kind = "request" /\ q.of \in Traffic
      BY <1>4 DEF Keys, Details
    <2>2. Reply(q) = IF outcome[q.of] = "unseen" THEN <<>>
                     ELSE <<Row(q.of, outcome[q.of])>>
      BY <2>1 DEF Reply
    <2>3. CASE outcome[q.of] = "unseen"
      BY <2>2, <2>3, BlankFits
    <2>4. CASE outcome[q.of] # "unseen"
      <3> DEFINE row == Row(q.of, outcome[q.of])
      <3>1. row \in Rows /\ Truthful(row, outcome)
        BY <1>2, <2>1, <2>4
      <3> HIDE DEF row
      <3>2. <<row>> \in Seq(Rows) /\ \A i \in DOMAIN <<row>> : <<row>>[i] = row
        BY <3>1
      <3>3. Fits(q, <<row>>, outcome)
        BY <1>4, <3>1, <3>2 DEF Fits
      <3>4. QED BY <2>2, <2>4, <3>2, <3>3 DEF row
    <2>5. QED BY <2>3, <2>4
  <1>5. QED BY <1>3, <1>4

-----------------------------------------------------------------------------
(* What becomes of an entry.                                                *)
EntryFits(q, e) == e \in Entry /\ EntryOK(q, e, outcome)

LEMMA EntryTypes ==
    ASSUME NEW e \in Entry
    PROVE  /\ e.items \in Seq(Rows) /\ e.answer \in Seq(Rows)
           /\ Asked(e) \in Entry
           /\ Asked(e).items = e.items /\ Asked(e).answer = <<>>
           /\ \A items \in Seq(Rows) : /\ Set(e, items) \in Entry
                                       /\ Set(e, items).items = items
                                       /\ Set(e, items).answer = e.answer
  <1>1. e.items \in Seq(Rows) /\ e.answer \in Seq(Rows) /\ <<>> \in Seq(Rows)
    BY DEF Entry
  <1>2. QED BY <1>1 DEF Entry, Asked, Set

LEMMA AskedFits ==
    ASSUME NEW q, NEW e, EntryFits(q, e)
    PROVE  EntryFits(q, Asked(e)) /\ \A fresh : EntryFits(q, Mounted(e, fresh))
  <1>1. EntryFits(q, Asked(e))
    BY EntryTypes, BlankFits DEF EntryFits, EntryOK
  <1>2. QED BY <1>1 DEF Mounted

LEMMA SetFits ==
    ASSUME NEW q, NEW e, EntryFits(q, e), NEW items \in Seq(Rows), Fits(q, items, outcome)
    PROVE  EntryFits(q, Set(e, items))
  BY EntryTypes DEF EntryFits, EntryOK

LEMMA InvalidatedFits ==
    ASSUME ExplorerInv, NEW q \in Keys
    PROVE  EntryFits(q, cache[q]) /\ EntryFits(q, Invalidated(q))
  <1> DEFINE e == [cache[q] EXCEPT !.invalid = TRUE]
  <1>1. cache[q] \in Entry /\ EntryFits(q, cache[q])
    BY DEF ExplorerInv, ETypeOK, Entry, EntryFits
  <1>2. e \in Entry /\ e.items = cache[q].items /\ e.answer = cache[q].answer
    BY <1>1 DEF Entry
  <1>3. EntryFits(q, e)
    BY <1>1, <1>2 DEF EntryFits, EntryOK
  <1>4. Invalidated(q) = IF q = OnScreen /\ (e.fetch = "idle" \/ e.loaded) THEN Asked(e) ELSE e
    BY DEF Invalidated
  <1> HIDE DEF e
  <1>5. QED BY <1>1, <1>3, <1>4, AskedFits

(* A request that was received, at the top of the lists without a search.   *)
LEMMA UpsertedFits ==
    ASSUME ExplorerInv, NEW q \in Lists, NEW r \in Traffic,
           outcome[r] # "unseen", Belongs(q, r)
    PROVE  EntryFits(q, Upserted(q, r))
  <1> DEFINE items   == cache[q].items
             places  == {i \in DOMAIN items : items[i].id # r}
             without == Picked(items, places)
             row     == Row(r, "pending")
  <1>1. q \in Keys /\ EntryFits(q, cache[q])
    BY InvalidatedFits DEF Keys
  <1>2. items \in Seq(Rows) /\ Fits(q, items, outcome)
    BY <1>1, EntryTypes DEF EntryFits, EntryOK
  <1>3. row \in Rows /\ row.id = r /\ Truthful(row, outcome)
    BY DEF Row, Rows, Truthful
  <1>4. Upserted(q, r) = Set(cache[q], Sliced(<<row>> \o without))
    BY DEF Upserted
  <1>5. places \in SUBSET DOMAIN items /\ \A i \in places : items[i].id # r
    OBVIOUS
  <1> HIDE DEF items, places, row
  <1>6. /\ without \in Seq(Rows)
        /\ \A n \in DOMAIN without : Nth(places, n) \in places
                                     /\ without[n] = items[Nth(places, n)]
        /\ \A m, n \in DOMAIN without : Nth(places, m) = Nth(places, n) => m = n
    BY <1>2, <1>5, PickedMember
  <1> HIDE DEF without
  <1>7. \A n \in DOMAIN without : /\ without[n].id # r /\ Truthful(without[n], outcome)
                                  /\ Belongs(q, without[n].id)
    BY <1>2, <1>5, <1>6 DEF Fits
  <1>8. Once(without)
    <2> SUFFICES ASSUME NEW m \in DOMAIN without, NEW n \in DOMAIN without,
                        without[m].id = without[n].id
                 PROVE  m = n
      BY DEF Once
    <2>1. Nth(places, m) \in DOMAIN items /\ Nth(places, n) \in DOMAIN items
      BY <1>5, <1>6
    <2>2. Nth(places, m) = Nth(places, n)
      BY <1>2, <1>6, <2>1 DEF Fits, Once
    <2>3. QED BY <1>6, <2>2
  <1>9. Fits(q, without, outcome)
    BY <1>7, <1>8 DEF Fits
  <1>10. <<row>> \o without \in Seq(Rows) /\ Fits(q, <<row>> \o without, outcome)
    BY <1>3, <1>6, <1>7, <1>9, InFront
  <1>11. QED BY <1>1, <1>4, <1>10, SlicedFits, SetFits

(* A request that completed: its row, or a new one at the top.              *)
LEMMA PatchedFits ==
    ASSUME ExplorerInv, NEW q \in Lists, NEW r \in Traffic,
           outcome[r] = "completed", Belongs(q, r)
    PROVE  EntryFits(q, Patched(q, r))
  <1> DEFINE items == cache[q].items
             at    == {i \in DOMAIN items : items[i].id = r}
             row   == Row(r, "completed")
             new   == Sliced(<<row>> \o items)
             old   == [i \in DOMAIN items |->
                          IF i \in at THEN [items[i] EXCEPT !.status = "completed"]
                          ELSE items[i]]
             rows  == IF at = {} THEN new ELSE old
  <1>1. q \in Keys /\ EntryFits(q, cache[q])
    BY InvalidatedFits DEF Keys
  <1>2. items \in Seq(Rows) /\ Fits(q, items, outcome)
    BY <1>1, EntryTypes DEF EntryFits, EntryOK
  <1>3. row \in Rows /\ row.id = r /\ Truthful(row, outcome)
    BY DEF Row, Rows, Truthful
  <1>4. Patched(q, r) = IF cache[q].loaded THEN Set(cache[q], rows) ELSE cache[q]
    BY DEF Patched
  <1> HIDE DEF items, row
  <1>5. CASE at = {}
    <2>1. <<row>> \o items \in Seq(Rows) /\ Fits(q, <<row>> \o items, outcome)
      BY <1>2, <1>3, <1>5, InFront
    <2>2. new \in Seq(Rows) /\ Fits(q, new, outcome)
      BY <2>1, SlicedFits
    <2> HIDE DEF new
    <2>3. QED BY <1>1, <1>4, <1>5, <2>2, SetFits
  <1>6. CASE at # {}
    <2>1. \A i \in DOMAIN items : items[i] \in Rows
      BY <1>2
    <2>2. ASSUME NEW i \in DOMAIN items
          PROVE  old[i] \in Rows /\ old[i].id = items[i].id /\ Truthful(old[i], outcome)
      <3>1. CASE i \in at
        <4>1. old[i] = [items[i] EXCEPT !.status = "completed"]
          BY <3>1
        <4>2. items[i].id = r /\ items[i] \in Rows
          BY <2>1, <3>1
        <4>3. old[i] \in Rows /\ old[i].id = r /\ old[i].status = "completed"
          BY <4>1, <4>2 DEF Rows
        <4>4. QED BY <4>2, <4>3 DEF Truthful
      <3>2. CASE i \notin at
        BY <1>2, <2>1, <3>2 DEF Fits
      <3>3. QED BY <3>1, <3>2
    <2>3. DOMAIN old = DOMAIN items /\ DOMAIN items = 1..Len(items) /\ Len(items) \in Nat
      BY <1>2
    <2>4. old \in Seq(Rows)
      BY <2>2, <2>3
    <2> HIDE DEF old
    <2>5. Fits(q, old, outcome)
      BY <1>2, <2>2, <2>3 DEF Fits, Once
    <2>6. QED BY <1>1, <1>4, <1>6, <2>4, <2>5, SetFits
  <1>7. QED BY <1>5, <1>6

-----------------------------------------------------------------------------
(* The steps of the server.                                                 *)
PagesOK ==
    /\ live \in BOOLEAN /\ workspace \in Workspaces /\ page \in Traffic \cup {Nothing}
    /\ {input, debounced, url} \subseteq Searches /\ timer \in BOOLEAN
    /\ nav = NoNav \/ nav.to \in Searches

Outcomes == [Traffic -> {"unseen", "pending", "completed", "failed"}]

LEMMA ExplorerTypes ==
    ETypeOK <=> /\ recorded \in Seq(Traffic) /\ IsInjective(recorded)
                /\ outcome \in Outcomes /\ feed \in Seq(Messages)
                /\ cache \in [Keys -> Entry] /\ PagesOK
  BY DEF ETypeOK, Outcomes, Entry, PagesOK

LEMMA ServerStep ==
    ASSUME ExplorerInv, Later(outcome, outcome'), outcome' \in Outcomes,
           recorded' \in Seq(Traffic), IsInjective(recorded'),
           \A i \in DOMAIN recorded' : outcome'[recorded'[i]] # "unseen",
           NEW msg \in Messages, MessageOK(msg, outcome'),
           feed' = feed \/ feed' = Append(feed, msg),
           UNCHANGED <<live, cache, workspace, page, search>>
    PROVE  ExplorerInv'
  <1>1. /\ feed \in Seq(Messages) /\ cache \in [Keys -> Entry] /\ PagesOK
        /\ \A k \in DOMAIN feed : MessageOK(feed[k], outcome)
        /\ \A q \in Keys : EntryOK(q, cache[q], outcome)
    BY ExplorerTypes DEF ExplorerInv
  <1>2. ASSUME NEW k \in DOMAIN feed PROVE MessageOK(feed[k], outcome')
    <2>1. feed[k] \in Messages
      BY <1>1
    <2>2. feed[k].id \in Traffic
      BY <2>1 DEF Messages
    <2>3. MessageOK(feed[k], outcome)
      BY <1>1
    <2>4. QED BY <2>2, <2>3 DEF MessageOK, Later
  <1>3. feed' \in Seq(Messages) /\ \A k \in DOMAIN feed' : MessageOK(feed'[k], outcome')
    <2>1. CASE feed' = feed
      BY <1>1, <1>2, <2>1
    <2>2. CASE feed' = Append(feed, msg)
      <3>1. \A k \in DOMAIN feed' : (k \in DOMAIN feed /\ feed'[k] = feed[k]) \/ feed'[k] = msg
        BY <1>1, <2>2
      <3>2. feed' \in Seq(Messages)
        BY <1>1, <2>2
      <3>3. QED BY <1>2, <3>1, <3>2
    <2>3. QED BY <2>1, <2>2
  <1>4. \A q \in Keys : EntryOK(q, cache[q], outcome')
    BY <1>1, EntryTypes, FitsLater DEF EntryOK
  <1>5. PagesOK'
    BY <1>1 DEF PagesOK, search
  <1>6. ETypeOK'
    <2>1. cache' \in [Keys -> Entry]
      BY <1>1
    <2>2. QED BY <1>3, <1>5, <2>1 DEF ETypeOK, Outcomes, Entry, PagesOK
  <1>7. \A k \in DOMAIN feed' : MessageOK(feed[k], outcome)'
    BY <1>3
  <1>8. \A q \in Keys : EntryOK(q, cache[q], outcome)'
    BY <1>4
  <1>9. QED BY <1>6, <1>7, <1>8 DEF ExplorerInv

LEMMA MessageType ==
    ASSUME NEW r \in Traffic,
           NEW type \in {"request_received", "response_completed", "replay_completed"}
    PROVE  /\ Message(type, r) \in Messages
           /\ Message(type, r).id = r /\ Message(type, r).type = type
  BY DEF Message, Messages

LEMMA RequestReceivedInv ==
    ASSUME ExplorerInv, NEW r \in Traffic, RequestReceived(r)
    PROVE  ExplorerInv'
  <1> DEFINE msg == Message("request_received", r)
  <1>1. /\ outcome \in Outcomes /\ recorded \in Seq(Traffic) /\ IsInjective(recorded)
        /\ \A i \in DOMAIN recorded : outcome[recorded[i]] # "unseen"
    BY ExplorerTypes DEF ExplorerInv
  <1>2. /\ outcome[r] = "unseen" /\ outcome' = [outcome EXCEPT ![r] = "pending"]
        /\ recorded' = <<r>> \o recorded /\ Broadcast("request_received", r)
        /\ UNCHANGED <<live, cache, workspace, page, search>>
    BY DEF RequestReceived
  <1>3. outcome' \in Outcomes /\ Later(outcome, outcome') /\ outcome'[r] = "pending"
    BY <1>1, <1>2 DEF Outcomes, Later
  <1>4. /\ recorded' \in Seq(Traffic) /\ recorded'[1] = r
        /\ \A i \in DOMAIN recorded' :
              i # 1 => i - 1 \in DOMAIN recorded /\ recorded'[i] = recorded[i - 1]
        /\ \A i \in DOMAIN recorded' : i \in Int
    BY <1>1, <1>2
  <1>5. \A i \in DOMAIN recorded : recorded[i] \in Traffic /\ recorded[i] # r
    BY <1>1, <1>2
  <1>6. IsInjective(recorded')
    <2> SUFFICES ASSUME NEW i \in DOMAIN recorded', NEW j \in DOMAIN recorded',
                        recorded'[i] = recorded'[j]
                 PROVE  i = j
      BY DEF IsInjective
    <2>1. CASE i = 1 \/ j = 1
      BY <1>4, <1>5, <2>1
    <2>2. CASE i # 1 /\ j # 1
      <3>1. i - 1 = j - 1
        BY <1>1, <1>4, <2>2 DEF IsInjective
      <3>2. QED BY <1>4, <3>1
    <2>3. QED BY <2>1, <2>2
  <1>7. \A i \in DOMAIN recorded' : outcome'[recorded'[i]] # "unseen"
    <2> SUFFICES ASSUME NEW i \in DOMAIN recorded' PROVE outcome'[recorded'[i]] # "unseen"
      OBVIOUS
    <2>1. CASE i = 1
      BY <1>3, <1>4, <2>1
    <2>2. CASE i # 1
      BY <1>1, <1>3, <1>4, <1>5, <2>2 DEF Later
    <2>3. QED BY <2>1, <2>2
  <1>8. msg \in Messages /\ MessageOK(msg, outcome')
    BY <1>3, MessageType DEF MessageOK
  <1>9. feed' = feed \/ feed' = Append(feed, msg)
    BY <1>2 DEF Broadcast
  <1> HIDE DEF msg
  <1>10. QED BY <1>2, <1>3, <1>4, <1>6, <1>7, <1>8, <1>9, ServerStep

LEMMA OutcomeInv ==
    ASSUME ExplorerInv, NEW r \in Traffic, ResponseCompleted(r) \/ RequestFailed(r)
    PROVE  ExplorerInv'
  <1> DEFINE msg == Message("response_completed", r)
             any == Message("replay_completed", r)
  <1>1. /\ outcome \in Outcomes /\ recorded \in Seq(Traffic) /\ IsInjective(recorded)
        /\ \A i \in DOMAIN recorded : outcome[recorded[i]] # "unseen"
    BY ExplorerTypes DEF ExplorerInv
  <1>2. PICK o \in {"completed", "failed"} :
           /\ outcome[r] = "pending" /\ outcome' = [outcome EXCEPT ![r] = o]
           /\ feed' = feed \/ (o = "completed" /\ feed' = Append(feed, msg))
           /\ UNCHANGED <<recorded, live, cache, workspace, page, search>>
    BY DEF ResponseCompleted, RequestFailed, Broadcast
  <1>3. outcome' \in Outcomes /\ Later(outcome, outcome') /\ outcome'[r] = o
    BY <1>1, <1>2 DEF Outcomes, Later
  <1>4. \A i \in DOMAIN recorded : outcome'[recorded[i]] # "unseen"
    <2> SUFFICES ASSUME NEW i \in DOMAIN recorded PROVE outcome'[recorded[i]] # "unseen"
      OBVIOUS
    <2>1. recorded[i] \in Traffic
      BY <1>1
    <2>2. QED BY <1>1, <1>3, <2>1 DEF Later
  <1>5. msg \in Messages /\ (o = "completed" => MessageOK(msg, outcome'))
    BY <1>3, MessageType DEF MessageOK
  <1>6. any \in Messages /\ MessageOK(any, outcome')
    BY <1>3, MessageType DEF MessageOK
  <1> HIDE DEF msg, any
  <1>7. CASE o = "completed"
    BY <1>1, <1>2, <1>3, <1>4, <1>5, <1>7, ServerStep
  <1>8. CASE o # "completed"
    BY <1>1, <1>2, <1>3, <1>4, <1>6, <1>8, ServerStep
  <1>9. QED BY <1>7, <1>8

LEMMA ReplayCompletedInv ==
    ASSUME ExplorerInv, NEW r \in Traffic, ReplayCompleted(r)
    PROVE  ExplorerInv'
  <1> DEFINE msg == Message("replay_completed", r)
  <1>1. /\ outcome \in Outcomes /\ recorded \in Seq(Traffic) /\ IsInjective(recorded)
        /\ \A i \in DOMAIN recorded : outcome[recorded[i]] # "unseen"
    BY ExplorerTypes DEF ExplorerInv
  <1>2. /\ outcome[r] \in {"completed", "failed"} /\ outcome' = outcome /\ recorded' = recorded
        /\ feed' = feed \/ feed' = Append(feed, msg)
        /\ UNCHANGED <<live, cache, workspace, page, search>>
    BY DEF ReplayCompleted, Broadcast, server
  <1>3. Later(outcome, outcome')
    BY <1>2 DEF Later
  <1>4. msg \in Messages /\ MessageOK(msg, outcome')
    BY <1>2, MessageType DEF MessageOK
  <1> HIDE DEF msg
  <1>5. QED BY <1>1, <1>2, <1>3, <1>4, ServerStep

-----------------------------------------------------------------------------
(* The steps of the tab.                                                    *)
LEMMA TabStep ==
    ASSUME ExplorerInv, UNCHANGED server, PagesOK', feed' = feed \/ feed' = <<>>,
           NEW entries \in [Keys -> Entry], cache' = entries,
           \A q \in Keys : EntryFits(q, entries[q])
    PROVE  ExplorerInv'
  <1>1. /\ recorded' = recorded /\ outcome' = outcome
        /\ recorded \in Seq(Traffic) /\ IsInjective(recorded) /\ outcome \in Outcomes
        /\ feed \in Seq(Messages) /\ \A k \in DOMAIN feed : MessageOK(feed[k], outcome)
        /\ \A i \in DOMAIN recorded : outcome[recorded[i]] # "unseen"
    BY ExplorerTypes DEF ExplorerInv, server
  <1>2. feed' \in Seq(Messages) /\ \A k \in DOMAIN feed' : MessageOK(feed'[k], outcome')
    <2>1. CASE feed' = feed
      BY <1>1, <2>1
    <2>2. CASE feed' = <<>>
      <3>1. DOMAIN feed' = {} /\ feed' \in Seq(Messages)
        BY <2>2
      <3>2. QED BY <3>1
    <2>3. QED BY <2>1, <2>2
  <1>3. ETypeOK'
    BY <1>1, <1>2 DEF ETypeOK, Outcomes, Entry, PagesOK
  <1>4. \A q \in Keys : EntryOK(q, cache'[q], outcome')
    BY <1>1 DEF EntryFits
  <1>5. \A k \in DOMAIN feed' : MessageOK(feed[k], outcome)'
    BY <1>2
  <1>6. \A q \in Keys : EntryOK(q, cache[q], outcome)'
    BY <1>4
  <1>7. QED BY <1>1, <1>3, <1>5, <1>6 DEF ExplorerInv

LEMMA CacheFits ==
    ASSUME ExplorerInv
    PROVE  /\ cache \in [Keys -> Entry] /\ PagesOK
           /\ \A q \in Keys : EntryFits(q, cache[q])
  BY ExplorerTypes DEF ExplorerInv, EntryFits

(* One entry changes.                                                       *)
LEMMA OneEntry ==
    ASSUME ExplorerInv, UNCHANGED <<server, feed, live, workspace, page, search>>,
           NEW q \in Keys, NEW e, EntryFits(q, e), cache' = [cache EXCEPT ![q] = e]
    PROVE  ExplorerInv'
  <1> DEFINE entries == [cache EXCEPT ![q] = e]
  <1>1. /\ cache \in [Keys -> Entry] /\ PagesOK
        /\ \A k \in Keys : EntryFits(k, cache[k])
    BY CacheFits
  <1>2. entries \in [Keys -> Entry] /\ \A k \in Keys : EntryFits(k, entries[k])
    BY <1>1 DEF EntryFits
  <1>3. PagesOK'
    BY <1>1 DEF PagesOK, search
  <1> HIDE DEF entries
  <1>4. QED BY <1>2, <1>3, TabStep DEF entries

LEMMA RepliedInv ==
    ASSUME ExplorerInv, NEW q \in Keys, Replied(q)
    PROVE  ExplorerInv'
  <1> DEFINE e == [cache[q] EXCEPT !.fetch = "answered", !.answer = Reply(q)]
  <1>1. cache[q] \in Entry /\ EntryFits(q, cache[q]) /\ cache \in [Keys -> Entry]
    BY CacheFits
  <1>2. Reply(q) \in Seq(Rows) /\ Fits(q, Reply(q), outcome)
    BY ReplyFits
  <1>3. e \in Entry /\ e.items = cache[q].items /\ e.answer = Reply(q)
    BY <1>1, <1>2 DEF Entry
  <1>4. EntryFits(q, e)
    BY <1>1, <1>2, <1>3 DEF EntryFits, EntryOK
  <1>5. cache' = [cache EXCEPT ![q] = e] /\ UNCHANGED <<server, feed, live, workspace, page, search>>
    BY <1>1 DEF Replied
  <1> HIDE DEF e
  <1>6. QED BY <1>4, <1>5, OneEntry

LEMMA RestTypes ==
    ASSUME NEW d \in Entry
    PROVE  LET e == [d EXCEPT !.fetch = "idle", !.answer = <<>>]
               g == [d EXCEPT !.fetch = "idle", !.answer = <<>>, !.failed = TRUE]
           IN  /\ e \in Entry /\ e.items = d.items /\ e.answer = <<>>
               /\ g \in Entry /\ g.items = d.items /\ g.answer = <<>>
  <1>1. <<>> \in Seq(Rows)
    OBVIOUS
  <1>2. QED BY <1>1 DEF Entry

LEMMA AppliedInv ==
    ASSUME ExplorerInv, NEW q \in Keys, Applied(q)
    PROVE  ExplorerInv'
  <1> DEFINE d == Set(cache[q], cache[q].answer)
             e == [d EXCEPT !.fetch = "idle", !.answer = <<>>]
  <1>1. cache[q] \in Entry /\ EntryFits(q, cache[q]) /\ cache \in [Keys -> Entry]
    BY CacheFits
  <1>2. cache[q].answer \in Seq(Rows) /\ Fits(q, cache[q].answer, outcome)
    BY <1>1, EntryTypes DEF EntryFits, EntryOK
  <1>3. d \in Entry /\ d.items = cache[q].answer
    BY <1>1, <1>2, EntryTypes
  <1> HIDE DEF d
  <1>4. e \in Entry /\ e.items = d.items /\ e.answer = <<>>
    BY <1>3, RestTypes
  <1>5. EntryFits(q, e)
    BY <1>2, <1>3, <1>4, BlankFits DEF EntryFits, EntryOK
  <1>6. cache' = [cache EXCEPT ![q] = e] /\ UNCHANGED <<server, feed, live, workspace, page, search>>
    BY <1>1 DEF Applied, d
  <1> HIDE DEF e
  <1>7. QED BY <1>5, <1>6, OneEntry

LEMMA FetchFailsInv ==
    ASSUME ExplorerInv, NEW q \in Keys, FetchFails(q)
    PROVE  ExplorerInv'
  <1> DEFINE e == [cache[q] EXCEPT !.fetch = "idle", !.answer = <<>>, !.failed = TRUE]
  <1>1. cache[q] \in Entry /\ EntryFits(q, cache[q]) /\ cache \in [Keys -> Entry]
    BY CacheFits
  <1>2. e \in Entry /\ e.items = cache[q].items /\ e.answer = <<>>
    BY <1>1, RestTypes
  <1>3. EntryFits(q, e)
    BY <1>1, <1>2, BlankFits DEF EntryFits, EntryOK
  <1>4. cache' = [cache EXCEPT ![q] = e] /\ UNCHANGED <<server, feed, live, workspace, page, search>>
    BY <1>1 DEF FetchFails
  <1> HIDE DEF e
  <1>5. QED BY <1>3, <1>4, OneEntry

(* Another query is on screen: at most its entry is fetched.                *)
LEMMA RemountFits ==
    ASSUME ExplorerInv, NEW entries \in [Keys -> Entry],
           \A q \in Keys : EntryFits(q, entries[q]),
           NEW p, NEW ws, NEW text, Remount(p, ws, text, entries)
    PROVE  \E then \in [Keys -> Entry] :
              cache' = then /\ \A q \in Keys : EntryFits(q, then[q])
  <1> DEFINE k == Shown(p, ws, text)
  <1>1. PICK fresh \in BOOLEAN : cache' = [entries EXCEPT ![k] = Mounted(@, fresh)]
    BY DEF Remount
  <1> HIDE DEF k
  <1> DEFINE then == [entries EXCEPT ![k] = Mounted(@, fresh)]
  <1>2. DOMAIN then = Keys
    OBVIOUS
  <1>3. ASSUME NEW q \in Keys PROVE EntryFits(q, then[q])
    <2>1. then[q] = Mounted(entries[q], fresh) \/ then[q] = entries[q]
      OBVIOUS
    <2>2. QED BY <2>1, AskedFits
  <1>4. then \in [Keys -> Entry]
    <2>1. \A q \in Keys : then[q] \in Entry
      BY <1>3 DEF EntryFits
    <2> HIDE DEF then
    <2>2. then = [q \in Keys |-> then[q]]
      BY <1>2 DEF then
    <2>3. QED BY <2>1, <2>2
  <1> HIDE DEF then
  <1>5. QED BY <1>1, <1>3, <1>4 DEF then

LEMMA RetryInv ==
    ASSUME ExplorerInv, Retry
    PROVE  ExplorerInv'
  <1> DEFINE then == [cache EXCEPT ![OnScreen] = Asked(@)]
  <1>1. /\ cache \in [Keys -> Entry] /\ PagesOK
        /\ \A q \in Keys : EntryFits(q, cache[q])
    BY CacheFits
  <1>2. ASSUME NEW q \in Keys PROVE EntryFits(q, then[q])
    <2>1. then[q] = Asked(cache[q]) \/ then[q] = cache[q]
      BY <1>1
    <2>2. QED BY <1>1, <2>1, AskedFits
  <1>3. then \in [Keys -> Entry]
    <2>1. \A q \in Keys : then[q] \in Entry
      BY <1>2 DEF EntryFits
    <2>2. DOMAIN then = Keys
      BY <1>1
    <2> HIDE DEF then
    <2>3. then = [q \in Keys |-> then[q]]
      BY <2>2, <1>1 DEF then
    <2>4. QED BY <2>1, <2>3
  <1>4. cache' = then /\ UNCHANGED <<server, feed>> /\ PagesOK'
    BY <1>1 DEF Retry, PagesOK, search
  <1> HIDE DEF then
  <1>5. QED BY <1>2, <1>3, <1>4, TabStep

(* A live message: the lists of its workspace.                              *)
LEMMA LiveRowFits ==
    ASSUME ExplorerInv, NEW msg \in Messages, MessageOK(msg, outcome),
           msg.type # "replay_completed", NEW q \in MatchingLists(msg.id)
    PROVE  EntryFits(q, LiveRow(q, msg))
  <1>1. q \in Lists /\ q \in Keys /\ q.ws = HomeOf[msg.id]
    BY DEF MatchingLists, Keys
  <1>2. /\ msg.id \in Traffic /\ outcome[msg.id] # "unseen"
        /\ msg.type # "request_received" => outcome[msg.id] = "completed"
    BY DEF Messages, MessageOK
  <1>3. CASE HasActiveSearch(q)
    BY <1>1, <1>3, InvalidatedFits DEF LiveRow
  <1>4. CASE ~HasActiveSearch(q)
    <2>1. Belongs(q, msg.id)
      BY <1>1, <1>4 DEF HasActiveSearch, Belongs
    <2>2. CASE msg.type = "request_received"
      BY <1>1, <1>2, <1>4, <2>1, <2>2, UpsertedFits DEF LiveRow
    <2>3. CASE msg.type # "request_received"
      BY <1>1, <1>2, <1>4, <2>1, <2>3, PatchedFits DEF LiveRow
    <2>4. QED BY <2>2, <2>3
  <1>5. QED BY <1>3, <1>4

LEMMA MessageHandledInv ==
    ASSUME ExplorerInv, MessageHandled
    PROVE  ExplorerInv'
  <1> DEFINE msg == Head(feed)
  <1>1. /\ feed # <<>> /\ feed' = Tail(feed) /\ cache' = AfterMessage(msg)
        /\ UNCHANGED <<server, live, workspace, page, search>>
    BY DEF MessageHandled
  <1>2. /\ feed \in Seq(Messages) /\ \A k \in DOMAIN feed : MessageOK(feed[k], outcome)
        /\ cache \in [Keys -> Entry] /\ PagesOK
    BY ExplorerTypes DEF ExplorerInv
  <1>3. msg \in Messages /\ MessageOK(msg, outcome)
    BY <1>1, <1>2
  <1>4. /\ Tail(feed) \in Seq(Messages)
        /\ \A k \in DOMAIN Tail(feed) : MessageOK(Tail(feed)[k], outcome)
    <2>1. /\ Tail(feed) \in Seq(Messages)
          /\ \A k \in DOMAIN Tail(feed) : k + 1 \in DOMAIN feed /\ Tail(feed)[k] = feed[k + 1]
      BY <1>1, <1>2
    <2>2. QED BY <1>2, <2>1
  <1> HIDE DEF msg
  <1>6. ASSUME NEW q \in Keys PROVE EntryFits(q, AfterMessage(msg)[q])
    <2>1. EntryFits(q, Invalidated(q)) /\ EntryFits(q, cache[q])
      BY InvalidatedFits
    <2>2. CASE msg.type = "replay_completed"
      <3>1. AfterMessage(msg)[q] = IF q.ws = HomeOf[msg.id] THEN Invalidated(q) ELSE cache[q]
        BY <2>2 DEF AfterMessage
      <3>2. QED BY <2>1, <3>1
    <2>3. CASE msg.type # "replay_completed" /\ q \in MatchingLists(msg.id)
      <3>1. AfterMessage(msg)[q] = LiveRow(q, msg)
        BY <2>3 DEF AfterMessage
      <3>2. QED BY <1>3, <2>3, <3>1, LiveRowFits
    <2>4. CASE msg.type # "replay_completed" /\ q \notin MatchingLists(msg.id)
      <3>1. AfterMessage(msg)[q] = cache[q]
        BY <2>4 DEF AfterMessage, InvalidatedDetails
      <3>2. QED BY <2>1, <3>1
    <2>5. QED BY <2>2, <2>3, <2>4
  <1>5. DOMAIN AfterMessage(msg) = Keys /\ AfterMessage(msg) = [q \in Keys |-> AfterMessage(msg)[q]]
    BY DEF AfterMessage
  <1>7. \A q \in Keys : cache'[q] \in Entry /\ EntryOK(q, cache'[q], outcome)
    BY <1>1, <1>6 DEF EntryFits
  <1>8. cache' \in [Keys -> Entry]
    BY <1>1, <1>5, <1>7
  <1>9. /\ recorded' = recorded /\ outcome' = outcome
        /\ recorded \in Seq(Traffic) /\ IsInjective(recorded) /\ outcome \in Outcomes
        /\ \A i \in DOMAIN recorded : outcome[recorded[i]] # "unseen"
    BY <1>1, ExplorerTypes DEF ExplorerInv, server
  <1>10. ETypeOK'
    <2>1. PagesOK'
      BY <1>1, <1>2 DEF PagesOK, search
    <2>2. feed' \in Seq(Messages)
      BY <1>1, <1>4
    <2>3. QED BY <1>8, <1>9, <2>1, <2>2 DEF ETypeOK, Outcomes, Entry, PagesOK
  <1>11. \A k \in DOMAIN feed' : MessageOK(feed'[k], outcome')
    BY <1>1, <1>4, <1>9
  <1>12. \A k \in DOMAIN feed' : MessageOK(feed[k], outcome)'
    BY <1>11
  <1>13. \A q \in Keys : EntryOK(q, cache'[q], outcome')
    BY <1>7, <1>9
  <1>14. \A q \in Keys : EntryOK(q, cache[q], outcome)'
    BY <1>13
  <1>15. QED BY <1>9, <1>10, <1>12, <1>14 DEF ExplorerInv

-----------------------------------------------------------------------------
(* The search box, the pages, the socket.                                   *)
LEMMA QuietInv ==
    ASSUME ExplorerInv, UNCHANGED <<server, cache>>, PagesOK', feed' = feed \/ feed' = <<>>
    PROVE  ExplorerInv'
  <1>1. /\ cache \in [Keys -> Entry] /\ cache' = cache
        /\ \A q \in Keys : EntryFits(q, cache[q])
    BY CacheFits
  <1>2. QED BY <1>1, TabStep

LEMMA InspectorFits ==
    ASSUME ExplorerInv
    PROVE  /\ InspectorInvalidated \in [Keys -> Entry]
           /\ \A q \in Keys : EntryFits(q, InspectorInvalidated[q])
  <1>1. \A q \in Keys : EntryFits(q, Invalidated(q))
    BY InvalidatedFits
  <1>2. QED BY <1>1 DEF InspectorInvalidated, EntryFits

LEMMA MountInv ==
    ASSUME ExplorerInv, NEW entries \in [Keys -> Entry],
           \A q \in Keys : EntryFits(q, entries[q]),
           NEW p, NEW ws, NEW text, Remount(p, ws, text, entries),
           UNCHANGED server, PagesOK', feed' = feed \/ feed' = <<>>
    PROVE  ExplorerInv'
  <1>1. PICK then \in [Keys -> Entry] :
           cache' = then /\ \A q \in Keys : EntryFits(q, then[q])
    BY RemountFits
  <1>2. QED BY <1>1, TabStep

LEMMA TypedInv ==
    ASSUME ExplorerInv, NEW text \in Searches, Typed(text) \/ PaletteSearch(text)
    PROVE  ExplorerInv'
  <1>1. PagesOK
    BY CacheFits
  <1>2. UNCHANGED <<server, cache, feed>> /\ PagesOK'
    <2>1. CASE Typed(text)
      <3>1. timer' = (text # debounced)
        BY <2>1 DEF Typed
      <3>2. timer' \in BOOLEAN
        BY <3>1, Zenon
      <3>3. QED BY <1>1, <2>1, <3>2 DEF Typed, PagesOK
    <2>2. CASE PaletteSearch(text)
      BY <1>1, <2>2 DEF PaletteSearch, PagesOK
    <2>3. QED BY <2>1, <2>2
  <1>3. QED BY <1>2, QuietInv

LEMMA ConnectionLostInv ==
    ASSUME ExplorerInv, ConnectionLost
    PROVE  ExplorerInv'
  <1>1. PagesOK
    BY CacheFits
  <1>2. UNCHANGED <<server, cache>> /\ feed' = <<>> /\ PagesOK'
    BY <1>1 DEF ConnectionLost, PagesOK, search
  <1>3. QED BY <1>2, QuietInv

LEMMA ReconnectedInv ==
    ASSUME ExplorerInv, Reconnected
    PROVE  ExplorerInv'
  <1>1. PagesOK
    BY CacheFits
  <1>2. UNCHANGED <<server, feed>> /\ PagesOK' /\ cache' \in {cache, InspectorInvalidated}
    BY <1>1 DEF Reconnected, PagesOK, search
  <1>3. CASE cache' = cache
    BY <1>2, <1>3, QuietInv
  <1>4. CASE cache' = InspectorInvalidated
    BY <1>2, <1>4, InspectorFits, TabStep
  <1>5. QED BY <1>2, <1>3, <1>4

LEMMA DebounceInv ==
    ASSUME ExplorerInv, Debounce
    PROVE  ExplorerInv'
  <1>1. /\ cache \in [Keys -> Entry] /\ PagesOK
        /\ \A q \in Keys : EntryFits(q, cache[q])
    BY CacheFits
  <1>2. UNCHANGED <<server, feed>> /\ Remount(page, workspace, input, cache) /\ PagesOK'
    BY <1>1 DEF Debounce, PagesOK
  <1>3. QED BY <1>1, <1>2, MountInv

LEMMA NavigatedInv ==
    ASSUME ExplorerInv, Navigated
    PROVE  ExplorerInv'
  <1>1. /\ cache \in [Keys -> Entry] /\ PagesOK
        /\ \A q \in Keys : EntryFits(q, cache[q])
    BY CacheFits
  <1>2. /\ UNCHANGED <<server, feed>> /\ PagesOK'
        /\ cache' = cache \/ Remount(page, workspace, nav.to, cache)
    BY <1>1 DEF Navigated, PagesOK
  <1>3. CASE cache' = cache
    BY <1>2, <1>3, QuietInv
  <1>4. CASE Remount(page, workspace, nav.to, cache)
    BY <1>1, <1>2, <1>4, MountInv
  <1>5. QED BY <1>2, <1>3, <1>4

LEMMA OpenRequestInv ==
    ASSUME ExplorerInv, NEW r \in Traffic, OpenRequest(r)
    PROVE  ExplorerInv'
  <1>1. /\ cache \in [Keys -> Entry] /\ PagesOK
        /\ \A q \in Keys : EntryFits(q, cache[q])
    BY CacheFits
  <1>2. /\ UNCHANGED <<server, feed>> /\ PagesOK'
        /\ Remount(r, workspace, debounced, cache)
    BY <1>1 DEF OpenRequest, PagesOK
  <1>3. QED BY <1>1, <1>2, MountInv

LEMMA OpenExplorerInv ==
    ASSUME ExplorerInv, NEW text \in Searches, OpenExplorer(text)
    PROVE  ExplorerInv'
  <1>1. /\ cache \in [Keys -> Entry] /\ PagesOK
        /\ \A q \in Keys : EntryFits(q, cache[q])
    BY CacheFits
  <1>2. /\ UNCHANGED <<server, feed>> /\ PagesOK'
        /\ Remount(Nothing, workspace, text, cache)
    BY <1>1 DEF OpenExplorer, PagesOK
  <1>3. QED BY <1>1, <1>2, MountInv

LEMMA WorkspaceChosenInv ==
    ASSUME ExplorerInv, NEW w \in Workspaces, WorkspaceChosen(w)
    PROVE  ExplorerInv'
  <1>1. PagesOK
    BY CacheFits
  <1>2. /\ UNCHANGED server /\ feed' = <<>> /\ PagesOK'
        /\ Remount(Nothing, w, debounced, InspectorInvalidated)
    BY <1>1 DEF WorkspaceChosen, PagesOK, search
  <1>3. QED BY <1>2, InspectorFits, MountInv

-----------------------------------------------------------------------------
LEMMA InitExplorer == EInit => ExplorerInv
  <1> SUFFICES ASSUME EInit PROVE ExplorerInv
    OBVIOUS
  <1> USE DEF EInit
  <1>1. Blank \in Entry /\ Blank.items = <<>> /\ Blank.answer = <<>>
    <2>1. <<>> \in Seq(Rows)
      OBVIOUS
    <2>2. QED BY <2>1 DEF Blank, Entry
  <1>2. ASSUME NEW q \in Keys PROVE EntryFits(q, cache[q])
    <2>1. cache[q] = Asked(Blank) \/ cache[q] = Blank
      OBVIOUS
    <2>2. EntryFits(q, Blank)
      BY <1>1, BlankFits DEF EntryFits, EntryOK
    <2>3. QED BY <2>1, <2>2, AskedFits
  <1>3. cache \in [Keys -> Entry]
    <2>1. \A q \in Keys : cache[q] \in Entry
      BY <1>2 DEF EntryFits
    <2>2. QED BY <2>1
  <1>4. PagesOK
    BY ExplorerAssumption DEF PagesOK, Searches
  <1>5. /\ recorded \in Seq(Traffic) /\ IsInjective(recorded) /\ feed \in Seq(Messages)
        /\ DOMAIN recorded = {} /\ DOMAIN feed = {}
    BY DEF IsInjective
  <1>6. outcome \in Outcomes
    BY DEF Outcomes
  <1>7. QED BY <1>2, <1>3, <1>4, <1>5, <1>6, ExplorerTypes DEF ExplorerInv, EntryFits

LEMMA NextExplorer == ExplorerInv /\ [ENext]_evars => ExplorerInv'
  <1> SUFFICES ASSUME ExplorerInv, [ENext]_evars PROVE ExplorerInv'
    OBVIOUS
  <1>1. ASSUME NEW r \in Traffic,
               \/ RequestReceived(r) \/ ResponseCompleted(r) \/ RequestFailed(r)
               \/ ReplayCompleted(r) \/ OpenRequest(r)
        PROVE  ExplorerInv'
    BY <1>1, RequestReceivedInv, OutcomeInv, ReplayCompletedInv, OpenRequestInv
  <1>2. ASSUME NEW q \in Keys, Replied(q) \/ Applied(q) \/ FetchFails(q)
        PROVE  ExplorerInv'
    BY <1>2, RepliedInv, AppliedInv, FetchFailsInv
  <1>3. CASE Retry \/ MessageHandled \/ ConnectionLost \/ Reconnected \/ Debounce \/ Navigated
    BY <1>3, RetryInv, MessageHandledInv, ConnectionLostInv, ReconnectedInv, DebounceInv,
       NavigatedInv
  <1>4. ASSUME NEW text \in Searches, Typed(text) \/ PaletteSearch(text) \/ OpenExplorer(text)
        PROVE  ExplorerInv'
    BY <1>4, TypedInv, OpenExplorerInv
  <1>5. ASSUME NEW w \in Workspaces, WorkspaceChosen(w)
        PROVE  ExplorerInv'
    BY <1>5, WorkspaceChosenInv
  <1>6. CASE UNCHANGED evars
    <2>1. PagesOK
      BY CacheFits
    <2>2. UNCHANGED <<server, cache, feed>> /\ PagesOK'
      BY <1>6, <2>1 DEF evars, PagesOK, search
    <2>3. QED BY <2>2, QuietInv
  <1>7. QED BY <1>1, <1>2, <1>3, <1>4, <1>5, <1>6 DEF ENext

LEMMA ExplorerInvariant == ESpec => []ExplorerInv
  <1>1. EInit => ExplorerInv
    BY InitExplorer
  <1>2. ExplorerInv /\ [ENext]_evars => ExplorerInv'
    BY NextExplorer
  <1>3. QED BY <1>1, <1>2, PTL DEF ESpec

(* The explorer's variables keep their types.                               *)
THEOREM ExplorerTypeCorrect == ESpec => []ETypeOK
  <1>1. ExplorerInv => ETypeOK
    BY DEF ExplorerInv
  <1>2. QED BY <1>1, ExplorerInvariant, PTL

(* Fetches, live messages, searches and workspace changes in any order: no
   list of the query cache holds a request twice.                           *)
THEOREM RequestsListedOnce == ESpec => []ListedOnce
  <1>1. ExplorerInv => ListedOnce
    BY DEF ExplorerInv, EntryOK, Fits, Once, ListedOnce, Keys
  <1>2. QED BY <1>1, ExplorerInvariant, PTL

(* A list holds no request of another workspace, nor one that its search
   does not find.                                                           *)
THEOREM ListsKeepTheirOwn == ESpec => []ListsHoldTheirOwn
  <1>1. ExplorerInv => ListsHoldTheirOwn
    BY DEF ExplorerInv, EntryOK, Fits, Belongs, ListsHoldTheirOwn, Ids, Keys
  <1>2. QED BY <1>1, ExplorerInvariant, PTL

(* What a row says of its request has happened to it.                       *)
THEOREM RowsStayTrue == ESpec => []RowsTellTruth
  <1>1. ExplorerInv => RowsTellTruth
    BY DEF ExplorerInv, EntryOK, Fits, Truthful, RowsTellTruth
  <1>2. QED BY <1>1, ExplorerInvariant, PTL
=============================================================================
