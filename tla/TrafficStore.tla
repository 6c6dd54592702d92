---------------------------- MODULE TrafficStore ----------------------------
(***************************************************************************)
(* The traffic recorder over StorageTrafficRecordStore: lifecycle events   *)
(* become records in a key/value store, and an index of their ids that is  *)
(* read, changed and written back decides what is listed and evicted.      *)
(*                                                                         *)
(* Every storage call is awaited, so each action ends with one storage     *)
(* call.  Tasks of one request are chained; tasks of different requests    *)
(* are not: they overlap when two events are published in one event loop   *)
(* task, or when the storage answers later than the in-memory one.         *)
(***************************************************************************)
EXTENDS Integers, Sequences, FiniteSets, Places

CONSTANTS
    Requests,
    MaxRecords,   \* maxRecords
    MaxActive,    \* bound: tasks in progress at the same time
    None

ASSUME StoreAssumption ==
    /\ MaxRecords \in Nat \ {0} /\ MaxActive \in Nat \ {0}
    /\ None \notin {"open", "returned", "failed"}

VARIABLES
    published,   \* the last lifecycle event published for the request
    queue,       \* its events whose task has not started
    data,        \* stored records: their status
    order,       \* the stored index
    task,        \* the running task: where it is and what it has read
    overlapped   \* two tasks were in progress at once

vars == <<published, queue, data, order, task, overlapped>>

Status   == {"open", "returned", "failed"}

Idle == [at |-> "idle", status |-> None, existing |-> None, index |-> << >>]

Task == [at : {"idle", "update", "merge", "lookup", "store", "index", "evict", "write"},
         status : Status \cup {None}, existing : Status \cup {None},
         index : Seq(Requests)]

TypeOK ==
    /\ published \in [Requests -> Status \cup {None}]
    /\ queue \in [Requests -> Seq(Status)]
    /\ data \in [Requests -> Status \cup {None}]
    /\ order \in Seq(Requests)
    /\ task \in [Requests -> Task]
    /\ overlapped \in BOOLEAN

Init ==
    /\ published = [r \in Requests |-> None]
    /\ queue = [r \in Requests |-> << >>]
    /\ data = [r \in Requests |-> None]
    /\ order = << >>
    /\ task = [r \in Requests |-> Idle]
    /\ overlapped = FALSE

Active == {r \in Requests : task[r].at # "idle"}

-----------------------------------------------------------------------------
(* The event bus calls the recorder, which queues a task for the event.    *)
Publish(r, status) ==
    /\ published[r] = IF status = "open" THEN None ELSE "open"
    /\ published' = [published EXCEPT ![r] = status]
    /\ queue' = [queue EXCEPT ![r] = Append(@, status)]
    /\ UNCHANGED <<data, order, task, overlapped>>

(* Faulty variant: the latest event of the request is applied first.       *)
BeginLatest(r) ==
    /\ queue[r] # << >> /\ task[r].at = "idle"
    /\ Cardinality(Active) < MaxActive
    /\ LET status == queue[r][Len(queue[r])]
       IN  task' = [task EXCEPT ![r] =
                      [Idle EXCEPT !.status = status,
                                   !.at = IF status = "open" THEN "lookup" ELSE "update"]]
    /\ queue' = [queue EXCEPT ![r] = SubSeq(@, 1, Len(@) - 1)]
    /\ UNCHANGED <<published, data, order>>
    /\ overlapped' = (overlapped \/ Active # {})

(* The previous task of the request has settled: the next one starts.      *)
Begin(r) ==
    /\ queue[r] # << >> /\ task[r].at = "idle"
    /\ Cardinality(Active) < MaxActive
    /\ LET status == Head(queue[r])
       IN  task' = [task EXCEPT ![r] =
                      [Idle EXCEPT !.status = status,
                                   !.at = IF status = "open" THEN "lookup" ELSE "update"]]
    /\ queue' = [queue EXCEPT ![r] = Tail(@)]
    /\ UNCHANGED <<published, data, order>>
    /\ overlapped' = (overlapped \/ Active # {})

(* update(): a missing record is saved instead.                            *)
UpdateGet(r) ==
    /\ task[r].at = "update"
    /\ task' = [task EXCEPT ![r].at = IF data[r] = None THEN "lookup" ELSE "merge"]
    /\ UNCHANGED <<published, queue, data, order, overlapped>>

UpdateSave(r) ==
    /\ task[r].at = "merge"
    /\ data' = [data EXCEPT ![r] = task[r].status]
    /\ task' = [task EXCEPT ![r] = Idle]
    /\ UNCHANGED <<published, queue, order, overlapped>>

SaveGet(r) ==
    /\ task[r].at = "lookup"
    /\ task' = [task EXCEPT ![r].at = "store", ![r].existing = data[r]]
    /\ UNCHANGED <<published, queue, data, order, overlapped>>

(* Faulty variant: a record saved for an outcome counts as indexed.        *)
SaveStoreWithoutIndex(r) ==
    /\ task[r].at = "store"
    /\ data' = [data EXCEPT ![r] = task[r].status]
    /\ task' = [task EXCEPT ![r] =
                  IF task[r].status # "open" THEN Idle ELSE [@ EXCEPT !.at = "index"]]
    /\ UNCHANGED <<published, queue, order, overlapped>>

SaveStore(r) ==
    /\ task[r].at = "store"
    /\ data' = [data EXCEPT ![r] = task[r].status]
    /\ task' = [task EXCEPT ![r] =
                  IF task[r].existing # None THEN Idle ELSE [@ EXCEPT !.at = "index"]]
    /\ UNCHANGED <<published, queue, order, overlapped>>

(* Faulty variant: the new id goes to the front.                           *)
ReadOrderFront(r) ==
    /\ task[r].at = "index"
    /\ LET index == <<r>> \o order
       IN  task' = [task EXCEPT ![r].index = index,
                                ![r].at = IF Len(index) > MaxRecords THEN "evict"
                                          ELSE "write"]
    /\ UNCHANGED <<published, queue, data, order, overlapped>>

ReadOrder(r) ==
    /\ task[r].at = "index"
    /\ LET index == Append(order, r)
       IN  task' = [task EXCEPT ![r].index = index,
                                ![r].at = IF Len(index) > MaxRecords THEN "evict"
                                          ELSE "write"]
    /\ UNCHANGED <<published, queue, data, order, overlapped>>

(* evictOverflow(): one round of its loop.                                 *)
Evict(r) ==
    /\ task[r].at = "evict"
    /\ data' = [data EXCEPT ![Head(task[r].index)] = None]
    /\ task' = [task EXCEPT ![r].index = Tail(@),
                            ![r].at = IF Len(task[r].index) - 1 > MaxRecords
                                      THEN "evict" ELSE "write"]
    /\ UNCHANGED <<published, queue, order, overlapped>>

WriteOrder(r) ==
    /\ task[r].at = "write"
    /\ order' = task[r].index
    /\ task' = [task EXCEPT ![r] = Idle]
    /\ UNCHANGED <<published, queue, data, overlapped>>

Step(r) ==
    \/ UpdateGet(r) \/ UpdateSave(r)
    \/ SaveGet(r) \/ SaveStore(r) \/ ReadOrder(r) \/ Evict(r) \/ WriteOrder(r)

Next == \E r \in Requests : \/ \E status \in Status : Publish(r, status)
                            \/ Begin(r)
                            \/ Step(r)

Spec == Init /\ [][Next]_vars

-----------------------------------------------------------------------------
Indexed   == {order[k] : k \in DOMAIN order}
Stored    == {r \in Requests : data[r] # None}
Quiescent == Active = {}

(* Between tasks that did not overlap the index names exactly the stored
   records, each once, so that every record is listed and will be evicted in
   its turn.                                                               *)
IndexNamesRecords ==
    Quiescent /\ ~overlapped => /\ Indexed = Stored
                                 /\ Len(order) = Cardinality(Indexed)

(* The lifecycle events of a request are applied in the order they were
   published, also when tasks of other requests run in between: once its
   tasks are done, a record that is still stored has its final status.     *)
LastEventRecorded ==
    \A r \in Requests : queue[r] = << >> /\ task[r].at = "idle" /\ data[r] # None
                            => data[r] = published[r]

(* list(), oldest first: the records of the index that are still stored.    *)
Live == {k \in DOMAIN order : data[order[k]] # None}

Listing ==
    [n \in 1..Cardinality(Live) |->
        LET id == order[Nth(Live, n)] IN [id |-> id, status |-> data[id]]]

Log == INSTANCE TrafficLog WITH log <- Listing, serial <- ~overlapped

ImplementsLog == Log!Spec
=============================================================================
