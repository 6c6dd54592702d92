----------------------------- MODULE TrafficLog -----------------------------
(***************************************************************************)
(* What the traffic store promises its readers: a listing of at most       *)
(* MaxRecords requests in the order they were first recorded, of which the *)
(* oldest gives way to a new one, and each of which gets its outcome once. *)
(* Nothing is promised any more once events were recorded concurrently.    *)
(***************************************************************************)
EXTENDS Integers, Sequences

CONSTANTS Requests, MaxRecords

VARIABLES log,     \* records, oldest first: [id, status]
          serial   \* events were recorded one after the other so far

Listed == {log[k].id : k \in DOMAIN log}

Init == log = << >> /\ serial = TRUE

Insert(r, status) ==
    /\ Len(log) < MaxRecords /\ r \notin Listed
    /\ log' = Append(log, [id |-> r, status |-> status])

DropOldest ==
    /\ Len(log) = MaxRecords /\ log # << >>
    /\ log' = Tail(log)

Conclude(k, status) ==
    /\ log[k].status = "open"
    /\ log' = [log EXCEPT ![k].status = status]

Record ==
    \/ \E r \in Requests, status \in {"open", "returned", "failed"} : Insert(r, status)
    \/ DropOldest
    \/ \E k \in DOMAIN log, status \in {"returned", "failed"} : Conclude(k, status)

Next == ~serial' \/ (serial /\ serial' /\ Record)

Spec == Init /\ [][Next]_<<log, serial>>
=============================================================================
