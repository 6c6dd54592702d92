---------------------------- MODULE TrafficReads ----------------------------
(***************************************************************************)
(* Reading the traffic store while it is written: list(), which the        *)
(* inspector and the statistics call, reads the index once and then one    *)
(* record after the other, each of them an awaited storage call.  Tasks of *)
(* the recorder save, update and evict records in between.                 *)
(*                                                                         *)
(* Of a record the filters see whether it is of the workspace and tunnel   *)
(* asked for (else it is "foreign") and whether the search matches it.     *)
(***************************************************************************)
EXTENDS TrafficStore, SequencesExt

CONSTANTS
    Kindings,   \* what the filters see of each request, in each behaviour
    Queries     \* what is asked for: [search, limit], the limit may be None

Kinds == {"foreign", "miss", "hit"}

(* parseLimit() lets 0 pass.                                                *)
ASSUME ReadsAssumption ==
    /\ Kindings \subseteq [Requests -> Kinds]
    /\ Queries \subseteq [search : BOOLEAN, limit : Nat \cup {None}]
    /\ None \notin Nat

VARIABLES
    kind,     \* what the filters see of each request
    reader,   \* the list() in progress
    lost      \* (history) records not stored all the time since

NoList == [at |-> "idle", search |-> FALSE, limit |-> None,
           order |-> << >>, left |-> << >>, found |-> << >>]

RTypeOK ==
    /\ TypeOK
    /\ kind \in [Requests -> Kinds]
    /\ reader \in [at : {"idle", "reading", "done"}, search : BOOLEAN,
                   limit : Nat \cup {None},
                   order : Seq(Requests), left : Seq(Requests), found : Seq(Requests)]
    /\ lost \subseteq Requests

RInit ==
    /\ Init
    /\ kind \in Kindings
    /\ reader = NoList
    /\ lost = {}

-----------------------------------------------------------------------------
Full(limit, found) == limit # None /\ Len(found) >= limit

(* Faulty variant: the search gets the limit as well, and matches among the
   newest records only.                                                     *)
StoreLimitAlways(search, limit) == limit

(* listRequests() gives the store no limit for a search: it needs all.     *)
StoreLimit(search, limit) == IF search THEN None ELSE limit

(* list() reads the index, newest first.                                   *)
ListOrder(search, limit) ==
    /\ reader.at = "idle"
    /\ reader' = [at |-> IF order = << >> THEN "done" ELSE "reading",
                  search |-> search, limit |-> limit,
                  order |-> Reverse(order), left |-> Reverse(order), found |-> << >>]
    /\ lost' = {r \in Requests : data[r] = None}

(* One record: it may be gone, and it may be foreign.                      *)
ListRecord ==
    LET r     == Head(reader.left)
        taken == data[r] # None /\ kind[r] # "foreign"
        found == IF taken THEN Append(reader.found, r) ELSE reader.found
    IN  /\ reader.at = "reading"
        /\ reader' = [reader EXCEPT
             !.left = Tail(@), !.found = found,
             !.at = IF \/ Tail(reader.left) = << >>
                       \/ taken /\ Full(StoreLimit(reader.search, reader.limit), found)
                    THEN "done" ELSE "reading"]
        /\ UNCHANGED lost

(* How many a limit lets in: it is looked at after a record was taken.     *)
Admitted(limit) == IF limit = 0 THEN 1 ELSE limit

(* The places of the matches.                                              *)
Hits == {k \in DOMAIN reader.found : kind[reader.found[k]] = "hit"}

(* The inspector's answer: a search keeps the first matches, until the
   limit is reached.                                                       *)
Answered ==
    IF reader.limit # None /\ Cardinality(Hits) > Admitted(reader.limit)
    THEN Admitted(reader.limit) ELSE Cardinality(Hits)

Answer ==
    IF reader.search THEN [n \in 1..Answered |-> reader.found[Nth(Hits, n)]]
    ELSE reader.found

ListAnswered == reader.at = "done" /\ reader' = NoList /\ lost' = {}

Read == \/ \E q \in Queries : ListOrder(q.search, q.limit)
        \/ ListRecord
        \/ ListAnswered

Write ==
    /\ Next
    /\ lost' = IF reader.at = "reading"
               THEN lost \cup {r \in Requests : data[r] # None /\ data'[r] = None}
               ELSE lost
    /\ UNCHANGED reader

RNext ==
    /\ Write \/ (Read /\ UNCHANGED vars)
    /\ UNCHANGED kind

RSpec == RInit /\ [][RNext]_<<vars, kind, reader, lost>>

-----------------------------------------------------------------------------
Wanted(r) == kind[r] = "hit" \/ (kind[r] = "miss" /\ ~reader.search)

(* Whatever is saved and evicted while a listing is read, it answers with
   the newest requests asked for, in their order: it leaves out none that
   was indexed when it began and stored until its end, unless as many newer
   ones as the limit admits are in it.                                      *)
ListingComplete ==
    reader.at = "done" =>
        /\ \A k \in DOMAIN Answer : Wanted(Answer[k])
        /\ \E f \in [DOMAIN Answer -> DOMAIN reader.order] :
              /\ \A k \in DOMAIN Answer : reader.order[f[k]] = Answer[k]
              /\ \A j, k \in DOMAIN Answer : j < k => f[j] < f[k]
              /\ \A i \in DOMAIN reader.order :
                    Wanted(reader.order[i]) /\ reader.order[i] \notin lost
                    => \/ \E k \in DOMAIN Answer : f[k] = i
                       \/ /\ Admitted(reader.limit) = Len(Answer)
                          /\ \A k \in DOMAIN Answer : f[k] < i
=============================================================================
