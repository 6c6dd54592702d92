----------------------------- MODULE TunnelLease -----------------------------
(***************************************************************************)
(* What the tunnel server promises of a tunnel id, whatever tables it is   *)
(* kept in: a lease.  An id is granted once, for a port and an owner that  *)
(* never change; it is held by one open socket, parked when that socket    *)
(* goes, resumed by a socket of the same owner while its window lasts, and *)
(* ended for good.  No socket holds two leases.                            *)
(*                                                                         *)
(* Implemented by TunnelRegistry (see Lease there).                        *)
(***************************************************************************)
EXTENDS Integers

CONSTANTS Clients, Ids, OwnerOf, Window

VARIABLES phase,   \* [Ids -> {"unused", "held", "parked", "ended"}]
          terms,   \* [Ids -> the port and the owner it was granted for]
          holder,  \* [Ids -> the socket that holds it], while held
          since,   \* [Ids -> when it was parked], while parked
          gone,    \* sockets that have been closed
          time

vars == <<phase, terms, holder, since, gone, time>>

Init == /\ \A i \in Ids : phase[i] = "unused"
        /\ gone = {}
        /\ time = 0

Unchanged(i) == /\ phase'[i] = phase[i]
                /\ terms'[i] = terms[i]
                /\ holder'[i] = holder[i]
                /\ since'[i] = since[i]

\* The socket an id is handed to is open and belongs to the owner.
HandedOver(i) == /\ phase'[i] = "held"
                 /\ holder'[i] \in Clients \ gone
                 /\ terms'[i].context = OwnerOf[holder'[i]]

Grant(i)  == phase[i] = "unused" /\ HandedOver(i)

Resume(i) == /\ phase[i] = "parked"
             /\ time - since[i] =< Window
             /\ terms'[i] = terms[i]
             /\ HandedOver(i)

ParkIt(i) == /\ phase[i] = "held" /\ phase'[i] = "parked"
             /\ holder[i] \in gone'
             /\ since'[i] = time
             /\ terms'[i] = terms[i]

End(i)    == /\ phase[i] \in {"held", "parked"} /\ phase'[i] = "ended"
             /\ terms'[i] = terms[i]

\* At most one id is handed over in a step; ending others makes room for it.
Next == /\ \A i \in Ids : Unchanged(i) \/ Grant(i) \/ Resume(i) \/ ParkIt(i) \/ End(i)
        /\ \A i, j \in Ids : (Grant(i) \/ Resume(i)) /\ (Grant(j) \/ Resume(j)) => i = j
        /\ \A i, j \in Ids : phase'[i] = "held" /\ phase'[j] = "held"
                              /\ holder'[i] = holder'[j] => i = j
        /\ \A i \in Ids : phase'[i] = "held" => holder'[i] \notin gone'
        /\ gone \subseteq gone'
        /\ time' >= time

Spec == Init /\ [][Next]_vars
=============================================================================
