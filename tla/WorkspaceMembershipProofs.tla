---------------------- MODULE WorkspaceMembershipProofs ----------------------
(***************************************************************************)
(* Proofs about WorkspaceMembership, for every set of accounts and of      *)
(* invitations, and calls that come one after the other (one call in       *)
(* Calls).  Each is still a series of requests, any of which may fail and  *)
(* leave the tables as the requests before it made them.  With two calls   *)
(* at once a workspace can lose its owner: the service holds no lock       *)
(* between what it reads and what it writes.                               *)
(*                                                                         *)
(* Sound says of the tables and of the call in progress what a sequence of *)
(* requests keeps: what the call has read is still so when it writes, and  *)
(* which owners there are at each of its steps: none, for good, once the   *)
(* account of the only one was deleted.                                    *)
(***************************************************************************)
EXTENDS WorkspaceMembership, FiniteSetTheorems, TLAPS

(* What a call is about.                                                    *)
Named(c) ==
    c.at # "idle" =>
        /\ c.actor \in Accounts /\ c.target \in Accounts /\ c.role \in Assignable
        /\ c.op \in {"invite", "revoke", "accept"} => c.inv \in Invitations

(* The members with a role, and the rows of an empty table.                 *)
Holds(rows, a, role) == rows[a].status = "active" /\ rows[a].role = role
OwnersIn(rows)       == {a \in Accounts : Holds(rows, a, "owner")}
NoMembers(rows)      == \A a \in Accounts : rows[a] = NoRow

(* Nobody is recorded as an owner who left, and a workspace that is not
   there has no members.                                                    *)
RowsOK(ws, rows) ==
    /\ \A a \in Accounts : rows[a].role = "owner" => rows[a].status = "active"
    /\ ws \in {"none", "purged"} => NoMembers(rows)

(* Without an owner, now or before, there is nothing: no members, no
   invitations, and no call that was let in by a role or an invitation.     *)
Unentered(c) == \/ c.at \in {"idle", "authorize", "workspace", "lookup"}
                \/ c.op \in {"create", "purge"}
                \/ c.op = "leave" /\ c.at = "member"

Owned(rows, orp) == orp \/ OwnersIn(rows) # {}

NothingUnowned(c, rows, iv, orp) ==
    \/ Owned(rows, orp)
    \/ /\ NoMembers(rows) /\ Unentered(c)
       /\ \A i \in Invitations : iv[i] = NoInv

(* The owner whose account was deleted has no successor.                    *)
OrphanOK(ws, rows, orp) == orp => ws # "none" /\ OwnersIn(rows) = {}

(* What a call in progress has seen of the tables is still so.              *)
Member(rows, a) == rows[a].status = "active" /\ rows[a].role # "owner"

StillTransfers(c, rows) ==
    c.op = "transfer" /\ c.at \in {"target", "promote", "demote"} =>
        /\ Holds(rows, c.actor, "owner") /\ c.target # c.actor
        /\ c.at \in {"promote", "demote"} => rows[c.target].status = "active"
        /\ c.at = "demote" => rows[c.target].role = "owner"

StillMembers(c, rows) ==
    /\ c.op \in {"role", "remove"} /\ c.at = "write" => Member(rows, c.target)
    /\ c.op = "leave" /\ c.at = "write" => Member(rows, c.actor)

StillInvited(c, iv) ==
    /\ c.op = "revoke" /\ c.at = "write" => iv[c.inv].status = "pending"
    /\ c.op = "accept" /\ c.at \in {"expire", "member", "join", "accepted"} =>
          iv[c.inv].status = "pending"
    /\ c.op = "accept" /\ c.at \in {"member", "join", "accepted"} =>
          iv[c.inv].email = c.actor

StillFounding(c, ws, fd, rows, orp) ==
    c.op = "create" /\ c.at = "own" =>
        ws = "live" /\ fd = c.actor /\ NoMembers(rows) /\ ~orp

(* The owners of a workspace whose calls all ran to their end: one, but
   none while it is founded, and two while one hands it over.               *)
OwnersOf(c, o) == IF c.op = "create" /\ c.at = "own" THEN {}
                  ELSE IF c.op = "transfer" /\ c.at = "demote" THEN {c.actor, c.target}
                  ELSE {o}

OneOwner(c, ws, rows, failed, orp) ==
    ~failed /\ ~orp /\ ws \in {"live", "deleted"} =>
        \E o \in Accounts : OwnersIn(rows) = OwnersOf(c, o)

(* Who came into the workspace after its founder was invited.               *)
UsedUp(iv, a) ==
    \E i \in Invitations : iv[i].email = a /\ iv[i].status \in {"accepted", "erased"}

Invited(c, fd, rows, iv, failed) ==
    \A a \in Accounts : rows[a] # NoRow /\ a # fd =>
        \/ failed
        \/ UsedUp(iv, a)
        \/ c.op = "accept" /\ c.at = "accepted" /\ c.actor = a

(* The part of the invariant that speaks of a call.                         *)
CallInv(c) ==
    /\ Named(c)
    /\ NothingUnowned(c, row, inv, orphaned)
    /\ StillTransfers(c, row) /\ StillMembers(c, row) /\ StillInvited(c, inv)
    /\ StillFounding(c, workspace, founder, row, orphaned)
    /\ OneOwner(c, workspace, row, broken, orphaned)
    /\ Invited(c, founder, row, inv, broken)

(* The types of a row, an invitation and a call.                            *)
Rows  == [role : Roles, status : {"active", "left"}] \cup {NoRow}
Pending == [email : Accounts, by : Accounts, role : Assignable, status : {"pending"}]
Past    == [email : Accounts, by : Accounts, role : {None},
            status : {"accepted", "revoked", "expired"}]
Invs  == Pending \cup Past \cup {NoInv} \cup {Erased(a) : a \in Accounts}
Spots == {"idle", "workspace", "own", "authorize", "target", "promote", "demote", "write",
          "pending", "insert", "lookup", "expire", "member", "join", "accepted",
          "erase"}
Calling == [op : Ops \cup {None}, at : Spots, actor : Accounts \cup {None},
            target : Accounts \cup {None}, role : Roles \cup {None},
            inv : Invitations \cup {None}, seen : Roles \cup {None}]

LEMMA TypesAre ==
    TypeOK <=> /\ workspace \in {"none", "live", "deleted", "purged"}
               /\ founder \in Accounts \cup {None}
               /\ row \in [Accounts -> Rows] /\ inv \in [Invitations -> Invs]
               /\ call \in [Calls -> Calling] /\ broken \in BOOLEAN
               /\ gone \subseteq Accounts /\ orphaned \in BOOLEAN
  BY DEF TypeOK, Rows, Invs, Pending, Past, Calling, Spots

(* What the status says of an invitation.                                   *)
LEMMA InvsAre ==
    ASSUME NEW i \in Invs
    PROVE  /\ i.status = "pending" => i \in Pending
           /\ i.status \in {"accepted", "revoked", "expired"} => i \in Past
           /\ i.status = "erased" => i.by = None
           /\ i.status \in {"none", "pending", "accepted", "revoked", "expired", "erased"}
  <1>1. NoInv.status = "none"
    BY DEF NoInv
  <1>2. \A a \in Accounts : Erased(a).status = "erased" /\ Erased(a).by = None
    BY DEF NoInv, Erased
  <1>3. \A x \in Pending : x.status = "pending"
    BY DEF Pending
  <1>4. \A x \in Past : x.status \in {"accepted", "revoked", "expired"}
    BY DEF Past
  <1>5. QED BY <1>1, <1>2, <1>3, <1>4 DEF Invs

(* Where a call goes.                                                       *)
LEMMA Goes ==
    ASSUME TypeOK, NEW p \in Calls
    PROVE  /\ End(p) => call' \in [Calls -> Calling] /\ call'[p] = Idle
           /\ \A at \in Spots : Goto(p, at) =>
                 /\ call' \in [Calls -> Calling]
                 /\ call'[p] = [call[p] EXCEPT !.at = at]
  <1>1. call \in [Calls -> Calling] /\ call[p] \in Calling
    BY TypesAre
  <1>2. Idle \in Calling
    BY DEF Idle, Calling, Spots
  <1>3. ASSUME NEW at \in Spots PROVE [call[p] EXCEPT !.at = at] \in Calling
    BY <1>1 DEF Calling
  <1>4. QED BY <1>1, <1>2, <1>3 DEF End, Goto

(* The fields of a call that moves on.                                      *)
LEMMA Fields ==
    ASSUME NEW c \in Calling, NEW at \in Spots
    PROVE  LET d == [c EXCEPT !.at = at]
           IN  /\ d \in Calling /\ d.at = at /\ d.op = c.op /\ d.actor = c.actor
               /\ d.target = c.target /\ d.role = c.role /\ d.inv = c.inv
  BY DEF Calling

LEMMA IdleFields == Idle \in Calling /\ Idle.at = "idle"
  BY DEF Idle, Calling, Spots

LEMMA RowsAre ==
    ASSUME TypeOK, NEW a \in Accounts
    PROVE  /\ row[a] \in Rows
           /\ row[a] = NoRow <=> row[a].role = None
           /\ row[a] = NoRow <=> row[a].status = None
           /\ row[a] # NoRow => /\ row[a].role \in Roles
                                /\ row[a].status \in {"active", "left"}
           /\ row[a] \in [role : Roles \cup {None}, status : {"active", "left"} \cup {None}]
  <1>1. row[a] \in Rows
    BY TypesAre
  <1>2. QED BY <1>1, MembershipAssumption DEF Rows, NoRow, Roles

(* The inductive invariant.                                                 *)
Sound(p) == /\ TypeOK /\ RowsOK(workspace, row) /\ OrphanOK(workspace, row, orphaned)
            /\ CallInv(call[p])

kept == <<workspace, founder, row, inv, gone, orphaned, broken>>

(* The spots from which a call that does not fail goes on by a write.       *)
Committed(c) == \/ c.op = "create" /\ c.at = "own"
                \/ c.op = "transfer" /\ c.at = "demote"
                \/ c.op = "accept" /\ c.at = "accepted"

(* The call moves on, and the tables are as they were.                      *)
LEMMA Moved ==
    ASSUME NEW p \in Calls, Sound(p), UNCHANGED kept, ~Committed(call[p]),
           NEW d, call' \in [Calls -> Calling], call'[p] = d, Named(d),
           ~(d.op = "create" /\ d.at = "own"), ~(d.op = "transfer" /\ d.at = "demote"),
           Unentered(d) \/ Owned(row, orphaned),
           StillTransfers(d, row), StillMembers(d, row), StillInvited(d, inv)
    PROVE  Sound(p)'
  <1>1. NothingUnowned(d, row, inv, orphaned)
    BY DEF Sound, CallInv, NothingUnowned
  <1>2. StillFounding(d, workspace, founder, row, orphaned)
    BY DEF StillFounding
  <1>3. OneOwner(d, workspace, row, broken, orphaned)
    BY DEF Sound, CallInv, OneOwner, OwnersOf, Committed
  <1>4. Invited(d, founder, row, inv, broken)
    BY DEF Sound, CallInv, Invited, Committed
  <1>5. CallInv(call[p])'
    BY <1>1, <1>2, <1>3, <1>4 DEF CallInv, kept
  <1>6. TypeOK' /\ RowsOK(workspace, row)' /\ OrphanOK(workspace, row, orphaned)'
    BY TypesAre DEF Sound, TypeOK, kept, Calling, Spots
  <1>7. QED BY <1>5, <1>6 DEF Sound

LEMMA Stopped ==
    ASSUME NEW p \in Calls, Sound(p), UNCHANGED kept, End(p), ~Committed(call[p])
    PROVE  Sound(p)'
  <1>1. call' \in [Calls -> Calling] /\ call'[p] = Idle
    BY Goes DEF Sound
  <1>2. Named(Idle) /\ Unentered(Idle)
    BY IdleFields DEF Named, Unentered
  <1>3. StillTransfers(Idle, row) /\ StillMembers(Idle, row) /\ StillInvited(Idle, inv)
    BY IdleFields DEF StillTransfers, StillMembers, StillInvited
  <1>4. QED BY <1>1, <1>2, <1>3, IdleFields, Moved

(* The same, to a given spot.                                               *)
LEMMA MovedTo ==
    ASSUME NEW p \in Calls, Sound(p), UNCHANGED kept,
           call[p].at # "idle", ~Committed(call[p]),
           NEW at \in Spots, Goto(p, at),
           NEW d, d = [call[p] EXCEPT !.at = at],
           ~(d.op = "create" /\ d.at = "own"), ~(d.op = "transfer" /\ d.at = "demote"),
           Unentered(d) \/ Owned(row, orphaned),
           StillTransfers(d, row), StillMembers(d, row), StillInvited(d, inv)
    PROVE  Sound(p)'
  <1> DEFINE c == call[p]
  <1>1. call' \in [Calls -> Calling] /\ call'[p] = d
    BY Goes DEF Sound
  <1>2. c \in Calling
    BY TypesAre DEF Sound
  <1>3. /\ d.at = at /\ d.op = c.op /\ d.actor = c.actor
        /\ d.target = c.target /\ d.role = c.role /\ d.inv = c.inv
    BY <1>2, Fields
  <1>4. Named(d)
    BY <1>3 DEF Sound, CallInv, Named
  <1>5. QED BY <1>1, <1>4, Moved

(* What a member sees of the table: there is an owner.                      *)
LEMMA MembersOwned ==
    ASSUME NEW p \in Calls, Sound(p), NEW a \in Accounts, Membership(a) # "none"
    PROVE  /\ Owned(row, orphaned) /\ row[a].status = "active" /\ row[a] # NoRow
           /\ Membership(a) = row[a].role
           /\ a \in OwnersIn(row) <=> Membership(a) = "owner"
  <1>1. row[a].status = "active" /\ Membership(a) = row[a].role
    BY DEF Membership
  <1>2. row[a] # NoRow
    BY <1>1, RowsAre, MembershipAssumption DEF Sound
  <1>3. Owned(row, orphaned)
    BY <1>2 DEF Sound, CallInv, NothingUnowned, NoMembers
  <1>4. QED BY <1>1, <1>2, <1>3 DEF OwnersIn, Holds

LEMMA AuthorizeSound ==
    ASSUME NEW p \in Calls, Sound(p), Authorize(p) PROVE Sound(p)'
  <1> DEFINE c == call[p]
             m == Membership(c.actor)
             to == CASE c.op \in {"transfer", "role", "remove"} -> "target"
                     [] c.op = "delete" -> "write"
                     [] OTHER           -> "pending"
  <1>1. c.at = "authorize" /\ UNCHANGED kept /\ ~Committed(c) /\ c \in Calling
    BY TypesAre DEF Authorize, tables, kept, Committed, Sound
  <1>2. CASE ~(m # "none" /\ Allowed(c.op, m) /\ ~(c.op = "transfer" /\ c.target = c.actor))
    BY <1>1, <1>2, Stopped DEF Authorize
  <1>3. CASE m # "none" /\ Allowed(c.op, m) /\ ~(c.op = "transfer" /\ c.target = c.actor)
    <2>1. c.actor \in Accounts
      BY <1>1 DEF Sound, CallInv, Named
    <2>2. Owned(row, orphaned) /\ m = row[c.actor].role /\ row[c.actor].status = "active"
      BY <1>3, <2>1, MembersOwned
    <2>3. m \in Roles
      BY <1>3, <2>1, <2>2, RowsAre, MembersOwned DEF Sound
    <2>4. call' = [call EXCEPT ![p].seen = m, ![p].at = to]
      BY <1>3 DEF Authorize
    <2> DEFINE d == [c EXCEPT !.seen = m, !.at = to]
    <2>5. to \in {"target", "write", "pending"}
      OBVIOUS
    <2>6. /\ c.op \in {"transfer", "role", "remove"} => to = "target"
          /\ to = "write" => c.op = "delete"
      OBVIOUS
    <2> HIDE DEF to
    <2>7. /\ d.op = c.op /\ d.at = to /\ d.actor = c.actor /\ d.target = c.target
          /\ d.role = c.role /\ d.inv = c.inv /\ d \in Calling
      BY <1>1, <2>3, <2>5 DEF Calling, Spots
    <2>8. call' \in [Calls -> Calling] /\ call'[p] = d
      BY <2>4, <2>7, TypesAre DEF Sound
    <2> HIDE DEF d
    <2>9. Named(d)
      BY <1>1, <2>2, <2>5, <2>7 DEF Sound, CallInv, Named
    <2>10. StillMembers(d, row) /\ StillInvited(d, inv)
      BY <2>5, <2>6, <2>7 DEF StillMembers, StillInvited
    <2>11. StillTransfers(d, row)
      BY <1>3, <2>2, <2>5, <2>7 DEF StillTransfers, Holds, Allowed
    <2>12. ~(d.op = "create" /\ d.at = "own") /\ ~(d.op = "transfer" /\ d.at = "demote")
      BY <2>5, <2>7
    <2>13. QED BY <1>1, <2>2, <2>8, <2>9, <2>10, <2>11, <2>12, Moved
  <1>4. QED BY <1>2, <1>3

(* The steps that look and go on, or give up.                               *)
LEMMA LooksSound ==
    ASSUME NEW p \in Calls, Sound(p),
           \/ TransferTarget(p) \/ RoleTarget(p) \/ RemoveTarget(p)
           \/ LeaveWorkspace(p) \/ LeaveMember(p) \/ PurgeOwned(p)
           \/ EraseRefused(p) \/ InvitePending(p) \/ RevokeList(p) \/ AcceptMember(p)
    PROVE  Sound(p)'
  <1> DEFINE c == call[p]
             d(at) == [c EXCEPT !.at = at]
  <1>1. c \in Calling /\ (c.at # "idle" => c.actor \in Accounts /\ c.target \in Accounts)
    BY TypesAre DEF Sound, CallInv, Named
  <1>2. \A at \in Spots : /\ d(at).at = at /\ d(at).op = c.op /\ d(at).actor = c.actor
                          /\ d(at).target = c.target /\ d(at).inv = c.inv
    BY <1>1, Fields
  <1> HIDE DEF d
  <1> DEFINE May(at) == /\ ~(c.op = "create" /\ at = "own")
                        /\ ~(c.op = "transfer" /\ at = "demote")
                        /\ Unentered(d(at)) \/ Owned(row, orphaned)
                        /\ StillTransfers(d(at), row) /\ StillMembers(d(at), row)
                        /\ StillInvited(d(at), inv)
  <1>3. ASSUME UNCHANGED kept, ~Committed(c), c.at # "idle",
               NEW at \in Spots, Goto(p, at), May(at)
        PROVE  Sound(p)'
    BY <1>2, <1>3, MovedTo DEF d
  <1>4. ASSUME UNCHANGED kept, ~Committed(c), c.at # "idle", NEW holds \in BOOLEAN,
               NEW at \in Spots, Check(p, holds, at), holds => May(at)
        PROVE  Sound(p)'
    BY <1>3, <1>4, Stopped DEF Check
  <1> HIDE DEF May
  <1>5. CASE TransferTarget(p)
    <2>1. /\ c.op = "transfer" /\ c.at = "target" /\ UNCHANGED kept
          /\ Check(p, Membership(c.target) # "none", "promote")
      BY <1>5 DEF TransferTarget, tables, kept, At
    <2>2. ASSUME Membership(c.target) # "none" PROVE May("promote")
      <3>1. Owned(row, orphaned) /\ row[c.target].status = "active"
        BY <1>1, <2>1, <2>2, MembersOwned
      <3>2. QED
        BY <1>2, <2>1, <3>1
           DEF May, Sound, CallInv, StillTransfers, StillMembers, StillInvited, Spots
    <2>3. QED BY <1>4, <2>1, <2>2 DEF Committed, Spots
  <1>6. CASE RoleTarget(p)
    <2> DEFINE t     == Membership(c.target)
               holds == /\ t \notin {"none", "owner"}
                        /\ ~(c.seen = "admin" /\ t = "admin" /\ c.actor # c.target)
                        /\ c.target = c.actor => c.role = c.seen
    <2>1. /\ c.op = "role" /\ c.at = "target" /\ UNCHANGED kept
          /\ Check(p, holds, "write") /\ holds \in BOOLEAN
      BY <1>6 DEF RoleTarget, tables, kept, At
    <2>2. ASSUME holds PROVE May("write")
      <3>1. Owned(row, orphaned) /\ row[c.target].status = "active" /\ t = row[c.target].role
        BY <1>1, <2>1, <2>2, MembersOwned
      <3>2. QED
        BY <1>2, <2>1, <2>2, <3>1
           DEF May, StillTransfers, StillMembers, StillInvited, Spots, Member
    <2> HIDE DEF holds
    <2>3. QED BY <1>4, <2>1, <2>2 DEF Committed, Spots
  <1>7. CASE RemoveTarget(p)
    <2> DEFINE t     == Membership(c.target)
               holds == /\ t \notin {"none", "owner"}
                        /\ ~(c.seen = "admin" /\ t = "admin")
                        /\ c.target # c.actor
    <2>1. /\ c.op = "remove" /\ c.at = "target" /\ UNCHANGED kept
          /\ Check(p, holds, "write") /\ holds \in BOOLEAN
      BY <1>7 DEF RemoveTarget, tables, kept, At
    <2>2. ASSUME holds PROVE May("write")
      <3>1. Owned(row, orphaned) /\ row[c.target].status = "active" /\ t = row[c.target].role
        BY <1>1, <2>1, <2>2, MembersOwned
      <3>2. QED
        BY <1>2, <2>1, <2>2, <3>1
           DEF May, StillTransfers, StillMembers, StillInvited, Spots, Member
    <2> HIDE DEF holds
    <2>3. QED BY <1>4, <2>1, <2>2 DEF Committed, Spots
  <1>8. CASE LeaveWorkspace(p)
    <2>1. /\ c.op = "leave" /\ c.at = "workspace" /\ UNCHANGED kept
          /\ Check(p, workspace = "live", "member")
      BY <1>8 DEF LeaveWorkspace, tables, kept, At
    <2>2. May("member")
      BY <1>2, <2>1
         DEF May, Unentered, StillTransfers, StillMembers, StillInvited, Spots
    <2>3. QED BY <1>4, <2>1, <2>2 DEF Committed, Spots
  <1>9. CASE LeaveMember(p)
    <2> DEFINE t     == Membership(c.actor)
               holds == t \notin {"none", "owner"}
    <2>1. /\ c.op = "leave" /\ c.at = "member" /\ UNCHANGED kept
          /\ Check(p, holds, "write") /\ holds \in BOOLEAN
      BY <1>9 DEF LeaveMember, tables, kept, At
    <2>2. ASSUME holds PROVE May("write")
      <3>1. Owned(row, orphaned) /\ row[c.actor].status = "active" /\ t = row[c.actor].role
        BY <1>1, <2>1, <2>2, MembersOwned
      <3>2. QED
        BY <1>2, <2>1, <2>2, <3>1
           DEF May, StillTransfers, StillMembers, StillInvited, Spots, Member
    <2> HIDE DEF holds
    <2>3. QED BY <1>4, <2>1, <2>2 DEF Committed, Spots
  <1>10. CASE PurgeOwned(p)
    <2> DEFINE at == IF founder = c.actor /\ workspace # "purged" THEN "write" ELSE "erase"
    <2>1. c.op = "purge" /\ c.at = "pending" /\ UNCHANGED kept /\ Goto(p, at)
      BY <1>10 DEF PurgeOwned, tables, kept, At
    <2>2. at \in {"write", "erase"}
      OBVIOUS
    <2> HIDE DEF at
    <2>3. at \in Spots /\ May(at)
      BY <1>2, <2>1, <2>2
         DEF May, Unentered, StillTransfers, StillMembers, StillInvited, Spots
    <2>4. QED BY <1>3, <2>1, <2>3 DEF Committed
  <1>11. CASE InvitePending(p)
    <2> DEFINE holds == ~PendingFor(c.target) /\ inv[c.inv] = NoInv
    <2>1. /\ c.op = "invite" /\ c.at = "pending" /\ UNCHANGED kept
          /\ Check(p, holds, "insert") /\ holds \in BOOLEAN
      BY <1>11 DEF InvitePending, tables, kept, At
    <2>2. Owned(row, orphaned)
      BY <2>1 DEF Sound, CallInv, NothingUnowned, Unentered
    <2>3. May("insert")
      BY <1>2, <2>1, <2>2 DEF May, StillTransfers, StillMembers, StillInvited, Spots
    <2> HIDE DEF holds
    <2>4. QED BY <1>4, <2>1, <2>3 DEF Committed, Spots
  <1>12. CASE RevokeList(p)
    <2>1. /\ c.op = "revoke" /\ c.at = "pending" /\ UNCHANGED kept
          /\ Check(p, inv[c.inv].status = "pending", "write")
      BY <1>12 DEF RevokeList, tables, kept, At
    <2>2. Owned(row, orphaned)
      BY <2>1 DEF Sound, CallInv, NothingUnowned, Unentered
    <2>3. ASSUME inv[c.inv].status = "pending" PROVE May("write")
      BY <1>2, <2>1, <2>2, <2>3 DEF May, StillTransfers, StillMembers, StillInvited, Spots
    <2>4. QED BY <1>4, <2>1, <2>3 DEF Committed, Spots
  <1>13. CASE EraseRefused(p)
    BY <1>13, Stopped DEF EraseRefused, tables, kept, At, Committed
  <1>14. CASE AcceptMember(p)
    <2> DEFINE at == IF Membership(c.actor) = "none" THEN "join" ELSE "accepted"
    <2>1. c.op = "accept" /\ c.at = "member" /\ UNCHANGED kept /\ Goto(p, at)
      BY <1>14 DEF AcceptMember, tables, kept, At
    <2>2. at \in {"join", "accepted"}
      OBVIOUS
    <2> HIDE DEF at
    <2>3. Owned(row, orphaned)
      BY <2>1 DEF Sound, CallInv, NothingUnowned, Unentered
    <2>4. at \in Spots /\ May(at)
      BY <1>2, <2>1, <2>2, <2>3
         DEF May, Sound, CallInv, StillTransfers, StillMembers, StillInvited, Spots
    <2>5. QED BY <1>3, <2>1, <2>4 DEF Committed
  <1>15. QED
    BY <1>5, <1>6, <1>7, <1>8, <1>9, <1>10, <1>11, <1>12, <1>13, <1>14

LEMMA LookupSound ==
    ASSUME NEW p \in Calls, Sound(p), AcceptLookup(p) PROVE Sound(p)'
  <1> DEFINE c == call[p]
             i == inv[c.inv]
             open == i.status = "pending"
             d == [c EXCEPT !.at = "member", !.role = i.role]
             e == [c EXCEPT !.at = "expire"]
  <1>1. /\ c.op = "accept" /\ c.at = "lookup" /\ UNCHANGED kept /\ ~Committed(c)
        /\ CheckInvitation(p, i, open) \/ (open /\ Goto(p, "expire"))
    BY DEF AcceptLookup, tables, kept, At, Committed
  <1>2. /\ c \in Calling /\ call \in [Calls -> Calling] /\ inv \in [Invitations -> Invs]
        /\ c.actor \in Accounts /\ c.target \in Accounts /\ c.role \in Assignable
        /\ c.inv \in Invitations
    BY <1>1, TypesAre DEF Sound, CallInv, Named
  <1>3. ASSUME open PROVE Owned(row, orphaned)
    <2>1. NoInv.status # "pending"
      BY DEF NoInv
    <2>2. QED BY <1>2, <1>3, <2>1 DEF Sound, CallInv, NothingUnowned
  <1>4. CASE open /\ Goto(p, "expire")
    <2>1. /\ e.at = "expire" /\ e.op = "accept" /\ e.actor = c.actor
          /\ e.target = c.target /\ e.role = c.role /\ e.inv = c.inv
      BY <1>1, <1>2, Fields DEF Spots
    <2> HIDE DEF e
    <2>2. StillTransfers(e, row) /\ StillMembers(e, row) /\ StillInvited(e, inv)
      BY <1>4, <2>1 DEF StillTransfers, StillMembers, StillInvited
    <2>3. QED BY <1>1, <1>3, <1>4, <2>1, <2>2, MovedTo DEF Spots, e
  <1>5. CASE open /\ i.email = c.actor /\ call' = [call EXCEPT ![p].at = "member",
                                                              ![p].role = i.role]
    <2>1. i.role \in Assignable
      BY <1>2, <1>5, InvsAre DEF Pending
    <2>2. /\ d.at = "member" /\ d.op = "accept" /\ d.actor = c.actor /\ d \in Calling
          /\ d.target = c.target /\ d.role = i.role /\ d.inv = c.inv
      BY <1>1, <1>2, <2>1 DEF Calling, Spots, Assignable
    <2>3. call' = [call EXCEPT ![p] = d]
      BY <1>5
    <2> HIDE DEF d
    <2>4. call' \in [Calls -> Calling] /\ call'[p] = d
      BY <1>2, <2>2, <2>3
    <2>5. Named(d)
      BY <1>2, <2>1, <2>2 DEF Named
    <2>6. StillTransfers(d, row) /\ StillMembers(d, row) /\ StillInvited(d, inv)
      BY <1>5, <2>2 DEF StillTransfers, StillMembers, StillInvited
    <2>7. QED BY <1>1, <1>3, <1>5, <2>2, <2>4, <2>5, <2>6, Moved
  <1>6. CASE End(p)
    BY <1>1, <1>6, Stopped
  <1>7. QED BY <1>1, <1>4, <1>5, <1>6 DEF CheckInvitation

(* The call wrote tables that are sound.  It is over, or about to delete an
   account: a purge may go on.                                              *)
Settles(p) == End(p) \/ (At(p, "purge", "write") /\ Goto(p, "erase"))

LEMMA SettlesAtEnd == ASSUME NEW p, End(p) PROVE Settles(p)
  BY DEF Settles

LEMMA Wrote ==
    ASSUME NEW p \in Calls, Sound(p), Settles(p),
           workspace' \in {"none", "live", "deleted", "purged"},
           founder' \in Accounts \cup {None},
           row' \in [Accounts -> Rows], inv' \in [Invitations -> Invs], broken' \in BOOLEAN,
           gone' \subseteq Accounts, orphaned' \in BOOLEAN,
           RowsOK(workspace', row'), OrphanOK(workspace', row', orphaned'),
           \/ Owned(row', orphaned')
           \/ NoMembers(row') /\ \A i \in Invitations : inv'[i] = NoInv,
           ~broken' /\ ~orphaned' /\ workspace' \in {"live", "deleted"} =>
              \E o \in Accounts : OwnersIn(row') = {o},
           \A a \in Accounts : row'[a] # NoRow /\ a # founder' => broken' \/ UsedUp(inv', a)
    PROVE  Sound(p)'
  <1>1. PICK d : /\ call' \in [Calls -> Calling] /\ call'[p] = d /\ Named(d)
                 /\ d.at = "idle" \/ (d.at = "erase" /\ d.op = "purge")
    <2>1. CASE End(p)
      <3>1. call' \in [Calls -> Calling] /\ call'[p] = Idle
        BY <2>1, Goes DEF Sound
      <3>2. QED BY <3>1, IdleFields DEF Named
    <2>2. CASE At(p, "purge", "write") /\ Goto(p, "erase")
      <3> DEFINE d == [call[p] EXCEPT !.at = "erase"]
      <3>1. call' \in [Calls -> Calling] /\ call'[p] = d
        BY <2>2, Goes DEF Sound, Spots
      <3>2. call[p] \in Calling
        BY TypesAre DEF Sound
      <3>3. /\ d.at = "erase" /\ d.op = "purge" /\ d.actor = call[p].actor
            /\ d.target = call[p].target /\ d.role = call[p].role /\ d.inv = call[p].inv
        BY <2>2, <3>2, Fields DEF At, Spots
      <3> HIDE DEF d
      <3>4. Named(d)
        BY <2>2, <3>3 DEF Sound, CallInv, Named, At
      <3>5. QED BY <3>1, <3>3, <3>4
    <2>3. QED BY <2>1, <2>2 DEF Settles
  <1>2. TypeOK'
    BY <1>1 DEF TypeOK, Rows, Invs, Pending, Past, Calling, Spots
  <1>3. NothingUnowned(d, row', inv', orphaned')
    BY <1>1 DEF NothingUnowned, Unentered
  <1>4. /\ StillTransfers(d, row') /\ StillMembers(d, row') /\ StillInvited(d, inv')
        /\ StillFounding(d, workspace', founder', row', orphaned')
    BY <1>1 DEF StillTransfers, StillMembers, StillInvited, StillFounding
  <1>5. OneOwner(d, workspace', row', broken', orphaned')
    BY <1>1 DEF OneOwner, OwnersOf
  <1>6. Invited(d, founder', row', inv', broken')
    BY <1>1 DEF Invited
  <1>7. CallInv(call[p])'
    BY <1>1, <1>3, <1>4, <1>5, <1>6 DEF CallInv
  <1>8. QED BY <1>2, <1>7 DEF Sound

(* The same owners, and no new member.                                      *)
LEMMA WroteRows ==
    ASSUME NEW p \in Calls, Sound(p), End(p), ~Committed(call[p]),
           UNCHANGED <<workspace, founder, inv, gone, broken, orphaned>>,
           row' \in [Accounts -> Rows], OwnersIn(row') = OwnersIn(row),
           \A a \in Accounts : row'[a] # NoRow => row[a] # NoRow,
           \A a \in Accounts : row'[a].role = "owner" => row'[a].status = "active"
    PROVE  Sound(p)'
  <1>1. /\ workspace \in {"none", "live", "deleted", "purged"}
        /\ founder \in Accounts \cup {None}
        /\ inv \in [Invitations -> Invs] /\ broken \in BOOLEAN
        /\ gone \subseteq Accounts /\ orphaned \in BOOLEAN
    BY TypesAre DEF Sound
  <1>2. RowsOK(workspace', row') /\ OrphanOK(workspace', row', orphaned')
    BY DEF Sound, RowsOK, NoMembers, OrphanOK
  <1>3. \/ Owned(row', orphaned')
        \/ NoMembers(row') /\ \A i \in Invitations : inv'[i] = NoInv
    BY DEF Sound, CallInv, NothingUnowned, NoMembers, Owned
  <1>4. ~broken' /\ ~orphaned' /\ workspace' \in {"live", "deleted"} =>
           \E o \in Accounts : OwnersIn(row') = {o}
    BY DEF Sound, CallInv, OneOwner, OwnersOf, Committed
  <1>5. \A a \in Accounts : row'[a] # NoRow /\ a # founder' => broken' \/ UsedUp(inv', a)
    BY DEF Sound, CallInv, Invited, Committed
  <1>6. QED BY <1>1, <1>2, <1>3, <1>4, <1>5, Wrote, SettlesAtEnd

LEMMA FailSound ==
    ASSUME NEW p \in Calls, Sound(p), Fail(p) PROVE Sound(p)'
  <1>1. /\ End(p) /\ broken' = TRUE
        /\ UNCHANGED <<workspace, founder, row, inv, gone, orphaned>>
    BY DEF Fail, tables
  <1>2. /\ workspace \in {"none", "live", "deleted", "purged"}
        /\ founder \in Accounts \cup {None}
        /\ row \in [Accounts -> Rows] /\ inv \in [Invitations -> Invs]
        /\ gone \subseteq Accounts /\ orphaned \in BOOLEAN
    BY TypesAre DEF Sound
  <1>3. \/ Owned(row, orphaned)
        \/ NoMembers(row) /\ \A i \in Invitations : inv[i] = NoInv
    BY DEF Sound, CallInv, NothingUnowned
  <1>4. QED BY <1>1, <1>2, <1>3, Wrote, SettlesAtEnd DEF Sound

LEMMA RequestSound ==
    ASSUME NEW p \in Calls, Sound(p), NEW op \in Ops, NEW a \in Accounts, NEW t \in Accounts,
           NEW r \in Assignable, NEW i \in Invitations \cup {None},
           Request(p, op, a, t, r, i)
    PROVE  Sound(p)'
  <1> DEFINE d == [op |-> op, at |-> FirstStep(op), actor |-> a,
                   target |-> t, role |-> r, inv |-> i, seen |-> None]
  <1>1. /\ call[p].at = "idle" /\ UNCHANGED kept
        /\ call' = [call EXCEPT ![p] = d]
        /\ i = None <=> op \notin {"invite", "revoke", "accept"}
    BY DEF Request, tables, kept
  <1>2. /\ FirstStep(op) \in {"workspace", "lookup", "pending", "authorize"}
        /\ FirstStep(op) = "pending" => op = "purge"
    BY DEF FirstStep, Ops
  <1>3. d \in Calling
    BY <1>2 DEF Calling, Spots, Assignable
  <1>4. call' \in [Calls -> Calling] /\ call'[p] = d
    BY <1>1, <1>3, TypesAre DEF Sound
  <1>5. /\ d.op = op /\ d.at = FirstStep(op) /\ d.actor = a /\ d.target = t
        /\ d.role = r /\ d.inv = i
    OBVIOUS
  <1> HIDE DEF d
  <1>6. Named(d) /\ Unentered(d)
    BY <1>1, <1>2, <1>5 DEF Named, Unentered
  <1>7. StillMembers(d, row) /\ StillInvited(d, inv) /\ StillTransfers(d, row)
    BY <1>2, <1>5 DEF StillMembers, StillInvited, StillTransfers
  <1>8. /\ ~Committed(call[p])
        /\ ~(d.op = "create" /\ d.at = "own") /\ ~(d.op = "transfer" /\ d.at = "demote")
    BY <1>1, <1>2, <1>5 DEF Committed
  <1>9. QED BY <1>1, <1>4, <1>6, <1>7, <1>8, Moved

-----------------------------------------------------------------------------
(* What a new role does to the table of members.                            *)
LEMMA RoleSet ==
    ASSUME TypeOK, NEW a \in Accounts, NEW r \in Roles, SetRole(a, r)
    PROVE  /\ row' \in [Accounts -> Rows]
           /\ \A x \in Accounts : row'[x].status = row[x].status
           /\ \A x \in Accounts : x # a => row'[x] = row[x]
           /\ row[a] # NoRow => row'[a].role = r /\ row'[a] # NoRow
           /\ row[a] = NoRow => row'[a] = NoRow
  <1>1. row \in [Accounts -> Rows] /\ row[a] \in Rows
    BY TypesAre
  <1> DEFINE new == [row[a] EXCEPT !.role = IF @ = None THEN @ ELSE r]
  <1>2. row' = [row EXCEPT ![a] = new]
    BY DEF SetRole
  <1>3. /\ new \in Rows /\ new.status = row[a].status
        /\ row[a] # NoRow => new.role = r /\ new # NoRow
        /\ row[a] = NoRow => new = NoRow
    <2>1. CASE row[a] = NoRow
      BY <2>1 DEF NoRow, Rows
    <2>2. CASE row[a] # NoRow
      <3>1. row[a] \in [role : Roles, status : {"active", "left"}] /\ row[a].role # None
        BY <1>1, <2>2, MembershipAssumption DEF Rows, Roles
      <3>2. new = [row[a] EXCEPT !.role = r]
        BY <3>1
      <3>3. new \in [role : Roles, status : {"active", "left"}] /\ new.role = r
            /\ new.status = row[a].status
        BY <3>1, <3>2
      <3>4. new # NoRow
        BY <3>3, MembershipAssumption DEF NoRow, Roles
      <3>5. QED BY <2>2, <3>3, <3>4 DEF Rows
    <2>3. QED BY <2>1, <2>2
  <1> HIDE DEF new
  <1>4. QED BY <1>1, <1>2, <1>3

LEMMA FoundSound ==
    ASSUME NEW p \in Calls, Sound(p), CreateWorkspace(p) \/ CreateOwner(p) PROVE Sound(p)'
  <1> DEFINE c == call[p]
  <1>1. c \in Calling /\ (c.at # "idle" => c.actor \in Accounts)
    BY TypesAre DEF Sound, CallInv, Named
  <1>2. /\ workspace \in {"none", "live", "deleted", "purged"}
        /\ founder \in Accounts \cup {None}
        /\ row \in [Accounts -> Rows] /\ inv \in [Invitations -> Invs] /\ broken \in BOOLEAN
        /\ gone \subseteq Accounts /\ orphaned \in BOOLEAN
    BY TypesAre DEF Sound
  <1>3. CASE CreateWorkspace(p) /\ workspace = "none"
    <2>1. /\ c.op = "create" /\ c.at = "workspace" /\ UNCHANGED <<row, inv, gone, broken, orphaned>>
          /\ workspace' = "live" /\ founder' = c.actor /\ Goto(p, "own")
      BY <1>3 DEF CreateWorkspace, At
    <2> DEFINE d == [c EXCEPT !.at = "own"]
    <2>2. call' \in [Calls -> Calling] /\ call'[p] = d
      BY <2>1, Goes DEF Sound, Spots
    <2>3. /\ d.at = "own" /\ d.op = "create" /\ d.actor = c.actor
          /\ d.target = c.target /\ d.role = c.role /\ d.inv = c.inv
      BY <1>1, <2>1, Fields DEF Spots
    <2> HIDE DEF d
    <2>4. NoMembers(row) /\ ~orphaned
      BY <1>3 DEF Sound, RowsOK, OrphanOK
    <2>5. OwnersIn(row) = {}
      BY <2>4, MembershipAssumption DEF NoMembers, OwnersIn, Holds, NoRow
    <2>6. /\ Named(d) /\ NothingUnowned(d, row, inv, orphaned)
          /\ StillFounding(d, "live", c.actor, row, orphaned)
      BY <2>1, <2>3, <2>4, <2>5
         DEF Sound, CallInv, Named, NothingUnowned, StillFounding, Unentered, Owned
    <2>7. StillMembers(d, row) /\ StillInvited(d, inv) /\ StillTransfers(d, row)
      BY <2>3 DEF StillMembers, StillInvited, StillTransfers
    <2>8. OneOwner(d, "live", row, broken, orphaned)
      BY <1>1, <2>1, <2>3, <2>5 DEF OneOwner, OwnersOf
    <2>9. Invited(d, c.actor, row, inv, broken)
      BY <2>4 DEF Invited, NoMembers
    <2>10. CallInv(call[p])'
      BY <2>1, <2>2, <2>6, <2>7, <2>8, <2>9 DEF CallInv
    <2>11. TypeOK'
      BY <1>1, <1>2, <2>1, <2>2 DEF TypeOK, Rows, Invs, Pending, Past, Calling, Spots
    <2>12. RowsOK(workspace', row') /\ OrphanOK(workspace', row', orphaned')
      BY <2>1, <2>4 DEF Sound, RowsOK, OrphanOK
    <2>13. QED BY <2>10, <2>11, <2>12 DEF Sound
  <1>4. CASE CreateWorkspace(p) /\ workspace # "none"
    BY <1>4, Stopped DEF CreateWorkspace, At, kept, Committed
  <1>5. CASE CreateOwner(p)
    <2>1. /\ c.op = "create" /\ c.at = "own" /\ UNCHANGED <<workspace, founder, inv, gone, broken, orphaned>>
          /\ End(p)
          /\ row' = IF workspace = "purged" THEN row
                    ELSE [row EXCEPT ![c.actor] = [role |-> "owner", status |-> "active"]]
      BY <1>5 DEF CreateOwner, At
    <2>2. /\ workspace = "live" /\ founder = c.actor /\ NoMembers(row) /\ ~orphaned
          /\ c.actor \in Accounts
      BY <1>1, <2>1 DEF Sound, CallInv, StillFounding
    <2> DEFINE o == [role |-> "owner", status |-> "active"]
    <2>3. o \in Rows /\ o.role = "owner" /\ o.status = "active"
      BY DEF Rows, Roles
    <2> HIDE DEF o
    <2>4. /\ row' \in [Accounts -> Rows] /\ row'[c.actor] = o
          /\ \A a \in Accounts : a # c.actor => row'[a] = NoRow
      BY <1>2, <2>1, <2>2, <2>3 DEF NoMembers, o
    <2>5. NoRow.role # "owner"
      BY MembershipAssumption DEF NoRow
    <2>6. OwnersIn(row') = {c.actor}
      BY <2>2, <2>3, <2>4, <2>5 DEF OwnersIn, Holds
    <2>7. /\ RowsOK(workspace', row') /\ OrphanOK(workspace', row', orphaned')
          /\ Owned(row', orphaned')
      BY <2>1, <2>2, <2>3, <2>4, <2>5, <2>6 DEF RowsOK, OrphanOK, Owned
    <2>8. QED BY <1>2, <2>1, <2>2, <2>4, <2>6, <2>7, Wrote, SettlesAtEnd
  <1>6. QED BY <1>3, <1>4, <1>5

LEMMA TransferSound ==
    ASSUME NEW p \in Calls, Sound(p), Promote(p) \/ Demote(p) PROVE Sound(p)'
  <1> DEFINE c == call[p]
  <1>1. c \in Calling /\ (c.at # "idle" => c.actor \in Accounts /\ c.target \in Accounts)
    BY TypesAre DEF Sound, CallInv, Named
  <1>2. /\ workspace \in {"none", "live", "deleted", "purged"}
        /\ founder \in Accounts \cup {None}
        /\ row \in [Accounts -> Rows] /\ inv \in [Invitations -> Invs] /\ broken \in BOOLEAN
        /\ gone \subseteq Accounts /\ orphaned \in BOOLEAN
    BY TypesAre DEF Sound
  <1>3. CASE Promote(p)
    <2>1. /\ c.op = "transfer" /\ c.at = "promote" /\ SetRole(c.target, "owner")
          /\ Check(p, row[c.target] # NoRow, "demote")
          /\ UNCHANGED <<workspace, founder, inv, gone, broken, orphaned>>
      BY <1>3 DEF Promote, At, Exists
    <2>2. /\ row[c.actor].status = "active" /\ row[c.actor].role = "owner"
          /\ c.target # c.actor /\ row[c.target].status = "active"
          /\ c.actor \in Accounts /\ c.target \in Accounts
      BY <1>1, <2>1 DEF Sound, CallInv, StillTransfers, Holds
    <2>3. row[c.target] # NoRow
      BY <2>2, MembershipAssumption DEF NoRow
    <2>4. Goto(p, "demote")
      BY <2>1, <2>3 DEF Check
    <2> DEFINE d == [c EXCEPT !.at = "demote"]
    <2>5. call' \in [Calls -> Calling] /\ call'[p] = d
      BY <2>4, Goes DEF Sound, Spots
    <2>6. /\ d.at = "demote" /\ d.op = "transfer" /\ d.actor = c.actor
          /\ d.target = c.target /\ d.role = c.role /\ d.inv = c.inv
      BY <1>1, <2>1, Fields DEF Spots
    <2> HIDE DEF d
    <2>7. /\ row' \in [Accounts -> Rows]
          /\ \A x \in Accounts : row'[x].status = row[x].status
          /\ \A x \in Accounts : x # c.target => row'[x] = row[x]
          /\ row'[c.target].role = "owner"
      BY <2>1, <2>2, <2>3, RoleSet DEF Sound, Roles
    <2>8. OwnersIn(row') = OwnersIn(row) \cup {c.target} /\ c.actor \in OwnersIn(row)
      BY <2>2, <2>7 DEF OwnersIn, Holds
    <2>9. /\ Named(d) /\ NothingUnowned(d, row', inv', orphaned') /\ ~orphaned
          /\ StillFounding(d, workspace', founder', row', orphaned')
      BY <2>1, <2>6, <2>8
         DEF Sound, CallInv, Named, NothingUnowned, StillFounding, Owned, OrphanOK
    <2>10. StillMembers(d, row') /\ StillInvited(d, inv')
      BY <2>6 DEF StillMembers, StillInvited
    <2>11. StillTransfers(d, row')
      BY <2>2, <2>6, <2>7 DEF StillTransfers, Holds
    <2>12. OneOwner(d, workspace', row', broken', orphaned')
      <3> SUFFICES ASSUME ~broken, workspace \in {"live", "deleted"}
                   PROVE  OwnersIn(row') = {c.actor, c.target}
        BY <2>1, <2>2, <2>6 DEF OneOwner, OwnersOf
      <3>1. PICK o \in Accounts : OwnersIn(row) = {o}
        BY <2>1, <2>9 DEF Sound, CallInv, OneOwner, OwnersOf
      <3>2. QED BY <2>8, <3>1
    <2>13. Invited(d, founder', row', inv', broken')
      <3>1. \A a \in Accounts : row'[a] # NoRow => row[a] # NoRow
        BY <2>3, <2>7
      <3>2. QED BY <2>1, <3>1 DEF Sound, CallInv, Invited
    <2>14. CallInv(call[p])'
      BY <2>5, <2>9, <2>10, <2>11, <2>12, <2>13 DEF CallInv
    <2>15. TypeOK'
      BY <1>2, <2>1, <2>5, <2>7 DEF TypeOK, Rows, Invs, Pending, Past, Calling, Spots
    <2>16. RowsOK(workspace', row') /\ OrphanOK(workspace', row', orphaned')
      BY <2>1, <2>2, <2>3, <2>7, <2>9 DEF Sound, RowsOK, NoMembers, OrphanOK
    <2>17. QED BY <2>14, <2>15, <2>16 DEF Sound
  <1>4. CASE Demote(p)
    <2>1. /\ c.op = "transfer" /\ c.at = "demote" /\ SetRole(c.actor, "admin") /\ End(p)
          /\ UNCHANGED <<workspace, founder, inv, gone, broken, orphaned>>
      BY <1>4 DEF Demote, At
    <2>2. /\ row[c.actor].status = "active" /\ row[c.actor].role = "owner"
          /\ row[c.target].status = "active" /\ row[c.target].role = "owner"
          /\ c.target # c.actor /\ c.actor \in Accounts /\ c.target \in Accounts
      BY <1>1, <2>1 DEF Sound, CallInv, StillTransfers, Holds
    <2>3. row[c.actor] # NoRow
      BY <2>2, MembershipAssumption DEF NoRow
    <2>4. /\ row' \in [Accounts -> Rows]
          /\ \A x \in Accounts : row'[x].status = row[x].status
          /\ \A x \in Accounts : x # c.actor => row'[x] = row[x]
          /\ row'[c.actor].role = "admin"
      BY <2>1, <2>2, <2>3, RoleSet DEF Sound, Roles
    <2>5. /\ c.target \in OwnersIn(row') /\ OwnersIn(row') = OwnersIn(row) \ {c.actor}
          /\ ~orphaned
      BY <2>2, <2>4 DEF OwnersIn, Holds, Sound, OrphanOK
    <2>6. ~broken /\ workspace \in {"live", "deleted"} => OwnersIn(row') = {c.target}
      <3> SUFFICES ASSUME ~broken, workspace \in {"live", "deleted"}
                   PROVE  OwnersIn(row') = {c.target}
        OBVIOUS
      <3>1. OwnersIn(row) = {c.actor, c.target}
        BY <2>1, <2>5 DEF Sound, CallInv, OneOwner, OwnersOf
      <3>2. QED BY <2>2, <2>5, <3>1
    <2>7. /\ RowsOK(workspace', row') /\ OrphanOK(workspace', row', orphaned')
          /\ Owned(row', orphaned')
      BY <2>1, <2>2, <2>3, <2>4, <2>5 DEF Sound, RowsOK, NoMembers, OrphanOK, Owned
    <2>8. \A a \in Accounts : row'[a] # NoRow /\ a # founder => broken \/ UsedUp(inv, a)
      <3>1. \A a \in Accounts : row'[a] # NoRow => row[a] # NoRow
        BY <2>3, <2>4
      <3>2. QED BY <2>1, <3>1 DEF Sound, CallInv, Invited
    <2>9. QED BY <1>2, <2>1, <2>2, <2>4, <2>5, <2>6, <2>7, <2>8, Wrote, SettlesAtEnd
  <1>5. QED BY <1>3, <1>4

LEMMA MembersSound ==
    ASSUME NEW p \in Calls, Sound(p), RoleWrite(p) \/ RemoveWrite(p) \/ LeaveWrite(p)
    PROVE  Sound(p)'
  <1> DEFINE c == call[p]
  <1>1. c.at # "idle" => c.actor \in Accounts /\ c.target \in Accounts /\ c.role \in Assignable
    BY DEF Sound, CallInv, Named
  <1>2. row \in [Accounts -> Rows]
    BY TypesAre DEF Sound
  <1>3. \A a \in Accounts : row[a].role = "owner" => row[a].status = "active"
    BY DEF Sound, RowsOK
  <1>4. CASE RoleWrite(p)
    <2>1. /\ c.op = "role" /\ c.at = "write" /\ SetRole(c.target, c.role) /\ End(p)
          /\ UNCHANGED <<workspace, founder, inv, gone, broken, orphaned>>
      BY <1>4 DEF RoleWrite, At
    <2>2. /\ row[c.target].status = "active" /\ row[c.target].role # "owner"
          /\ c.target \in Accounts /\ c.role \in Roles /\ c.role # "owner"
      BY <1>1, <2>1 DEF Sound, CallInv, StillMembers, Member, Assignable
    <2>3. /\ row' \in [Accounts -> Rows]
          /\ \A x \in Accounts : row'[x].status = row[x].status
          /\ \A x \in Accounts : x # c.target => row'[x] = row[x]
          /\ row[c.target] # NoRow => row'[c.target].role = c.role
      BY <2>1, <2>2, RoleSet DEF Sound
    <2>4. row[c.target] # NoRow
      BY <2>2, MembershipAssumption DEF NoRow
    <2>5. OwnersIn(row') = OwnersIn(row)
      BY <2>2, <2>3, <2>4 DEF OwnersIn, Holds
    <2>6. \A a \in Accounts : row'[a].role = "owner" => row'[a].status = "active"
      BY <1>3, <2>2, <2>3, <2>4
    <2>7. \A a \in Accounts : row'[a] # NoRow => row[a] # NoRow
      BY <2>3, <2>4
    <2>8. QED BY <2>1, <2>3, <2>5, <2>6, <2>7, WroteRows DEF Committed
  <1>5. CASE RemoveWrite(p)
    <2>1. /\ c.op = "remove" /\ c.at = "write" /\ row' = [row EXCEPT ![c.target] = NoRow]
          /\ End(p) /\ UNCHANGED <<workspace, founder, inv, gone, broken, orphaned>>
      BY <1>5 DEF RemoveWrite, At
    <2>2. row[c.target].role # "owner" /\ c.target \in Accounts
      BY <1>1, <2>1 DEF Sound, CallInv, StillMembers, Member
    <2>3. NoRow \in Rows /\ NoRow.role # "owner"
      BY MembershipAssumption DEF NoRow, Rows
    <2>4. /\ row' \in [Accounts -> Rows] /\ row'[c.target] = NoRow
          /\ \A x \in Accounts : x # c.target => row'[x] = row[x]
      BY <1>2, <2>1, <2>2, <2>3
    <2>5. OwnersIn(row') = OwnersIn(row)
      BY <2>2, <2>3, <2>4 DEF OwnersIn, Holds
    <2>6. \A a \in Accounts : row'[a].role = "owner" => row'[a].status = "active"
      BY <1>3, <2>3, <2>4
    <2>7. \A a \in Accounts : row'[a] # NoRow => row[a] # NoRow
      BY <2>4
    <2>8. QED BY <2>1, <2>4, <2>5, <2>6, <2>7, WroteRows DEF Committed
  <1>6. CASE LeaveWrite(p)
    <2> DEFINE new == [row[c.actor] EXCEPT !.status = IF @ = None THEN @ ELSE "left"]
    <2>1. /\ c.op = "leave" /\ c.at = "write" /\ row' = [row EXCEPT ![c.actor] = new]
          /\ End(p) /\ UNCHANGED <<workspace, founder, inv, gone, broken, orphaned>>
      BY <1>6 DEF LeaveWrite, At
    <2>2. /\ row[c.actor].status = "active" /\ row[c.actor].role # "owner"
          /\ c.actor \in Accounts
      BY <1>1, <2>1 DEF Sound, CallInv, StillMembers, Member
    <2>3. row[c.actor] # NoRow
      BY <2>2, MembershipAssumption DEF NoRow
    <2>4. row[c.actor] \in [role : Roles, status : {"active", "left"}]
      BY <1>2, <2>2, <2>3 DEF Rows
    <2>5. new = [row[c.actor] EXCEPT !.status = "left"]
      BY <2>2, <2>4, MembershipAssumption
    <2>6. new \in Rows /\ new.role # "owner"
      BY <2>2, <2>4, <2>5 DEF Rows
    <2> HIDE DEF new
    <2>7. /\ row' \in [Accounts -> Rows] /\ row'[c.actor] = new
          /\ \A x \in Accounts : x # c.actor => row'[x] = row[x]
      BY <1>2, <2>1, <2>2, <2>6
    <2>8. OwnersIn(row') = OwnersIn(row)
      BY <2>2, <2>6, <2>7 DEF OwnersIn, Holds
    <2>9. \A a \in Accounts : row'[a].role = "owner" => row'[a].status = "active"
      BY <1>3, <2>6, <2>7
    <2>10. \A a \in Accounts : row'[a] # NoRow => row[a] # NoRow
      BY <2>3, <2>7
    <2>11. QED BY <2>1, <2>7, <2>8, <2>9, <2>10, WroteRows DEF Committed
  <1>7. QED BY <1>4, <1>5, <1>6

LEMMA GoneSound ==
    ASSUME NEW p \in Calls, Sound(p), DeleteWrite(p) \/ PurgeWrite(p) PROVE Sound(p)'
  <1> DEFINE c == call[p]
  <1>1. /\ workspace \in {"none", "live", "deleted", "purged"}
        /\ founder \in Accounts \cup {None}
        /\ row \in [Accounts -> Rows] /\ inv \in [Invitations -> Invs] /\ broken \in BOOLEAN
        /\ gone \subseteq Accounts /\ orphaned \in BOOLEAN
    BY TypesAre DEF Sound
  <1>2. CASE DeleteWrite(p)
    <2>1. /\ c.op = "delete" /\ c.at = "write" /\ End(p)
          /\ UNCHANGED <<founder, row, inv, gone, broken, orphaned>>
          /\ workspace' = IF workspace = "live" THEN "deleted" ELSE workspace
      BY <1>2 DEF DeleteWrite, At
    <2>2. RowsOK(workspace', row') /\ OrphanOK(workspace', row', orphaned')
      BY <2>1 DEF Sound, RowsOK, OrphanOK
    <2>3. \/ Owned(row, orphaned)
          \/ NoMembers(row) /\ \A i \in Invitations : inv[i] = NoInv
      BY DEF Sound, CallInv, NothingUnowned
    <2>4. ~broken /\ ~orphaned /\ workspace' \in {"live", "deleted"} =>
             \E o \in Accounts : OwnersIn(row) = {o}
      BY <2>1 DEF Sound, CallInv, OneOwner, OwnersOf
    <2>5. \A a \in Accounts : row[a] # NoRow /\ a # founder => broken \/ UsedUp(inv, a)
      BY <2>1 DEF Sound, CallInv, Invited
    <2>6. QED BY <1>1, <2>1, <2>2, <2>3, <2>4, <2>5, Wrote, SettlesAtEnd
  <1>3. CASE PurgeWrite(p)
    <2>1. /\ Settles(p) /\ workspace' = "purged" /\ UNCHANGED <<founder, gone, broken, orphaned>>
          /\ row' = [a \in Accounts |-> NoRow] /\ inv' = [i \in Invitations |-> NoInv]
      BY <1>3 DEF PurgeWrite, Settles
    <2>2. NoRow \in Rows /\ NoInv \in Invs /\ NoRow.role # "owner"
      BY MembershipAssumption DEF NoRow, NoInv, Rows, Invs
    <2>3. /\ row' \in [Accounts -> Rows] /\ inv' \in [Invitations -> Invs]
          /\ \A a \in Accounts : row'[a] = NoRow
          /\ \A i \in Invitations : inv'[i] = NoInv
      BY <2>1, <2>2
    <2>4. RowsOK(workspace', row') /\ NoMembers(row') /\ OrphanOK(workspace', row', orphaned')
      BY <2>1, <2>2, <2>3 DEF RowsOK, NoMembers, OrphanOK, OwnersIn, Holds
    <2>5. QED BY <1>1, <2>1, <2>3, <2>4, Wrote
  <1>4. QED BY <1>2, <1>3

(* The account of the call is deleted, and with it its membership and the
   invitations it made.                                                     *)
LEMMA EraseSound ==
    ASSUME NEW p \in Calls, Sound(p), EraseAccount(p) PROVE Sound(p)'
  <1> DEFINE g == call[p].actor
  <1>1. /\ workspace \in {"none", "live", "deleted", "purged"}
        /\ founder \in Accounts \cup {None}
        /\ row \in [Accounts -> Rows] /\ inv \in [Invitations -> Invs] /\ broken \in BOOLEAN
        /\ gone \subseteq Accounts /\ orphaned \in BOOLEAN
    BY TypesAre DEF Sound
  <1>2. /\ call[p].op = "purge" /\ call[p].at = "erase" /\ Settles(p)
        /\ gone' = gone \cup {g} /\ row' = [row EXCEPT ![g] = NoRow]
        /\ inv' = WithoutInviter(g) /\ orphaned' = (orphaned \/ Owners = {g})
        /\ UNCHANGED <<workspace, founder, broken>>
    <2>1. At(p, "purge", "erase") /\ End(p) /\ orphaned' = (orphaned \/ Owners = {g})
      BY Zenon DEF EraseAccount
    <2>2. QED BY <2>1, SettlesAtEnd DEF EraseAccount, At
  <1>3. g \in Accounts
    BY <1>2 DEF Sound, CallInv, Named
  <1>4. /\ NoRow \in Rows /\ NoInv \in Invs /\ NoRow.role # "owner"
        /\ NoInv.status # "accepted" /\ NoInv.by = None /\ g # None
    BY <1>3, MembershipAssumption DEF NoRow, NoInv, Rows, Invs
  <1>5. /\ row' \in [Accounts -> Rows] /\ row'[g] = NoRow
        /\ \A x \in Accounts : x # g => row'[x] = row[x]
    BY <1>1, <1>2, <1>3, <1>4
  <1>6. ASSUME NEW i \in Invitations
        PROVE  /\ inv'[i] \in Invs
               /\ inv[i].status \in {"accepted", "erased"} =>
                     /\ inv'[i].email = inv[i].email
                     /\ inv'[i].status \in {"accepted", "erased"}
               /\ inv[i] = NoInv => inv'[i] = NoInv
    <2>1. inv[i] \in Invs
      BY <1>1
    <2>2. CASE inv[i].by # g
      <3>1. inv'[i] = inv[i]
        BY <1>2, <2>2 DEF WithoutInviter
      <3>2. QED BY <2>1, <3>1
    <2>3. CASE inv[i].by = g /\ inv[i].status = "accepted"
      <3>1. inv'[i] = Erased(inv[i].email)
        BY <1>2, <2>3 DEF WithoutInviter
      <3>2. inv[i].email \in Accounts
        BY <2>1, <2>3, InvsAre DEF Past
      <3>3. /\ Erased(inv[i].email).email = inv[i].email
            /\ Erased(inv[i].email).status = "erased"
        BY DEF Erased, NoInv
      <3>4. QED BY <1>4, <2>3, <3>1, <3>2, <3>3 DEF Invs
    <2>4. CASE inv[i].by = g /\ inv[i].status # "accepted"
      <3>1. inv'[i] = NoInv
        BY <1>2, <2>4 DEF WithoutInviter
      <3>2. inv[i].status # "erased"
        BY <1>4, <2>1, <2>4, InvsAre
      <3>3. QED BY <1>4, <2>4, <3>1, <3>2
    <2>5. QED BY <2>2, <2>3, <2>4
  <1>7. inv' \in [Invitations -> Invs]
    BY <1>2, <1>6 DEF WithoutInviter
  <1>8. OwnersIn(row') = OwnersIn(row) \ {g} /\ Owners = OwnersIn(row)
    BY <1>4, <1>5 DEF OwnersIn, Holds, Owners, Membership
  <1>9. RowsOK(workspace', row')
    BY <1>2, <1>4, <1>5 DEF Sound, RowsOK, NoMembers
  <1>10. OrphanOK(workspace', row', orphaned')
    <2>1. Owners = {g} => workspace # "none"
      BY <1>4, <1>8 DEF Sound, RowsOK, NoMembers, OwnersIn, Holds
    <2>2. QED BY <1>2, <1>8, <2>1 DEF Sound, OrphanOK
  <1>11. \/ Owned(row', orphaned')
         \/ NoMembers(row') /\ \A i \in Invitations : inv'[i] = NoInv
    <2>1. CASE Owned(row, orphaned)
      BY <1>2, <1>8, <2>1 DEF Owned
    <2>2. CASE ~Owned(row, orphaned)
      BY <1>5, <1>6, <2>2 DEF Sound, CallInv, NothingUnowned, NoMembers
    <2>3. QED BY <2>1, <2>2
  <1>12. ~broken' /\ ~orphaned' /\ workspace' \in {"live", "deleted"} =>
            \E o \in Accounts : OwnersIn(row') = {o}
    <2> SUFFICES ASSUME ~broken, ~orphaned, Owners # {g}, workspace \in {"live", "deleted"}
                 PROVE  \E o \in Accounts : OwnersIn(row') = {o}
      BY <1>2
    <2>1. PICK o \in Accounts : OwnersIn(row) = {o}
      BY <1>2 DEF Sound, CallInv, OneOwner, OwnersOf
    <2>2. QED BY <1>8, <2>1
  <1>13. \A a \in Accounts : row'[a] # NoRow /\ a # founder' => broken' \/ UsedUp(inv', a)
    <2>1. \A a \in Accounts : row[a] # NoRow /\ a # founder => broken \/ UsedUp(inv, a)
      BY <1>2 DEF Sound, CallInv, Invited
    <2>2. \A a \in Accounts : UsedUp(inv, a) => UsedUp(inv', a)
      BY <1>6 DEF UsedUp
    <2>3. QED BY <1>2, <1>5, <2>1, <2>2
  <1> HIDE DEF g
  <1>14. gone' \subseteq Accounts /\ orphaned' \in BOOLEAN
    BY <1>1, <1>2, <1>3
  <1>15. QED
    BY <1>1, <1>2, <1>5, <1>7, <1>9, <1>10, <1>11, <1>12, <1>13, <1>14, Wrote

-----------------------------------------------------------------------------
(* The members are as they were, and the accepted invitations still are.    *)
LEMMA WroteInvs ==
    ASSUME NEW p \in Calls, Sound(p), End(p),
           ~(call[p].op = "create" /\ call[p].at = "own"),
           ~(call[p].op = "transfer" /\ call[p].at = "demote"),
           UNCHANGED <<workspace, founder, row, gone, broken, orphaned>>,
           inv' \in [Invitations -> Invs],
           Owned(row, orphaned) \/ inv' = inv,
           \A i \in Invitations : inv[i].status \in {"accepted", "erased"} => inv'[i] = inv[i],
           call[p].op = "accept" /\ call[p].at = "accepted" =>
              \E i \in Invitations : /\ inv'[i].email = call[p].actor
                                     /\ inv'[i].status = "accepted"
    PROVE  Sound(p)'
  <1>1. /\ workspace \in {"none", "live", "deleted", "purged"}
        /\ founder \in Accounts \cup {None}
        /\ row \in [Accounts -> Rows] /\ broken \in BOOLEAN
        /\ gone \subseteq Accounts /\ orphaned \in BOOLEAN
    BY TypesAre DEF Sound
  <1>2. RowsOK(workspace', row') /\ OrphanOK(workspace', row', orphaned')
    BY DEF Sound
  <1>3. \/ Owned(row', orphaned')
        \/ NoMembers(row') /\ \A i \in Invitations : inv'[i] = NoInv
    BY DEF Sound, CallInv, NothingUnowned
  <1>4. ~broken' /\ ~orphaned' /\ workspace' \in {"live", "deleted"} =>
           \E o \in Accounts : OwnersIn(row') = {o}
    BY DEF Sound, CallInv, OneOwner, OwnersOf
  <1>5. \A a \in Accounts : row'[a] # NoRow /\ a # founder' => broken' \/ UsedUp(inv', a)
    BY DEF Sound, CallInv, Invited, UsedUp
  <1>6. QED BY <1>1, <1>2, <1>3, <1>4, <1>5, Wrote, SettlesAtEnd

(* What a new status does to the table of invitations.                      *)
LEMMA StatusSet ==
    ASSUME TypeOK, NEW i \in Invitations,
           NEW s \in {"accepted", "revoked", "expired"},
           SetStatus(i, s), inv[i].status = "pending"
    PROVE  /\ inv' \in [Invitations -> Invs]
           /\ \A j \in Invitations : j # i => inv'[j] = inv[j]
           /\ inv'[i].status = s /\ inv'[i].email = inv[i].email
  <1>1. inv \in [Invitations -> Invs] /\ inv[i] \in Invs
    BY TypesAre
  <1> DEFINE new == [inv[i] EXCEPT !.status = s, !.role = None]
  <1>2. inv' = [inv EXCEPT ![i] = new]
    BY DEF SetStatus
  <1>3. inv[i] \in Pending
    BY <1>1, InvsAre
  <1>4. new \in Past /\ new.status = s /\ new.email = inv[i].email
    BY <1>3 DEF Pending, Past
  <1> HIDE DEF new
  <1>5. QED BY <1>1, <1>2, <1>4 DEF Invs

LEMMA InvitationsSound ==
    ASSUME NEW p \in Calls, Sound(p),
           InviteInsert(p) \/ RevokeWrite(p) \/ AcceptExpired(p) \/ AcceptWrite(p)
    PROVE  Sound(p)'
  <1> DEFINE c == call[p]
  <1>1. c.at # "idle" => /\ c.actor \in Accounts /\ c.target \in Accounts
                         /\ c.role \in Assignable
                         /\ c.op \in {"invite", "revoke", "accept"} => c.inv \in Invitations
    BY DEF Sound, CallInv, Named
  <1>2. inv \in [Invitations -> Invs]
    BY TypesAre DEF Sound
  <1>3. CASE InviteInsert(p)
    <2> DEFINE new == [email |-> c.target, by |-> c.actor, role |-> c.role,
                       status |-> "pending"]
    <2>1. /\ c.op = "invite" /\ c.at = "insert" /\ End(p)
          /\ UNCHANGED <<workspace, founder, row, gone, broken, orphaned>>
          /\ \/ inv' = inv
             \/ inv[c.inv] = NoInv /\ inv' = [inv EXCEPT ![c.inv] = new]
      BY <1>3 DEF InviteInsert, At
    <2>2. Owned(row, orphaned) /\ c.inv \in Invitations
      BY <1>1, <2>1 DEF Sound, CallInv, NothingUnowned, Unentered
    <2>3. new \in Invs /\ NoInv.status = "none"
      BY <1>1, <2>1 DEF Invs, Pending, NoInv
    <2> HIDE DEF new
    <2>4. /\ inv' \in [Invitations -> Invs]
          /\ \A i \in Invitations : inv[i].status \in {"accepted", "erased"} => inv'[i] = inv[i]
      BY <1>2, <2>1, <2>2, <2>3
    <2>5. QED BY <2>1, <2>2, <2>4, WroteInvs
  <1>4. CASE RevokeWrite(p)
    <2>1. /\ c.op = "revoke" /\ c.at = "write" /\ End(p) /\ SetStatus(c.inv, "revoked")
          /\ UNCHANGED <<workspace, founder, row, gone, broken, orphaned>>
      BY <1>4 DEF RevokeWrite, At
    <2>2. /\ Owned(row, orphaned) /\ c.inv \in Invitations
          /\ inv[c.inv].status = "pending"
      BY <1>1, <2>1 DEF Sound, CallInv, NothingUnowned, Unentered, StillInvited
    <2>3. /\ inv' \in [Invitations -> Invs]
          /\ \A i \in Invitations : inv[i].status \in {"accepted", "erased"} => inv'[i] = inv[i]
      BY <2>1, <2>2, StatusSet DEF Sound
    <2>4. QED BY <2>1, <2>2, <2>3, WroteInvs
  <1>5. CASE AcceptExpired(p)
    <2>1. /\ c.op = "accept" /\ c.at = "expire" /\ End(p) /\ SetStatus(c.inv, "expired")
          /\ UNCHANGED <<workspace, founder, row, gone, broken, orphaned>>
      BY <1>5 DEF AcceptExpired, At
    <2>2. /\ Owned(row, orphaned) /\ c.inv \in Invitations
          /\ inv[c.inv].status = "pending"
      BY <1>1, <2>1 DEF Sound, CallInv, NothingUnowned, Unentered, StillInvited
    <2>3. /\ inv' \in [Invitations -> Invs]
          /\ \A i \in Invitations : inv[i].status \in {"accepted", "erased"} => inv'[i] = inv[i]
      BY <2>1, <2>2, StatusSet DEF Sound
    <2>4. QED BY <2>1, <2>2, <2>3, WroteInvs
  <1>6. CASE AcceptWrite(p)
    <2>1. /\ c.op = "accept" /\ c.at = "accepted" /\ End(p) /\ SetStatus(c.inv, "accepted")
          /\ UNCHANGED <<workspace, founder, row, gone, broken, orphaned>>
      BY <1>6 DEF AcceptWrite, At
    <2>2. /\ Owned(row, orphaned) /\ c.inv \in Invitations
          /\ inv[c.inv].status = "pending" /\ inv[c.inv].email = c.actor
      BY <1>1, <2>1 DEF Sound, CallInv, NothingUnowned, Unentered, StillInvited
    <2>3. /\ inv' \in [Invitations -> Invs]
          /\ \A i \in Invitations : inv[i].status \in {"accepted", "erased"} => inv'[i] = inv[i]
          /\ inv'[c.inv].status = "accepted" /\ inv'[c.inv].email = c.actor
      BY <2>1, <2>2, StatusSet DEF Sound
    <2>4. QED BY <2>1, <2>2, <2>3, WroteInvs
  <1>7. QED BY <1>3, <1>4, <1>5, <1>6

LEMMA JoinSound ==
    ASSUME NEW p \in Calls, Sound(p), AcceptJoin(p) PROVE Sound(p)'
  <1> DEFINE c == call[p]
             fresh == ~Exists(c.actor) /\ workspace # "purged" /\ c.actor \notin gone
             new == [role |-> c.role, status |-> "active"]
  <1>1. /\ c.op = "accept" /\ c.at = "join" /\ UNCHANGED <<workspace, founder, inv, gone, broken, orphaned>>
        /\ row' = IF ~fresh THEN row ELSE [row EXCEPT ![c.actor] = new]
        /\ Check(p, fresh, "accepted")
    BY DEF AcceptJoin, At
  <1>2. /\ workspace \in {"none", "live", "deleted", "purged"}
        /\ founder \in Accounts \cup {None} /\ c \in Calling
        /\ row \in [Accounts -> Rows] /\ inv \in [Invitations -> Invs] /\ broken \in BOOLEAN
        /\ gone \subseteq Accounts /\ orphaned \in BOOLEAN
    BY TypesAre DEF Sound
  <1>3. /\ c.actor \in Accounts /\ c.inv \in Invitations /\ c.role \in Assignable
        /\ inv[c.inv].status = "pending" /\ inv[c.inv].email = c.actor
        /\ Owned(row, orphaned)
    BY <1>1 DEF Sound, CallInv, Named, StillInvited, NothingUnowned, Unentered
  <1>4. CASE ~fresh
    BY <1>1, <1>4, Stopped DEF Check, kept, Committed
  <1>5. CASE fresh
    <2>1. row[c.actor] = NoRow /\ workspace # "purged"
      BY <1>5 DEF Exists
    <2> DEFINE d == [c EXCEPT !.at = "accepted"]
    <2>2. call' \in [Calls -> Calling] /\ call'[p] = d
      BY <1>1, <1>5, Goes DEF Sound, Check, Spots
    <2>3. /\ d.at = "accepted" /\ d.op = "accept" /\ d.actor = c.actor
          /\ d.target = c.target /\ d.role = c.role /\ d.inv = c.inv
      BY <1>1, <1>2, Fields DEF Spots
    <2> HIDE DEF d
    <2>5. new \in Rows /\ new.role # "owner" /\ new.status = "active"
      BY <1>3 DEF Rows, Assignable
    <2>6. row' = [row EXCEPT ![c.actor] = new]
      BY <1>1, <1>5
    <2> HIDE DEF new, fresh
    <2>7. /\ row' \in [Accounts -> Rows] /\ row'[c.actor] = new
          /\ \A x \in Accounts : x # c.actor => row'[x] = row[x]
      BY <1>2, <1>3, <2>5, <2>6
    <2>8. NoRow.role # "owner"
      BY MembershipAssumption DEF NoRow
    <2>9. OwnersIn(row') = OwnersIn(row)
      BY <1>3, <2>1, <2>5, <2>7, <2>8 DEF OwnersIn, Holds
    <2>10. /\ Named(d) /\ NothingUnowned(d, row', inv', orphaned')
           /\ StillFounding(d, workspace', founder', row', orphaned')
      BY <1>1, <1>3, <2>3, <2>9
         DEF Sound, CallInv, Named, NothingUnowned, StillFounding, Owned
    <2>11. StillMembers(d, row') /\ StillInvited(d, inv') /\ StillTransfers(d, row')
      BY <1>1, <1>3, <2>3 DEF StillMembers, StillInvited, StillTransfers
    <2>12. OneOwner(d, workspace', row', broken', orphaned')
      BY <1>1, <2>3, <2>9 DEF Sound, CallInv, OneOwner, OwnersOf
    <2>13. Invited(d, founder', row', inv', broken')
      BY <1>1, <2>3, <2>7 DEF Sound, CallInv, Invited
    <2>14. CallInv(call[p])'
      BY <2>2, <2>10, <2>11, <2>12, <2>13 DEF CallInv
    <2>15. TypeOK'
      BY <1>1, <1>2, <2>2, <2>7 DEF TypeOK, Rows, Invs, Pending, Past, Calling, Spots
    <2>16. RowsOK(workspace', row') /\ OrphanOK(workspace', row', orphaned')
      <3>1. workspace # "none"
        BY <1>3, <2>8 DEF Sound, RowsOK, NoMembers, OwnersIn, Holds, Owned, OrphanOK
      <3>2. QED BY <1>1, <2>1, <2>5, <2>7, <2>9, <3>1 DEF Sound, RowsOK, OrphanOK
    <2>17. QED BY <2>14, <2>15, <2>16 DEF Sound
  <1>6. QED BY <1>4, <1>5

-----------------------------------------------------------------------------
LEMMA InitSound == Init => \A p \in Calls : Sound(p)
  <1> SUFFICES ASSUME Init, NEW p \in Calls PROVE Sound(p)
    OBVIOUS
  <1>1. NoRow \in Rows /\ NoInv \in Invs /\ NoRow.role # "owner"
    BY MembershipAssumption DEF NoRow, NoInv, Rows, Invs
  <1>2. /\ row \in [Accounts -> Rows] /\ inv \in [Invitations -> Invs]
        /\ call \in [Calls -> Calling] /\ call[p] = Idle
        /\ \A a \in Accounts : row[a] = NoRow
        /\ \A i \in Invitations : inv[i] = NoInv
    BY <1>1, IdleFields DEF Init
  <1>3. TypeOK
    BY <1>2, TypesAre DEF Init
  <1>4. RowsOK(workspace, row) /\ NoMembers(row) /\ OrphanOK(workspace, row, orphaned)
    BY <1>1, <1>2 DEF RowsOK, NoMembers, OrphanOK, Init
  <1>5. CallInv(Idle)
    BY <1>2, <1>4, IdleFields
       DEF Init, CallInv, Named, NothingUnowned, Unentered, StillTransfers, StillMembers,
           StillInvited, StillFounding, OneOwner, Invited
  <1>6. QED BY <1>2, <1>3, <1>4, <1>5 DEF Sound

(* Calls one after the other: the only one there is keeps all of it.        *)
LEMMA NextSound ==
    ASSUME NEW p, Calls = {p}, Sound(p), [Next]_vars
    PROVE  Sound(p)'
  <1>1. p \in Calls
    OBVIOUS
  <1>2. CASE UNCHANGED vars
    BY <1>2 DEF vars, tables, Sound, TypeOK, CallInv
  <1>3. CASE Step(p)
    BY <1>1, <1>3, FailSound, AuthorizeSound, LooksSound, LookupSound, FoundSound,
       TransferSound, MembersSound, GoneSound, EraseSound, InvitationsSound, JoinSound
       DEF Step
  <1>4. ASSUME NEW op \in Ops, NEW a \in Accounts, NEW t \in Accounts,
               NEW r \in Assignable, NEW i \in Invitations \cup {None},
               Request(p, op, a, t, r, i)
        PROVE  Sound(p)'
    BY <1>1, <1>4, RequestSound
  <1>5. QED BY <1>2, <1>3, <1>4 DEF Next

(* Calls one after the other, each of which may stop between any two of its
   database requests: the tables keep their types.                          *)
THEOREM MembershipTypeCorrect ==
    ASSUME NEW CONSTANT p, Calls = {p} PROVE Spec => []TypeOK
  <1>1. Init => Sound(p)
    BY InitSound
  <1>2. Sound(p) /\ [Next]_vars => Sound(p)'
    BY NextSound
  <1>3. Sound(p) => TypeOK
    BY DEF Sound
  <1>4. QED BY <1>1, <1>2, <1>3, PTL DEF Spec

(* After calls that all ran to their end, a workspace has one owner; or
   none, if the account of its only owner was deleted.                      *)
THEOREM OneOwnerStays ==
    ASSUME NEW CONSTANT p, Calls = {p} PROVE Spec => []ExactlyOneOwner
  <1>1. Init => Sound(p)
    BY InitSound
  <1>2. Sound(p) /\ [Next]_vars => Sound(p)'
    BY NextSound
  <1>3. Sound(p) => ExactlyOneOwner
    <2> SUFFICES ASSUME Sound(p), Quiescent, ~broken, workspace \in {"live", "deleted"}
                 PROVE  Cardinality(Owners) = IF orphaned THEN 0 ELSE 1
      BY DEF ExactlyOneOwner
    <2>1. call[p].at = "idle"
      BY DEF Quiescent
    <2>2. Owners = OwnersIn(row)
      BY DEF Owners, OwnersIn, Holds, Membership
    <2>3. CASE orphaned
      BY <2>2, <2>3, FS_EmptySet DEF Sound, OrphanOK
    <2>4. CASE ~orphaned
      <3>1. PICK o \in Accounts : OwnersIn(row) = {o}
        BY <2>1, <2>4 DEF Sound, CallInv, OneOwner, OwnersOf
      <3>2. QED BY <2>2, <2>4, <3>1, FS_Singleton
    <2>5. QED BY <2>3, <2>4
  <1>4. QED BY <1>1, <1>2, <1>3, PTL DEF Spec

(* Wherever calls stopped, members have an owner, until the account of the
   last one is deleted.                                                     *)
THEOREM OwnerWhileMembers ==
    ASSUME NEW CONSTANT p, Calls = {p} PROVE Spec => []MembersHaveOwner
  <1>1. Init => Sound(p)
    BY InitSound
  <1>2. Sound(p) /\ [Next]_vars => Sound(p)'
    BY NextSound
  <1>3. Sound(p) => MembersHaveOwner
    <2> SUFFICES ASSUME Sound(p), ~orphaned, NEW a \in Accounts, Membership(a) # "none"
                 PROVE  Owners # {}
      BY DEF MembersHaveOwner
    <2>1. Owned(row, orphaned) /\ p \in Calls
      BY MembersOwned
    <2>2. Owners = OwnersIn(row)
      BY DEF Owners, OwnersIn, Holds, Membership
    <2>3. QED BY <2>1, <2>2 DEF Owned
  <1>4. QED BY <1>1, <1>2, <1>3, PTL DEF Spec

(* Members other than the founder came by an invitation that is used up.    *)
THEOREM MembersWereInvited ==
    ASSUME NEW CONSTANT p, Calls = {p} PROVE Spec => []JoinedByInvitation
  <1>1. Init => Sound(p)
    BY InitSound
  <1>2. Sound(p) /\ [Next]_vars => Sound(p)'
    BY NextSound
  <1>3. Sound(p) => JoinedByInvitation
    BY DEF Sound, CallInv, Invited, UsedUp, JoinedByInvitation, Exists, At
  <1>4. QED BY <1>1, <1>2, <1>3, PTL DEF Spec

(* Only a pending invitation is accepted.                                   *)
THEOREM PendingBeforeAccepted ==
    ASSUME NEW CONSTANT p, Calls = {p} PROVE Spec => AcceptedFromPending
  <1>1. Init => Sound(p)
    BY InitSound
  <1>2. Sound(p) /\ [Next]_vars => Sound(p)'
    BY NextSound
  <1>3. Sound(p) /\ [Next]_vars =>
           [\A i \in Invitations : inv'[i].status = "accepted"
                                      => inv[i].status \in {"pending", "accepted"}]_vars
    <2> SUFFICES ASSUME Sound(p), Next, NEW i \in Invitations, inv'[i].status = "accepted"
                 PROVE  inv[i].status \in {"pending", "accepted"}
      OBVIOUS
    <2>1. inv \in [Invitations -> Invs]
      BY TypesAre DEF Sound
    <2>2. CASE inv' = inv
      BY <2>2
    <2>3. CASE AcceptWrite(p)
      BY <2>1, <2>3 DEF AcceptWrite, At, SetStatus, Sound, CallInv, StillInvited
    <2>4. CASE InviteInsert(p)
      BY <2>1, <2>4 DEF InviteInsert
    <2>5. CASE RevokeWrite(p) \/ AcceptExpired(p)
      <3>1. PICK s \in {"revoked", "expired"} : SetStatus(call[p].inv, s)
        BY <2>5 DEF RevokeWrite, AcceptExpired
      <3>2. inv[i] \in Invs
        BY <2>1
      <3>3. CASE i = call[p].inv
        BY <2>1, <3>1, <3>2, <3>3, InvsAre DEF SetStatus
      <3>4. CASE i # call[p].inv
        BY <2>1, <3>1, <3>4 DEF SetStatus
      <3>5. QED BY <3>3, <3>4
    <2>6. CASE PurgeWrite(p)
      BY <2>6 DEF PurgeWrite, NoInv
    <2>12. CASE EraseAccount(p)
      <3>1. inv' = WithoutInviter(call[p].actor)
        BY <2>12 DEF EraseAccount
      <3>2. NoInv.status # "accepted" /\ Erased(inv[i].email).status # "accepted"
        BY DEF NoInv, Erased
      <3>3. QED BY <3>1, <3>2 DEF WithoutInviter
    <2>7. CASE \/ Fail(p) \/ Authorize(p) \/ CreateWorkspace(p) \/ CreateOwner(p)
               \/ TransferTarget(p) \/ Promote(p) \/ Demote(p) \/ RoleTarget(p) \/ RoleWrite(p)
               \/ RemoveTarget(p) \/ RemoveWrite(p) \/ LeaveWorkspace(p) \/ LeaveMember(p)
      <3>1. inv' = inv
        BY <2>7 DEF Fail, Authorize, CreateWorkspace, CreateOwner, TransferTarget, Promote,
                    Demote, RoleTarget, RoleWrite, RemoveTarget, RemoveWrite,
                    LeaveWorkspace, LeaveMember, tables
      <3>2. QED BY <2>2, <3>1
    <2>8. CASE \/ LeaveWrite(p) \/ DeleteWrite(p) \/ InvitePending(p) \/ RevokeList(p)
               \/ AcceptLookup(p) \/ AcceptMember(p) \/ AcceptJoin(p) \/ PurgeOwned(p)
               \/ EraseRefused(p)
      <3>1. inv' = inv
        BY <2>8 DEF LeaveWrite, DeleteWrite, InvitePending, RevokeList, AcceptLookup,
                    AcceptMember, AcceptJoin, PurgeOwned, EraseRefused, tables
      <3>2. QED BY <2>2, <3>1
    <2>9. CASE Step(p)
      BY <2>3, <2>4, <2>5, <2>6, <2>7, <2>8, <2>9, <2>12 DEF Step
    <2>10. CASE ~Step(p)
      <3>1. inv' = inv
        BY <2>10 DEF Next, Request, tables
      <3>2. QED BY <2>2, <3>1
    <2>11. QED BY <2>9, <2>10
  <1>4. QED BY <1>1, <1>2, <1>3, PTL DEF Spec, AcceptedFromPending
=============================================================================
