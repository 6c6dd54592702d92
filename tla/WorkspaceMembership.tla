------------------------ MODULE WorkspaceMembership ------------------------
(***************************************************************************)
(* The life of a shared workspace: WorkspaceService over the tables of the *)
(* database.  A service call reads, checks what it read, and then writes,  *)
(* each with a request of its own; no transaction holds them together, and *)
(* any of them may fail and end the call.  So each action here is one      *)
(* database request with the code that follows it.                         *)
(*                                                                         *)
(* `viewer' is not told apart from `developer': neither may manage members.*)
(***************************************************************************)
EXTENDS Integers, FiniteSets

CONSTANTS
    Accounts,
    Invitations,   \* invitation ids; bound: as many as are ever created
    Calls,         \* service calls in progress; an ended one is used again
    None

ASSUME MembershipAssumption ==
    None \notin Accounts \cup Invitations
                \cup {"owner", "admin", "developer", "active", "left"}

VARIABLES
    workspace,   \* "none", "live", "deleted" (deleted_at is set), "purged"
    founder,     \* owner_user_id
    row,         \* workspace_members: role and status of each account
    inv,         \* workspace_invitations
    gone,        \* accounts that were deleted
    call,        \* calls in progress: where they are and what they have read
    broken,      \* a call failed between two of its requests
    orphaned     \* the account of the only owner was deleted

tables == <<workspace, founder, row, inv, gone, orphaned>>
vars   == <<tables, call, broken>>

Roles      == {"owner", "admin", "developer"}
Assignable == Roles \ {"owner"}
Managers   == {"owner", "admin"}   \* have workspace:manage_members and :invite

Ops == {"create", "transfer", "role", "remove", "leave", "delete",
        "invite", "revoke", "accept", "purge"}

NoRow == [role |-> None, status |-> None]
NoInv == [email |-> None, by |-> None, role |-> None, status |-> "none"]
Erased(a) == [NoInv EXCEPT !.email = a, !.status = "erased"]   \* see WithoutInviter
Idle  == [op |-> None, at |-> "idle", actor |-> None, target |-> None,
          role |-> None, inv |-> None, seen |-> None]

TypeOK ==
    /\ workspace \in {"none", "live", "deleted", "purged"}
    /\ founder \in Accounts \cup {None}
    /\ row \in [Accounts -> [role : Roles, status : {"active", "left"}] \cup {NoRow}]
    /\ inv \in [Invitations ->
                  [email : Accounts, by : Accounts, role : Assignable, status : {"pending"}]
                      \cup [email : Accounts, by : Accounts, role : {None},
                            status : {"accepted", "revoked", "expired"}]
                      \cup {NoInv} \cup {Erased(a) : a \in Accounts}]
    /\ gone \subseteq Accounts
    /\ call \in [Calls ->
                   [op : Ops \cup {None},
                    at : {"idle", "workspace", "own", "authorize", "target", "promote",
                          "demote", "write", "pending", "insert", "lookup", "expire",
                          "member", "join", "accepted", "erase"},
                    actor : Accounts \cup {None}, target : Accounts \cup {None},
                    role : Roles \cup {None}, inv : Invitations \cup {None},
                    seen : Roles \cup {None}]]
    /\ {broken, orphaned} \subseteq BOOLEAN

Init ==
    /\ workspace = "none"
    /\ founder = None
    /\ row = [a \in Accounts |-> NoRow]
    /\ inv = [i \in Invitations |-> NoInv]
    /\ gone = {}
    /\ call = [p \in Calls |-> Idle]
    /\ broken = FALSE /\ orphaned = FALSE

(* findMembership() sees active rows only; "none" stands for undefined.     *)
Membership(a) == IF row[a].status = "active" THEN row[a].role ELSE "none"
Owners        == {a \in Accounts : Membership(a) = "owner"}

Goto(p, at) == call' = [call EXCEPT ![p].at = at]
End(p)      == call' = [call EXCEPT ![p] = Idle]

(* The next step of the call if the check holds, and else an exception.    *)
Check(p, condition, at) == IF condition THEN Goto(p, at) ELSE End(p)

At(p, op, at) == call[p].op = op /\ call[p].at = at

-----------------------------------------------------------------------------
(* A call arrives, with a token of an account that is there.  What it may
   ask for is any account, role or invitation.                             *)
FirstStep(op) == CASE op \in {"create", "leave"} -> "workspace"
                   [] op = "accept"              -> "lookup"
                   [] op = "purge"               -> "pending"
                   [] OTHER                      -> "authorize"

Request(p, op, a, t, r, i) ==
    /\ call[p].at = "idle"
    /\ a \notin gone
    /\ op \in {"transfer", "role", "remove", "invite"} \/ t = a
    /\ op \in {"role", "invite"} \/ r = "developer"
    /\ i = None <=> op \notin {"invite", "revoke", "accept"}
    /\ op = "create" <=> workspace = "none"
    /\ call' = [call EXCEPT ![p] = [op |-> op, at |-> FirstStep(op), actor |-> a,
                                    target |-> t, role |-> r, inv |-> i, seen |-> None]]
    /\ UNCHANGED <<tables, broken>>

(* The database request of the call fails.                                 *)
Fail(p) ==
    /\ call[p].at # "idle"
    /\ broken' = TRUE
    /\ End(p)
    /\ UNCHANGED tables

(* assertPermission() and the check of the role it returned.               *)
Allowed(op, role) ==
    IF op \in {"transfer", "delete"} THEN role = "owner" ELSE role \in Managers

Authorize(p) ==
    LET c == call[p]
        m == Membership(c.actor)
    IN  /\ c.at = "authorize"
        /\ IF m # "none" /\ Allowed(c.op, m) /\ ~(c.op = "transfer" /\ c.target = c.actor)
           THEN call' = [call EXCEPT
                           ![p].seen = m,
                           ![p].at = CASE c.op \in {"transfer", "role", "remove"} -> "target"
                                       [] c.op = "delete" -> "write"
                                       [] OTHER           -> "pending"]
           ELSE End(p)
        /\ UNCHANGED <<tables, broken>>

-----------------------------------------------------------------------------
(* createSharedWorkspace(): the workspace, then its owner's membership.    *)
CreateWorkspace(p) ==
    /\ At(p, "create", "workspace")
    /\ IF workspace = "none"
       THEN /\ workspace' = "live"
            /\ founder' = call[p].actor
            /\ Goto(p, "own")
       ELSE UNCHANGED <<workspace, founder>> /\ End(p)
    /\ UNCHANGED <<row, inv, gone, broken, orphaned>>

CreateOwner(p) ==
    /\ At(p, "create", "own")
    /\ row' = IF workspace = "purged" THEN row
              ELSE [row EXCEPT ![call[p].actor] = [role |-> "owner", status |-> "active"]]
    /\ End(p)
    /\ UNCHANGED <<workspace, founder, inv, gone, broken, orphaned>>

(* transferOwnership()                                                     *)
TransferTarget(p) ==
    /\ At(p, "transfer", "target")
    /\ Check(p, Membership(call[p].target) # "none", "promote")
    /\ UNCHANGED <<tables, broken>>

(* updateMemberRole() of the repository patches the row whatever its status;
   a row that is gone is an error.                                         *)
SetRole(a, role) == row' = [row EXCEPT ![a].role = IF @ = None THEN @ ELSE role]
Exists(a) == row[a] # NoRow

(* Faulty variant: the owner steps down before the target steps up.        *)
PromoteDemotesFirst(p) ==
    /\ At(p, "transfer", "promote")
    /\ SetRole(call[p].actor, "admin")
    /\ call' = [call EXCEPT ![p].at = "demote",
                            ![p].actor = call[p].target, ![p].role = "owner"]
    /\ UNCHANGED <<workspace, founder, inv, gone, broken, orphaned>>

Promote(p) ==
    /\ At(p, "transfer", "promote")
    /\ SetRole(call[p].target, "owner")
    /\ Check(p, Exists(call[p].target), "demote")
    /\ UNCHANGED <<workspace, founder, inv, gone, broken, orphaned>>

(* Faulty variant: the old owner keeps the role.                           *)
DemoteForgotten(p) ==
    /\ At(p, "transfer", "demote")
    /\ End(p)
    /\ UNCHANGED <<tables, broken>>

Demote(p) ==
    /\ At(p, "transfer", "demote")
    /\ SetRole(call[p].actor, "admin")
    /\ End(p)
    /\ UNCHANGED <<workspace, founder, inv, gone, broken, orphaned>>

(* updateMemberRole()                                                      *)
RoleTarget(p) ==
    LET c == call[p]
        t == Membership(c.target)
    IN  /\ At(p, "role", "target")
        /\ Check(p, /\ t \notin {"none", "owner"}
                    /\ ~(c.seen = "admin" /\ t = "admin" /\ c.actor # c.target)
                    /\ c.target = c.actor => c.role = c.seen,
                 "write")
        /\ UNCHANGED <<tables, broken>>

RoleWrite(p) ==
    /\ At(p, "role", "write")
    /\ SetRole(call[p].target, call[p].role)
    /\ End(p)
    /\ UNCHANGED <<workspace, founder, inv, gone, broken, orphaned>>

(* removeMember()                                                          *)
RemoveTarget(p) ==
    LET c == call[p]
        t == Membership(c.target)
    IN  /\ At(p, "remove", "target")
        /\ Check(p, /\ t \notin {"none", "owner"}
                    /\ ~(c.seen = "admin" /\ t = "admin")
                    /\ c.target # c.actor,
                 "write")
        /\ UNCHANGED <<tables, broken>>

RemoveWrite(p) ==
    /\ At(p, "remove", "write")
    /\ row' = [row EXCEPT ![call[p].target] = NoRow]
    /\ End(p)
    /\ UNCHANGED <<workspace, founder, inv, gone, broken, orphaned>>

(* leaveWorkspace()                                                        *)
LeaveWorkspace(p) ==
    /\ At(p, "leave", "workspace")
    /\ Check(p, workspace = "live", "member")
    /\ UNCHANGED <<tables, broken>>

LeaveMember(p) ==
    /\ At(p, "leave", "member")
    /\ Check(p, Membership(call[p].actor) \notin {"none", "owner"}, "write")
    /\ UNCHANGED <<tables, broken>>

LeaveWrite(p) ==
    /\ At(p, "leave", "write")
    /\ row' = [row EXCEPT ![call[p].actor].status = IF @ = None THEN @ ELSE "left"]
    /\ End(p)
    /\ UNCHANGED <<workspace, founder, inv, gone, broken, orphaned>>

(* deleteWorkspace(): the read of the workspace and the confirmed patch are
   one step, as the patch is conditional on the workspace being live.      *)
DeleteWrite(p) ==
    /\ At(p, "delete", "write")
    /\ workspace' = IF workspace = "live" THEN "deleted" ELSE workspace
    /\ End(p)
    /\ UNCHANGED <<founder, row, inv, gone, broken, orphaned>>

-----------------------------------------------------------------------------
(* inviteMember()                                                          *)
PendingFor(a) == \E i \in Invitations : inv[i].status = "pending" /\ inv[i].email = a

InvitePending(p) ==
    /\ At(p, "invite", "pending")
    /\ Check(p, ~PendingFor(call[p].target) /\ inv[call[p].inv] = NoInv, "insert")
    /\ UNCHANGED <<tables, broken>>

(* The unique index on pending invitations refuses a second one, and the
   row refers to its workspace and to the account that invites.            *)
InviteInsert(p) ==
    LET c == call[p]
        refused == \/ PendingFor(c.target) \/ inv[c.inv] # NoInv
                   \/ workspace = "purged" \/ c.actor \in gone
    IN  /\ At(p, "invite", "insert")
        /\ inv' = IF refused THEN inv
                  ELSE [inv EXCEPT ![c.inv] = [email |-> c.target, by |-> c.actor,
                                               role |-> c.role, status |-> "pending"]]
        /\ End(p)
        /\ UNCHANGED <<workspace, founder, row, gone, broken, orphaned>>

(* A row that is gone is not patched.  The role of an invitation is kept as
   long as it is pending: nobody reads it afterwards.                      *)
SetStatus(i, status) ==
    inv' = IF inv[i].status \in {"none", "erased"} THEN inv
           ELSE [inv EXCEPT ![i].status = status, ![i].role = None]

(* revokeInvitation()                                                      *)
RevokeList(p) ==
    /\ At(p, "revoke", "pending")
    /\ Check(p, inv[call[p].inv].status = "pending", "write")
    /\ UNCHANGED <<tables, broken>>

RevokeWrite(p) ==
    /\ At(p, "revoke", "write")
    /\ SetStatus(call[p].inv, "revoked")
    /\ End(p)
    /\ UNCHANGED <<workspace, founder, row, gone, broken, orphaned>>

(* acceptInvitation().  An invitation's time may have run out at any look. *)

CheckInvitation(p, i, open) ==
    IF open /\ i.email = call[p].actor
    THEN call' = [call EXCEPT ![p].at = "member", ![p].role = i.role]
    ELSE End(p)

(* Faulty variant: an invitation is accepted whatever its status.          *)
AcceptAnyStatus(p) ==
    LET i == inv[call[p].inv]
    IN  /\ At(p, "accept", "lookup")
        /\ \/ CheckInvitation(p, i, i # NoInv)
           \/ i.status = "pending" /\ Goto(p, "expire")
        /\ UNCHANGED <<tables, broken>>

AcceptLookup(p) ==
    LET i == inv[call[p].inv]
    IN  /\ At(p, "accept", "lookup")
        /\ \/ CheckInvitation(p, i, i.status = "pending")
           \/ i.status = "pending" /\ Goto(p, "expire")
        /\ UNCHANGED <<tables, broken>>

AcceptExpired(p) ==
    /\ At(p, "accept", "expire")
    /\ SetStatus(call[p].inv, "expired")
    /\ End(p)
    /\ UNCHANGED <<workspace, founder, row, gone, broken, orphaned>>

AcceptMember(p) ==
    /\ At(p, "accept", "member")
    /\ Goto(p, IF Membership(call[p].actor) = "none" THEN "join" ELSE "accepted")
    /\ UNCHANGED <<tables, broken>>

(* Faulty variant: the invitation is not marked as accepted.               *)
AcceptJoinEnds(p) ==
    LET c     == call[p]
        fresh == ~Exists(c.actor) /\ workspace # "purged" /\ c.actor \notin gone
    IN  /\ At(p, "accept", "join")
        /\ row' = IF ~fresh THEN row
                  ELSE [row EXCEPT ![c.actor] = [role |-> c.role, status |-> "active"]]
        /\ End(p)
        /\ UNCHANGED <<workspace, founder, inv, gone, broken, orphaned>>

(* One row per account and workspace: an account that left cannot join.    *)
AcceptJoin(p) ==
    LET c     == call[p]
        fresh == ~Exists(c.actor) /\ workspace # "purged" /\ c.actor \notin gone
    IN  /\ At(p, "accept", "join")
        /\ row' = IF ~fresh THEN row
                  ELSE [row EXCEPT ![c.actor] = [role |-> c.role, status |-> "active"]]
        /\ Check(p, fresh, "accepted")
        /\ UNCHANGED <<workspace, founder, inv, gone, broken, orphaned>>

AcceptWrite(p) ==
    /\ At(p, "accept", "accepted")
    /\ SetStatus(call[p].inv, "accepted")
    /\ End(p)
    /\ UNCHANGED <<workspace, founder, row, gone, broken, orphaned>>

-----------------------------------------------------------------------------
(* purgeOwnedWorkspacesForAccountDeletion(): by owner_user_id, and with the
   workspace its members and invitations go.                               *)
PurgeOwned(p) ==
    /\ At(p, "purge", "pending")
    /\ Goto(p, IF founder = call[p].actor /\ workspace # "purged" THEN "write" ELSE "erase")
    /\ UNCHANGED <<tables, broken>>

PurgeWrite(p) ==
    /\ At(p, "purge", "write")
    /\ workspace' = "purged"
    /\ row' = [a \in Accounts |-> NoRow]
    /\ inv' = [i \in Invitations |-> NoInv]
    /\ Goto(p, "erase")
    /\ UNCHANGED <<founder, gone, broken, orphaned>>

(* deleteAccount(): a confirmation that was not typed, a token that is no
   longer good or a workspace it founded refuse the deletion.              *)
EraseRefused(p) ==
    /\ At(p, "purge", "erase")
    /\ End(p)
    /\ UNCHANGED <<tables, broken>>

(* With the account go its membership and the invitations it made ("erased"
   remembers of those, for JoinedByInvitation, the accepted ones).         *)
WithoutInviter(a) ==
    [i \in Invitations |->
        CASE inv[i].by # a                                   -> inv[i]
          [] inv[i].by = a /\ inv[i].status = "accepted" -> Erased(inv[i].email)
          [] OTHER                                          -> NoInv]

EraseAccount(p) ==
    LET a == call[p].actor
    IN  /\ At(p, "purge", "erase")
        /\ a \notin gone
        /\ founder = a => workspace = "purged"
        /\ gone' = gone \cup {a}
        /\ row' = [row EXCEPT ![a] = NoRow]
        /\ inv' = WithoutInviter(a)
        /\ orphaned' = (orphaned \/ Owners = {a})
        /\ End(p)
        /\ UNCHANGED <<workspace, founder, broken>>

Step(p) ==
    \/ Fail(p) \/ Authorize(p)
    \/ CreateWorkspace(p) \/ CreateOwner(p)
    \/ TransferTarget(p) \/ Promote(p) \/ Demote(p)
    \/ RoleTarget(p) \/ RoleWrite(p)
    \/ RemoveTarget(p) \/ RemoveWrite(p)
    \/ LeaveWorkspace(p) \/ LeaveMember(p) \/ LeaveWrite(p)
    \/ DeleteWrite(p)
    \/ InvitePending(p) \/ InviteInsert(p)
    \/ RevokeList(p) \/ RevokeWrite(p)
    \/ AcceptLookup(p) \/ AcceptExpired(p) \/ AcceptMember(p)
    \/ AcceptJoin(p) \/ AcceptWrite(p)
    \/ PurgeOwned(p) \/ PurgeWrite(p) \/ EraseRefused(p) \/ EraseAccount(p)

Next ==
    \E p \in Calls :
        \/ Step(p)
        \/ \E op \in Ops, a, t \in Accounts, r \in Assignable, i \in Invitations \cup {None} :
              Request(p, op, a, t, r, i)

Spec == Init /\ [][Next]_vars

-----------------------------------------------------------------------------
Quiescent == \A p \in Calls : call[p].at = "idle"

(* Between service calls that all ran to their end a workspace has exactly
   one owner, whatever was transferred, changed, left or removed before; and
   none for good, once the account of an owner by transfer was deleted.     *)
ExactlyOneOwner ==
    Quiescent /\ ~broken /\ workspace \in {"live", "deleted"} =>
        Cardinality(Owners) = IF orphaned THEN 0 ELSE 1

(* "Owners must transfer ownership before leaving": at every moment, also
   while a call is half done, a workspace with members has an owner.  Only
   the deletion of the last owner's account leaves members without one.    *)
MembersHaveOwner ==
    ~orphaned /\ (\E a \in Accounts : Membership(a) # "none") => Owners # {}

(* Everybody but the founder is in by an invitation, which is used up: it
   is accepted, or will be at the end of the call that added the member.
   (A call that fails in between leaves it pending; the deletion of the
   account that invited takes the row, but not the member.)                *)
JoinedByInvitation ==
    \A a \in Accounts : Exists(a) /\ a # founder =>
        \/ broken
        \/ \E i \in Invitations : inv[i].email = a /\ inv[i].status \in {"accepted", "erased"}
        \/ \E p \in Calls : At(p, "accept", "accepted") /\ call[p].actor = a

(* "Invitation is no longer pending": only a pending invitation becomes an
   accepted one.                                                           *)
AcceptedFromPending ==
    [][\A i \in Invitations : inv'[i].status = "accepted"
                                  => inv[i].status \in {"pending", "accepted"}]_vars

(* "Hard-deletes every workspace owned by the user": after calls that all
   ran to their end, no workspace is purged for one account while it has
   another for its owner.                                                  *)
PurgedForItsOwner ==
    [][~broken /\ workspace # "purged" /\ workspace' = "purged" =>
          \E p \in Calls : At(p, "purge", "write") /\ Owners \subseteq {call[p].actor}]_vars

(* The same words, of the workspaces that stay: none has lost the account
   of its owner.                                                           *)
OwnedGoesWithAccount ==
    [][~broken => \A a \in gone' \ gone : Membership(a) # "owner"]_vars
=============================================================================
