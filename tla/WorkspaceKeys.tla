--------------------------- MODULE WorkspaceKeys ---------------------------
(***************************************************************************)
(* The API keys of a shared workspace: the routes that create, rotate and  *)
(* revoke them, the page that offers these to its members, and the         *)
(* deletion of an account, which takes the account's keys and workspaces   *)
(* with it.                                                                *)
(*                                                                         *)
(* As in WorkspaceMembership a call is a chain of database requests, each  *)
(* of them an action here with the code that follows it, and each may      *)
(* fail.  How members come and go is that module's matter: here their      *)
(* roles just change, and `viewer' is not told apart from `developer'.     *)
(* Secrets are numbered in the order they were made, and a key's expiry is *)
(* left out.                                                               *)
(***************************************************************************)
EXTENDS Integers, FiniteSets

CONSTANTS
    Accounts,
    Keys,         \* bound: as many keys as are ever created
    Calls,        \* calls in progress; an ended one is used again
    MaxSecrets,   \* bound on the secrets ever made
    MaxChanges,   \* bound on changes of role
    None

ASSUME KeysAssumption ==
    None \notin Accounts \cup Keys /\ MaxSecrets \in Nat /\ MaxChanges \in Nat

VARIABLES
    account,    \* the accounts that exist
    workspace,  \* whether the workspace exists
    founder,    \* owner_user_id of the workspace
    role,       \* each account's role in the workspace
    key,        \* workspace_api_keys
    secrets,    \* secrets made so far
    call,       \* calls in progress
    changes,
    raced       \* (history) keys revoked while a rotation of them went on

vars == <<account, workspace, founder, role, key, secrets, call, changes, raced>>

Roles == {"owner", "admin", "developer"}
Ops   == {"create", "rotate", "revoke", "erase"}
NoKey == [creator |-> None, secret |-> 0, revoked |-> FALSE]
Idle  == [op |-> None, at |-> "idle", actor |-> None, key |-> None,
          known |-> None, confirmed |-> FALSE]

Row    == [creator : Accounts, secret : 1..MaxSecrets, revoked : BOOLEAN]
Places == {"idle", "guard", "manage", "find", "write",
           "keys", "owned", "purge", "verify", "delete"}
Progress == [op : Ops \cup {None}, at : Places, actor : Accounts \cup {None},
             key : Keys \cup {None}, known : Roles \cup {None}, confirmed : BOOLEAN]

TypeOK ==
    /\ account \subseteq Accounts
    /\ workspace \in BOOLEAN
    /\ founder \in Accounts
    /\ role \in [Accounts -> Roles \cup {None}]
    /\ key \in [Keys -> Row \cup {NoKey}]
    /\ secrets \in 0..MaxSecrets
    /\ call \in [Calls -> Progress]
    /\ changes \in 0..MaxChanges
    /\ raced \subseteq Keys

(* A workspace of which some account is the owner; the founder may have
   handed it over.                                                         *)
Init ==
    /\ account = Accounts
    /\ workspace = TRUE
    /\ founder \in Accounts
    /\ role \in [Accounts -> Roles]
    /\ Cardinality({a \in Accounts : role[a] = "owner"}) = 1
    /\ key = [k \in Keys |-> NoKey]
    /\ secrets = 0
    /\ call = [p \in Calls |-> Idle]
    /\ changes = 0
    /\ raced = {}

Goto(p, at) == call' = [call EXCEPT ![p].at = at]
End(p)      == call' = [call EXCEPT ![p] = Idle]
Check(p, condition, at) == IF condition THEN Goto(p, at) ELSE End(p)
At(p, op, at) == call[p].op = op /\ call[p].at = at

Exists(k) == key[k] # NoKey
Tables    == <<account, workspace, founder, role, key, secrets>>
History   == <<changes, raced>>

-----------------------------------------------------------------------------
(* Who may do what: the page's canManage, and the server's table.          *)
PageCanManage(r) == r \in {"owner", "admin"}

(* Faulty variant: the table forgets the permission of admins.             *)
OwnersManageKeys(r) == r = "owner"

MayManageKeys(r) == r \in {"owner", "admin"}

(* A request with the token of an account.  `known' is the role the page
   shows, if it is the page that offered the operation.                    *)
Request(p, op, a, k, confirmed) ==
    /\ call[p].at = "idle"
    /\ a \in account
    /\ op = "rotate" \/ op = "revoke" <=> k # None
    /\ confirmed => op = "erase"
    /\ call' = [call EXCEPT ![p] =
         [op |-> op, at |-> IF op = "erase" THEN "keys" ELSE "guard", actor |-> a, key |-> k,
          known |-> IF op # "erase" /\ PageCanManage(role[a]) THEN role[a] ELSE None,
          confirmed |-> confirmed]]
    /\ UNCHANGED <<Tables, History>>

Fail(p) ==
    /\ call[p].at # "idle"
    /\ End(p)
    /\ UNCHANGED <<Tables, History>>

(* WorkspacePermissionGuard and requireManage() each read the membership.  *)
Admitted(a) == workspace /\ MayManageKeys(role[a])

Guard(p) ==
    /\ call[p].at = "guard"
    /\ Check(p, Admitted(call[p].actor), "manage")
    /\ UNCHANGED <<Tables, History>>

Manage(p) ==
    /\ call[p].at = "manage"
    /\ Check(p, Admitted(call[p].actor), IF call[p].op = "create" THEN "write" ELSE "find")
    /\ UNCHANGED <<Tables, History>>

(* Faulty variant: the row does not refer to the account.                  *)
ReferencesWorkspace(a) == workspace

(* create(): the row refers to its workspace and to its creator's account. *)
References(a) == workspace /\ a \in account

Create(p) ==
    LET a == call[p].actor
    IN  /\ At(p, "create", "write")
        /\ IF References(a) /\ secrets < MaxSecrets /\ \E k \in Keys : ~Exists(k)
           THEN /\ secrets' = secrets + 1
                /\ \E k \in Keys :
                      /\ ~Exists(k)
                      /\ key' = [key EXCEPT ![k] = [creator |-> a, secret |-> secrets',
                                                    revoked |-> FALSE]]
                      /\ raced' = raced \ {k}
           ELSE UNCHANGED <<key, secrets, raced>>
        /\ End(p)
        /\ UNCHANGED <<account, workspace, founder, role, changes>>

(* Faulty variant: revoked keys are rotated as well.                       *)
RotateFindAny(p) ==
    /\ At(p, "rotate", "find")
    /\ Check(p, Exists(call[p].key), "write")
    /\ UNCHANGED <<Tables, History>>

(* rotate(): "Cannot rotate a revoked API key."                            *)
RotateFind(p) ==
    LET k == call[p].key
    IN  /\ At(p, "rotate", "find")
        /\ Check(p, Exists(k) /\ ~key[k].revoked, "write")
        /\ UNCHANGED <<Tables, History>>

(* The patch sets the new hash and resets revoked_at.                      *)
RotateWrite(p) ==
    LET k == call[p].key
    IN  /\ At(p, "rotate", "write")
        /\ IF Exists(k) /\ secrets < MaxSecrets
           THEN /\ secrets' = secrets + 1
                /\ key' = [key EXCEPT ![k].secret = secrets', ![k].revoked = FALSE]
           ELSE UNCHANGED <<key, secrets>>
        /\ End(p)
        /\ UNCHANGED <<account, workspace, founder, role, History>>

(* revoke(): a key that is revoked already is left as it is.               *)
RevokeFind(p) ==
    LET k == call[p].key
    IN  /\ At(p, "revoke", "find")
        /\ Check(p, Exists(k) /\ ~key[k].revoked, "write")
        /\ UNCHANGED <<Tables, History>>

Rotating(k) == \E q \in Calls : At(q, "rotate", "write") /\ call[q].key = k

Revoked(ks) ==
    /\ key' = [k \in Keys |-> IF k \in ks THEN [key[k] EXCEPT !.revoked = TRUE] ELSE key[k]]
    /\ raced' = raced \cup {k \in ks : Rotating(k)}

RevokeWrite(p) ==
    /\ At(p, "revoke", "write")
    /\ Revoked({k \in Keys : k = call[p].key /\ Exists(k)})
    /\ End(p)
    /\ UNCHANGED <<account, workspace, founder, role, secrets, changes>>

-----------------------------------------------------------------------------
(* DELETE account: the controller revokes the account's keys ...           *)
EraseKeys(p) ==
    LET a == call[p].actor
    IN  /\ At(p, "erase", "keys")
        /\ Revoked({k \in Keys : key[k].creator = a /\ ~key[k].revoked})
        /\ Goto(p, "owned")
        /\ UNCHANGED <<account, workspace, founder, role, secrets, changes>>

(* ... finds and hard-deletes the workspaces it founded, with their members
   and keys ...                                                            *)
EraseOwned(p) ==
    /\ At(p, "erase", "owned")
    /\ Goto(p, IF workspace /\ founder = call[p].actor THEN "purge" ELSE "verify")
    /\ UNCHANGED <<Tables, History>>

ErasePurge(p) ==
    /\ At(p, "erase", "purge")
    /\ workspace' = FALSE
    /\ role' = [a \in Accounts |-> None]
    /\ key' = [k \in Keys |-> NoKey]
    /\ Goto(p, "verify")
    /\ UNCHANGED <<account, founder, secrets, History>>

(* ... and AuthService.deleteAccount() then looks at the confirmation and
   verifies the token again.                                               *)
EraseVerify(p) ==
    /\ At(p, "erase", "verify")
    /\ Check(p, call[p].confirmed /\ call[p].actor \in account, "delete")
    /\ UNCHANGED <<Tables, History>>

(* The deletion of the account deletes its memberships and the keys it
   created; a workspace it founded refuses it.                             *)
KeysOf(a) == {k \in Keys : key[k].creator = a}

EraseDelete(p) ==
    LET a == call[p].actor
    IN  /\ At(p, "erase", "delete")
        /\ IF workspace /\ founder = a
           THEN UNCHANGED <<account, role, key>>
           ELSE /\ account' = account \ {a}
                /\ role' = [role EXCEPT ![a] = None]
                /\ key' = [k \in Keys |-> IF k \in KeysOf(a) THEN NoKey ELSE key[k]]
        /\ End(p)
        /\ UNCHANGED <<workspace, founder, secrets, History>>

(* Somebody changes the role of a member, or removes it.                   *)
ChangeRole(a, r) ==
    /\ changes < MaxChanges
    /\ role[a] \notin {None, r}
    /\ role' = [role EXCEPT ![a] = r]
    /\ changes' = changes + 1
    /\ UNCHANGED <<account, workspace, founder, key, secrets, call, raced>>

Step(p) ==
    \/ Fail(p) \/ Guard(p) \/ Manage(p)
    \/ Create(p)
    \/ RotateFind(p) \/ RotateWrite(p)
    \/ RevokeFind(p) \/ RevokeWrite(p)
    \/ EraseKeys(p) \/ EraseOwned(p) \/ ErasePurge(p) \/ EraseVerify(p) \/ EraseDelete(p)

Next ==
    \/ \E p \in Calls :
          \/ Step(p)
          \/ \E op \in Ops, a \in Accounts, k \in Keys \cup {None}, confirmed \in BOOLEAN :
                Request(p, op, a, k, confirmed)
    \/ \E a \in Accounts, r \in Roles \cup {None} : ChangeRole(a, r)

Spec == Init /\ [][Next]_vars

-----------------------------------------------------------------------------
(* verifyBearerToken(): whose account a secret stands for.                 *)
ActsFor(s) == {key[k].creator : k \in {j \in Keys : key[j].secret = s /\ ~key[j].revoked}}

(* A secret acts for its creator's account: once the account is deleted, no
   secret does, in whatever order keys were created and accounts deleted.   *)
NoSecretOutlivesAccount == \A s \in 1..secrets : ActsFor(s) \subseteq account

(* "Cannot rotate a revoked API key": a revoked key stays so, unless a
   rotation had looked at it before it was revoked.                        *)
RevokedStaysRevoked ==
    [][\A k \in Keys : key[k].revoked /\ ~key'[k].revoked
                          => key'[k] = NoKey \/ k \in raced]_vars

(* What the workspace page offers to a member the server admits, unless the
   member's role has changed since: their two policies agree.              *)
OfferedIsAdmitted ==
    \A p \in Calls :
        /\ call[p].at \in {"guard", "manage"}
        /\ call[p].known # None /\ call[p].known = role[call[p].actor]
        => Admitted(call[p].actor)

(* "Type "delete my account" to confirm": a request without the
   confirmation takes no keys and no workspaces.                           *)
UnconfirmedDeletesNothing ==
    [][\A p \in Calls :
          /\ call[p].op = "erase" /\ ~call[p].confirmed
          /\ call'[p] # call[p]
          => UNCHANGED <<workspace, key>>]_vars
=============================================================================
