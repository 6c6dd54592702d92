------------------------ MODULE WorkspaceKeysProofs ------------------------
(***************************************************************************)
(* The properties of WorkspaceKeys for every number of accounts, keys and  *)
(* calls, from one inductive invariant: the types, and what the calls in   *)
(* progress know of the tables they are going to change.                   *)
(***************************************************************************)
EXTENDS WorkspaceKeys, TLAPS

(* Every call has an actor, and a call about a key names one.               *)
ActorsKnown == \A p \in Calls : call[p].at # "idle" => call[p].actor \in Accounts

KeysNamed ==
    \A p \in Calls :
        call[p].at # "idle" /\ call[p].op \in {"rotate", "revoke"} => call[p].key \in Keys

(* The database deletes the keys of an account with it.                     *)
CreatorsExist == \A k \in Keys : Exists(k) => key[k].creator \in account

(* A rotation about to write has seen a key that was not revoked.           *)
RotationsWereShown ==
    \A p \in Calls :
        At(p, "rotate", "write") /\ key[call[p].key].revoked => call[p].key \in raced

(* Offers are made to owners and admins, and nobody has a role in a
   workspace that is gone.                                                  *)
OffersWereMade ==
    /\ \A p \in Calls : call[p].known # None => PageCanManage(call[p].known)
    /\ \A a \in Accounts : role[a] # None => workspace

IInv == /\ TypeOK /\ ActorsKnown /\ KeysNamed
        /\ CreatorsExist /\ RotationsWereShown /\ OffersWereMade

(* A call goes on or ends: it stays a call.                                 *)
LEMMA ControlKept ==
    ASSUME TypeOK, NEW p \in Calls, NEW at \in Places, Goto(p, at) \/ End(p)
    PROVE  call' \in [Calls -> Progress]
<1>1. call[p] \in Progress /\ Idle \in Progress
    BY DEF TypeOK, Idle, Progress, Places
<1>2. [call[p] EXCEPT !.at = at] \in Progress
    BY <1>1 DEF Progress
<1>3. QED
    BY <1>1, <1>2 DEF TypeOK, Goto, End

(* What is revoked are keys: of an account that exists, NoKey is not one.   *)
LEMMA RevokesExisting ==
    ASSUME TypeOK, ActorsKnown, NEW p \in Calls, RevokeWrite(p) \/ EraseKeys(p)
    PROVE  \E ks \in SUBSET Keys : (\A k \in ks : Exists(k)) /\ Revoked(ks)
<1>1. CASE RevokeWrite(p)
    BY <1>1 DEF RevokeWrite
<1>2. CASE EraseKeys(p)
  <2>1. call[p].actor # None
      BY <1>2, KeysAssumption DEF EraseKeys, At, ActorsKnown
  <2>2. QED
      BY <1>2, <2>1 DEF EraseKeys, Exists, NoKey
<1>3. QED
    BY <1>1, <1>2

(* Rows of keys stay rows when they are revoked, rotated or deleted.        *)
LEMMA RevokedKept ==
    ASSUME TypeOK, NEW ks \in SUBSET Keys, \A k \in ks : Exists(k), Revoked(ks)
    PROVE  key' \in [Keys -> Row \cup {NoKey}] /\ raced' \subseteq Keys
<1>1. ASSUME NEW k \in ks
      PROVE  [key[k] EXCEPT !.revoked = TRUE] \in Row
  <2>1. key[k] \in Row
      BY DEF TypeOK, Exists
  <2>2. QED
      BY <2>1 DEF Row
<1>2. QED
    BY <1>1 DEF TypeOK, Revoked

(* The type invariant: no step leaves the ranges of the variables.          *)
LEMMA TypeStep == TypeOK /\ ActorsKnown /\ [Next]_vars => TypeOK'
<1> SUFFICES ASSUME TypeOK, ActorsKnown, [Next]_vars PROVE TypeOK'
    OBVIOUS
<1> USE KeysAssumption
<1> DEFINE P == [Calls -> Progress]
<1>1. ASSUME NEW p \in Calls, NEW op \in Ops, NEW a \in Accounts, NEW k \in Keys \cup {None},
             NEW confirmed \in BOOLEAN, Request(p, op, a, k, confirmed)
      PROVE  TypeOK'
  <2>1. call' \in P
    <3> DEFINE c == [op |-> op, at |-> IF op = "erase" THEN "keys" ELSE "guard",
                     actor |-> a, key |-> k,
                     known |-> IF op # "erase" /\ PageCanManage(role[a]) THEN role[a]
                               ELSE None,
                     confirmed |-> confirmed]
    <3>1. role[a] \in Roles \cup {None}
        BY DEF TypeOK
    <3>2. c \in Progress
        BY <3>1 DEF Progress, Places
    <3>3. call' = [call EXCEPT ![p] = c]
        BY <1>1 DEF Request
    <3>4. QED
        BY <3>2, <3>3 DEF TypeOK
  <2>2. QED
      BY <1>1, <2>1 DEF Request, Tables, History, TypeOK
<1>2. ASSUME NEW a \in Accounts, NEW r \in Roles \cup {None}, ChangeRole(a, r)
      PROVE  TypeOK'
    BY <1>2 DEF ChangeRole, TypeOK
<1>3. ASSUME NEW p \in Calls, \/ Fail(p) \/ Guard(p) \/ Manage(p)
                              \/ RotateFind(p) \/ RevokeFind(p)
                              \/ EraseOwned(p) \/ EraseVerify(p)
      PROVE  TypeOK'
  <2>1. \E at \in Places : Goto(p, at) \/ End(p)
      BY <1>3 DEF Fail, Guard, Manage, RotateFind, RevokeFind, EraseOwned, EraseVerify,
                  Check, Places
  <2>2. call' \in P
      BY <2>1, ControlKept
  <2>3. QED
      BY <1>3, <2>2 DEF Fail, Guard, Manage, RotateFind, RevokeFind, EraseOwned, EraseVerify,
                        Tables, History, TypeOK
<1>4. ASSUME NEW p \in Calls, Create(p)
      PROVE  TypeOK'
  <2>1. call' \in P
      BY <1>4, ControlKept DEF Create, Places
  <2>2. CASE References(call[p].actor) /\ secrets < MaxSecrets /\ \E k \in Keys : ~Exists(k)
    <3>1. PICK k \in Keys :
             /\ ~Exists(k)
             /\ key' = [key EXCEPT ![k] = [creator |-> call[p].actor, secret |-> secrets',
                                           revoked |-> FALSE]]
             /\ raced' = raced \ {k}
        BY <1>4, <2>2 DEF Create
    <3>2. secrets' = secrets + 1 /\ secrets' \in 1..MaxSecrets
        BY <1>4, <2>2 DEF Create, TypeOK
    <3>3. call[p].actor \in Accounts
        BY <2>2 DEF References, TypeOK
    <3>4. [creator |-> call[p].actor, secret |-> secrets', revoked |-> FALSE] \in Row
        BY <3>2, <3>3 DEF Row
    <3>5. QED
        BY <1>4, <2>1, <3>1, <3>2, <3>4 DEF Create, TypeOK
  <2>3. CASE ~(References(call[p].actor) /\ secrets < MaxSecrets /\ \E k \in Keys : ~Exists(k))
      BY <1>4, <2>1, <2>3 DEF Create, TypeOK
  <2>4. QED
      BY <2>2, <2>3
<1>5. ASSUME NEW p \in Calls, RotateWrite(p)
      PROVE  TypeOK'
  <2>1. call' \in P
      BY <1>5, ControlKept DEF RotateWrite, Places
  <2>2. CASE Exists(call[p].key) /\ secrets < MaxSecrets
    <3> DEFINE k == call[p].key
    <3>1. /\ secrets' = secrets + 1 /\ secrets' \in 1..MaxSecrets
          /\ key' = [key EXCEPT ![k].secret = secrets', ![k].revoked = FALSE]
        BY <1>5, <2>2 DEF RotateWrite, TypeOK
    <3>2. ASSUME k \in Keys
          PROVE  [key[k] EXCEPT !.secret = secrets', !.revoked = FALSE] \in Row
      <4>1. key[k] \in Row
          BY <2>2, <3>2 DEF TypeOK, Exists
      <4>2. QED
          BY <3>1, <4>1 DEF Row
    <3>3. key' \in [Keys -> Row \cup {NoKey}]
        BY <3>1, <3>2 DEF TypeOK
    <3>4. QED
        BY <1>5, <2>1, <3>1, <3>3 DEF RotateWrite, History, TypeOK
  <2>3. CASE ~(Exists(call[p].key) /\ secrets < MaxSecrets)
      BY <1>5, <2>1, <2>3 DEF RotateWrite, History, TypeOK
  <2>4. QED
      BY <2>2, <2>3
<1>6. ASSUME NEW p \in Calls, RevokeWrite(p) \/ EraseKeys(p)
      PROVE  TypeOK'
  <2>1. call' \in P
      BY <1>6, ControlKept DEF RevokeWrite, EraseKeys, Places
  <2>2. PICK ks \in SUBSET Keys : (\A k \in ks : Exists(k)) /\ Revoked(ks)
      BY <1>6, RevokesExisting
  <2>3. QED
      BY <1>6, <2>1, <2>2, RevokedKept DEF RevokeWrite, EraseKeys, TypeOK
<1>7. ASSUME NEW p \in Calls, ErasePurge(p) \/ EraseDelete(p)
      PROVE  TypeOK'
  <2>1. call' \in P
      BY <1>7, ControlKept DEF ErasePurge, EraseDelete, Places
  <2>2. QED
      BY <1>7, <2>1 DEF ErasePurge, EraseDelete, KeysOf, History, TypeOK
<1>8. CASE UNCHANGED vars
    BY <1>8 DEF vars, TypeOK
<1>9. QED
    BY <1>1, <1>2, <1>3, <1>4, <1>5, <1>6, <1>7, <1>8 DEF Next, Step

-----------------------------------------------------------------------------
(* The first state has no calls and no keys.                                *)
LEMMA InitInv == Init => IInv
<1> SUFFICES ASSUME Init PROVE IInv
    OBVIOUS
<1> USE KeysAssumption
<1>1. TypeOK
  <2>1. Idle \in Progress
      BY DEF Idle, Progress, Places
  <2>2. QED
      BY <2>1 DEF Init, TypeOK
<1>2. ActorsKnown /\ KeysNamed /\ RotationsWereShown
    BY DEF Init, ActorsKnown, KeysNamed, RotationsWereShown, At, Idle
<1>3. CreatorsExist
    BY DEF Init, CreatorsExist, Exists
<1>4. OffersWereMade
    BY DEF Init, OffersWereMade, Idle
<1>5. QED
    BY <1>1, <1>2, <1>3, <1>4 DEF IInv

(* What a step of a call does to the calls.                                 *)
LEMMA StepControls ==
    ASSUME NEW p \in Calls, Step(p)
    PROVE  /\ call[p].at # "idle"
           /\ \/ End(p)
              \/ \E at \in Places : Goto(p, at)
<1> USE DEF At, Check, Places
<1>1. CASE Fail(p) \/ Guard(p) \/ Manage(p) \/ Create(p)
    BY <1>1 DEF Fail, Guard, Manage, Create
<1>2. CASE RotateFind(p) \/ RotateWrite(p) \/ RevokeFind(p) \/ RevokeWrite(p)
    BY <1>2 DEF RotateFind, RotateWrite, RevokeFind, RevokeWrite
<1>3. CASE EraseKeys(p) \/ EraseOwned(p) \/ ErasePurge(p) \/ EraseVerify(p) \/ EraseDelete(p)
    BY <1>3 DEF EraseKeys, EraseOwned, ErasePurge, EraseVerify, EraseDelete
<1>4. QED
    BY <1>1, <1>2, <1>3 DEF Step

(* It leaves the other calls alone, and moves its own or ends it.           *)
LEMMA StepEffect ==
    ASSUME TypeOK, NEW p \in Calls, Step(p)
    PROVE  /\ \A q \in Calls : q # p => call'[q] = call[q]
           /\ \/ call'[p] = Idle
              \/ \E at \in Places : call'[p] = [call[p] EXCEPT !.at = at]
<1>1. call \in [Calls -> Progress]
    BY DEF TypeOK
<1>2. End(p) \/ \E at \in Places : Goto(p, at)
    BY StepControls
<1>3. CASE End(p)
    BY <1>1, <1>3 DEF End
<1>4. ASSUME NEW at \in Places, Goto(p, at)
      PROVE  /\ \A q \in Calls : q # p => call'[q] = call[q]
             /\ call'[p] = [call[p] EXCEPT !.at = at]
    BY <1>1, <1>4 DEF Goto
<1>5. QED
    BY <1>2, <1>3, <1>4

(* The actor and the key of a call are set once, by its request.            *)
LEMMA ActorsStep == IInv /\ [Next]_vars => ActorsKnown' /\ KeysNamed'
<1> SUFFICES ASSUME IInv, [Next]_vars PROVE ActorsKnown' /\ KeysNamed'
    OBVIOUS
<1> USE KeysAssumption DEF IInv, TypeOK, ActorsKnown, KeysNamed
<1>1. ASSUME NEW p \in Calls, NEW op \in Ops, NEW a \in Accounts, NEW k \in Keys \cup {None},
             NEW confirmed \in BOOLEAN, Request(p, op, a, k, confirmed)
      PROVE  ActorsKnown' /\ KeysNamed'
    BY <1>1 DEF Request
<1>2. ASSUME NEW p \in Calls, Step(p)
      PROVE  ActorsKnown' /\ KeysNamed'
  <2>1. call[p].at # "idle"
      BY <1>2, StepControls
  <2>2. /\ \A q \in Calls : q # p => call'[q] = call[q]
        /\ call'[p] = Idle \/ \E at \in Places : call'[p] = [call[p] EXCEPT !.at = at]
      BY <1>2, StepEffect
  <2>3. CASE call'[p] = Idle
      BY <2>2, <2>3 DEF Idle
  <2>4. ASSUME NEW at \in Places, call'[p] = [call[p] EXCEPT !.at = at]
        PROVE  ActorsKnown' /\ KeysNamed'
    <3>1. /\ call'[p].actor = call[p].actor /\ call'[p].op = call[p].op
          /\ call'[p].key = call[p].key
        BY <2>4 DEF Progress
    <3>2. QED
        BY <2>1, <2>2, <3>1
  <2>5. QED
      BY <2>2, <2>3, <2>4
<1>3. CASE UNCHANGED call
    BY <1>3
<1>4. QED
    BY <1>1, <1>2, <1>3 DEF Next, ChangeRole, vars

(* Only an account that exists gets a key, and its keys go with it.         *)
LEMMA CreatorsStep == IInv /\ [Next]_vars => CreatorsExist'
<1> SUFFICES ASSUME IInv, [Next]_vars PROVE CreatorsExist'
    OBVIOUS
<1> USE DEF IInv, TypeOK, CreatorsExist, Exists
<1>1. ASSUME NEW p \in Calls, Create(p)
      PROVE  CreatorsExist'
    BY <1>1 DEF Create, References
<1>2. ASSUME NEW p \in Calls, RotateWrite(p)
      PROVE  CreatorsExist'
    BY <1>2 DEF RotateWrite, Row
<1>3. ASSUME NEW p \in Calls, RevokeWrite(p) \/ EraseKeys(p)
      PROVE  CreatorsExist'
  <2>1. PICK ks \in SUBSET Keys : (\A k \in ks : Exists(k)) /\ Revoked(ks)
      BY <1>3, RevokesExisting
  <2>2. ASSUME NEW k \in ks
        PROVE  key'[k].creator = key[k].creator
    <3>1. key[k] \in Row
        BY <2>1
    <3>2. QED
        BY <2>1, <3>1 DEF Revoked, Row
  <2>3. QED
      BY <1>3, <2>1, <2>2 DEF Revoked, RevokeWrite, EraseKeys
<1>4. ASSUME NEW p \in Calls, ErasePurge(p) \/ EraseDelete(p)
      PROVE  CreatorsExist'
    BY <1>4 DEF ErasePurge, EraseDelete, KeysOf
<1>5. CASE UNCHANGED <<key, account>>
    BY <1>5
<1>6. QED
    BY <1>1, <1>2, <1>3, <1>4, <1>5
    DEF Next, Step, Request, ChangeRole, Fail, Guard, Manage, RotateFind, RevokeFind,
        EraseOwned, EraseVerify, Tables, vars

(* revoked_at is set while a rotation waits to write: then the key is in
   raced.                                                                   *)
LEMMA RotationsStep == IInv /\ [Next]_vars => RotationsWereShown'
<1> SUFFICES ASSUME IInv, [Next]_vars, NEW q \in Calls,
                    call'[q].op = "rotate", call'[q].at = "write",
                    key'[call'[q].key].revoked
             PROVE  call'[q].key \in raced'
    BY DEF RotationsWereShown, At
<1>t. /\ key \in [Keys -> Row \cup {NoKey}] /\ call \in [Calls -> Progress]
      /\ TypeOK
    BY DEF IInv, TypeOK
<1>i. ASSUME call[q].op = "rotate", call[q].at = "write", key[call[q].key].revoked
      PROVE  call[q].key \in raced
    BY <1>i DEF IInv, RotationsWereShown, At
<1>k. call[q].at # "idle" /\ call[q].op = "rotate" => call[q].key \in Keys
    BY DEF IInv, KeysNamed
<1>1. ASSUME NEW p \in Calls, NEW op \in Ops, NEW a \in Accounts, NEW j \in Keys \cup {None},
             NEW confirmed \in BOOLEAN, Request(p, op, a, j, confirmed)
      PROVE  call'[q].key \in raced'
  <2>1. call'[q] = call[q] /\ key' = key /\ raced' = raced
      BY <1>1, <1>t DEF Request, Tables, History
  <2>2. QED
      BY <2>1, <1>i
<1>2. ASSUME Step(q)
      PROVE  FALSE
  <2>1. PICK at \in Places : call'[q] = [call[q] EXCEPT !.at = at]
      BY <1>2, <1>t, StepEffect DEF Idle
  <2>2. call[q].op = "rotate" /\ call'[q].key = call[q].key
      BY <2>1, <1>t DEF Progress
  <2>3. CASE RotateFind(q)
    <3>1. key' = key /\ ~key[call[q].key].revoked
        BY <2>3, <1>t DEF RotateFind, Check, End, Idle, Tables
    <3>2. QED
        BY <3>1, <2>2
  <2>4. CASE Guard(q) \/ Manage(q)
    <3>1. \/ call' = [call EXCEPT ![q].at = "manage"] \/ call' = [call EXCEPT ![q].at = "find"]
          \/ call' = [call EXCEPT ![q] = Idle]
        BY <2>2, <2>4 DEF Guard, Manage, Check, Goto, End
    <3>2. call'[q].at # "write"
        BY <3>1, <1>t DEF Idle, Progress
    <3>3. QED
        BY <3>2
  <2>5. CASE Fail(q) \/ RotateWrite(q)
      BY <2>5, <1>t DEF Fail, RotateWrite, End, Idle
  <2>6. QED
      BY <1>2, <2>2, <2>3, <2>4, <2>5
      DEF Step, Create, RevokeFind, RevokeWrite, EraseKeys, EraseOwned, ErasePurge,
          EraseVerify, EraseDelete, At
<1>3. ASSUME NEW p \in Calls, Step(p), p # q
      PROVE  call'[q].key \in raced'
  <2>1. call'[q] = call[q]
      BY <1>3, <1>t, StepEffect
  <2> DEFINE k == call[q].key
  <2>k. k \in Keys
      BY <2>1, <1>k
  <2>2. CASE key' = key /\ raced' = raced
      BY <2>1, <2>2, <1>i
  <2>3. CASE RevokeWrite(p) \/ EraseKeys(p)
    <3>1. PICK ks \in SUBSET Keys : (\A j \in ks : Exists(j)) /\ Revoked(ks)
        BY <2>3, <1>t, RevokesExisting DEF IInv
    <3>2. CASE k \in ks
      <4>1. Rotating(k)
          BY <2>1 DEF Rotating, At
      <4>2. QED
          BY <2>1, <3>1, <3>2, <4>1 DEF Revoked
    <3>3. CASE k \notin ks
        BY <2>1, <2>k, <3>1, <3>3, <1>i DEF Revoked
    <3>4. QED
        BY <3>2, <3>3
  <2>4. CASE Create(p)
    <3>1. CASE key' = key /\ raced' = raced
        BY <3>1, <2>2
    <3>2. ASSUME NEW j \in Keys, ~Exists(j), raced' = raced \ {j},
                 key' = [key EXCEPT ![j] = [creator |-> call[p].actor, secret |-> secrets',
                                            revoked |-> FALSE]]
          PROVE  k \in raced'
        BY <2>1, <2>k, <3>2, <1>i, <1>t
    <3>3. QED
        BY <2>1, <2>4, <3>1, <3>2 DEF Create
  <2>5. CASE RotateWrite(p)
    <3>1. raced' = raced
        BY <2>5 DEF RotateWrite, History
    <3>2. key'[k].revoked => key[k].revoked
      <4> DEFINE j == call[p].key
      <4>1. CASE key' = key
          BY <4>1
      <4>2. CASE key' = [key EXCEPT ![j].secret = secrets', ![j].revoked = FALSE] /\ Exists(j)
        <5>1. k # j => key'[k] = key[k]
            BY <4>2, <2>k, <1>t
        <5>2. CASE k = j
          <6>1. key[k] \in Row
              BY <4>2, <5>2, <2>k, <1>t DEF Exists
          <6>2. key'[k] = [key[k] EXCEPT !.secret = secrets', !.revoked = FALSE]
              BY <4>2, <5>2, <2>k, <1>t
          <6>3. ~key'[k].revoked
              BY <6>1, <6>2 DEF Row
          <6>4. QED
              BY <6>3
        <5>3. QED
            BY <5>1, <5>2
      <4>3. QED
          BY <2>5, <4>1, <4>2 DEF RotateWrite
    <3>3. QED
        BY <2>1, <3>1, <3>2, <1>i
  <2>6. CASE ErasePurge(p) \/ EraseDelete(p)
    <3>1. raced' = raced
        BY <2>6 DEF ErasePurge, EraseDelete, History
    <3>2. key'[k].revoked => key[k].revoked
        BY <2>6, <2>k, <1>t DEF ErasePurge, EraseDelete, NoKey
    <3>3. QED
        BY <2>1, <3>1, <3>2, <1>i
  <2>7. QED
      BY <1>3, <2>2, <2>3, <2>4, <2>5, <2>6
      DEF Step, Fail, Guard, Manage, RotateFind, RevokeFind, EraseOwned, EraseVerify,
          Tables, History
<1>4. CASE UNCHANGED <<key, call, raced>>
    BY <1>4, <1>i
<1>5. QED
    BY <1>1, <1>2, <1>3, <1>4 DEF Next, ChangeRole, vars

(* Roles come from roles, and go with the workspace or the account.         *)
LEMMA OffersStep == IInv /\ [Next]_vars => OffersWereMade'
<1> SUFFICES ASSUME IInv, [Next]_vars PROVE OffersWereMade'
    OBVIOUS
<1> USE DEF IInv, TypeOK, OffersWereMade
<1>1. ASSUME NEW p \in Calls, NEW op \in Ops, NEW a \in Accounts, NEW k \in Keys \cup {None},
             NEW confirmed \in BOOLEAN, Request(p, op, a, k, confirmed)
      PROVE  OffersWereMade'
    BY <1>1 DEF Request, Tables, PageCanManage
<1>2. ASSUME NEW p \in Calls, Step(p)
      PROVE  OffersWereMade'
  <2>1. \A q \in Calls : call'[q].known # None => PageCanManage(call'[q].known)
    <3>1. /\ \A q \in Calls : q # p => call'[q] = call[q]
          /\ call'[p] = Idle \/ \E at \in Places : call'[p] = [call[p] EXCEPT !.at = at]
        BY <1>2, StepEffect
    <3>2. call'[p].known \in {None, call[p].known}
      <4>1. CASE call'[p] = Idle
          BY <4>1 DEF Idle
      <4>2. ASSUME NEW at \in Places, call'[p] = [call[p] EXCEPT !.at = at]
            PROVE  call'[p].known = call[p].known
        <5>1. call[p] \in Progress
            OBVIOUS
        <5>2. QED
            BY <4>2, <5>1 DEF Progress
      <4>3. QED
          BY <3>1, <4>1, <4>2
    <3>3. QED
        BY <3>1, <3>2
  <2>2. \A a \in Accounts : role'[a] # None => workspace'
      BY <1>2 DEF Step, Fail, Guard, Manage, Create, RotateFind, RotateWrite, RevokeFind,
                  RevokeWrite, EraseKeys, EraseOwned, ErasePurge, EraseVerify, EraseDelete,
                  Tables
  <2>3. QED
      BY <2>1, <2>2
<1>3. ASSUME NEW a \in Accounts, NEW r \in Roles \cup {None}, ChangeRole(a, r)
      PROVE  OffersWereMade'
    BY <1>3 DEF ChangeRole
<1>4. CASE UNCHANGED vars
    BY <1>4 DEF vars
<1>5. QED
    BY <1>1, <1>2, <1>3, <1>4 DEF Next

-----------------------------------------------------------------------------
(* The inductive invariant holds in every reachable state: nothing that the
   calls, in whatever order, do to the tables breaks it.                    *)
THEOREM KeysInvariant == Spec => []IInv
<1>1. IInv /\ [Next]_vars => IInv'
    BY TypeStep, ActorsStep, CreatorsStep, RotationsStep, OffersStep DEF IInv
<1>2. QED
    BY InitInv, <1>1, PTL DEF Spec

(* An API key is good for an account that exists: deleting the account ends
   all of its keys, also one whose creation was under way.                  *)
THEOREM KeysEndWithAccount == Spec => []NoSecretOutlivesAccount
<1>1. IInv => NoSecretOutlivesAccount
  <2> SUFFICES ASSUME IInv, NEW s \in 1..secrets,
                      NEW j \in Keys, key[j].secret = s
               PROVE  key[j].creator \in account
      BY DEF NoSecretOutlivesAccount, ActsFor
  <2>1. s # 0
      BY DEF IInv, TypeOK
  <2>2. Exists(j)
      BY <2>1 DEF Exists, NoKey
  <2>3. QED
      BY <2>2 DEF IInv, CreatorsExist
<1>2. QED
    BY KeysInvariant, <1>1, PTL

(* A revoked key is revoked for good, or a rotation that had looked at it
   before brings it back.                                                   *)
THEOREM RevocationsLast == Spec => RevokedStaysRevoked
<1>1. IInv /\ [Next]_vars
        => [\A k \in Keys : key[k].revoked /\ ~key'[k].revoked
                              => key'[k] = NoKey \/ k \in raced]_vars
  <2> SUFFICES ASSUME IInv, Next, NEW k \in Keys, key[k].revoked, ~key'[k].revoked
               PROVE  key'[k] = NoKey \/ k \in raced
      OBVIOUS
  <2> USE DEF IInv, TypeOK
  <2>1. ASSUME NEW p \in Calls, Create(p)
        PROVE  FALSE
      BY <2>1 DEF Create, Exists, NoKey
  <2>2. ASSUME NEW p \in Calls, RotateWrite(p)
        PROVE  k \in raced
      BY <2>2 DEF RotateWrite, RotationsWereShown, At
  <2>3. ASSUME NEW p \in Calls, RevokeWrite(p) \/ EraseKeys(p)
        PROVE  FALSE
    <3>1. PICK ks \in SUBSET Keys : (\A j \in ks : Exists(j)) /\ Revoked(ks)
        BY <2>3, RevokesExisting
    <3>2. k \in ks
        BY <3>1 DEF Revoked
    <3>3. key[k] \in Row
        BY <3>1, <3>2 DEF Exists
    <3>4. QED
        BY <3>1, <3>2, <3>3 DEF Revoked, Row
  <2>4. ASSUME NEW p \in Calls, ErasePurge(p) \/ EraseDelete(p)
        PROVE  key'[k] = NoKey
      BY <2>4 DEF ErasePurge, EraseDelete
  <2>5. key' # key
      OBVIOUS
  <2>6. QED
      BY <2>1, <2>2, <2>3, <2>4, <2>5
      DEF Next, Step, Request, ChangeRole, Fail, Guard, Manage, RotateFind, RevokeFind,
          EraseOwned, EraseVerify, Tables
<1>2. QED
    BY KeysInvariant, <1>1, PTL DEF Spec, RevokedStaysRevoked

(* Whatever the workspace page offers, the server admits, as long as the
   member keeps the role the page shows.                                    *)
THEOREM OffersAdmitted == Spec => []OfferedIsAdmitted
<1>1. IInv => OfferedIsAdmitted
  <2> SUFFICES ASSUME IInv, NEW p \in Calls, call[p].at \in {"guard", "manage"},
                      call[p].known # None, call[p].known = role[call[p].actor]
               PROVE  Admitted(call[p].actor)
      BY DEF OfferedIsAdmitted
  <2>1. call[p].actor \in Accounts
      BY DEF IInv, ActorsKnown
  <2>2. QED
      BY <2>1 DEF IInv, OffersWereMade, Admitted, MayManageKeys, PageCanManage
<1>2. QED
    BY KeysInvariant, <1>1, PTL
=============================================================================
