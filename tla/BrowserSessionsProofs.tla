----------------------- MODULE BrowserSessionsProofs -----------------------
(***************************************************************************)
(* Only the feed's forced refresh uses up a refresh token that is not due, *)
(* for every number of tabs, requests, sessions and losses.  It takes an   *)
(* invariant: whether the server is asked for a refresh was decided by a   *)
(* tab, steps earlier, from what was due or revoked then.                  *)
(***************************************************************************)
EXTENDS BrowserSessions, TLAPS

(* Session s is due or revoked, when 1..d are due and 1..v revoked.         *)
Over(s, d, v) == s <= d \/ s <= v

(* What a request carries: a refresh other than the feed's a token that is
   over, and a call a token whose refusal says that the session it started
   with is over.                                                            *)
Carries(r, d, v) ==
    /\ r.at \in Refreshes \ {"feed"} => Over(r.token, d, v)
    /\ r.at \in {"first", "force"} => Over(r.closure, d, v)
    /\ r.at = "run" => r.closure = r.token \/ Over(r.closure, d, v)
    /\ r.at = "run" /\ r.answer = "refused" => Over(r.closure, d, v)

AllCarry == \A x \in Requests : Carries(request[x], due, revoked)

(* Sessions are revoked after they were handed out.                         *)
RevokedMinted == revoked <= minted

IInv == TypeOK /\ RevokedMinted /\ AllCarry

-----------------------------------------------------------------------------
LEMMA IdleFields ==
    /\ Idle \in RequestRow
    /\ Idle.tab = NoTab /\ Idle.at = "idle" /\ Idle.answer = "none"
    /\ \A d, v : Carries(Idle, d, v)
<1>1. Idle \in RequestRow /\ Idle.tab = NoTab /\ Idle.at = "idle" /\ Idle.answer = "none"
    BY SessionsAssumption DEF Idle, RequestRow, Answers, Stages
<1>2. QED
    BY <1>1 DEF Carries, Refreshes

(* Requests as they are sent are of the type, if what they carry is.        *)
LEMMA SentFields ==
    ASSUME NEW t \in Tabs \cup {NoTab}, NEW at \in Stages, NEW token \in 0..MaxSessions,
           NEW closure \in 0..MaxSessions
    PROVE  /\ Sent(t, at, token, closure) \in RequestRow
           /\ Sent(t, at, token, closure).tab = t
           /\ Sent(t, at, token, closure).at = at
           /\ Sent(t, at, token, closure).token = token
           /\ Sent(t, at, token, closure).closure = closure
           /\ Sent(t, at, token, closure).answer = "none"
<1>1. 0 \in 0..MaxSessions /\ "none" \in Answers
    BY SessionsAssumption DEF Answers
<1>2. QED
    BY <1>1 DEF RequestRow, Sent

LEMMA SentCarries ==
    ASSUME NEW t \in Tabs \cup {NoTab}, NEW at \in Stages, NEW token \in 0..MaxSessions,
           NEW closure \in 0..MaxSessions, NEW d, NEW v,
           at \in Refreshes \ {"feed"} => Over(token, d, v),
           at \in {"first", "force"} => Over(closure, d, v),
           at = "run" => closure = token \/ Over(closure, d, v)
    PROVE  Carries(Sent(t, at, token, closure), d, v)
BY SentFields DEF Carries

(* An answer changes nothing else of a request.                             *)
LEMMA AnswerFields ==
    ASSUME NEW r \in RequestRow, NEW answer \in Answers
    PROVE  /\ [r EXCEPT !.answer = answer] \in RequestRow
           /\ [r EXCEPT !.answer = answer].at = r.at
           /\ [r EXCEPT !.answer = answer].token = r.token
           /\ [r EXCEPT !.answer = answer].closure = r.closure
           /\ [r EXCEPT !.answer = answer].answer = answer
BY DEF RequestRow

LEMMA GrantFields ==
    ASSUME NEW r \in RequestRow, NEW answer \in Answers, NEW grant \in 0..MaxSessions
    PROVE  /\ [r EXCEPT !.answer = answer, !.grant = grant] \in RequestRow
           /\ [r EXCEPT !.answer = answer, !.grant = grant].at = r.at
           /\ [r EXCEPT !.answer = answer, !.grant = grant].token = r.token
           /\ [r EXCEPT !.answer = answer, !.grant = grant].closure = r.closure
           /\ [r EXCEPT !.answer = answer, !.grant = grant].answer = answer
BY DEF RequestRow

LEMMA LostFields ==
    ASSUME NEW r \in RequestRow, NEW q, q = [r EXCEPT !.answer = "lost", !.grant = 0]
    PROVE  /\ q \in RequestRow
           /\ q.at = r.at /\ q.token = r.token /\ q.closure = r.closure
           /\ q.answer = "lost"
<1>1. 0 \in 0..MaxSessions /\ "lost" \in Answers
    BY SessionsAssumption DEF Answers
<1>2. QED
    BY <1>1 DEF RequestRow

(* What is over stays over as time passes and sessions are revoked.         *)
LEMMA CarriesKept ==
    ASSUME NEW r \in RequestRow, NEW d \in Nat, NEW v \in Nat, NEW e \in Nat, NEW w \in Nat,
           d <= e, v <= w, Carries(r, d, v)
    PROVE  Carries(r, e, w)
<1>1. r.token \in Nat /\ r.closure \in Nat
    BY SessionsAssumption DEF RequestRow
<1>2. QED
    BY <1>1 DEF Carries, Over

(* The first state has no requests.                                         *)
LEMMA InitInv == Init => IInv
<1> SUFFICES ASSUME Init PROVE IInv
    OBVIOUS
<1>1. TypeOK
    BY SessionsAssumption, IdleFields DEF TypeOK, Init
<1>2. AllCarry
    BY IdleFields DEF Init, AllCarry
<1>3. RevokedMinted
    BY DEF Init, RevokedMinted
<1>4. QED
    BY <1>1, <1>2, <1>3 DEF IInv

(* If requests other than x stay and no session stops being due or revoked,
   it is enough to look at what x carries.                                  *)
LEMMA OneRequest ==
    ASSUME IInv, NEW x \in Requests, NEW r \in RequestRow,
           request' = [request EXCEPT ![x] = r], Carries(r, due', revoked'),
           due' \in Nat, revoked' \in Nat, due <= due', revoked <= revoked'
    PROVE  request' \in [Requests -> RequestRow] /\ AllCarry'
<1>1. request \in [Requests -> RequestRow] /\ due \in Nat /\ revoked \in Nat
    BY SessionsAssumption DEF TypeOK, IInv
<1>2. ASSUME NEW y \in Requests PROVE Carries(request'[y], due', revoked')
  <2>1. CASE y = x
      BY <1>1, <2>1
  <2>2. CASE y # x
    <3>1. request'[y] = request[y] /\ Carries(request[y], due, revoked)
        BY <1>1, <2>2 DEF IInv, AllCarry
    <3>2. request[y] \in RequestRow
        BY <1>1
    <3>3. QED
        BY <1>1, <3>1, <3>2, CarriesKept
  <2>3. QED
      BY <2>1, <2>2
<1>3. QED
    BY <1>1, <1>2 DEF AllCarry

-----------------------------------------------------------------------------
(* Mint() hands out a session or refuses.                                   *)
LEMMA MintStep ==
    ASSUME IInv, NEW x \in Requests, Mint(x) \/ (Answered(x, "refused") /\ UNCHANGED minted),
           request[x].at # "run", UNCHANGED <<due, revoked>>
    PROVE  /\ request' \in [Requests -> RequestRow] /\ AllCarry'
           /\ minted' \in 0..MaxSessions /\ minted <= minted'
<1>1. /\ request[x] \in RequestRow /\ Carries(request[x], due, revoked)
      /\ minted \in 0..MaxSessions /\ due \in Nat /\ revoked \in Nat
      /\ MaxSessions \in Nat
    BY SessionsAssumption DEF TypeOK, IInv, AllCarry
<1>2. minted' \in 0..MaxSessions /\ minted <= minted'
    BY <1>1 DEF Mint
<1>3. PICK r : /\ request' = [request EXCEPT ![x] = r]
               /\ \/ r = [request[x] EXCEPT !.answer = "refused"]
                  \/ /\ minted < MaxSessions
                     /\ r = [request[x] EXCEPT !.answer = "granted", !.grant = minted + 1]
    BY DEF Mint, Answered
<1>4. /\ r \in RequestRow /\ r.at = request[x].at /\ r.token = request[x].token
      /\ r.closure = request[x].closure
  <2>1. minted < MaxSessions => minted + 1 \in 0..MaxSessions
      BY <1>1
  <2>2. 0 \in 0..MaxSessions /\ {"refused", "granted"} \subseteq Answers
      BY <1>1 DEF Answers
  <2>3. CASE r = [request[x] EXCEPT !.answer = "refused"]
      BY <1>1, <2>2, <2>3, AnswerFields
  <2>4. CASE minted < MaxSessions /\ r = [request[x] EXCEPT !.answer = "granted", !.grant = minted + 1]
    <3>1. request[x] \in RequestRow /\ "granted" \in Answers /\ minted + 1 \in 0..MaxSessions
        BY <1>1, <2>1, <2>2, <2>4
    <3>2. QED
        BY <3>1, <2>4, GrantFields
  <2>5. QED
      BY <1>3, <2>3, <2>4
<1>5. Carries(r, due', revoked')
    BY <1>1, <1>4 DEF Carries
<1>6. /\ due' \in Nat /\ revoked' \in Nat /\ due <= due' /\ revoked <= revoked'
    BY <1>1
<1>7. request' = [request EXCEPT ![x] = r] /\ r \in RequestRow
    BY <1>3, <1>4
<1>8. request' \in [Requests -> RequestRow] /\ AllCarry'
    BY <1>5, <1>6, <1>7, OneRequest
<1>9. QED
    BY <1>2, <1>8

(* The request gets an answer; a refused call had a token that is over.     *)
LEMMA AnsweredStep ==
    ASSUME IInv, NEW x \in Requests, NEW answer \in Answers, Answered(x, answer),
           answer = "refused" /\ request[x].at = "run" => Over(request[x].token, due, revoked),
           due' \in Nat, revoked' \in Nat, due <= due', revoked <= revoked'
    PROVE  request' \in [Requests -> RequestRow] /\ AllCarry'
<1> DEFINE q == [request[x] EXCEPT !.answer = answer]
<1>1. /\ request[x] \in RequestRow /\ Carries(request[x], due, revoked)
      /\ due \in Nat /\ revoked \in Nat
    BY SessionsAssumption DEF TypeOK, IInv, AllCarry
<1>2. /\ q \in RequestRow /\ q.at = request[x].at /\ q.token = request[x].token
      /\ q.closure = request[x].closure /\ q.answer = answer
    BY <1>1, AnswerFields
<1>3. request' = [request EXCEPT ![x] = q]
    BY DEF Answered
<1> HIDE DEF q
<1>4. Carries(q, due, revoked)
    BY <1>1, <1>2 DEF Carries
<1>5. Carries(q, due', revoked')
    BY <1>1, <1>2, <1>4, CarriesKept
<1>6. QED
    BY <1>2, <1>3, <1>5, OneRequest

(* The server: what is refreshed was not revoked and stays of the type.     *)
LEMMA ServeStep == ASSUME IInv, NEW x \in Requests, Serve(x) PROVE IInv'
<1>1. /\ request[x] \in RequestRow /\ Carries(request[x], due, revoked)
      /\ minted \in 0..MaxSessions /\ due \in 0..MaxSessions /\ revoked \in 0..MaxSessions
      /\ MaxSessions \in Nat /\ spent \subseteq Sessions
      /\ request[x].token \in 0..MaxSessions
    BY SessionsAssumption DEF TypeOK, IInv, AllCarry, RequestRow
<1>2. UNCHANGED <<stored, session, loading, due, losses>>
    BY DEF Serve, Browser
<1>a. {"ok", "refused"} \subseteq Answers /\ {"login", "logout", "me"} \cap {"run"} = {}
    BY DEF Answers
<1>3. CASE ServeLogin(x)
  <2>1. UNCHANGED <<spent, revoked>> /\ request[x].at # "run"
      BY <1>3 DEF ServeLogin
  <2>2. Mint(x) \/ (Answered(x, "refused") /\ UNCHANGED minted)
      BY <1>3 DEF ServeLogin
  <2>3. /\ request' \in [Requests -> RequestRow] /\ AllCarry'
        /\ minted' \in 0..MaxSessions /\ minted <= minted'
      BY <1>2, <2>1, <2>2, MintStep
  <2>4. QED
      BY <1>1, <1>2, <2>1, <2>3 DEF TypeOK, IInv, RevokedMinted
<1>4. CASE ServeRefresh(x)
  <2>1. UNCHANGED revoked /\ request[x].at \in Refreshes /\ request[x].at # "run"
      BY <1>4 DEF ServeRefresh, Refreshes
  <2>2. Mint(x) \/ (Answered(x, "refused") /\ UNCHANGED minted)
      BY <1>4 DEF ServeRefresh
  <2>3. /\ request' \in [Requests -> RequestRow] /\ AllCarry'
        /\ minted' \in 0..MaxSessions /\ minted <= minted'
      BY <1>2, <2>1, <2>2, MintStep
  <2>4. spent' = spent \/ /\ spent' = spent \cup {request[x].token}
                          /\ request[x].token > revoked
      BY <1>4 DEF ServeRefresh, Refreshable
  <2>5. request[x].token > revoked => request[x].token \in Sessions
      BY <1>1 DEF Sessions
  <2>6. spent' \subseteq Sessions
      BY <1>1, <2>4, <2>5
  <2>7. QED
      BY <1>1, <1>2, <2>1, <2>3, <2>6 DEF TypeOK, IInv, RevokedMinted
<1>5. CASE ServeCall(x)
  <2>1. UNCHANGED <<minted, spent, revoked>>
      BY <1>5 DEF ServeCall, Server
  <2>2. \/ Answered(x, "ok")
        \/ Answered(x, "refused") /\ Over(request[x].token, due, revoked)
      BY <1>5 DEF ServeCall, Rejected, Over
  <2>3. due' \in Nat /\ revoked' \in Nat /\ due <= due' /\ revoked <= revoked'
      BY <1>1, <1>2, <2>1
  <2>4. request' \in [Requests -> RequestRow] /\ AllCarry'
      BY <1>a, <2>2, <2>3, AnsweredStep
  <2>5. QED
      BY <1>1, <1>2, <2>1, <2>4 DEF TypeOK, IInv, RevokedMinted
<1>6. CASE ServeLogout(x)
  <2>1. UNCHANGED <<minted, spent>> /\ request[x].at # "run" /\ revoked' \in {minted, revoked}
      BY <1>6 DEF ServeLogout
  <2>2. Answered(x, "ok") \/ Answered(x, "refused")
      BY <1>6 DEF ServeLogout
  <2>3. /\ due' \in Nat /\ revoked' \in 0..MaxSessions /\ due <= due' /\ revoked <= revoked'
        /\ revoked' <= minted' /\ revoked' \in Nat
      BY <1>1, <1>2, <2>1 DEF IInv, RevokedMinted
  <2>4. request' \in [Requests -> RequestRow] /\ AllCarry'
      BY <1>a, <2>1, <2>2, <2>3, AnsweredStep
  <2>5. QED
      BY <1>1, <1>2, <2>1, <2>3, <2>4 DEF TypeOK, IInv, RevokedMinted
<1>7. QED
    BY <1>3, <1>4, <1>5, <1>6 DEF Serve

(* A lost answer of a request changes nothing that it carries.              *)
LEMMA LoseStep == ASSUME IInv, NEW x \in Requests, Lose(x) PROVE IInv'
<1>1. /\ request[x] \in RequestRow /\ Carries(request[x], due, revoked)
      /\ due \in 0..MaxSessions /\ revoked \in 0..MaxSessions /\ losses \in 0..MaxLosses
      /\ MaxSessions \in Nat
    BY SessionsAssumption DEF TypeOK, IInv, AllCarry
<1>2. UNCHANGED <<minted, spent, revoked, stored, session, loading, due>>
    BY DEF Lose, Server, Browser
<1>q. PICK q : q = [request[x] EXCEPT !.answer = "lost", !.grant = 0]
    OBVIOUS
<1>3. /\ q \in RequestRow /\ q.at = request[x].at /\ q.token = request[x].token
      /\ q.closure = request[x].closure /\ q.answer = "lost"
  <2>1. request[x] \in RequestRow
      BY <1>1
  <2>2. QED
      BY <2>1, <1>q, LostFields
<1>4. request' = [request EXCEPT ![x] = q]
    BY <1>q DEF Lose
<1>b. losses' \in 0..MaxLosses
  <2>1. MaxLosses \in Nat /\ losses < MaxLosses /\ losses' = losses + 1
      BY SessionsAssumption DEF Lose
  <2>2. QED
      BY <1>1, <2>1
<1>5. Carries(q, due, revoked)
    BY <1>1, <1>3 DEF Carries
<1>c. due' = due /\ revoked' = revoked
    BY <1>2
<1>d. due' \in Nat /\ revoked' \in Nat /\ due <= due' /\ revoked <= revoked'
    BY <1>1, <1>c
<1>e. Carries(q, due', revoked')
    BY <1>5, <1>c
<1>6. request' \in [Requests -> RequestRow] /\ AllCarry'
    BY <1>3, <1>4, <1>e, <1>d, OneRequest
<1>7. QED
    BY <1>2, <1>b, <1>6 DEF TypeOK, IInv, RevokedMinted

LEMMA ElapseStep == ASSUME IInv, Elapse PROVE IInv'
<1>1. /\ due \in 0..MaxSessions /\ minted \in 0..MaxSessions /\ revoked \in Nat
      /\ spent \subseteq Sessions /\ MaxSessions \in Nat
      /\ request \in [Requests -> RequestRow]
    BY SessionsAssumption DEF TypeOK, IInv
<1>2. UNCHANGED <<minted, spent, revoked, stored, session, loading, request, losses>>
    BY DEF Elapse, Server, Browser
<1>3. due' \in 0..MaxSessions /\ due <= due' /\ due \in Nat /\ due' \in Nat
    BY <1>1 DEF Elapse
<1>4. AllCarry'
  <2> SUFFICES ASSUME NEW y \in Requests PROVE Carries(request[y], due', revoked)
      BY <1>2 DEF AllCarry
  <2>1. request[y] \in RequestRow /\ Carries(request[y], due, revoked)
      BY <1>1 DEF IInv, AllCarry
  <2>2. QED
      BY <1>1, <1>3, <2>1, CarriesKept
<1>5. QED
    BY <1>2, <1>3, <1>4 DEF TypeOK, IInv, RevokedMinted

-----------------------------------------------------------------------------
(* What the tabs do leaves the server and the clock alone: it is enough to
   look at the request and at what they store.                              *)
LEMMA TabStep ==
    ASSUME IInv, UNCHANGED <<minted, spent, revoked, due, losses>>,
           stored' \in 0..MaxSessions, session' \in [Tabs -> 0..MaxSessions],
           loading' \in [Tabs -> BOOLEAN],
           request' \in [Requests -> RequestRow], AllCarry'
    PROVE  IInv'
BY DEF TypeOK, IInv, RevokedMinted

LEMMA TabRequest ==
    ASSUME IInv, UNCHANGED <<minted, spent, revoked, due, losses>>,
           stored' \in 0..MaxSessions, session' \in [Tabs -> 0..MaxSessions],
           loading' \in [Tabs -> BOOLEAN],
           NEW x \in Requests, NEW r \in RequestRow,
           request' = [request EXCEPT ![x] = r], Carries(r, due, revoked)
    PROVE  IInv'
<1>1. due \in Nat /\ revoked \in Nat /\ due' = due /\ revoked' = revoked
    BY SessionsAssumption DEF TypeOK, IInv
<1>2. due' \in Nat /\ revoked' \in Nat /\ due <= due' /\ revoked <= revoked'
    BY <1>1
<1>3. Carries(r, due', revoked')
    BY <1>1
<1>4. request' \in [Requests -> RequestRow] /\ AllCarry'
    BY <1>2, <1>3, OneRequest
<1>5. QED
    BY <1>4, TabStep

(* persist() stores a session for the tab and for the browser.              *)
LEMMA PersistTypes ==
    ASSUME IInv, NEW t \in Tabs, NEW s \in 0..MaxSessions, Persist(t, s)
    PROVE  stored' \in 0..MaxSessions /\ session' \in [Tabs -> 0..MaxSessions]
BY DEF TypeOK, IInv, Persist

(* Answers: only a refused call makes the tab ask by force, and then the
   session it started with is over.                                         *)
LEMMA ReceiveStep == ASSUME IInv, NEW x \in Requests, Receive(x) PROVE IInv'
<1> DEFINE r == request[x]
<1>1. /\ r \in RequestRow /\ Carries(r, due, revoked)
      /\ stored \in 0..MaxSessions /\ session \in [Tabs -> 0..MaxSessions]
      /\ loading \in [Tabs -> BOOLEAN] /\ 0 \in 0..MaxSessions
    BY SessionsAssumption DEF TypeOK, IInv, AllCarry
<1>2. /\ r.tab \in Tabs \cup {NoTab} /\ r.token \in 0..MaxSessions
      /\ r.closure \in 0..MaxSessions /\ r.grant \in 0..MaxSessions
    BY <1>1 DEF RequestRow
<1>3. UNCHANGED <<minted, spent, revoked, due, losses>>
    BY DEF Receive, Server
<1>4. Idle \in RequestRow /\ Carries(Idle, due, revoked)
    BY IdleFields
<1>5. CASE r.tab = NoTab
  <2>1. request' = [request EXCEPT ![x] = Idle] /\ UNCHANGED <<stored, session, loading>>
      BY <1>5 DEF Receive, Settle, Browser
  <2>2. QED
      BY <1>1, <1>3, <1>4, <2>1, TabRequest
<1>6. CASE r.tab # NoTab
  <2>1. r.tab \in Tabs
      BY <1>2, <1>6
  <2>2. CASE Hydrated(x)
    <3>1. PICK s \in 0..MaxSessions : Persist(r.tab, s)
        BY <1>1, <1>2, <2>2 DEF Hydrated
    <3>2. stored' \in 0..MaxSessions /\ session' \in [Tabs -> 0..MaxSessions]
        BY <2>1, <3>1, PersistTypes
    <3>3. loading' \in [Tabs -> BOOLEAN] /\ request' = [request EXCEPT ![x] = Idle]
        BY <1>1, <2>2 DEF Hydrated, Loaded, Settle
    <3>4. QED
        BY <1>3, <1>4, <3>2, <3>3, TabRequest
  <2>3. CASE SignedIn(x)
    <3>1. Persist(r.tab, r.grant) \/ UNCHANGED <<session, stored>>
        BY <2>3 DEF SignedIn
    <3>2. stored' \in 0..MaxSessions /\ session' \in [Tabs -> 0..MaxSessions]
        BY <1>1, <1>2, <2>1, <3>1, PersistTypes
    <3>3. loading' \in [Tabs -> BOOLEAN] /\ request' = [request EXCEPT ![x] = Idle]
        BY <1>1, <2>3 DEF SignedIn, Settle
    <3>4. QED
        BY <1>3, <1>4, <3>2, <3>3, TabRequest
  <2>4. CASE SignedOut(x)
    <3>1. request' = [request EXCEPT ![x] = Idle] /\ UNCHANGED <<stored, session, loading>>
        BY <2>4 DEF SignedOut, Settle, Browser
    <3>2. QED
        BY <1>1, <1>3, <1>4, <3>1, TabRequest
  <2>5. CASE Refreshed(x)
    <3>1. UNCHANGED loading /\ r.at \in {"first", "force", "feed"}
        BY <2>5 DEF Refreshed
    <3>2. r.at = "first" => Over(r.closure, due, revoked)
        BY <1>1 DEF Carries
    <3>3. CASE r.answer = "granted"
      <4>1. Persist(r.tab, r.grant)
          BY <2>5, <3>3 DEF Refreshed
      <4>2. stored' \in 0..MaxSessions /\ session' \in [Tabs -> 0..MaxSessions]
          BY <1>2, <2>1, <4>1, PersistTypes
      <4>3. CASE r.at = "first"
        <5>1. request' = [request EXCEPT ![x] = Sent(r.tab, "run", r.grant, r.closure)]
            BY <2>5, <3>3, <4>3 DEF Refreshed
        <5>2. "run" \in Stages /\ "run" \notin Refreshes
            BY DEF Stages, Calls, Refreshes
        <5>3. Sent(r.tab, "run", r.grant, r.closure) \in RequestRow
            BY <1>2, <5>2, SentFields
        <5>4. Over(r.closure, due, revoked)
            BY <3>2, <4>3
        <5>5. Carries(Sent(r.tab, "run", r.grant, r.closure), due, revoked)
            BY <1>2, <5>2, <5>4, SentCarries
        <5>6. QED
            BY <1>1, <1>3, <3>1, <4>2, <5>1, <5>3, <5>5, TabRequest
      <4>4. CASE r.at = "force"
        <5>1. request' = [request EXCEPT ![x] = Sent(r.tab, "rerun", r.grant, 0)]
            BY <2>5, <3>3, <4>4 DEF Refreshed
        <5>2. "rerun" \in Stages /\ "rerun" \notin Refreshes
            BY DEF Stages, Calls, Refreshes
        <5>3. /\ Sent(r.tab, "rerun", r.grant, 0) \in RequestRow
              /\ Carries(Sent(r.tab, "rerun", r.grant, 0), due, revoked)
            BY <1>1, <1>2, <5>2, SentFields, SentCarries
        <5>4. QED
            BY <1>1, <1>3, <3>1, <4>2, <5>1, <5>3, TabRequest
      <4>5. CASE r.at = "feed"
        <5>1. request' = [request EXCEPT ![x] = Idle]
            BY <2>5, <3>3, <4>5 DEF Refreshed
        <5>2. QED
            BY <1>1, <1>3, <1>4, <3>1, <4>2, <5>1, TabRequest
      <4>6. QED
          BY <3>1, <4>3, <4>4, <4>5
    <3>4. CASE r.answer # "granted"
      <4>1. Persist(r.tab, 0) /\ request' = [request EXCEPT ![x] = Idle]
          BY <2>5, <3>4 DEF Refreshed, Settle
      <4>2. stored' \in 0..MaxSessions /\ session' \in [Tabs -> 0..MaxSessions]
          BY <1>1, <2>1, <4>1, PersistTypes
      <4>3. QED
          BY <1>1, <1>3, <1>4, <3>1, <4>1, <4>2, TabRequest
    <3>5. QED
        BY <3>3, <3>4
  <2>6. CASE Ran(x)
    <3>1. UNCHANGED <<stored, session, loading>>
        BY <2>6 DEF Ran, Browser
    <3>2. CASE r.at = "run" /\ r.answer = "refused"
      <4>1. request' = [request EXCEPT ![x] = Sent(r.tab, "force", r.closure, 0)]
          BY <2>6, <3>2 DEF Ran, Forced
      <4>2. Over(r.closure, due, revoked)
          BY <1>1, <3>2 DEF Carries
      <4>3. "force" \in Stages
          BY DEF Stages, Refreshes
      <4>4. Over(0, due, revoked)
          BY SessionsAssumption DEF Over, TypeOK, IInv
      <4>5. /\ Sent(r.tab, "force", r.closure, 0) \in RequestRow
            /\ Carries(Sent(r.tab, "force", r.closure, 0), due, revoked)
          BY <1>1, <1>2, <4>2, <4>3, <4>4, SentFields, SentCarries
      <4>6. QED
          BY <1>1, <1>3, <3>1, <4>1, <4>5, TabRequest
    <3>3. CASE ~(r.at = "run" /\ r.answer = "refused")
      <4>1. request' = [request EXCEPT ![x] = Idle]
          BY <2>6, <3>3 DEF Ran, Settle
      <4>2. QED
          BY <1>1, <1>3, <1>4, <3>1, <4>1, TabRequest
    <3>4. QED
        BY <3>2, <3>3
  <2>7. QED
      BY <1>6, <2>2, <2>3, <2>4, <2>5, <2>6 DEF Receive
<1>7. QED
    BY <1>5, <1>6

(* Requests leave for the server: the refreshes among them are of a session
   that is due, or are the feed's.                                          *)
LEMMA SendStep ==
    ASSUME IInv, UNCHANGED <<minted, spent, revoked, due, losses>>,
           stored' \in 0..MaxSessions, session' \in [Tabs -> 0..MaxSessions],
           loading' \in [Tabs -> BOOLEAN],
           NEW r \in RequestRow, Send(r), Carries(r, due, revoked)
    PROVE  IInv'
<1>1. PICK x \in Requests : request' = [request EXCEPT ![x] = r]
    BY DEF Send, Free
<1>2. QED
    BY <1>1, TabRequest

LEMMA LoginStep == ASSUME IInv, NEW t \in Tabs, Login(t) PROVE IInv'
<1>1. UNCHANGED <<minted, spent, revoked, due, losses, stored, session, loading>>
    BY DEF Login, Server, Browser
<1>2. 0 \in 0..MaxSessions /\ "login" \in Stages
    BY SessionsAssumption DEF Stages
<1>3. "login" \notin Refreshes
    BY DEF Refreshes
<1>4. /\ Sent(t, "login", 0, 0) \in RequestRow
      /\ Carries(Sent(t, "login", 0, 0), due, revoked)
    BY <1>2, <1>3, SentFields, SentCarries
<1>5. Send(Sent(t, "login", 0, 0))
    BY DEF Login
<1>6. /\ stored' \in 0..MaxSessions /\ session' \in [Tabs -> 0..MaxSessions]
      /\ loading' \in [Tabs -> BOOLEAN]
    BY <1>1 DEF TypeOK, IInv
<1>7. QED
    BY <1>1, <1>4, <1>5, <1>6, SendStep

LEMMA LogoutStep == ASSUME IInv, NEW t \in Tabs, Logout(t) PROVE IInv'
<1>1. UNCHANGED <<minted, spent, revoked, due, losses, loading>>
    BY DEF Logout, Server
<1>2. 0 \in 0..MaxSessions /\ "logout" \in Stages /\ session[t] \in 0..MaxSessions
    BY SessionsAssumption DEF Stages, TypeOK, IInv
<1>3. "logout" \notin Refreshes
    BY DEF Refreshes
<1>4. /\ Sent(t, "logout", session[t], 0) \in RequestRow
      /\ Carries(Sent(t, "logout", session[t], 0), due, revoked)
    BY <1>2, <1>3, SentFields, SentCarries
<1>5. Send(Sent(t, "logout", session[t], 0)) /\ Persist(t, 0)
    BY DEF Logout
<1>6. stored' \in 0..MaxSessions /\ session' \in [Tabs -> 0..MaxSessions]
    BY <1>2, <1>5, PersistTypes
<1>7. loading' \in [Tabs -> BOOLEAN]
    BY <1>1 DEF TypeOK, IInv
<1>8. QED
    BY <1>1, <1>4, <1>5, <1>6, <1>7, SendStep

LEMMA CallStep == ASSUME IInv, NEW t \in Tabs, Call(t) PROVE IInv'
<1> DEFINE at == IF NeedsRefresh(session[t]) THEN "first" ELSE "run"
<1>1. UNCHANGED <<minted, spent, revoked, due, losses, stored, session, loading>>
    BY DEF Call, Server, Browser
<1>2. session[t] \in 0..MaxSessions /\ {"first", "run"} \subseteq Stages
    BY DEF Stages, Refreshes, Calls, TypeOK, IInv
<1>3. at \in Stages /\ at \in {"first", "run"} /\ (at = "first" => session[t] <= due)
    BY <1>2 DEF NeedsRefresh
<1>4. Send(Sent(t, at, session[t], session[t]))
    BY DEF Call
<1> HIDE DEF at
<1>5. at \in Refreshes \cup {"first", "force"} => Over(session[t], due, revoked)
    BY <1>3 DEF Refreshes, Over
<1>6. /\ Sent(t, at, session[t], session[t]) \in RequestRow
      /\ Carries(Sent(t, at, session[t], session[t]), due, revoked)
    BY <1>2, <1>3, <1>5, SentFields, SentCarries
<1>7. /\ stored' \in 0..MaxSessions /\ session' \in [Tabs -> 0..MaxSessions]
      /\ loading' \in [Tabs -> BOOLEAN]
    BY <1>1 DEF TypeOK, IInv
<1>8. QED
    BY <1>1, <1>4, <1>6, <1>7, SendStep

LEMMA ReconnectStep == ASSUME IInv, NEW t \in Tabs, Reconnect(t) PROVE IInv'
<1>1. UNCHANGED <<minted, spent, revoked, due, losses, stored, session, loading>>
    BY DEF Reconnect, Server, Browser
<1>2. 0 \in 0..MaxSessions /\ "feed" \in Stages /\ session[t] \in 0..MaxSessions
    BY SessionsAssumption DEF Stages, Refreshes, TypeOK, IInv
<1>3. "feed" \notin Refreshes \ {"feed"} /\ "feed" \notin {"first", "force", "run"}
    OBVIOUS
<1>4. /\ Sent(t, "feed", session[t], 0) \in RequestRow
      /\ Carries(Sent(t, "feed", session[t], 0), due, revoked)
    BY <1>2, <1>3, SentFields, SentCarries
<1>5. Send(Sent(t, "feed", session[t], 0))
    BY DEF Reconnect
<1>6. /\ stored' \in 0..MaxSessions /\ session' \in [Tabs -> 0..MaxSessions]
      /\ loading' \in [Tabs -> BOOLEAN]
    BY <1>1 DEF TypeOK, IInv
<1>7. QED
    BY <1>1, <1>4, <1>5, <1>6, SendStep

(* A page that loads forgets its requests; what is left of them carries what
   it carried, and a stored session is refreshed only when it is due.       *)
LEMMA LoadStep == ASSUME IInv, NEW t \in Tabs, Load(t) PROVE IInv'
<1> DEFINE row(x) == IF request[x].tab # t THEN request[x]
                     ELSE IF request[x].answer = "none" /\ request[x].at \notin Calls \cup {"me"}
                          THEN Sent(NoTab, request[x].at, request[x].token, 0)
                          ELSE Idle
           left == [x \in Requests |-> row(x)]
           at   == IF stored <= due THEN "renew" ELSE "me"
           sent == Sent(t, at, stored, 0)
<1>1. /\ request \in [Requests -> RequestRow] /\ stored \in 0..MaxSessions
      /\ session \in [Tabs -> 0..MaxSessions] /\ loading \in [Tabs -> BOOLEAN]
      /\ 0 \in 0..MaxSessions /\ due \in Nat /\ revoked \in Nat
    BY SessionsAssumption DEF TypeOK, IInv
<1>2. UNCHANGED <<minted, spent, revoked, due, losses, stored>>
    BY DEF Load, Server
<1>3. session' \in [Tabs -> 0..MaxSessions] /\ loading' \in [Tabs -> BOOLEAN]
    BY <1>1 DEF Load, Loaded
<1>4. ASSUME NEW x \in Requests PROVE row(x) \in RequestRow /\ Carries(row(x), due, revoked)
  <2>1. request[x] \in RequestRow /\ Carries(request[x], due, revoked)
      BY <1>1 DEF IInv, AllCarry
  <2>2. CASE request[x].tab # t
      BY <2>1, <2>2
  <2>3. CASE /\ request[x].tab = t /\ request[x].answer = "none"
             /\ request[x].at \notin Calls \cup {"me"}
    <3>1. row(x) = Sent(NoTab, request[x].at, request[x].token, 0)
        BY <2>3
    <3>2. request[x].at \in Stages /\ request[x].token \in 0..MaxSessions
        BY <2>1 DEF RequestRow
    <3>3. request[x].at # "run" /\ Over(0, due, revoked)
        BY <1>1, <2>3 DEF Calls, Over
    <3>4. request[x].at \in Refreshes \ {"feed"} => Over(request[x].token, due, revoked)
        BY <2>1 DEF Carries
    <3>5. NoTab \in Tabs \cup {NoTab}
        OBVIOUS
    <3>6. Sent(NoTab, request[x].at, request[x].token, 0) \in RequestRow
        BY <1>1, <3>2, <3>5, SentFields
    <3>7. Carries(Sent(NoTab, request[x].at, request[x].token, 0), due, revoked)
        BY <1>1, <3>2, <3>3, <3>4, <3>5, SentCarries
    <3>8. QED
        BY <3>1, <3>6, <3>7
  <2>4. CASE /\ request[x].tab = t
             /\ ~(/\ request[x].answer = "none"
                  /\ request[x].at \notin Calls \cup {"me"})
    <3>1. row(x) = Idle
        BY <2>4
    <3>2. QED
        BY <3>1, IdleFields
  <2>5. QED
      BY <2>2, <2>3, <2>4
<1>5. sent \in RequestRow /\ Carries(sent, due, revoked)
  <2>1. at \in Stages /\ at \in {"renew", "me"} /\ (at = "renew" => stored <= due)
      BY DEF Stages, Refreshes
  <2> HIDE DEF at
  <2>2. at \in Refreshes => Over(stored, due, revoked)
      BY <2>1 DEF Refreshes, Over
  <2>3. QED
      BY <1>1, <2>1, <2>2, SentFields, SentCarries
<1>6. request' = left \/ \E x \in Requests : request' = [left EXCEPT ![x] = sent]
  <2>1. left = [x \in Requests |->
                  IF request[x].tab # t THEN request[x]
                  ELSE IF request[x].answer = "none" /\ request[x].at \notin Calls \cup {"me"}
                       THEN Sent(NoTab, request[x].at, request[x].token, 0)
                       ELSE Idle]
      OBVIOUS
  <2> DEFINE free == {x \in Requests : left[x] = Idle}
  <2>2. \/ request' = left
        \/ free # {} /\ request' = [left EXCEPT ![CHOOSE x \in free : TRUE] = sent]
      BY DEF Load
  <2>3. QED
      BY <2>2
<1>7. request' \in [Requests -> RequestRow]
      /\ \A x \in Requests : Carries(request'[x], due, revoked)
  <2> HIDE DEF row, sent
  <2>1. CASE request' = left
      BY <1>4, <2>1
  <2>2. ASSUME NEW y \in Requests, request' = [left EXCEPT ![y] = sent]
        PROVE  request' \in [Requests -> RequestRow]
               /\ \A x \in Requests : Carries(request'[x], due, revoked)
      BY <1>4, <1>5, <2>2
  <2>3. QED
      BY <1>6, <2>1, <2>2
<1>8. AllCarry'
    BY <1>2, <1>7 DEF AllCarry
<1>9. stored' \in 0..MaxSessions
    BY <1>1, <1>2
<1>10. QED
    BY <1>2, <1>3, <1>7, <1>8, <1>9, TabStep

LEMMA NextStep == ASSUME IInv, [Next]_vars PROVE IInv'
<1>1. CASE UNCHANGED vars
    BY <1>1 DEF vars, IInv, TypeOK, RevokedMinted, AllCarry
<1>2. CASE Next
    BY <1>2, ServeStep, LoseStep, ReceiveStep, ElapseStep, LoginStep, LogoutStep, CallStep,
       ReconnectStep, LoadStep DEF Next
<1>3. QED
    BY <1>1, <1>2

-----------------------------------------------------------------------------
(* The strengthened invariant of auth-provider.tsx and auth.service.ts.     *)
THEOREM SessionsInvariant == Spec => []IInv
BY InitInv, NextStep, PTL DEF Spec

(* A step that uses up the token of a session with time left answers the
   feed's forced refresh: the token of any other refresh is over, and the
   server refuses one that was revoked.                                     *)
LEMMA SpentStep ==
    ASSUME IInv, [Next]_vars, NEW s \in spent' \ spent, s > due
    PROVE  \E x \in Requests : /\ request[x].at = "feed" /\ request[x].token = s
                               /\ request[x].answer = "none"
<1>1. PICK x \in Requests : Serve(x)
  <2>1. spent' # spent
      OBVIOUS
  <2>2. ASSUME UNCHANGED spent PROVE FALSE
      BY <2>1, <2>2
  <2>3. CASE UNCHANGED vars
      BY <2>2, <2>3 DEF vars
  <2>4. ASSUME NEW x \in Requests, Lose(x) \/ Receive(x) PROVE FALSE
      BY <2>2, <2>4 DEF Lose, Receive, Server
  <2>5. CASE Elapse
      BY <2>2, <2>5 DEF Elapse, Server
  <2>6. ASSUME NEW t \in Tabs, Login(t) \/ Logout(t) \/ Call(t) \/ Reconnect(t) \/ Load(t)
        PROVE  FALSE
      BY <2>2, <2>6 DEF Login, Logout, Call, Reconnect, Load, Server
  <2>7. QED
      BY <2>3, <2>4, <2>5, <2>6 DEF Next
<1>2. ServeRefresh(x) /\ request[x].answer = "none"
    BY <1>1 DEF Serve, ServeLogin, ServeCall, ServeLogout, Server
<1>3. s = request[x].token /\ s > revoked /\ request[x].at \in Refreshes
    BY <1>2 DEF ServeRefresh, Refreshable
<1>4. s \in Nat /\ due \in Nat /\ revoked \in Nat /\ Carries(request[x], due, revoked)
    BY <1>3, SessionsAssumption DEF IInv, TypeOK, AllCarry, RequestRow
<1>5. ~Over(s, due, revoked)
    BY <1>3, <1>4 DEF Over
<1>6. request[x].at = "feed"
    BY <1>3, <1>4, <1>5 DEF Carries
<1>7. QED
    BY <1>2, <1>3, <1>6

(* Only the feed's forced refresh uses up the refresh token of a session
   that has time left: calls, reloads and refreshes after a 401 of tabs that
   share a good session do not take it from each other.                     *)
THEOREM OnlyFeedSpends == Spec => OnlyFeedSpendsGood
<1>1. ASSUME IInv, [Next]_vars
      PROVE  [\A s \in spent' \ spent :
                 s > due => \E x \in Requests : /\ request[x].at = "feed" /\ request[x].token = s
                                                /\ request[x].answer = "none"]_vars
    BY <1>1, SpentStep
<1>2. QED
    BY <1>1, SessionsInvariant, PTL DEF Spec, OnlyFeedSpendsGood
=============================================================================
