------------------------- MODULE HttpClientUtilProofs -------------------------
(***************************************************************************)
(* Theorems about HttpClientUtil, for any number of threads, any size of   *)
(* pool and any number of calls.                                           *)
(***************************************************************************)
EXTENDS HttpClientUtil, FiniteSetTheorems, TLAPS

\* Every call has a request of its own.
Owned ==
  /\ \A t \in Thread :
       /\ pc[t] = "out" <=> request[t] = NoRequest
       /\ request[t] # NoRequest => request[t] \in Made
       /\ \A u \in Thread : request[t] = request[u] /\ request[t] # NoRequest => t = u
  /\ threw \cup overlapped \subseteq Made

\* When a call returns, its connection is back, or it is one of the two leaks.
Leaks(r) == r \in missed /\ (method[r] = "get" \/ r \in threw)
Settled ==
  \A t \in Thread : pc[t] = "return" =>
    lease[request[t]] = NoClient \/ Leaks(request[t])

\* The static response is one that was received, and if its connection is
\* still leased, consuming its entity will end that.
Waiting == {"check", "create", "execute", "lease", "exchange"}
Received ==
  /\ httpResponse \in Made \cup {NoRequest}
  /\ \A t \in Thread : pc[t] \in Waiting => httpResponse # request[t]
  /\ httpResponse # NoRequest /\ lease[httpResponse] # NoClient =>
       body[httpResponse] # "none"

\* While a call is alone the static response is what it received, and its own
\* lease ends with that response.
Alone(t) ==
  /\ \A u \in Thread : request[u] # NoRequest => u = t
  /\ used[t] \subseteq {request[t]}
  /\ pc[t] \in {"status", "entity", "read"} => httpResponse = request[t]
  /\ pc[t] = "read" => entity[t] = request[t]
  /\ lease[request[t]] # NoClient =>
       \/ pc[t] = "exchange"
       \/ /\ pc[t] \in {"status", "entity", "read", "finally"}
          /\ httpResponse = request[t] /\ body[request[t]] # "none"

AloneInv ==
  /\ \A t \in Thread : request[t] \in Request \ overlapped => Alone(t)
  /\ \A t \in Thread : pc[t] = "out" => used[t] = {}
  /\ \A r \in Request : r \notin Made => lease[r] = NoClient

\* Once there is a client nobody joins those who are about to make one.
Creators == {t \in Thread : pc[t] = "create"}
Counted ==
  /\ clients = 0 <=> postClient = NoClient
  /\ clients + Cardinality(Creators) <= Cardinality(Thread)

\* With Received, the inductive invariant for the leaks; that for the clients
\* is TypeOK with Counted.
IInv == TypeOK /\ Owned /\ Settled /\ LeaksExplained

LEMMA InitIInv == Init => IInv /\ Received
<1> SUFFICES ASSUME Init PROVE IInv /\ Received
  OBVIOUS
<1>1. TypeOK
  BY DEF Init, TypeOK, Location, Body, NoClient, NoRequest, Clients, Request
<1>2. Owned /\ Settled /\ LeaksExplained /\ Received
  BY DEF Init, Owned, Settled, LeaksExplained, Received, Waiting, NoRequest
<1> QED BY <1>1, <1>2 DEF IInv

\* Steps of a running call before its finally block is over, that end no lease
\* or end some: no new lease, no return.
LEMMA QuietIInv ==
  ASSUME IInv, NEW t \in Thread, NEW from, NEW to, Goto(t, from, to),
         from \notin {"out", "return"}, to \notin {"out", "return"},
         UNCHANGED <<request, method, overlapped, threw, missed>>,
         \A r \in Request : lease'[r] \in {lease[r], NoClient}
  PROVE  Owned' /\ Settled' /\ LeaksExplained'
<1> USE DEF IInv, Goto
<1>1. Owned'
  BY DEF Owned, TypeOK, Made
<1>2. Settled'
  BY DEF Settled, Leaks, TypeOK, Owned, Made
<1>3. LeaksExplained'
  BY DEF LeaksExplained, InProgress
<1> QED BY <1>1, <1>2, <1>3

LEMMA CallIInv ==
  ASSUME IInv, NEW t \in Thread, NEW m \in {"get", "post"}, Call(t, m)
  PROVE  IInv'
<1> USE DEF IInv, Call, Goto
<1>1. PICK r \in Request :
        /\ Made = 1 .. r - 1
        /\ method' = [method EXCEPT ![r] = m]
        /\ request' = [request EXCEPT ![t] = r]
        /\ overlapped' = IF Running = {} THEN overlapped
                         ELSE overlapped \cup Running \cup {r}
  OBVIOUS
<1>2. r \notin Made /\ r # NoRequest /\ Running \subseteq Made
  BY <1>1 DEF Request, NoRequest, Running, Owned
<1>3. TypeOK'
  <2>1. method' \in [Request -> {"none", "get", "post"}]
    BY <1>1 DEF TypeOK
  <2>2. request' \in [Thread -> Request \cup {NoRequest}]
    BY <1>1 DEF TypeOK
  <2>3. pc' \in [Thread -> Location] /\ pc'[t] \in {"execute", "check"}
    BY DEF TypeOK, Location
  <2>4. overlapped' \subseteq Request
    BY <1>1, <1>2 DEF TypeOK, Made
  <2> QED BY <2>1, <2>2, <2>3, <2>4 DEF TypeOK, Clients, statics
<1>4. Owned'
  BY <1>1, <1>2 DEF Owned, TypeOK, Made, NoRequest
<1>5. Settled'
  BY <1>1, <1>2 DEF Settled, Leaks, TypeOK, Owned, Made
<1>6. LeaksExplained'
  <2>1. lease[r] = NoClient
    BY <1>2 DEF LeaksExplained, InProgress, Owned, Made
  <2>2. ASSUME NEW q \in Request, q # r, InProgress(q) PROVE InProgress(q)'
    BY <1>1, <2>2 DEF InProgress, Owned, TypeOK, Request, NoRequest
  <2> QED BY <1>1, <2>1, <2>2 DEF LeaksExplained, TypeOK
<1> QED BY <1>3, <1>4, <1>5, <1>6
-----------------------------------------------------------------------------
(* The steps of a running call.                                            *)
LEMMA ClientIInv ==
  ASSUME IInv, NEW t \in Thread,
         CheckClient(t) \/ CreateClient(t) \/ CreateClientThrows(t) \/ Execute(t)
  PROVE  IInv'
<1> USE DEF IInv, CheckClient, CreateClient, CreateClientThrows, Execute
<1>1. PICK from \in {"check", "create", "execute"}, to \in {"create", "execute", "lease", "finally"} :
        Goto(t, from, to)
  BY DEF Creates
<1>2. UNCHANGED <<httpResponse, lease, body, method, overlapped, threw, missed, request, entity, used>>
  BY DEF statics, pools
<1>3. Owned' /\ Settled' /\ LeaksExplained'
  BY <1>1, <1>2, QuietIInv
<1>4. clients' \in Nat /\ clients <= clients' /\ postClient' \in {NoClient} \cup 1 .. clients'
  BY DEF TypeOK, statics, pools, NoClient
<1>5. client' \in [Thread -> {GetClient, NoClient} \cup 1 .. clients']
  <2>1. {GetClient, NoClient} \cup 1 .. clients \subseteq {GetClient, NoClient} \cup 1 .. clients'
    BY <1>4 DEF TypeOK, GetClient, NoClient
  <2>2. client \in [Thread -> {GetClient, NoClient} \cup 1 .. clients]
    BY DEF TypeOK, Clients
  <2> QED BY <1>4, <2>1, <2>2 DEF ClientOf, TypeOK
<1>6. lease' \in [Request -> {GetClient, NoClient} \cup 1 .. clients']
  BY <1>2, <1>4 DEF TypeOK, Clients
<1>7. TypeOK'
  BY <1>1, <1>2, <1>4, <1>5, <1>6 DEF TypeOK, Clients, Location, Goto
<1> QED BY <1>3, <1>7

\* A call takes a connection: the only step that begins a lease.
LEMMA LeaseIInv ==
  ASSUME IInv, NEW t \in Thread, Lease(t)
  PROVE  IInv'
<1> USE DEF IInv, Lease, Goto
<1>1. request[t] \in Made /\ request[t] \in Request
  BY DEF Owned, Made
<1>2. TypeOK'
  BY <1>1 DEF TypeOK, Location, Clients, statics
<1>3. Owned'
  BY DEF Owned, TypeOK, Made
<1>4. Settled'
  BY <1>1 DEF Settled, Leaks, TypeOK, Owned, Made
<1>5. LeaksExplained'
  BY <1>1 DEF LeaksExplained, InProgress, TypeOK
<1> QED BY <1>2, <1>3, <1>4, <1>5

LEMMA ExchangeIInv ==
  ASSUME IInv, NEW t \in Thread,
         \/ LeaseTimesOut(t) \/ ExchangeFails(t)
         \/ \E b \in {"none", "unread"} : Receive(t, b)
  PROVE  IInv'
<1> USE DEF IInv, LeaseTimesOut, ExchangeFails, Receive, AfterFailure
<1>1. PICK from \in {"lease", "exchange"}, to \in {"finally", "status"} : Goto(t, from, to)
  OBVIOUS
<1>2. request[t] \in Request
  BY <1>1 DEF Owned, Made, Goto
<1>3. UNCHANGED <<request, method, overlapped, threw, missed, clients, postClient, client, entity, used>>
  BY DEF statics, pools
<1>4. lease' = lease \/ lease' = [lease EXCEPT ![request[t]] = NoClient]
  BY DEF pools
<1>5. /\ body' \in [Request -> Body]
      /\ httpResponse' \in Request \cup {NoRequest}
      /\ httpResponse # NoRequest => httpResponse' # NoRequest
      /\ to = "status" => httpResponse' # NoRequest
  BY <1>1, <1>2 DEF TypeOK, Body, statics, pools, Goto, Request, NoRequest
<1>6. Owned' /\ Settled' /\ LeaksExplained'
  BY <1>1, <1>3, <1>4, QuietIInv DEF TypeOK
<1>7. TypeOK'
  BY <1>1, <1>3, <1>4, <1>5 DEF TypeOK, Clients, Location, Goto
<1> QED BY <1>6, <1>7

LEMMA AnswerIInv ==
  ASSUME IInv, NEW t \in Thread, ReadStatus(t) \/ GetEntity(t) \/ ReadBody(t)
  PROVE  IInv'
<1> USE DEF IInv, ReadStatus, GetEntity, ReadBody, Uses
<1>1. PICK from \in {"status", "entity", "read"}, to \in {"entity", "read", "finally"} :
        /\ Goto(t, from, to)
        /\ to = "entity" => from = "status"
        /\ to = "read" => from = "entity"
  BY DEF AfterStatus, Goto
<1>2. UNCHANGED <<httpResponse, request, method, overlapped, threw, missed, clients, postClient, client>>
  BY DEF statics, pools
<1>3. from = "read" => entity[t] \in Request
  BY <1>1 DEF TypeOK, Goto
<1>4. \/ UNCHANGED <<lease, body>>
      \/ /\ entity[t] \in Request
         /\ lease' = [lease EXCEPT ![entity[t]] = NoClient]
         /\ body' = [body EXCEPT ![entity[t]] = "consumed"]
  BY <1>1, <1>3 DEF pools, Goto
<1>5. Owned' /\ Settled' /\ LeaksExplained'
  BY <1>1, <1>2, <1>4, QuietIInv DEF TypeOK
<1>6. /\ entity' \in [Thread -> Request \cup {NoRequest}]
      /\ \A u \in Thread : entity[u] # NoRequest => entity'[u] # NoRequest
      /\ to = "read" => entity'[t] # NoRequest
  BY <1>1 DEF TypeOK, Goto
<1>7. used' \in [Thread -> SUBSET Request]
  BY <1>1 DEF TypeOK, Goto
<1>8. TypeOK'
  BY <1>1, <1>2, <1>4, <1>6, <1>7 DEF TypeOK, Clients, Location, Body, Goto
<1> QED BY <1>5, <1>8

\* Consuming and releasing touch one lease, to end it.
LEMMA FinallyIInv ==
  ASSUME IInv, Received, NEW t \in Thread, Finally(t) \/ FinallyThrows(t) \/ ReleaseConnection(t)
  PROVE  IInv'
<1> USE DEF IInv, Finally, FinallyThrows, ReleaseConnection
<1>1. PICK to \in {"release", "return"} : pc' = [pc EXCEPT ![t] = to]
  BY DEF Goto
<1>2. pc[t] \in {"finally", "release"} /\ request[t] \in Made /\ request[t] \in Request
  BY DEF Goto, Owned, Made
<1>3. /\ UNCHANGED <<httpResponse, request, method, overlapped, clients, postClient, client, entity, used>>
      /\ threw \subseteq threw' /\ threw' \subseteq threw \cup {request[t]}
      /\ missed \subseteq missed' /\ missed' \subseteq missed \cup {request[t]}
  BY DEF statics, Misses
<1>4. PICK r \in Request :
        /\ lease' \in {lease, [lease EXCEPT ![r] = NoClient]}
        /\ body' \in [Request -> Body]
  <2>1. CASE ReleaseConnection(t)
    BY <2>1, <1>2 DEF Releases, TypeOK, Body
  <2>2. CASE Finally(t) \/ FinallyThrows(t)
    BY <2>2, <1>2 DEF Consumes, TypeOK, Body
  <2> QED BY <2>1, <2>2
<1>5. TypeOK'
  BY <1>1, <1>2, <1>3, <1>4 DEF TypeOK, Clients, Location
<1>6. Owned'
  BY <1>1, <1>2, <1>3 DEF Owned, TypeOK, Made
<1>7. LeaksExplained'
  BY <1>3, <1>4 DEF LeaksExplained, InProgress, TypeOK
<1>8. to = "return" => lease'[request[t]] = NoClient \/ Leaks(request[t])'
  <2>1. CASE ReleaseConnection(t)
    BY <2>1, <1>2 DEF Releases, TypeOK
  <2>2. CASE Finally(t) \/ FinallyThrows(t)
    <3>1. httpResponse = request[t] => lease'[request[t]] = NoClient
      <4> SUFFICES ASSUME httpResponse = request[t]
                   PROVE  lease'[httpResponse] = NoClient
        OBVIOUS
      <4>1. httpResponse \in Request /\ httpResponse # NoRequest /\ Consumes(httpResponse)
        BY <2>2, <1>2 DEF Request, NoRequest
      <4>2. CASE body[httpResponse] = "none"
        BY <4>1, <4>2 DEF Consumes, Received
      <4>3. CASE body[httpResponse] # "none"
        BY <4>1, <4>3 DEF Consumes, TypeOK
      <4> QED BY <4>2, <4>3
    <3>2. httpResponse # request[t] => request[t] \in missed'
      BY <2>2 DEF Misses
    <3>3. to = "return" => method'[request[t]] = "get" \/ request[t] \in threw'
      BY <2>2, <1>1 DEF Goto, TypeOK
    <3> QED BY <3>1, <3>2, <3>3 DEF Leaks
  <2> QED BY <2>1, <2>2
<1>9. Settled'
  <2>1. ASSUME NEW u \in Thread, u # t, pc'[u] = "return"
        PROVE  /\ request[u] \in Request /\ pc[u] = "return"
               /\ lease'[request[u]] \in {lease[request[u]], NoClient}
    BY <2>1, <1>1, <1>4 DEF Owned, Made, TypeOK
  <2> QED BY <1>1, <1>3, <1>8, <2>1 DEF Settled, Leaks, TypeOK
<1> QED BY <1>5, <1>6, <1>7, <1>9

LEMMA ReturnIInv ==
  ASSUME IInv, NEW t \in Thread, Return(t)
  PROVE  IInv'
<1> USE DEF IInv, Return, Goto, statics, pools
<1>1. TypeOK'
  BY DEF TypeOK, Location, Clients, NoRequest
<1>2. Owned'
  BY DEF Owned, TypeOK, Made
<1>3. Settled'
  BY DEF Settled, Leaks, TypeOK
<1>4. LeaksExplained'
  BY DEF LeaksExplained, InProgress, Settled, Leaks, TypeOK
<1> QED BY <1>1, <1>2, <1>3, <1>4

\* The static response changes only when one is received.
LEMMA NextReceived ==
  ASSUME IInv, Received, [Next]_vars
  PROVE  Received'
<1> USE DEF IInv, Received, Waiting
<1>1. CASE UNCHANGED vars
  BY <1>1 DEF vars, statics, pools, locals, Made
<1>2. ASSUME NEW t \in Thread, NEW m \in {"get", "post"}, Call(t, m) PROVE Received'
  <2>1. PICK r \in Request :
          /\ Made = 1 .. r - 1
          /\ method' = [method EXCEPT ![r] = m]
          /\ request' = [request EXCEPT ![t] = r]
    BY <1>2 DEF Call
  <2>2. r \notin Made /\ r # NoRequest /\ Made \subseteq Made'
    BY <2>1 DEF Request, NoRequest, Made, TypeOK
  <2> QED BY <1>2, <2>1, <2>2 DEF Call, Goto, TypeOK, statics
<1>3. ASSUME NEW t \in Thread,
             \/ CheckClient(t) \/ CreateClient(t) \/ CreateClientThrows(t) \/ Execute(t)
             \/ Lease(t) \/ LeaseTimesOut(t) \/ ExchangeFails(t)
      PROVE  Received'
  <2>1. /\ pc[t] \in Waiting /\ pc' = [pc EXCEPT ![t] = pc'[t]]
        /\ UNCHANGED <<httpResponse, body, method, request>>
    BY <1>3 DEF CheckClient, CreateClient, CreateClientThrows, Execute, Lease,
       LeaseTimesOut, ExchangeFails, Goto, statics, pools, TypeOK
  <2>2. \A r \in Request : r = request[t] \/ lease'[r] = lease[r]
    BY <1>3 DEF CheckClient, CreateClient, CreateClientThrows, Execute, Lease,
       LeaseTimesOut, ExchangeFails, pools, TypeOK
  <2> QED BY <2>1, <2>2 DEF Made, TypeOK
<1>4. ASSUME NEW t \in Thread, NEW b \in {"none", "unread"}, Receive(t, b) PROVE Received'
  <2>1. request[t] \in Made /\ request[t] \in Request
    BY <1>4 DEF Receive, Goto, Owned, Made
  <2> QED BY <1>4, <2>1 DEF Receive, Goto, Owned, Made, TypeOK, NoRequest
<1>5. ASSUME NEW t \in Thread,
             \/ ReadStatus(t) \/ GetEntity(t) \/ ReadBody(t)
             \/ Finally(t) \/ FinallyThrows(t) \/ ReleaseConnection(t)
      PROVE  Received'
  <2>1. /\ UNCHANGED <<httpResponse, method, request>>
        /\ pc'[t] \notin Waiting /\ pc' = [pc EXCEPT ![t] = pc'[t]]
    BY <1>5 DEF ReadStatus, AfterStatus, GetEntity, ReadBody, Finally, FinallyThrows,
       ReleaseConnection, Goto, statics, pools, TypeOK
  <2>2. \A r \in Request : /\ lease'[r] \in {lease[r], NoClient}
                           /\ body[r] # "none" => body'[r] # "none"
    <3>1. CASE ReadStatus(t) \/ GetEntity(t)
      BY <3>1 DEF ReadStatus, GetEntity, pools
    <3>2. CASE ReadBody(t)
      BY <3>2 DEF ReadBody, Goto, TypeOK
    <3>3. CASE Finally(t) \/ FinallyThrows(t)
      BY <3>3 DEF Finally, FinallyThrows, Consumes, TypeOK
    <3>4. CASE ReleaseConnection(t)
      BY <3>4 DEF ReleaseConnection, Releases, TypeOK
    <3> QED BY <1>5, <3>1, <3>2, <3>3, <3>4
  <2> QED BY <2>1, <2>2 DEF Made, TypeOK
<1>6. ASSUME NEW t \in Thread, Return(t) PROVE Received'
  BY <1>6 DEF Return, Goto, statics, pools, Made, TypeOK
<1> QED BY <1>1, <1>2, <1>3, <1>4, <1>5, <1>6 DEF Next, ThreadStep

LEMMA NextIInv == IInv /\ Received /\ [Next]_vars => IInv' /\ Received'
<1> SUFFICES ASSUME IInv, Received, [Next]_vars PROVE IInv'
  BY NextReceived
<1>1. CASE UNCHANGED vars
  BY <1>1 DEF vars, statics, pools, locals, IInv, TypeOK, Clients, Owned, Made,
              Settled, Leaks, LeaksExplained, InProgress
<1>2. CASE Next
  BY <1>2, CallIInv, ClientIInv, LeaseIInv, ExchangeIInv, AnswerIInv,
     FinallyIInv, ReturnIInv DEF Next, ThreadStep
<1> QED BY <1>1, <1>2
-----------------------------------------------------------------------------
(* The clients of the posts.                                               *)
LEMMA CreatorsFinite ==
  IsFiniteSet(Creators) /\ Cardinality(Creators) \in Nat
BY ThreadAssumption, FS_Subset, FS_CardinalityType DEF Creators

LEMMA InitCounted == Init => Counted
<1> SUFFICES ASSUME Init PROVE Counted
  OBVIOUS
<1>1. Creators = {}
  BY DEF Init, Creators
<1>2. Cardinality(Creators) = 0 /\ Cardinality(Thread) \in Nat
  BY <1>1, ThreadAssumption, FS_EmptySet, FS_CardinalityType
<1> QED BY <1>2 DEF Init, Counted

LEMMA NextCounted == TypeOK /\ Counted /\ [Next]_vars => Counted'
<1> SUFFICES ASSUME TypeOK, Counted, [Next]_vars PROVE Counted'
  OBVIOUS
<1> USE CreatorsFinite
<1>1. clients \in Nat /\ Cardinality(Thread) \in Nat
  BY ThreadAssumption, FS_CardinalityType DEF TypeOK
<1>2. CASE clients' = clients /\ postClient' = postClient /\ Creators' \subseteq Creators
  <2>1. IsFiniteSet(Creators') /\ Cardinality(Creators') <= Cardinality(Creators)
    BY <1>2, FS_Subset
  <2>2. Cardinality(Creators') \in Nat
    BY <2>1, FS_CardinalityType
  <2> QED BY <1>1, <1>2, <2>1, <2>2 DEF Counted
<1>3. ASSUME NEW t \in Thread, CheckClient(t) PROVE Counted'
  <2>1. CASE Creates
    <3>1. Creators' \subseteq Thread
      BY DEF Creators
    <3>2. Cardinality(Creators') <= Cardinality(Thread) /\ Cardinality(Creators') \in Nat
      BY <3>1, ThreadAssumption, FS_Subset, FS_CardinalityType
    <3>3. clients' = 0 /\ postClient' = NoClient
      BY <1>3, <2>1 DEF CheckClient, Creates, Counted, statics, pools
    <3> QED BY <1>1, <3>2, <3>3 DEF Counted
  <2>2. CASE ~Creates
    BY <1>2, <1>3, <2>2 DEF CheckClient, Creators, Goto, TypeOK, statics, pools
  <2> QED BY <2>1, <2>2
<1>4. ASSUME NEW t \in Thread, CreateClient(t) PROVE Counted'
  <2>1. t \in Creators /\ Creators' = Creators \ {t}
    BY <1>4 DEF CreateClient, Creators, Goto, TypeOK
  <2>2. Cardinality(Creators') = Cardinality(Creators) - 1
    BY <2>1, FS_RemoveElement
  <2> QED BY <1>1, <1>4, <2>2 DEF CreateClient, Counted, NoClient
<1>5. ASSUME NEW t \in Thread, Call(t, "get") \/ Call(t, "post") PROVE Counted'
  BY <1>2, <1>5 DEF Call, Goto, Creators, TypeOK, statics
<1>6. ASSUME NEW t \in Thread,
             \/ CreateClientThrows(t) \/ Execute(t) \/ Lease(t) \/ LeaseTimesOut(t)
             \/ Receive(t, "none") \/ Receive(t, "unread") \/ ExchangeFails(t)
      PROVE  Counted'
  BY <1>2, <1>6 DEF CreateClientThrows, Execute, Lease, LeaseTimesOut, Receive,
     ExchangeFails, AfterFailure, Goto, Creators, TypeOK, statics, pools
<1>7. ASSUME NEW t \in Thread,
             ReadStatus(t) \/ GetEntity(t) \/ ReadBody(t)
      PROVE  Counted'
  BY <1>2, <1>7 DEF ReadStatus, AfterStatus, GetEntity, ReadBody, Goto, Creators,
     TypeOK, statics, pools
<1>8. ASSUME NEW t \in Thread,
             Finally(t) \/ FinallyThrows(t) \/ ReleaseConnection(t) \/ Return(t)
      PROVE  Counted'
  BY <1>2, <1>8 DEF Finally, FinallyThrows, ReleaseConnection, Return, Goto,
     Creators, TypeOK, statics, pools
<1>9. CASE UNCHANGED vars
  BY <1>2, <1>9 DEF vars, statics, pools, locals, Creators
<1> QED BY <1>3, <1>4, <1>5, <1>6, <1>7, <1>8, <1>9 DEF Next, ThreadStep
-----------------------------------------------------------------------------
(* Calls that run alone.                                                   *)
LEMMA InitAlone == Init => AloneInv
  BY DEF Init, AloneInv, NoRequest, Request

LEMMA CallAlone ==
  ASSUME IInv, AloneInv, NEW t \in Thread, NEW m \in {"get", "post"}, Call(t, m)
  PROVE  AloneInv'
<1> USE DEF IInv, Call, Goto
<1>1. PICK r \in Request :
        /\ Made = 1 .. r - 1
        /\ method' = [method EXCEPT ![r] = m]
        /\ request' = [request EXCEPT ![t] = r]
        /\ overlapped' = IF Running = {} THEN overlapped
                         ELSE overlapped \cup Running \cup {r}
  OBVIOUS
<1>2. r \notin Made /\ r # NoRequest /\ request[t] = NoRequest
  BY <1>1 DEF Request, NoRequest, Owned
<1>3. ASSUME NEW u \in Thread, request'[u] \in Request \ overlapped' PROVE Alone(u)'
  <2>1. Running = {}
    <3>1. request'[u] = r \/ request'[u] \in Running
      BY <1>1, <1>3 DEF TypeOK, Running, NoRequest, Request
    <3> QED BY <1>1, <1>3, <3>1
  <2>2. \A v \in Thread : request[v] = NoRequest
    BY <2>1 DEF Running
  <2>3. u = t /\ request'[u] = r
    BY <1>1, <1>3, <2>2 DEF TypeOK, NoRequest, Request
  <2>4. used[t] = {} /\ lease[r] = NoClient /\ pc'[t] \in {"execute", "check"}
    BY <1>2 DEF AloneInv, TypeOK
  <2> QED BY <1>1, <2>2, <2>3, <2>4 DEF Alone, TypeOK
<1>4. \A u \in Thread : pc'[u] = "out" => used'[u] = {}
  BY DEF AloneInv, TypeOK
<1>5. \A q \in Request : q \notin Made' => lease'[q] = NoClient
  BY <1>1 DEF AloneInv, TypeOK, Made
<1> QED BY <1>3, <1>4, <1>5 DEF AloneInv

\* A step of a call neither begins nor ends one, nor makes a request.
LEMMA StepAlone ==
  ASSUME IInv, AloneInv, NEW t \in Thread, ThreadStep(t), ~Return(t)
  PROVE  /\ UNCHANGED <<request, method, overlapped>>
         /\ request[t] \in Made
         /\ \E to \in Location : to # "out" /\ pc' = [pc EXCEPT ![t] = to]
         /\ used' = used \/ used' = [used EXCEPT ![t] = @ \cup {httpResponse}]
<1> USE DEF Goto
<1>1. CASE CheckClient(t) \/ CreateClient(t) \/ CreateClientThrows(t) \/ Execute(t)
  BY <1>1 DEF IInv, Owned, CheckClient, CreateClient, CreateClientThrows, Execute,
     statics, pools, Location
<1>2. CASE Lease(t) \/ LeaseTimesOut(t) \/ Receive(t, "none") \/ Receive(t, "unread") \/ ExchangeFails(t)
  BY <1>2 DEF IInv, Owned, Lease, LeaseTimesOut, Receive, ExchangeFails, AfterFailure,
     statics, pools, Location
<1>3. CASE ReadStatus(t) \/ GetEntity(t) \/ ReadBody(t)
  BY <1>3 DEF IInv, Owned, ReadStatus, AfterStatus, GetEntity, ReadBody, Uses,
     statics, pools, Location
<1>4. CASE Finally(t) \/ FinallyThrows(t) \/ ReleaseConnection(t)
  BY <1>4 DEF IInv, Owned, Finally, FinallyThrows, ReleaseConnection, statics, pools, Location
<1> QED BY <1>1, <1>2, <1>3, <1>4 DEF ThreadStep

\* If a call is alone, the step is its own.
LEMMA OwnStepAlone ==
  ASSUME IInv, AloneInv, NEW t \in Thread, ThreadStep(t), ~Return(t),
         request[t] \in Request \ overlapped
  PROVE  Alone(t)'
<1> DEFINE r == request[t]
<1>1. /\ UNCHANGED <<request, method, overlapped>> /\ Alone(t)
      /\ \E to \in Location : to # "out" /\ pc' = [pc EXCEPT ![t] = to]
  BY StepAlone DEF AloneInv
<1>2. used'[t] \subseteq {r}
  <2>1. CASE ReadStatus(t) \/ GetEntity(t)
    BY <2>1, <1>1 DEF ReadStatus, GetEntity, Goto, Uses, Alone, IInv, TypeOK
  <2>2. CASE ~(ReadStatus(t) \/ GetEntity(t))
    BY <2>2, <1>1 DEF ThreadStep, CheckClient, CreateClient, CreateClientThrows,
       Execute, Lease, LeaseTimesOut, Receive, ExchangeFails, ReadBody, Finally,
       FinallyThrows, ReleaseConnection, Alone
  <2> QED BY <2>1, <2>2
<1>3. /\ pc'[t] \in {"status", "entity", "read"} => httpResponse' = r
      /\ pc'[t] = "read" => entity'[t] = r
  <2>1. CASE Receive(t, "none") \/ Receive(t, "unread")
    BY <2>1 DEF Receive, Goto, IInv, TypeOK
  <2>2. CASE ReadStatus(t) \/ GetEntity(t) \/ ReadBody(t)
    BY <2>2, <1>1 DEF ReadStatus, AfterStatus, GetEntity, ReadBody, Goto, Alone,
       IInv, TypeOK, statics
  <2>3. CASE \/ CheckClient(t) \/ CreateClient(t) \/ CreateClientThrows(t)
             \/ Execute(t) \/ Lease(t) \/ LeaseTimesOut(t) \/ ExchangeFails(t)
             \/ Finally(t) \/ FinallyThrows(t) \/ ReleaseConnection(t)
    BY <2>3 DEF CheckClient, CreateClient, CreateClientThrows, Execute, Lease,
       LeaseTimesOut, ExchangeFails, AfterFailure, Finally, FinallyThrows,
       ReleaseConnection, Goto, IInv, TypeOK
  <2> QED BY <2>1, <2>2, <2>3 DEF ThreadStep
<1>4. lease'[r] # NoClient =>
        \/ pc'[t] = "exchange"
        \/ /\ pc'[t] \in {"status", "entity", "read", "finally"}
           /\ httpResponse' = r /\ body'[r] # "none"
  <2>1. CASE CheckClient(t) \/ CreateClient(t) \/ CreateClientThrows(t) \/ Execute(t) \/ LeaseTimesOut(t)
    BY <2>1, <1>1 DEF CheckClient, CreateClient, CreateClientThrows, Execute,
       LeaseTimesOut, Goto, Alone, statics, pools
  <2>2. CASE Lease(t)
    BY <2>2 DEF Lease, Goto, IInv, TypeOK
  <2>3. CASE Receive(t, "none") \/ Receive(t, "unread") \/ ExchangeFails(t)
    BY <2>3, <1>1 DEF Receive, ExchangeFails, AfterFailure, Goto, IInv, TypeOK
  <2>4. CASE ReadStatus(t) \/ GetEntity(t)
    BY <2>4, <1>1 DEF ReadStatus, AfterStatus, GetEntity, Goto, Alone, IInv, TypeOK,
       statics, pools
  <2>5. CASE ReadBody(t)
    BY <2>5, <1>1 DEF ReadBody, Goto, Alone, IInv, TypeOK
  <2>6. CASE Finally(t) \/ FinallyThrows(t)
    <3>1. pc[t] = "finally" /\ Consumes(httpResponse)
      BY <2>6 DEF Finally, FinallyThrows, Goto
    <3>2. lease[r] # NoClient => httpResponse = r /\ body[r] # "none"
      BY <1>1, <3>1 DEF Alone
    <3>3. lease'[r] = NoClient
      <4>1. lease \in [Request -> Clients \cup {NoClient}] /\ httpResponse \in Request \cup {NoRequest}
            /\ NoRequest \notin Request /\ r \in Request
        BY DEF IInv, TypeOK, Request, NoRequest
      <4>2. CASE lease[r] # NoClient
        BY <3>1, <3>2, <4>1, <4>2 DEF Consumes
      <4>3. CASE lease[r] = NoClient
        BY <3>1, <4>1, <4>3 DEF Consumes
      <4> QED BY <4>2, <4>3
    <3> QED BY <3>3
  <2>7. CASE ReleaseConnection(t)
    BY <2>7, <1>1 DEF ReleaseConnection, Releases, Goto, IInv, TypeOK
  <2> QED BY <2>1, <2>2, <2>3, <2>4, <2>5, <2>6, <2>7 DEF ThreadStep
<1> QED BY <1>1, <1>2, <1>3, <1>4 DEF Alone

\* A lease is taken for a request that has been made.
LEMMA UnmadeAlone ==
  ASSUME IInv, AloneInv, NEW t \in Thread, ThreadStep(t), ~Return(t)
  PROVE  \A r \in Request : r \notin Made => lease'[r] = NoClient
<1>1. request[t] \in Made /\ request[t] \in Request
  BY StepAlone DEF Made
<1>2. ASSUME NEW q \in Request PROVE q = request[t] \/ lease'[q] \in {lease[q], NoClient}
  <2>1. CASE Lease(t) \/ Receive(t, "none") \/ Receive(t, "unread") \/ ExchangeFails(t)
    BY <2>1, <1>1 DEF Lease, Receive, ExchangeFails, IInv, TypeOK
  <2>2. CASE ReadBody(t) \/ Finally(t) \/ FinallyThrows(t) \/ ReleaseConnection(t)
    BY <2>2, <1>1 DEF ReadBody, Finally, FinallyThrows, Consumes, ReleaseConnection,
       Releases, IInv, TypeOK
  <2>3. CASE \/ CheckClient(t) \/ CreateClient(t) \/ CreateClientThrows(t) \/ Execute(t)
             \/ LeaseTimesOut(t) \/ ReadStatus(t) \/ GetEntity(t)
    BY <2>3 DEF CheckClient, CreateClient, CreateClientThrows, Execute, LeaseTimesOut,
       ReadStatus, GetEntity, pools
  <2> QED BY <2>1, <2>2, <2>3 DEF ThreadStep
<1> QED BY <1>1, <1>2 DEF AloneInv

LEMMA NextAlone == IInv /\ AloneInv /\ [Next]_vars => AloneInv'
<1> SUFFICES ASSUME IInv, AloneInv, [Next]_vars PROVE AloneInv'
  OBVIOUS
<1>1. CASE UNCHANGED vars
  BY <1>1 DEF vars, statics, pools, locals, AloneInv, Alone, Made
<1>2. ASSUME NEW t \in Thread, Return(t) PROVE AloneInv'
  <2>1. \A u \in Thread : request'[u] # NoRequest => u # t /\ request'[u] = request[u]
    BY <1>2 DEF Return, IInv, TypeOK
  <2>2. ASSUME NEW u \in Thread, request'[u] \in Request \ overlapped' PROVE Alone(u)'
    BY <1>2, <2>1, <2>2 DEF Return, Goto, AloneInv, Alone, IInv, TypeOK, Owned,
       NoRequest, Request, statics, pools
  <2> QED BY <1>2, <2>2 DEF Return, Goto, AloneInv, Made, IInv, TypeOK, pools
<1>3. ASSUME NEW t \in Thread, ThreadStep(t), ~Return(t) PROVE AloneInv'
  <2>1. /\ UNCHANGED <<request, method, overlapped>>
        /\ request[t] \in Made
        /\ \E to \in Location : to # "out" /\ pc' = [pc EXCEPT ![t] = to]
        /\ used' = used \/ used' = [used EXCEPT ![t] = @ \cup {httpResponse}]
    BY <1>3, StepAlone
  <2>2. ASSUME NEW u \in Thread, request'[u] \in Request \ overlapped' PROVE Alone(u)'
    <3>1. Alone(u) /\ request[t] # NoRequest
      BY <2>1, <2>2 DEF AloneInv, Made, Request, NoRequest
    <3> QED BY <1>3, <2>1, <2>2, <3>1, OwnStepAlone DEF Alone
  <2>3. \A u \in Thread : pc'[u] = "out" => used'[u] = {}
    BY <2>1 DEF AloneInv, IInv, TypeOK
  <2> QED BY <1>3, <2>1, <2>2, <2>3, UnmadeAlone DEF AloneInv, Made
<1> QED BY <1>1, <1>2, <1>3, CallAlone DEF Next

-----------------------------------------------------------------------------
\* The inductive invariant holds of every behaviour of the HTTP client.
THEOREM Invariance == Spec => [](IInv /\ Received)
  BY InitIInv, NextIInv, PTL DEF Spec

\* Everything has its type, and no method reads a response that is not there.
THEOREM TypeCorrect == Spec => []TypeOK
  BY Invariance, PTL DEF IInv

\* Only calls whose finally block found another call's response can leak their
\* connection: a sendGet, or a post whose finally block threw as well.
THEOREM OnlyTwoLeaks == Spec => []LeaksExplained
  BY Invariance, PTL DEF IInv

\* The unguarded check of postClient makes at most a client for each thread.
THEOREM OneClientEach == Spec => []FewClients
<1>1. TypeOK /\ Counted => FewClients
  BY CreatorsFinite, ThreadAssumption, FS_CardinalityType DEF TypeOK, Counted, FewClients
<1> QED BY <1>1, InitCounted, NextCounted, TypeCorrect, PTL DEF Spec

\* A call that no other call overlaps gets its own answer and gives its
\* connection back, whatever was left in the static fields before it.
THEOREM AloneIsSafe == Spec => []AloneIsClean
<1>1. IInv /\ AloneInv => AloneIsClean
  <2> SUFFICES ASSUME IInv, AloneInv, NEW t \in Thread, pc[t] = "return",
                      request[t] \notin overlapped
               PROVE  used[t] \subseteq {request[t]} /\ lease[request[t]] = NoClient
    BY DEF AloneIsClean
  <2>1. Alone(t)
    BY DEF AloneInv, IInv, Owned, Made
  <2> QED BY <2>1 DEF Alone
<1> QED BY <1>1, InitAlone, NextAlone, Invariance, PTL DEF Spec
=============================================================================
