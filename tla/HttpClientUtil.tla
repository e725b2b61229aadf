--------------------------- MODULE HttpClientUtil ---------------------------
(***************************************************************************)
(* util/net/HttpClientUtil: sendGet and the two post methods, called by    *)
(* any number of threads.  Each request leases a connection from the pool  *)
(* of its client; the lease ends when the entity of the response is        *)
(* consumed or the request is released.  The last response received is in  *)
(* the static field httpResponse, which every thread reads again each time *)
(* it wants its own response.                                              *)
(*                                                                         *)
(* The two post methods differ in what they make of the body, and in a     *)
(* null entity: one returns null, the other throws and then returns null.  *)
(***************************************************************************)
EXTENDS Integers, FiniteSets

CONSTANTS Thread,
          MaxTotal,   \* connections in the pool of one client
          MaxCalls    \* bound: calls made

ASSUME ThreadAssumption == IsFiniteSet(Thread)
ASSUME MaxTotalAssumption == MaxTotal \in Nat \ {0}
ASSUME MaxCallsAssumption == MaxCalls \in Nat

VARIABLES
  httpResponse,  \* static: the request answered last, or NoRequest for null
  postClient,    \* static: the client of the posts, or NoClient for null
  clients,       \* clients created for posts
  lease,         \* the client whose connection a request has, or NoClient
  body,          \* the entity of the response to each request
  method,        \* what each request is
  overlapped,    \* history: requests whose call was not alone all the time
  threw,         \* history: requests in whose finally block consume threw
  missed,        \* history: requests whose finally block found another response
  pc, request,   \* where each thread is, and the request of its call
  client,        \* the client it called execute on
  entity,        \* its local variable entity: the request it belongs to
  used           \* the requests whose response its call has used

statics == <<httpResponse, postClient>>
pools == <<clients, lease, body, method, overlapped, threw, missed>>
locals == <<pc, request, client, entity, used>>
vars == <<statics, pools, locals>>

Request == 1 .. MaxCalls
NoRequest == 0
GetClient == 0        \* the client of sendGet, made when the class is loaded
NoClient == -1
Clients == {GetClient} \cup 1 .. clients   \* post clients are numbered from 1

Location == {"out", "check", "create", "execute",
             "lease", "exchange", "status", "entity", "read", "finally",
             "release", "return"}
Body == {"none", "unread", "consumed"}
Running == {request[t] : t \in Thread} \ {NoRequest}
Made == {r \in Request : method[r] # "none"}

Init ==
  /\ httpResponse = NoRequest /\ postClient = NoClient /\ clients = 0
  /\ lease = [r \in Request |-> NoClient]
  /\ body = [r \in Request |-> "none"]
  /\ method = [r \in Request |-> "none"]
  /\ overlapped = {} /\ threw = {} /\ missed = {}
  /\ pc = [t \in Thread |-> "out"]
  /\ request = [t \in Thread |-> NoRequest]
  /\ client = [t \in Thread |-> NoClient]
  /\ entity = [t \in Thread |-> NoRequest]
  /\ used = [t \in Thread |-> {}]

Goto(t, from, to) == pc[t] = from /\ pc' = [pc EXCEPT ![t] = to]
-----------------------------------------------------------------------------
Call(t, m) ==
  /\ Goto(t, "out", IF m = "get" THEN "execute" ELSE "check")
  /\ \E r \in Request :
       /\ Made = 1 .. r - 1
       /\ method' = [method EXCEPT ![r] = m]
       /\ request' = [request EXCEPT ![t] = r]
       /\ overlapped' = IF Running = {} THEN overlapped ELSE overlapped \cup Running \cup {r}
  /\ UNCHANGED <<statics, clients, lease, body, threw, missed, client, entity, used>>

\* Mutant: no check.
CreatesAlways == TRUE

Creates == postClient = NoClient

\* if (postClient == null)
CheckClient(t) ==
  /\ Goto(t, "check", IF Creates THEN "create" ELSE "execute")
  /\ UNCHANGED <<statics, pools, request, client, entity, used>>

\* postClient = getClient(true): another thread may be doing the same.
CreateClient(t) ==
  /\ Goto(t, "create", "execute")
  /\ clients' = clients + 1
  /\ postClient' = clients + 1
  /\ UNCHANGED <<httpResponse, lease, body, method, overlapped, threw, missed>>
  /\ UNCHANGED <<request, client, entity, used>>

\* Setting up TLS failed: RuntimeException.
CreateClientThrows(t) ==
  /\ Goto(t, "create", "finally")
  /\ UNCHANGED <<statics, pools, request, client, entity, used>>
-----------------------------------------------------------------------------
(* execute: lease a connection, send the request, receive the response.    *)
ClientOf(t) == IF method[request[t]] = "get" THEN GetClient ELSE postClient

Execute(t) ==
  /\ Goto(t, "execute", "lease")
  /\ client' = [client EXCEPT ![t] = ClientOf(t)]
  /\ UNCHANGED <<statics, pools, request, entity, used>>

HasRoom(c) == Cardinality({r \in Request : lease[r] = c}) < MaxTotal

Lease(t) ==
  /\ Goto(t, "lease", "exchange")
  /\ HasRoom(client[t])
  /\ lease' = [lease EXCEPT ![request[t]] = client[t]]
  /\ UNCHANGED <<statics, clients, body, method, overlapped, threw, missed>>
  /\ UNCHANGED <<request, client, entity, used>>

\* Mutant: no limit.
WaitUnlimited == FALSE

\* The wait for a connection is limited: CONN_MANAGER_TIMEOUT is not set, and
\* the connection timeout stands in for it.
WaitLimited == TRUE

LeaseTimesOut(t) ==
  /\ Goto(t, "lease", "finally")
  /\ WaitLimited /\ ~HasRoom(client[t])
  /\ UNCHANGED <<statics, pools, request, client, entity, used>>

\* The exchange ends: the response comes, with an entity or without.  Without
\* one the connection goes back at once.
Receive(t, b) ==
  /\ Goto(t, "exchange", "status")
  /\ httpResponse' = request[t]
  /\ body' = [body EXCEPT ![request[t]] = b]
  /\ lease' = IF b = "none" THEN [lease EXCEPT ![request[t]] = NoClient] ELSE lease
  /\ UNCHANGED <<postClient, clients, method, overlapped, threw, missed>>
  /\ UNCHANGED <<request, client, entity, used>>

\* Mutant: the exception of execute is swallowed and the method goes on.
AfterFailureGoesOn == "status"

\* catch prints the exception, then comes finally.
AfterFailure == "finally"

\* Refused, reset or timed out: the client takes the connection back itself.
ExchangeFails(t) ==
  /\ Goto(t, "exchange", AfterFailure)
  /\ lease' = [lease EXCEPT ![request[t]] = NoClient]
  /\ UNCHANGED <<statics, clients, body, method, overlapped, threw, missed>>
  /\ UNCHANGED <<request, client, entity, used>>
-----------------------------------------------------------------------------
Uses(t, r) == used' = [used EXCEPT ![t] = @ \cup {r}]

\* Mutant: no test for a null entity.
AfterStatusUnchecked(m) == {"read"}

\* code = httpResponse.getStatusLine().getStatusCode().  What follows in
\* sendGet is new Date("yyyy mm dd hh mm ss"), which always throws, so sendGet
\* never gets to the body.  A post goes on if the code is 2xx.
AfterStatus(m) == IF m = "get" THEN {"finally"} ELSE {"entity", "finally"}

ReadStatus(t) ==
  /\ pc[t] = "status"
  /\ \E to \in AfterStatus(method[request[t]]) : pc' = [pc EXCEPT ![t] = to]
  /\ Uses(t, httpResponse)
  /\ UNCHANGED <<statics, pools, request, client, entity>>

\* httpResponse.getEntity()
GetEntity(t) ==
  /\ Goto(t, "entity", IF body[httpResponse] = "none" THEN "finally" ELSE "read")
  /\ entity' = [entity EXCEPT ![t] = httpResponse]
  /\ Uses(t, httpResponse)
  /\ UNCHANGED <<statics, pools, request, client>>

\* EntityUtils.toString or toByteArray: reads the entity to its end, or fails
\* on the way; either ends the lease.  A consumed entity throws.
ReadBody(t) ==
  /\ Goto(t, "read", "finally")
  /\ body' = [body EXCEPT ![entity[t]] = "consumed"]
  /\ lease' = [lease EXCEPT ![entity[t]] = NoClient]
  /\ UNCHANGED <<statics, clients, method, overlapped, threw, missed>>
  /\ UNCHANGED <<request, client, entity, used>>
-----------------------------------------------------------------------------
(* finally                                                                 *)

\* Mutant: the entity is not consumed.
ConsumesNothing(r) == UNCHANGED <<lease, body>>

\* EntityUtils.consume(httpResponse.getEntity())
Consumes(r) ==
  IF r = NoRequest \/ body[r] = "none" THEN UNCHANGED <<lease, body>>
  ELSE /\ lease' = [lease EXCEPT ![r] = NoClient]
       /\ body' = [body EXCEPT ![r] = "consumed"]

Misses(t) == missed' = missed \cup ({request[t]} \ {httpResponse})

Finally(t) ==
  /\ Goto(t, "finally", IF method[request[t]] = "get" THEN "return" ELSE "release")
  /\ Consumes(httpResponse) /\ Misses(t)
  /\ UNCHANGED <<statics, clients, method, overlapped, threw, request, client, entity, used>>

\* Draining the entity fails: the lease ends all the same, but the exception
\* leaves the method.
FinallyThrows(t) ==
  /\ Goto(t, "finally", "return")
  /\ httpResponse # NoRequest /\ body[httpResponse] = "unread"
  /\ Consumes(httpResponse) /\ Misses(t)
  /\ threw' = threw \cup {request[t]}
  /\ UNCHANGED <<statics, clients, method, overlapped, request, client, entity, used>>

Releases(r) ==
  /\ lease' = [lease EXCEPT ![r] = NoClient]
  /\ body' = [body EXCEPT ![r] = IF @ = "unread" THEN "consumed" ELSE @]

\* post.releaseConnection()
ReleaseConnection(t) ==
  /\ Goto(t, "release", "return")
  /\ Releases(request[t])
  /\ UNCHANGED <<statics, clients, method, overlapped, threw, missed>>
  /\ UNCHANGED <<request, client, entity, used>>

Return(t) ==
  /\ Goto(t, "return", "out")
  /\ request' = [request EXCEPT ![t] = NoRequest]
  /\ client' = [client EXCEPT ![t] = NoClient]
  /\ entity' = [entity EXCEPT ![t] = NoRequest]
  /\ used' = [used EXCEPT ![t] = {}]
  /\ UNCHANGED <<statics, pools>>
-----------------------------------------------------------------------------
ThreadStep(t) ==
  \/ CheckClient(t) \/ CreateClient(t) \/ CreateClientThrows(t)
  \/ Execute(t) \/ Lease(t) \/ LeaseTimesOut(t)
  \/ Receive(t, "none") \/ Receive(t, "unread") \/ ExchangeFails(t)
  \/ ReadStatus(t) \/ GetEntity(t) \/ ReadBody(t)
  \/ Finally(t) \/ FinallyThrows(t) \/ ReleaseConnection(t) \/ Return(t)

Next == \E t \in Thread : Call(t, "get") \/ Call(t, "post") \/ ThreadStep(t)

Spec == Init /\ [][Next]_vars

\* Threads keep running: connecting, waiting for data and waiting for a
\* connection all have a timeout of 15 seconds.
FairSpec == Spec /\ \A t \in Thread : WF_vars(ThreadStep(t))
-----------------------------------------------------------------------------
TypeOK ==
  /\ httpResponse \in Request \cup {NoRequest}
  /\ clients \in Nat /\ postClient \in {NoClient} \cup 1 .. clients
  /\ lease \in [Request -> Clients \cup {NoClient}]
  /\ body \in [Request -> Body]
  /\ method \in [Request -> {"none", "get", "post"}]
  /\ overlapped \cup threw \cup missed \subseteq Request
  /\ pc \in [Thread -> Location]
  /\ request \in [Thread -> Request \cup {NoRequest}]
  /\ client \in [Thread -> Clients \cup {NoClient}]
  /\ entity \in [Thread -> Request \cup {NoRequest}]
  /\ used \in [Thread -> SUBSET Request]
  /\ \A t \in Thread : pc[t] = "read" => entity[t] # NoRequest
  /\ \A t \in Thread : pc[t] \in {"status", "entity"} => httpResponse # NoRequest

(* What a call returns comes from the response to its own request.         *)
OwnAnswer == \A t \in Thread : pc[t] = "return" => used[t] \subseteq {request[t]}

(* A call that runs alone gets its own answer and leaves no connection      *)
(* leased, whatever the calls before it have left in the static fields.    *)
AloneIsClean ==
  \A t \in Thread : pc[t] = "return" /\ request[t] \notin overlapped =>
    used[t] \subseteq {request[t]} /\ lease[request[t]] = NoClient

InProgress(r) == \E t \in Thread : request[t] = r

(* The only calls that leak are those whose finally block found another    *)
(* call's response in the field: of them a sendGet, and a post if consume  *)
(* threw over that response.                                               *)
LeaksExplained ==
  \A r \in Request : lease[r] # NoClient =>
    InProgress(r) \/ (r \in missed /\ (method[r] = "get" \/ r \in threw))

(* However the threads race past the check, they make at most one client   *)
(* for each thread, in all the calls they make.                            *)
FewClients == clients <= Cardinality(Thread)

(* Every call returns, even with a pool emptied by leaks.                  *)
CallsReturn == \A t \in Thread : pc[t] # "out" ~> pc[t] = "out"
=============================================================================
