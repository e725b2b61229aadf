# springboot-dome in TLA+

A verification project for the Java application under `src/main/java` and for the
parts of the protobuf C++ sources the repository carries under `google/` in which
threads, limits and foreign streams meet. Java paths are relative to
`src/main/java/com/roncoo/education/`, C++ paths to
`google/src/google/protobuf/`, unless they begin with `src/`.

The application is a Spring Boot service: a small REST API on a MySQL table, and
a set of helper classes for Redis, HTTP and protobuf that many request threads
share. What is hard in it is concurrency (one connection pool behind one monitor,
a static response field, an executor), partial failure (every Redis helper turns
an exception into a default value) and ordering (commands that time out and
arrive late). In the protobuf runtime it is a lock-free allocator whose memory
outlives what caches remember of it, and an input stream that counts in ints.

1. [The system](#1-the-system)
2. [Modules](#2-modules)
3. [Runs](#3-runs)
4. [Proofs](#4-proofs)
5. [What the checks found](#5-what-the-checks-found)
6. [What is not modelled, and the plan](#6-what-is-not-modelled-and-the-plan)

## 1. The system

| Part | Code | State | Operations | Correct when |
|---|---|---|---|---|
| Connection manager | `util/redis/ConnectionManager` | a `JedisPool`, the monitor of the class | `getConnection`, `closeConnection` | no connection leaks, is shared or is reused after a failure; callers get one |
| Redis commands | `util/redis/RedisUtil` | none; the database is in Redis | 20 methods, each one command | a failure is not taken for an answer |
| Login tokens | `util/redis/RedisService`, `setKsToken`, `getKsToken` | one Redis string per player and game, with a time to live | check, delete and store; check, read and compare | a stored token is the one and only that logs the player in |
| Leaderboard updates | `RedisService`, sorted-set methods | a single-thread executor with its queue; sorted sets | `setSortSetItem`, `updateSortSetItem`, `incrSortSetItem` | updates are applied once and in order |
| Player hashes | `RedisService`, hash methods | Redis hashes | `hmSet` (with and without seconds), `hSet`, `hincrby`, `expire`, `deleteKey` | a counter that is only counted up never repeats a number; cached hashes expire |
| HTTP client | `util/net/HttpClientUtil` | static `httpClient`, `postClient`, `httpResponse`; connection pools | `sendGet`, two `post` | a caller gets its own answer; connections come back |
| User API | `controller/ApiController` | table `t_user`, open transactions | `list`, `selectIdwq`, `save` | a save answered "true" is durable, unique and visible |
| Query builder | `bean/UserExample` | criteria, the list of those in use, order, limit, offset | `or`, `createCriteria`, `clear`, `andX`, setters | the example says what its caller asked for |
| User mapper | `mapper/UserMapper`, `src/main/resources/mybatis/UserMapper.xml` | table `t_user` | the statements by example and by key | a statement touches the rows asked for and no other |
| Arena | `arena.cc`, `arena.h`, `arena_impl.h` | blocks, a lock-free list of `ThreadInfo`s, hint, thread-local caches | construct, allocate, `AddCleanup`, `Reset`, destroy | memory is handed out once and freed once; destructors run once |
| Coded input | `io/coded_stream.cc`, `.h` | a window onto a lent buffer, counters, limits | reads, varints, tags, skips, limits, destructor | limits hold; the input is left at the first unread byte |
| Zero-copy input | `io/zero_copy_stream_impl_lite.cc` | a buffer over a stream that can only `Read` | `Next`, `BackUp`, `Skip` | what was backed up is lent again |
| Protobuf messages | `protobuf/UserProto`, `util/net/proto/user_Proto` | a message and its builder | build, encode, parse, merge | what is written can be read |
| Response writer | `util/net/ResponseUtils` | none | write text or bytes | - |
| Interceptor, configuration, start | `util/Interceptor`, `util/configuration`, ... | none of their own | Spring callbacks | - |
| Class generator | `util/protobuf/GenerareClass` | none | starts `protoc` per file | - |
| Rest of protobuf | `google/` | - | - | third-party C++ |

How they interact:

* `ApiController` calls `UserMapper` (MyBatis, MySQL) inside Spring's
  transaction for `save`, and answers `selectIdwq` with a protobuf message. A
  `UserExample` is an object its caller builds, keeps and changes between
  statements; the mapper's XML reads it when a statement runs.
* `RedisService` calls `RedisUtil`, directly from the request thread or from a
  task of its executor. `RedisUtil` takes a connection from
  `ConnectionManager`, sends one command and closes the connection in a
  `finally` block; on any exception it prints and returns a default.
* `HttpClientUtil` leases connections from Apache HttpClient pools; a lease ends
  when the response's entity is consumed or the request is released.
* A `CodedInputStream` borrows buffers from a `ZeroCopyInputStream`, here a
  `CopyingInputStreamAdaptor`, and gives back what it has not read when it is
  destroyed; several are opened on one input in turn. Threads that parse into one
  arena share its list of `ThreadInfo`s and its hint, and nothing else.

Nothing in the repository calls `RedisService` or `HttpClientUtil` but their own
`main` methods: they are a library for the request threads of the service, and
the models let any number of threads call them.

## 2. Modules

```
ConnectionLease   <-- implements --  ConnectionManager  <- ConnectionManagerProofs
Redis <- RedisUtil <- TokenService <- TokenPromise      <- TokenPromiseProofs
                   <- RankBoard   -- implements -->  Leaderboard
                   <- HashService (and RankBoard)       <- RedisServiceProofs
HttpClientUtil                                          <- HttpClientUtilProofs
UserApi                                                 <- UserApiProofs
UserExample <- UserMapper                               <- UserMapperProofs
ArenaPromise      <-- implements --  ArenaImpl        <- ArenaProofs
CodedCursor       <-- implements --  CodedInputStream <- CodedInputStreamProofs
CopyingInputStreamAdaptor <- CodedInputStream
```

`MC*` modules give the constants that a configuration file cannot write, and the
symmetry sets. A definition that begins with the comment "Mutant:" is not part
of the model: it is the definition below it with a plausible bug.

### ConnectionManager, ConnectionLease

One call of a `RedisUtil` method is a walk of a thread through `out`, `enter`
(wants the monitor), `borrow` (in `pool.getResource()`, monitor held),
`command`, `close` (in `finally`, wants the monitor). `slot` is what the pool
has in each of its `maxTotal` places, `broken` the connections whose command
failed at the socket, `conn` the local variable `jedis`.

| Action | Code |
|---|---|
| `GetConnection`, `GetResource`, `GetResourceThrows` | `ConnectionManager.java:36-42` |
| `CommandAnswered`, `CommandBreaks` | the command of each `RedisUtil` method |
| `CloseConnection` | `ConnectionManager.java:48-56` and `Jedis.close` |
| `Evict` | the evictor thread of `JedisPool` (external) |

The pool is a default `JedisPoolConfig`: eight connections, and a caller of an
exhausted pool waits without limit. `ConnectionLease` is what callers rely on:
a connection of their own for the length of a call, always given back.

### Redis, RedisUtil

`Redis` is the server (external): a database of strings, hashes and sorted
sets, and for each command its effect, its reply and when it is an error. Time
is one bit: a key with a time to live may vanish at any moment.

`RedisUtil` has one operator for each method, a command record with the value
(`failed`) the method returns after an exception. `Outcomes(c)` are the ways a
call can end: answered; not executed; executed, but the answer lost; or timed
out with the command still on its way. In the last case it joins `doubt`, a bag,
for two equal commands may both be on their way, and `ExecuteLate` may execute it at
any later moment. The last three cost one of `MaxFaults`.

Calls are one step here because `ConnectionManager` models the frame around
them; `MaxFaults` stands for everything that can go wrong in that frame. In a wedged
pool the call does not end: for the request threads, of which only safety is
claimed, no step is taken; for the executor's worker, of which progress is claimed,
`RankBoard` has `Hang`.

### TokenService, TokenPromise

Each Redis command of `setKsToken` and `getKsToken` is an action, so that other
threads, expiries and late commands come between `exists`, `delete`, `setex`
and `getValue`. `KeyName` maps pairs of game and player to keys and need not be
injective, because `game_key + player_id` is not.

`TokenPromise` adds history variables that only watch. A `setKsToken` is *calm*
if no other `setKsToken` works on its key, nothing about the key is in doubt and
the token it has stored does not expire before it returns; the old token may go at
any point of the call, between `exists` and `delete` too. A calm call that returns
true *promises* its token. Without this condition the method promises little, and rightly so:
two concurrent calls may both return true with one of the tokens lost, and a
late command may replace a token at any time.

### RankBoard, Leaderboard

`queue`, `running` and `log` are the executor's queue, the task of the worker
and the history of submissions. A task is submitted by `SetSortSetItem` (which,
despite its name, increments, as `RedisService.java:31` does),
`UpdateSortSetItem` and `IncrSortSetItem` (which drops an increment of zero);
`Broken` is a task that throws. `Crash` empties the queue and may leave the
running command in doubt. A Redis call of the worker may never return, in a pool that
is wedged (`pool_wedge`): in `getConnection` with nothing sent (`Hang`), or in
`closeConnection` with its command over (`Run`). A worker it happens to is `stuck`.

`Leaderboard` is the promise: updates settle one at a time in the order of
submission; a settled update was applied, or not, or is in doubt, and each of those
in doubt - two equal ones are two - may change the boards once. Or they stall
(`stalled`), and nothing settles until the process is started anew. The refinement
mapping takes the running task and the queue to `pending`, the bag `doubt` to the
bag `doubtful`, and a stuck worker to `stalled`.

### HashService

Single-command methods are one step. `hmSet` with seconds is two (`HmSetFor`,
`Finish`). Increments and values are any integers. `tickets` and `exempt` are
history: the numbers `hincrby` returned for a field since the last step that could do
something else to it than count it up (`Resets`: a set, an increment of zero or
below, a deletion, an expiry, on time or late), and the keys that nobody owes a time
to live. Whether the value did fall is not asked, so that the history does not hide a
fall that has no such cause.

### HttpClientUtil

`pc` walks a call through the check of `postClient`, the creation of a client,
`execute` (reads the client), `lease` (waits for the pool), `exchange`, `status`,
`entity`, `read`, `finally`, `release` and `return`. `httpResponse` is the
static field, as the number of the request that was answered last. `lease`,
`body` say which connection each request has and whether its entity was read.
`sendGet` never reaches the body: `new Date("yyyy mm dd hh mm ss")`
(`HttpClientUtil.java:113`) throws on every answer. `used`, `overlapped`, `threw` and
`missed` are history: the requests whose response a call has used, and the requests
that ran beside another, whose `consume` threw, and whose `finally` block found
another request's response.

### UserApi

`save` is insert and commit; the transaction of `@Transactional` commits after
`saveU` has returned. An insert waits for another open transaction with the same
id and fails if the id is in the table. `saved` and `known` are history: the
saves answered "true", and what of them each request could know at its start.
The model assumes that `id` is the primary key of `t_user`: the repository has no
schema, and `BaseResultMap` marks it as the id.

### UserExample, UserMapper

`UserExample` is the object: `criteria` holds the conditions of every criteria
its caller has made, `oredCriteria` the list the statements read. Only the first
`createCriteria` after a `clear` joins the list (`UserExample.java:51`), `or` and
`or(criteria)` always do; conditions can be added to any criteria the caller
still holds, before or after it is listed. `addCriterion` throws for a missing
value, `clear` leaves limit and offset (`UserExample.java:64`). The 28 `and...`
methods are one action, `AddCriterion`, over a set of conditions.

`UserMapper` runs the statements of the XML with that object: what MyBatis renders
(`WhereClause`: valid criteria only; no parentheses for an empty list), then what
MySQL (external) does: three-valued logic, parse errors, the primary key. That no
update makes two rows of one id is MySQL's doing and no property here. `last`
is history: the last statement and the rows it touched. Names and patterns are
numbers and sets of values. `distinct` is left out, for every select by example
selects the id.

### ArenaImpl, ArenaPromise

A block is an address; memory that was freed comes back under another arena, and
an arena may be built on an initial block of its creator's. `owner`,
`threadInfo`, `pos`, `size` are the headers of the blocks, `head` and `cleanup`
the chains of blocks and destructor chunks of each `ThreadInfo`, which is named by
the block it lives in. A call walks through `cache` (the `ThreadCache` of the
thread), `hint`, `slow` (`GetThreadInfo`), `load` and `push` (the compare-and-swap
loop), `head` (`GetBlockSlow`) and `have`.

| Action | Code |
|---|---|
| `Construct`, `Restart`, `InitArena` | `arena.cc`, the constructors and `Init` |
| `TearDown`, `FreeBlocks` | `~ArenaImpl`, `Reset`, `CleanupList`, `FreeBlocks` |
| `Allocate`, `CheckCache`, `CheckHint` | `AllocateAligned` and its kin, `GetBlock` |
| `FindThreadInfo`, `NewThreadInfo`, `LoadThreads`, `PushThreadInfo` | `GetThreadInfo`, `FindThreadInfo` |
| `GetBlockSlow` | `GetBlockSlow`, `NewBlock`, `CacheBlock` |
| `AllocateObject`, `AllocateChunk` | `AllocFromBlock`, `AddCleanupInBlock`, `ExpandCleanupList` |

`Reset` and the destructor are called with nobody else in the arena, as
`arena.h` demands; other arenas go on meanwhile. Memory is sequentially
consistent: the C++ memory order of the hint and the list is taken as strong.

`ArenaPromise` is what `arena.h` leads its callers to expect, without blocks, caches
or lists: an arena hands out consecutive units that nobody else has (`Answer`), may
take some for its own notes when a destructor is registered (`Note`), and is torn down
by running all destructors (`Close`) and taking everything back at once (`Release`).
The mapping takes the positions of the blocks, less the headers, to `handed`, the
call a thread is in to `asks`, and the teardown under way to `phase`. Looking for a
block, a `ThreadInfo` or a place in the list is a stutter.

### CopyingInputStreamAdaptor, CodedInputStream, CodedCursor

A pointer is the number of the byte it points to. Of the data only `Ends`, the
bytes that can end a varint, are known. A method that may need several buffers
takes a step for each (`todo`). `RefreshSucceeds` and `RefreshFails` are the two
ways of `Refresh`; `Refuse` is the return of `Skip` and `ReadString` for a size below
zero; a `Read` of the stream below may return fewer bytes than asked,
and may fail at any time. The stream over an array is opened with `OpenFlat`. `MaxInt` is
`INT_MAX`, small, so that the counters reach it. `stack`, `good`, `erred`, `lost`,
`origin`, `cutShort` are history.

`CodedCursor` is what a parser may rely on, without buffers and windows: a cursor
`at` that only goes forward, within every limit pushed (`limits`), the `total` and
the `end` of the input. A method is begun (`Read`, `ReadVarint`), comes nearer to what
it is to read (`Goes`), and has either read exactly that (`Succeeds`) or failed at a
limit, at the end of the input, at a varint that is too long, at a size below zero or
because the input failed to skip (`Fails`). `Close` gives the bytes behind the cursor back, so that the
next to open the input begins there, or not beyond it once a skip has failed. `Cursor` maps `CurrentPosition` to `at`, all that
the callers asked for to `limits`, `todo` to `doing`, and to `end` the bytes counted
once the input is exhausted. `Refresh`, the fast and the slow paths and the
direct buffers are `Goes` or stutters.

## 3. Runs

| Run | Shows | Bounds |
|---|---|---|
| `pool` | `TypeOK`, `LentIsHeld`, `BrokenNeverPooled`, `WedgeIsCrowded`, `WedgedForGood`, `CallsReturnUnlessWedged`, `LeaseSpec` (refinement) | 4 threads, 2 connections, 2 calls each |
| `pool_wedge` | violation of `CallsReturn` | 3 threads, 2 connections, 1 call each |
| `tokens` | `TypeOK`, `PromiseKept`, `LoginDecided` | 3 threads, 2 tokens, 3 players on 2 keys, 4 calls, 2 faults |
| `rank_executor` | `TypeOK`, `ReplaysTheLog`, `UpdatesInOrder` (refinement with fairness) | 1 board, 2 members, 3 tasks, scores and increments -1, 0, 2, 2 faults |
| `hashes` | `TypeOK`, `TicketsIncrease`, `CacheExpires` | 2 threads, 1 hash, 1 field, numbers -1, 0, 2, 5 calls, 2 faults |
| `http_threads` | `TypeOK`, `AloneIsClean`, `LeaksExplained`, `FewClients`, `CallsReturn` | 2 threads, 3 calls, 1 connection in each pool |
| `http_crosstalk` | violation of `OwnAnswer` | 2 threads, 2 calls |
| `user_requests` | `TypeOK`, `SavedForGood`, `SavedIsSeen` | 3 threads, 3 ids, 2 names, 4 requests, 1 fault, list of 2 rows |
| `user_example` | `TypeOK`, `TouchesWhatWasAsked`, `ReadsAll` | 3 rows, 5 conditions, 2 criteria of 2 conditions, list of 2, pages of 1 row, 1 write |
| `arena` | `TypeOK`, `OwnBlock`, `NoBlockLost`, `SpaceAgrees`, `CleanedInReverse`, `KeepsPromise` (refinement) | 2 threads, 2 arenas, 3 blocks, 3 calls, 2 lives |
| `coded` | `TypeOK`, `InPlace`, `ShortestEnforced`, `InputRespected`, `EndExplained`, `CloseExact`, `IsCursor` (refinement) | input of 5 bytes in buffers of 2, `INT_MAX` = 3, varints of 2, 2 limits, an array of 2 |
| `coded_direct` | violation of `DirectNotEmpty` | as `coded` |

Why the bounds are enough:

* *Pool.* More threads than connections, a connection used more than once and an
  idle one left for the evictor. Behaviours in which no more threads call than
  there are connections are among those of the run; `WedgeIsCrowded` and
  `CallsReturnUnlessWedged` speak of them. The theorems hold for all numbers.
* *Tokens.* Three threads are a setter, a second setter and a reader on one key,
  which two players share; four calls let a promise be made, used, withdrawn
  and made again. Two faults let one lose the delete and one delay a setex. One
  of the times to live is 0, which Redis refuses. Again the theorems do not
  depend on the numbers.
* *Board.* Three tasks are enough for one to run, one to wait behind it and one
  to be submitted after a crash; scores are negative, zero and positive. Two faults
  let two equal increments both land late.
* *Hashes.* Two threads, one between its two commands while the other does
  anything else, twice, with two late commands; increments that count up, down and
  not at all.
* *HTTP.* The hazard is one thread replacing another's response between two
  reads of the static field; the third call runs into the pool the first two
  have emptied, and creates a client again if the check lets it.
* *Users.* Two concurrent saves of one id and a reader that starts after one of
  them, one row too many for the list, and a preloaded row without a name.
* *Examples.* The conditions are chosen to hit the kinds of operands that are
  treated differently: none, one, a missing one, an empty list, a list with a null, on
  the key and on a column that may be null. Two conditions of a criteria are a
  conjunction, two criteria a disjunction, of which one may be listed and the other
  not, or one twice. The object itself has no bound on the calls made.
* *Arena.* One arena has an initial block and one has not; the block of one
  thread, that of the other and the initial block are all there is, so that memory
  freed by one arena is at once used by the other. Two lives are two arenas at
  once, of which either may be torn down while the other goes on, or one arena that
  is reset, or destroyed and built again; three calls leave one thread's cache and the
  hint behind from an earlier life, and fill a chunk of destructors of either size.
  A destructor begins no life and is not bounded. `View` merges states that differ
  only in what free blocks still hold, which is overwritten before it is read. The sizes make an object fill a block, fit with room for a chunk and fit without.
* *Coded input.* The input is longer than `INT_MAX`, so that the counter
  saturates in the middle of it; buffers are shorter than a limit and than a
  varint and a half; limits nest two deep, the array is a stream of its own. The
  sizes and lengths passed, to `Read` and `Skip` too, run from -1 to `INT_MAX`.
  Streams may be opened any number of times.

`CHECK_DEADLOCK FALSE` is set where the bounds on calls let the system come to
rest; the examples and the streams never rest.

Fairness. `ConnectionManager.FairSpec`, `HttpClientUtil.FairSpec` and
`RankBoard.Spec` assume weak fairness of each thread's own steps: a thread that
can go on does, because connecting, waiting for data and (for HTTP) waiting for a
pooled connection all have timeouts (`redis_timeout` 2 s; 15 s). What has no timeout,
the wait for an exhausted Redis pool and for the monitor, is not assumed to end:
`ConnectionManager` has it as a disabled action, `RankBoard` as `Hang`, after which the
worker has nothing to be fair to, so that `UpdatesInOrder` promises settling only
while no call hangs. Monitors and pools are not fair, and with endless traffic a thread
could be overtaken for ever; `CallsReturnUnlessWedged` and `CallsReturn` are checked
of a bounded number of calls, where that cannot happen. No thread is
assumed to make another call, the evictor need not run, a command in doubt
need not arrive, and no order is assumed among the threads that wait for a
monitor, a pool or a queue. All other runs check safety without fairness: the
compare-and-swap loop of the arena is lock-free, not wait-free, and nothing is
promised of one thread in it.

## 4. Proofs

The proof modules hold for every number of threads, connections, calls and
faults. Each has an inductive invariant `IInv`, a lemma for each action (or group
of like actions) and theorems that follow from it. The assumptions on the
constants are named in the modules; in brackets below are those beyond types.

* **ConnectionManagerProofs** (finite sets of threads and connections;
  `NoThread`, `NoConn` are neither). `IInv` adds `MonitorHeld` - the owner of
  the monitor is the one thread in `borrow` - to the type invariant, `LentIsHeld`
  and `BrokenNeverPooled`. `LentIsHeld` is needed for `BrokenNeverPooled`: only
  the thread that has a connection can change its place in the pool.
  `WedgesAreCrowded` proves `WedgeIsCrowded` from `LentIsHeld` by counting: the
  lent connections inject into the threads other than the one that waits.
  `WedgeIsPermanent` shows that in a wedged state no enabled step frees a
  connection or the monitor. `ImplementsLease` shows every step to be a step of
  `ConnectionLease` or a stutter.
* **TokenPromiseProofs** (`Null` is no token). `IInv` adds that a promise stands
  only on a key nobody writes and nothing is in doubt about (`PromiseAlone`),
  that a calm call is alone on its key and has stored its token by the time it
  is about to return true (`CalmAlone`), and that a steady reader looks at a key
  with a promise (`SteadyPromised`). Promises and logins need each other only in
  this direction: `PromiseKept` makes the replies of `exists` and `getValue`
  known, which gives `LoginDecided`.
* **HttpClientUtilProofs** (a finite set of threads). `IInv` adds that every
  call has a request of its own (`Owned`) and that a call about to return has
  given its connection back, or has missed its response in `finally` and is a sendGet
  or a post that threw there (`Settled`), which is what `LeaksExplained` needs when
  the call ends. `FewClients` has an invariant
  of its own, `Counted`: the clients made and the threads about to make one are
  together no more than the threads. `AloneIsClean` has another, `AloneInv`: a call
  nobody overlaps finds its own request in the static field from its answer on.
* **UserApiProofs**. `IInv` adds that the row of an open transaction is a row
  (`Saves`) and that a "true" not yet sent is already as good as one sent
  (`Promised`): its row is in the table and no other save of its id was or is
  about to be answered "true". `TypeOK` keeps the ids of open transactions apart
  from the table and from each other. `SavesAreSeen` is `SavedIsSeen` (a finite
  table to begin with): what a reader knew when it began is part of `saved`, so
  `SavedForGood` puts it in the table it reads. For the list, the lemmas `RankGrows`
  and `FirstCount` count: the rows before a row number fewer than the limit, or
  exactly the limit of them fills the page.
* **UserMapperProofs** (a finite set of ids). `IInv` adds `Listing` to the type
  invariant: the criteria in the list are the ones the caller has put there since
  it last cleared it. From it the where clause is what was asked for, whatever calls
  came between (`TouchesOnlyWhatWasAsked`, and `ReadsAllOfThem` for the rows a
  select finds and a count counts). With a limit, that theorem counts: the select is a
  list of all the rows asked for without repetition (`RowsInOrder`), a page of it has as
  many as are left after the offset (`PageOfAll`), and in a list in order the place of
  a row is the number of rows before it (`RowsBefore`).
* **ArenaProofs** (any threads, arenas, blocks and sizes; an initial block has
  room for its two headers). `IInv` adds to the types:
  `CallsOnLive`, an arena in use is alive and one that is torn down has no other
  user; `IdsUnique`, a lifecycle id names one life of one arena; `InfosSound`, a
  `ThreadInfo` and its blocks name each other and have one owner; `InfosApart`,
  arenas share none; `HintsHeld` and `CachesHeld`, what is remembered of an arena in
  use *under its present id* is one of its blocks, and in a cache the thread's own;
  and `InHand`, what a thread may rely on at each point of `GetBlock`. The ids make
  `CachesHeld` inductive: a block that is freed was held by an arena whose id no
  cache can match again. `OthersKeep` and `ElsewhereKept` carry what a thread
  has in hand across the steps of the others. `BlocksAreOwn` is `OwnBlock`:
  no memory is handed out twice, none beyond a block.
  `Chains` is what `NoneIsLost` (`NoBlockLost`) rests on: the lists of an arena in
  use are without repetition, its `ThreadInfo`s - those not pushed yet counted -
  have different owners, and every owned block hangs from one of them. The
  compare-and-swap keeps it because the `ThreadInfo` in hand is in no list
  (`InHand`) and the list it was linked to is the list it replaces. That chains
  share no block follows from the headers, each of which names one `ThreadInfo`.
  `Spaces` is what `SpaceIsAccounted` (`SpaceAgrees`) adds: for an arena in use
  `spaceAllocated` is the sum of the sizes of its blocks and `asked` the sum of what
  was given out of them (`Given`: the position less the headers); a `ThreadInfo` not
  yet pushed has given out nothing, which is why `SpaceUsed`, which does not see it,
  is right. A sum over a set is here the number of pairs of an element and a
  unit of it (`Units`, `Total`); `FoldsAlike` shows that the library's fold exists and
  is that number, so the theorem is about `SpaceUsed` as the model defines it.
  `Logs` is what `CleansInReverse` (`CleanedInReverse`) adds: the chunks of a
  `ThreadInfo` hold exactly the destructors its thread has registered in this life,
  each once, newest chunk first and oldest destructor first in a chunk (`InOrder`),
  and a thread that has registered any has a `ThreadInfo`. `FlattenJoins` and
  `ReverseIs` say what flattening and reversing do to order and content; different
  `ThreadInfo`s have different owners (`Chains`), so no destructor comes up twice.
  `ArenaKeepsPromise` puts these together: every step of `ArenaImpl` is a step of
  `ArenaPromise` or a stutter (`Follows`, one lemma for each action). What a thread is
  given is new to its arena because it lies behind the position of the block, and to
  the others because `OwnBlock` names the arena of the block and `Chains` gives a block
  to one arena only; a block that joins or leaves a chain in use has handed out nothing
  (`BlockFollows`); what a teardown runs is what is owed (`Ran`). `Noting` is the one
  invariant it adds: a thread that needs a chunk has a destructor to register.
* **RedisServiceProofs**, the half of `HashService` (`Null` is not a command). `IInv` is the two properties
  themselves with the types of their parts: the database holds nothing but
  hashes with at least one field (`DbInv`), and what is in doubt is a command the
  service sends (`DoubtInv`, over the bag), so that a late one can do no more than one
  on time (`DbStep`). For `TicketsIncrease`, of any integers as numbers, a step either
  leaves a field's value where it was or above, or is one that starts its tickets
  again (`Resets`), and an increment that hands out a number without starting them
  again is above zero; for `CacheExpires` the key that loses
  its time to live is the one whose thread has an `EXPIRE` left (`RestInv`).
  The half of `RankBoard` (scores are integers; `Broken` and `Null` are not updates)
  speaks of `Board`, an instance over the same database. `BoardsTyped` is its `TypeOK`.
  `BoardInv` adds to the
  types `Fresh`: while no fault has happened, nothing is in doubt, what is pending
  is the end of the log, and the boards are the replay of the rest. From it
  `BoardsReplayTheLog`. `Replay` is a recursive function; that one exists, and that
  replays of a log and of its prefix agree, is shown by the least number at which
  they would not (`ReplayBegins`, `ReplayedIs`, `ReplaysAlike`). `SettlesInOrder` is
  the safety half of `UpdatesInOrder`: with `pending` mapped to the running task and
  the queue and the bag of commands in doubt to `doubtful`, every step is a step of
  `Leaderboard` or a stutter; what hangs maps to a stall.
* **CodedInputStreamProofs** (any input, buffer size, `INT_MAX` and limits).
  `IInv` has, beside the types: `CutAtLimit`, the window is cut off at the nearest
  limit or not at all, and bytes overflow only when the counter is full;
  `BufferInPlace`, the window and the part cut off start at `CurrentPosition` (more
  than `InPlace`, for a pop uncovers what was cut off); `InputInStep`, the input has
  lent exactly what was counted - after a failed skip of the input at most that, and no
  less than is unread - and, while bytes are unread, its last call was a
  `Next` that lent at least those (`CanBackUp`), which is `InputRespected` and half
  of `CloseExact`; `ClosedInv`, a closed stream is as a new one; `OutcomeInv`,
  between two values everything consumed was read; `EndingInv`, from which
  `EndExplained` follows; and `StackInv`, each saved limit is the least of those asked for
  below it, which makes `currentLimit` the shortest after every push and pop.
  `StreamIsCursor` proves `IsCursor`, one lemma for each action, from `IInv` and
  `TaskInv`: the bytes a varint has already read do not end it, a refresh is only
  under way with bytes left to read, and a stream over an array begins at byte 0.
  `AllowedIs` says that to be within the nearest limit is to be within all that were
  pushed; `BackedUp`, that closing gives back what is unread.

Only model-checked: liveness (`CallsReturn`, `CallsReturnUnlessWedged`, and the
fairness half of `UpdatesInOrder`, which `SettlesInOrder` leaves), for the prover has
no rules for fairness. Every invariant and every action property that a run checks
is proved. The library's induction theorems, which take an operator, cannot be used;
where a proof needs induction over data (sums, flattened sequences, the replay of
the log) it takes the least counterexample instead (`LeastNat`).

## 5. What the checks found

* **The pool can wedge** (`pool_wedge`). `getConnection` waits for a connection
  with the class monitor held; `closeConnection` needs the monitor. With one
  calling thread more than connections, every Redis call of the process stops
  for ever. `WedgeIsPermanent` proves there is no way out, and
  `WedgesAreCrowded` that the number of threads is the only cause.
* **Answers cross** (`http_crosstalk`). `httpResponse` is static: a thread can
  return the status or body of another thread's response. `AloneIsSafe` proves
  that calls which overlap no other are not concerned.
* **A direct buffer can be empty** (`coded_direct`). When exactly
  `total_bytes_limit_` bytes have been lent, `Refresh` takes one more buffer and
  `GetDirectBufferPointer` returns true with nothing of it
  (`io/coded_stream.cc:230`), which `io/coded_stream.h:192` says it never does.

Noted, without a claim in the repository to hold them against: `sendGet` never
returns a body (`HttpClientUtil.java:113`), and gives its connection back only
through the static field; the wait for a pooled connection is limited only because
another timeout is used for it; players of games whose keys run together share a
token (`RedisService.java:147`); an `hSet` on an expired hash makes a hash that
stays; an `hmSet` whose `expire` fails does too, and says nothing; an example
that has lost its conditions deletes every row (`TouchesWhatWasAsked` says when);
the constructor of an arena checks that its initial block holds a `Block`
(`arena_impl.h:86`) and not that it also holds the `ThreadInfo` that is put there
- the model assumes it does (`InitialAssumption`); after a failed `Skip` of its
input a coded stream does not know its position (`lost`) - `CloseExact` and `IsCursor`
say how far it may be out: what could not be skipped counts as read, and the input is
never left beyond the position, beyond a limit, or before the stream's first byte.

The end of a message has two exceptions. `io/coded_stream.cc:461` says that
`total_bytes_limit_` is no valid place to end a message, unless the normal limit is hit
too. A message cut off at `INT_MAX` bytes hits both in their defaults, and `ReadTag`
calls it ended; and `ExpectAtEnd` (`io/coded_stream.h:1129`) calls any place an end at
which the window is cut off, by the total limit too. `EndExplained` names both, the
second as `cutShort`, and allows no other. That `Refresh` fails because the input has
failed, and not because it has ended, is known to nobody: `Next` says the same of both.

## 6. What is not modelled, and the plan

Not modelled:

* Writing responses, the interceptor (it is not registered), Spring and log4j
  configuration, the class generator: they have no state of their own or are not
  part of the running program. `main` methods are demonstrations.
* The generated message classes, and of the protobuf sources everything but the
  arena and the coded input: descriptors, reflection, generators, text format and
  tests are sequential, large and used by the application only through the
  `protoc` binary. Their share of the lines is by far the largest, and the map
  leaves it out on purpose.
* Of the modelled protobuf parts: the recursion budget of `CodedInputStream`,
  `ExpectTag`, `last_tag_`, `BytesUntilLimit`, the range check of
  `ReadVarintSizeAsInt` and the decoded values (the data is abstract); the
  `Arena` hooks and typed allocation around `ArenaImpl`; weak memory; the array,
  file and output streams.
* Time beyond "may expire" and "may time out"; queue growth beyond its bound.

Next, in this order:

1. **CodedOutputStream** and the output adaptor, then the round trip of delimited
   messages over both.
2. **Proofs** about the methods `RedisUtil` offers, as lemmas for whoever calls them, in
   place of those each proof module has of the commands it uses.
3. **Composition**: `RankBoard` over `ConnectionManager`, so that a wedged pool stops
   the executor and the queue grows behind it.
