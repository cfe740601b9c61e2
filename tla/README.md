# A TLA+ verification of the C++ Laravel port

The repository is a small web framework in C++17, modelled on Laravel: an HTTP
server, a kernel with routes and middleware, sessions and authentication, a
database layer with two back ends, a database queue, a scheduler, migrations,
WebSockets, a service container, bearer tokens, reactive page components and static
files. Most of it is header-only (`include/`); `src/` holds the server, the
kernel and the connections. These modules model the parts in which threads,
processes, peers and failures meet, check them with TLC on small instances, and
prove some of their properties for every instance with TLAPS.

Paths below are relative to the repository, so `include/db_queue.hpp` is a file of
the repository and `DbQueue` a module of this directory. `PROJECT.json` names for
every definition the lines it models.

## The system

| Part | State | Operations | Who shares it | What is hard |
|---|---|---|---|---|
| Database queue, `db_queue.hpp` | tables `jobs` and `failed_jobs` | `push`, `work`, worker loop `queue:work` | any number of worker threads and processes on one database | racing claims, claims that time out, stale rows, workers that die, refused writes |
| HTTP server, `http_server.cpp` | `running_`, `server_fd_`, worker pool, client sockets | `serve`, `stop`, accept loop, `read_request`, `handle_client` | the thread in `serve`, the workers, whoever calls `stop`, peers | who closes what, slow and vanishing peers, stopping |
| Sessions and authentication, `session.hpp`, `auth.hpp`, `http_auth.hpp` | session data and last-seen stamps | the middleware, `csrf_token`, `attempt_login`, `logout`, `gc` | every worker, each with a request of the same browser perhaps | operations that are several store calls, expiry between them |
| WebSockets, `websocket.hpp`, `websocket_server.hpp` | receive buffer, the message being put together, the hub's registry | `receive`, `send_*`, `broadcast`, `add`, `remove` | the connection's thread, broadcasting threads, peers | arbitrary cuts and orders of frames, interleaved sends, lifetimes, stalled peers |
| Connections, `database.hpp`, `database.cpp`, `sqlite_connection.cpp` | tables, id counters, one open transaction | the row methods, `begin`/`commit`/`rollback`, `transaction()` | all threads of a process | a transaction belongs to the connection, not to a thread |
| Scheduler, `scheduler.hpp` | last-run stamps | `every`, `daily_at`, `run_pending` | a ticking process, cron | restarts, tasks that throw, overlapping ticks |
| Migrations, `migration.hpp`, `schema.hpp` | table `migrations`, the schema | `run` (at every boot), `rollback` | the commands, one process after the other | a failure between a migration and its record, and what the next boot makes of it |
| Cache and rate limiter, `cache.hpp`, `throttle()` | entries with expiry, tags | `get`, `put`, `forget`, `remember`, `flush` | all workers | get-then-put, an unguarded tag index |
| Kernel, router, pipeline | routes, middleware | `handle` | read-only after start | order of matching and of middleware |
| Container, `container.hpp`, `container_contract.hpp`, and service providers | factories, memoised instances, contextual bindings, the stack of types under construction | `bind`, `singleton`, `scoped`, `instance`, `when`, `tag`, `resolve`, `forget_scoped` | all workers, under one recursive mutex | recursive resolution, throws half way, the order of providers |
| Tokens, `token.hpp`, `personal_access_token.hpp` | table of hashed tokens; nothing for signed ones | `sign`, `verify`, `issue`, `authenticate`, `revoke` | all workers | expiry and revocation around a request, hand-written JSON and base64 |
| Repository and relations, `repository.hpp`, `relations.hpp` | a query | `where`, `order_by`, `paginate`, `has_many` | readers beside writers | several calls that make one answer |
| Livewire, `livewire.hpp`, `livewire_client.hpp` | a component's state, in the page | `handle`, `post`, `morph` | browser and server | overlapping posts, answers out of order, nested roots, hand-written JSON |
| Static files, `static_files.hpp` | a file | `serve` | workers and whoever deploys | a file replaced between two looks at it, ranges |
| Gate, events, views, validation, mail, hashing, generators | per request, or none | | | sequential |

How they interact: a server worker parses a request and calls the kernel, whose
pipeline runs the session and authentication middleware over the shared
`SessionStore`, or `requires_ability`; handlers resolve what they need from the
container, which the providers filled at boot. An Upgrade request instead hands the socket to a WebSocket endpoint,
which usually adds its connection to a hub. The queue, the scheduler and the
migrator keep all their state behind the `Connection` contract; scheduled tasks push
jobs, and `queue:work` runs them; every command boots the application, and booting
migrates.

## Modules

- **JobQueue**: what the queue promises, without tables and clocks: a job is queued,
  running or gone, one worker at a time runs it, and it goes only from that worker's
  hands with its outcome on record.
- **DbQueue** models `DbQueue::push` and `work()` and the loop around them.
  `work()` is not atomic, so each call it makes on the `Connection` is an action:
  `Fetch` (the `all("jobs")` that the pass loops over, kept in `snap`), `Skip` or
  `Claim` (the `update_if`), then the handler: `HandlerReturns` and `Remove`, `Drop`
  for an unknown job, `Release` or `Bury` when it throws. `Crash` kills a worker
  anywhere. `WriteLost` and `RecordThrows` are refused writes (SQLite locked by
  another process): `update`, `remove` and `update_if` return false, which `work()`
  ignores, and `insert` throws from the catch clause. `ImplementsJobQueue` maps it to
  `JobQueue`.
- **DbQueueProofs**: theorems about it; **HttpAuthProofs**, **DatabaseProofs**,
  **ArtisanProofs** and **ContainerProofs** are the same for the modules whose names
  they have (**DatabaseProofs** also for `Query`). **HttpServerProofs** is about
  `HttpServer`, `StaticFiles` and `Livewire`, **WsProofs** about `WsHub` and
  `WsReceive`, **KernelProofs** about `Kernel`, `Router` and `Cache`.
- **HttpServer** models `serve()` step by step, `stop()` (the flag, the exchange of
  the descriptor, the close), and each worker: accept, `read_request` with its size
  limits and per-`recv` timeout, dispatch, upgrade, send, close. Request text is
  abstracted to what reading can come to (complete, too large, malformed, chunked,
  timed out, closed).
- **SessionStore**, **HttpAuth**: `ArraySessionStore` method by method (each holds
  its mutex, so each is one step), and requests that run the middleware and the login
  helpers on it, interleaved between store calls. The field `alone` of a request is
  history: whether another request of the browser, or the clock, came in between.
  `session_middleware` takes any id a cookie brings, so `Plant` puts one into a browser:
  an id in use, then shared by two browsers, or a made-up one.
- **WsHub**: connections with their send mutex, the hub, broadcasts over a snapshot,
  peers that leave or stop reading. A frame is `Parts` pieces on the wire, as
  `send_all` may need several `send()`s.
- **WsFrame**, **WsReceive**: the length bytes of the frame header as the encoders
  write and the parser reads them, and `Connection::receive` over frames cut into
  arbitrary pieces, with fragmentation, control frames, masks and the cap. A peer may
  send a length in any form that holds it, not only the shortest.
- **Database**: the writing methods and `transaction()` over
  either back end.
- **Router**, **Kernel**: `match()` over patterns of segments, and `Kernel::handle()`
  for requests on several workers at once. The pipeline that `Pipeline::run` composes
  is the sequence of its layers, built by the same fold. A middleware other than
  `throttle()` is the application's, free to call next, answer or throw. The steps of
  `throttle()` that the workers share, clock, get and put, are actions.
- **Cache**: `ArrayCache` as handlers share it: `put`, `forget`, `remember()` (two
  steps), and `TaggedCache`, whose index is used without the mutex, an entry at a
  time. A worker in the index while another is makes `raced` true, and the behaviour
  ends there: the code's is undefined.
- **Schedule**: `run_pending()` with a step per stamp read, stamp write and task. A
  refused select finds no stamp (`CheckBlind`), a refused update is not noticed
  (`RecordLost`), a refused insert throws (`RecordThrows`).
- **Migrator**: `run()` and `rollback()` with a step per call on the connection: a
  migration is `Parts` statements, `CreateQueueTables` for one makes three tables. Any
  of them, and `record()` and `forget()`, may be refused and throw (`Refused`), and
  `applied()` may be and finds nothing (`LookBlind`).
- **Artisan** composes the two: processes that come one after the other, each of
  which boots (`M!run`) and then does what its command says, over a database that is
  a file (SQLite) or goes with the process. Rolling back the last migration drops the
  table with the stamps.
- **Container**: `make_erased()` as an explicit stack of frames, one per factory under
  way. `ask` is the look-up that comes next: `Redirect` when the type under
  construction has a contextual binding, `Return` for a memoised value, `Build` to
  call the factory, whose `ResolveDep`s come in any order (arguments of a call).
  `Construct` returns from it; `Throw` and `Unresolved` unwind all frames, popping the
  guards. `Phases` is `register_providers()`.
- **Text**, **Tokens**: texts as sequences of symbols, which the hand-written readers
  search; the claims' JSON and base64url as the code does them, and the two kinds of
  tokens issued, revoked and presented, the clock and the row read in separate steps.
- **Query**: `select()` as the set of results that a back end may give (SQLite may
  order equal rows either way), `paginate()` as its count and its select, and a client
  that turns the pages while the actions of `Database` run.
- **Livewire**: the server's `handle()` over the JSON text of a post, and a browser
  with roots nested to any depth: clicks, typing, answers applied in any order, failures.
- **StaticFiles**: `serve()` with a step for each look at the file, and a browser that
  keeps bodies with their ETags.
- **MCHttpAuth**, **MCWsReceive**, **MCKernel**, **MCDatabase**, **MCArtisan**,
  **MCContainer**, **MCBrowser** give the constants that a configuration file cannot,
  and put components that do not share state side by side: there a behaviour is about
  one or the other (`scheme`, `of`, `reading`, `holds`). `DbQueue`, `HttpServer` and
  `WsHub` are configured themselves.

Definitions called `Mut...` are deliberate mistakes (a dropped guard, a swapped
order, a missing reset), each replacing one definition to see that a property notices.

## Runs

| Run | Checks | Result |
|---|---|---|
| `dbq_timely` | two workers, two jobs, passes shorter than `retry_after`, one fault: `NoDoubleProcessing`, `NoLostJob`, and the refinement of `JobQueue` | holds |
| `dbq_solo` | one worker whose pass may outlast `retry_after`, two faults: `RetryBudget`, `EveryJobSettles` | holds |
| `dbq_slow_pass` | `NoDoubleProcessing` when a pass lasts `retry_after` | violated |
| `http_server` | two workers, two clients, two stoppers: ownership and single closing of sockets (`DescriptorsOwned`), no accept after stop, answers; `serve()` returns unless a worker stays in the kernel, an endpoint or `send()` | holds |
| `auth_sessions` | two browsers, three overlapping requests of five kinds, a planted cookie, expiry and `gc()`: who is authenticated, which token passes, what a login does. Two bearer tokens over three seconds: `OnlyGoodTokens`. All byte strings up to four bytes out of five, and claims with quotes, backslashes, brackets and field names: `TokenReadsBack` | holds |
| `hub` | two connections, two broadcasters, one peer that may stall: whole frames, removal, `remove()` returns | holds |
| `ws_receive` | all sequences of three frames out of 19, lengths in any form, cut in pieces of 3 or 20 bytes; the codec near every boundary | holds |
| `database` | two transactions and a plain writer, both back ends, refused commits; or a reader that pages through four queries beside one transaction and a writer (`WalkComplete`) | holds |
| `artisan` | five commands out of `migrate`, `migrate:rollback`, `schedule:run`, three migrations of which one makes three tables, four tasks over two and a half days, a death, two refused calls, throws, both back ends: `MigrationsAgree`, `CadenceKept` | holds |
| `kernel` | three requests of five kinds at once, three seconds, a budget of one per window of two: first match, parameters, 404 and 405, the order of layers, what is refused and what passes; or two workers, two keys and two tags on the cache (`FlushForgets`) | holds |
| `container` | two providers in either order, eight types, two threads, three requests, a constructor that throws, `forget_scoped()`: `SharedOnce`, `ContextHonoured`, `BootFindsBindings` | holds |
| `browser` | three roots one in the other, three posts, five texts: `NothingLost`, `LoadingEnds`; or five versions of a file and 38 ranges, some malformed or with a number above `MaxOffset`: `NotModifiedRight`, `RangeRight` | holds |

Most modules with state have a type invariant `TypeOK`, which documents the state and
is proved wherever there are theorems; the runs are about the other properties.

### Bounds

Every bound is a constant with a comment. Two workers are enough for a race on a
row, and two jobs for a pass that reaches its second row with an old stamp. Times
are small numbers whose order is what matters: `dbq_timely` has `MaxPass` (1) below
`RetryAfter` (2), `dbq_slow_pass` has them equal. A fault is allowed only while
`RetryAfter` fits before `MaxClock`, so that the recovery is still within the model.
Three requests are a page load and two racing ones, or for `kernel`, whose requests
are interchangeable (symmetry), one that passes, one that is refused and one late. The cap of `ws_receive` is 4 with
frames of 0, 2 and 9 bytes: messages of two fragments fit exactly, three or one long
frame do not; a piece of 3 bytes ends within a header, one of 20 holds two frames.
Codec lengths stay below 2^31, TLC's integers. `Schedule` has four units to a day and
starts on the second day, since the code uses 0 for "never". The container's types are
a singleton under a singleton under a transient, a contextual override one level down,
a manual factory that hands on, a scoped type and one that nobody binds; three
resolutions are two that race and one that comes after. The versions of a file shrink,
grow back to the size of an earlier one, go and come back empty; the ranges have all
bounds around the sizes and around `MaxOffset`, which stands for 2^63 - 1. The last of
the three migrations makes three tables, so a refusal or a death can come after none,
one or two of them; one death and two refusals let a later command meet what they left. Four bytes take base64 through every remainder twice.

### Fairness

`DbQueue`: the clock runs and every worker goes on polling and finishes its steps
(`queue:work` loops until it is told to stop; handlers return one way or another);
no fairness for pushes and faults. `HttpServer`: threads that can run do, and the
receive timeout fires; peers owe nothing. What waits for someone else has no fairness:
`kernel_->handle()` and an endpoint's handler run application code, and `send_all()`
blocks without a timeout on a peer that does not read. `StopReturns` is therefore
stated for behaviours in which every worker again and again is elsewhere
(`Unhindered`): the rest of `serve()`, `stop()` and the reading of requests is what it
shows to come to an end. `WsHub`: sends to peers that read complete, broadcasts and
owners go on; peers may stall for ever, and `RemoveReturns` holds whatever they do.
`WsReceive`: the connection's thread runs, which takes it that a peer that sends pings
reads its pongs, since `receive()` writes them before it goes on. `DbQueue` and
`HttpServer` so rely on applications whose handlers return, `WsReceive` and `HttpServer`
on peers that read what is written to them; nothing else is asked of either.

`CHECK_DEADLOCK FALSE` is set where the system may rightly stop: a server that was
stopped, requests that are all answered, a peer that has hung up, the last call made.

## Theorems

All hold for every value of the constants (any number of workers, jobs, threads,
rows, requests, migrations, tasks, types), under the named assumptions of the modules
that declare them. The assumptions say that bounds are numbers, that `None` or `Nil`
is not one of the values it stands beside, and what the C++ types guarantee (a
dependency list holds types, a tag is not a type, an instance is not a factory); TLC
evaluates them on every run. Each inductive invariant was checked with TLC on the
component's instance before it was proved. Where a proof has to go along a loop (the
segments of a uri, the bytes of a length, the layers of a chain), it takes the least
step at which the claim would fail (`WFMin` of the library over `Nat`) and refutes it,
since the prover cannot apply an induction scheme.

`DbQueueProofs`:
- `TypeCorrect`: `Spec => []TypeOK`.
- `AtLeastOnce`: `Spec => []NoLostJob`, with no assumption on how long passes take.
  `NoLostJob` alone is not inductive: a worker that removes a row has to have
  recorded its outcome before. `DeliveryInv` adds that (`pc = "ack"` implies
  `Recorded`), that a loop is at a row it read, and that unused ids have no row.
  `Recorded` only ever grows.
- `TimelyMutualExclusion`: if `MaxPass < RetryAfter`, `Spec => []NoDoubleProcessing`.
  The invariant `ClaimInv` says why: a worker that has a job finds its own stamp in
  the row, and the stamp is at most `MaxPass` old. A second worker that claims the
  row must have read that very stamp and found it `RetryAfter` old, or have read 0.
- `RefinesJobQueue`: under the same hypothesis every step of `DbQueue` is, under the
  mapping of `ImplementsJobQueue`, a step of `JobQueue` or a stutter. `ClaimInv` is
  what makes the mapped worker of a row unique.
- `LoneRetryBudget`: with one worker, `Spec => []RetryBudget`. The invariant relates
  the throws so far to `attempts` in the row, in the worker's copy and in the faults
  that may have kept an increment from the row. With two workers it is false (below).

`WsProofs`:
- `HubTypeCorrect`, and `SendersExclude`: only the holder of `send_mutex_` is in
  `send_all()`.
- `FramesNeverMix`: `Spec => []FramesWhole`. `WireInv` ties the unfinished frame at
  the end of a wire to the holder of the mutex and the pieces it has yet to send.
- `BroadcastsSkipRemoved`: `Spec => []LaterBroadcastsSkipRemoved`.
- `ReceiveTypeCorrect`: what `receive()` keeps has its types, and `buf_` never holds
  more than was sent and not yet consumed.
- `MessagesReassembled`: `ReceiveSpec => []Reassembly`, for any frames in any order,
  cut anywhere. `FlowInv` says that the data frames consumed so far are those of the
  messages returned, each of which ends at a FIN, followed by those of the message
  under way.
- `MemoryIsBounded`: `ReceiveSpec => []MemoryBounded`, for every cap. `receive()` calls
  `recv()` only when the frame at the front of `buf_` is incomplete and not refused;
  what it holds then is less than a frame within the cap and its header, which
  `parse_frame()` takes in any of its three forms, so up to 14 bytes.
- `EncodersRead`: `EncodersReadBack` for the lengths around any boundaries below 2^32:
  put together byte by byte, a length is the sum of its bytes times powers of 256.

`HttpServerProofs`:
- `ServerTypeCorrect`, with `SocketInv`: the listening socket is published, in the
  hands of one `stop()`, or closed.
- `DescriptorsAreOwned`: `Spec => []DescriptorsOwned`. `ServerInv` says for every place
  in `handle_client` which client a worker has and that no other worker has it.
- `ClientsAreAnswered`: `Spec => EveryClientAnswered`.
- `NobodyAcceptedAfterStop`: `Spec => NoAcceptAfterStop` if `stop()` is not called
  before `serve()` has set `running_` (`~EarlyStop`; the hypothesis is needed, below).
- `RevalidationIsRight`: `FilesSpec => []NotModifiedRight` for a file that is removed at
  most once (`RemovedOnce`, needed: see below). `FilesInv` follows a request from look
  to look: its ETag was made at a version since it began, its body read at that
  version or a later one; `TagTells` says that equal ETags are of one version. A copy
  whose body is newer than its ETag is therefore never confirmed once it is old.
- `RangesAreRight`: `FilesSpec => []RangeRight`. `BoundsFacts` compares what
  `parse_range()` computes with the places that a range stands for, when its numbers
  are at most `MaxOffset`, whatever that is.
- `LoadingAlwaysEnds`: `WireSpec => []LoadingEnds`. `LoadInv`: a visible indicator has a
  post under way, of its root or of one that its root lies inside, at any depth.

`KernelProofs`:
- `KernelTypeCorrect`, and `BaseInv` that the others rest on: where a request is in its
  chain, and which layers it has entered and left so far.
- `LayersInOrder`: `Spec => []OutermostFirst`, for any routes and middleware.
- `RefusedForCause` and `ThrottleKeepsBudget`: `RefusalEarned` and `BudgetKept`, when
  `throttle()` is at most once on a chain (`ThrottleOnce`; two of them count a request
  twice under one key). `EarnedInv` says that a count, in the cache or in a request's
  hands, is backed by as many requests that were let through in its window.
  `BudgetInv` orders the requests that did not overlap by their windows and counts;
  then those let through have different counts within the budget.
- `RoutingIsRight`: `Spec => []RoutedRight` when no uri names two parameters alike
  (`NamesApart`; of two values with one name the last is kept). `RouteInv` says what
  `match()` has found, and lemmas about `matches` that the parameters it takes out of a
  path, put back into the uri, give the path.
- `FlushIsComplete`: `FlushForgets` for any workers, keys and tags. `CacheInv`: the index
  lists the keys of all that is stored under a tag, unless it has been raced for.

`ArtisanProofs`:
- `MigrationsStayInStep`: `ArtisanSpec => []MigrationsAgree`, for migrations of any
  numbers of tables. `StepInv` says where `run()` or `rollback()` is, `OrderInv` that the
  table is a prefix of the list unless a rollback could not read it, `ChangeInv` which
  tables of the migration under way there are, and `DriftInv` that every other
  migration that differs has a death or a refused call to its name.
- `CadencesAreKept`: with stamps in a `Connection` (`Persist`),
  `ArtisanSpec => CadenceKept`. `StampInv` relates the row to the last run and the day,
  for tasks that are not `shaky`, `DueInv` what a tick has decided to the stamp it read,
  `RanInv` what it has run; `LoneTick` says that one process ticks at a time.

`HttpAuthProofs`:
- `AuthInvHolds`: for every step of the middleware, what the request's id, the store
  and the browser's cookie have to do with one another: whoever is logged in holds an
  issued id (`HolderInv`), a session's data hold only a token that was minted for it
  (`TokenInv`), and none of a session that was logged out (`SpentInv`), a login that nothing came between still has its session (`AloneInv`).
- `FixationPrevented`, `TokensAreBound`, `LoginsRegenerate` follow from it, and
  `ExpiredAreRefused` is the action property `NoExpiredAccess`. Lemmas such as
  `PutFacts` and `RenameFacts` say what each method of the store does to an entry.

`ContainerProofs`:
- `BaseInvHolds` and `ContainerTypeCorrect`: whoever resolves holds the mutex, each
  frame runs the factory bound to its type, and all of it comes after the last
  `register_()`.
- `BootsFindBindings`: `Spec => []BootFindsBindings`, by `PhaseInv`.
- `SharedUnlessNested`: `Spec /\ []NeverNested => []SharedOnce`. `ShareInv` says that
  what was handed out is what is kept, and that nothing is kept for a type while its
  factory runs.
- `SharedObjects`: `Spec => []SharedOnce` for all applications whose types have an
  order (`Ordered(rank)`): factories resolve lower types only, and contextual bindings
  give nothing higher. Some such condition is needed: a singleton whose manual factory
  reaches the singleton again, and finds an override only the second time, is built
  twice. Decorators that override what they wrap have no such order and are left to
  `SharedUnlessNested`.
- `ContextsAreHonoured`: `HandsOnFresh /\ Spec => []ContextHonoured`. The container
  looks contextual bindings up by the top of `building_`, which the property does not
  mention, so `ContextInv` first says that `building_` is the marked frames of the
  thread that holds the mutex, in their order, and empty when nobody does (`StackInv`,
  whatever threw before). With it each frame and the current lookup is on the way that
  the consumer's bindings lead (`WayInv`), and so is what frames collected and what
  was given (`GaveInv`). `HandsOnFresh` says that manual factories that only hand on
  are transient: a singleton that hands on would keep whichever object its first
  consumer's bindings chose and give it to the next one, whose bindings may differ.

`DatabaseProofs`:
- `DatabaseTypeCorrect`.
- `IdsNeverReused`: `Spec => []IdsFresh`: `insert()` never hands out the id of a row
  that is in the table (ids of rolled-back rows are used again). Rollbacks take the id counter back; rows
  and counter go back together, because the snapshot satisfies the same condition,
  which is what makes it inductive.
- `NoTransactionLeftOpen`: `Spec => []NoneLeftOpen`.
- `RollbacksRestore`: `Spec => RollbackRestores`, on both back ends. `SnapshotInv` says
  that a snapshot is the store as the latest transaction found it, one that nothing
  has begun or ended since (`Latest`), and that on SQLite at most one thread is in
  `transaction()`. Where transactions overlap on `MemoryConnection`, a rollback
  may restore the beginning of another that is still open, but only while nothing has
  ended since: no commit is undone.
- `PagesShowEachRowOnce`: `QuerySpec => []WalkComplete`. The orders are relations,
  transitive and antisymmetric on the rows that match (`OrderFacts`; not so when
  SQLite may order equal keys as it likes, which `WalkComplete` excludes). Two ordered
  enumerations of the same rows are the same, and one of the first rows begins one of
  all (`BeginsWith`, by the least place at which they would differ). `WalkInv` says
  that the rows of the start come before all others, and that what was seen is what
  the sorted rows begin with, up to the next page's offset. One case has to be added:
  a reader who begins at "page 0" is sent from a first page that was not full to
  page 2, and may have seen less than that; then all rows of the start were shown, and
  no later page reaches back to them. `IdsFresh` is needed for the rows that are
  appended, and that `count()` is the number of rows that match for the last page.
  `QueryAssumption` asks for a column of numbers in `order_by()`.

Only model-checked:
- all liveness (`EveryJobSettles`, `StopReturns` and the others under fairness), which
  is outside the prover's reach;
- what hand-written readers make of a text, induction over data: `TokenReadsBack` and
  `OnlyGoodTokens` (the claims' JSON and base64url, with recursive operators in
  `Tokens`) and `NothingLost` (Livewire's JSON).

## Known divergences

One has a run, `dbq_slow_pass` (see `findings` in `PROJECT.json`). The others were
found while modelling and are the reason for a condition in a property or a bound in
a run; each comes back when the condition is dropped.

- Two queue workers (`RetryBudget` with two workers): `work()`
  checks `reserved_at` alone when it claims, so a row that another worker failed and
  released since the pass began is claimed with old `attempts` and `available_at`:
  attempts are lost, and the back-off is not waited for.
- What a WebSocket endpoint throws leaves the worker thread and ends the process
  (`WsHandlerThrows`): `http_server.cpp:274` is outside the try block of which lines
  281-282 say that "a throw can never escape into the worker thread".
- `stop()` before `serve()` has set `running_` is overwritten (`EarlyStop = TRUE`,
  `StopReturns`), `http_server.cpp:355`.
- An open WebSocket keeps `serve()` from returning, and so does a worker whose kernel
  does not return, or that is in `send_all()` (`http_server.cpp:219-226`, no send
  timeout) for a peer that does not read (`Unhindered` in `StopReturns`).
- `verify_csrf` binds a form to a session, not to a browser: who plants an id in a
  browser, or learns its own, shares the session and its token until a login renames
  it. `http_auth.hpp:128-130` speaks of planted ids; what holds with them is
  `OnlyIssuedIdsAuthenticate` and `TokenBoundToSession`.
- Two first requests of one session each mint a token, and the session keeps one: the
  form that holds the other is refused (`http_auth.hpp:96-101`).
- The read timeout is per `recv()`: a trickling client holds its worker for as long
  as the size limits allow, not for `read_timeout_seconds` (`http_server.cpp:237`).
- `send()` to a peer that has gone raises SIGPIPE (`SendSignals`; `[]alive` fails).
- Two logins at once on one session: the second finds the session gone and answers
  with the old id (`alone` in `LoginRegenerates`).
- After `logout()` the browser keeps its id; `http_auth.hpp:143` says a fresh one is
  minted on the next request.
- A connection that was removed before it is destroyed, as `websocket_server.hpp:251`
  asks, is still written to by a broadcast that took its snapshot before
  (`NotUsedAfterDestroy` of `WsHub` fails).
- `throttle()` under races lets more than its budget through, as its comment says
  (`alone` in `BudgetKept`), and so does a request that spends a window or more
  between the clock and the put: it finds its window's entry expired.
- A stalled peer holds up a broadcast for the connections after it in the snapshot,
  though not `add()` and `remove()` (`README.md:398`).
- `encode_pong` truncates the length of a ping above 125 bytes, which nothing
  refuses (`n <= 125` in `EncodersReadBack`).
- Two transactions at once on `MemoryConnection` share one snapshot: if the
  one that began first rolls back, its own writes from before the second began stay and
  the second's are lost, and a rollback of the second then restores nothing
  (`since[t] = {}` in `RollbackRestores`).
- A COMMIT that SQLite refuses leaves the transaction open (`~refused` in
  `NoneLeftOpen`), `database.hpp:157`.
- Two processes that tick at once both run a daily task (`Ticker` with two members).
- `record_run()` does not look at what `update()` says (`scheduler.hpp:133`), and a
  refused select is "never run": the task runs again before its time, a daily one the
  same day (`shaky` in `CadenceKept`). When the select inside `record_run()` is refused,
  it inserts a second row, behind the first, that nobody reads.
- A task that throws hides the tasks after it from that tick (`i <= at[k]` in
  `CadenceKept`).
- `daily_at("03")` is midnight (`Clock[t].colon` in `CadenceKept`);
  `scheduler.hpp:88` says 03:00.
- `migrate:rollback` drops `schedule_runs`, so daily tasks run again that day.
- `rollback()` on `MemoryConnection` leaves the names in the table
  (`backend = "sqlite"` in `MigrationsAgree`); `migration.hpp:5` says that "the
  bookkeeping still works".
- A death or a refused call between the first CREATE TABLE of a migration and its
  `record()` makes every later boot throw "table already exists"
  (`restarts + refusals = 0` in `MigrationsAgree`): `Schema::create` has no IF NOT EXISTS
  and no transaction holds the three tables of `CreateQueueTables` and the record
  together, while `migrations.hpp:2` says "idempotent, so safe on every boot". One
  between `down()` and `forget()` leaves later commands without the table.
- A rollback that SQLite refuses to let read `migrations` passes over the migration
  (`applied()` finds nothing) and takes back those before it (`blind`).
- Container: a manual factory (`bind`, `singleton`) marks no context, so what it
  resolves is decided by the contextual bindings of whoever is further out, and a
  singleton keeps the result; in the run the manual factories resolve nothing that is
  overridden, or only hand on. Types that need each other recurse without end.
  `scoped` is per container: `forget_scoped()` of one request ends the scope of all.
- Tokens (`Plain` in `OnlyGoodTokens` and `TokenReadsBack`): a subject `exp` makes the
  token read `exp = 0`, one that never expires; an ability `exp` makes it read `iat`;
  a `]` in an ability hides the abilities after it; and a stored ability with a space
  comes back as two.
- Livewire (`loose` in `NothingLost`): overlapping posts of a root lose updates, each
  answer being the whole state; a brace in a text loses fields, and a carriage return
  comes back as the letter r. `syncAttrs` takes the `style` off a `wire:target`
  indicator, which stays visible after another action's answer (`LoadingEnds` is about
  the untargeted one; `livewire_client.hpp:17` says "only while a request is in
  flight"). When a parent's list of children changes, reconciling by position
  overwrites nested roots, of which lines 5-7 say that they are never clobbered.
- Static files: a 206 for a file that shrank is filled up with zero bytes, and a file
  that went between the look and the read is a 200 without a body (`began = version`
  in `RangeRight`). A range with a number of 2^63 or more gets 416 though the file may
  have bytes from its start on, as `std::stoll` throws (`static_files.hpp:117`;
  `Readable` in `RangeRight`). A file that goes while it is being served gets an ETag without a
  modification time (`static_files.hpp:137-140`), so when that happens twice, with the
  same size seen before, a copy from the first time is confirmed with 304
  (`RemovedOnce` in `RevalidationIsRight`).
- Pages: rows removed or moved meanwhile shift later pages (`Meanwhile` of `Query`),
  SQLite may order equal keys differently from page to page, and `last_page` of an
  empty table is 0.
- `TaggedCache` uses `tagged_keys_` without the mutex (`raced` in `FlushForgets`),
  although `ArrayCache` is "Thread-safe"; and a value between its put and its entry
  under the tag survives a flush.
- The back ends differ: `MemoryConnection::update` replaces the row, SQLite sets the
  columns that are given.

## Abstractions

- Payloads, names and error texts are not modelled, nor is logging.
- Session ids and tokens are random in the code and simply new in the model.
- `record_run()` and its select are one step (`RecordLost` is what their refusals come
  to); two processes that insert a stamp for
  the same task at once leave two rows, of which the first is read.
- Days have one length: no change to or from summer time in `today_at()`.
- A route parameter is a whole segment, and a catch-all the rest of the path.
- `failed_jobs` is a count per job; its ids and columns are left out.
- Values in queries are numbers; SQLite's conversions of text and reals are external.
- HMAC and SHA-256 are external: equal for equal input only. A signed token is its
  claims' JSON and its secret; base64url is checked on its own.
- A file's modification times are all different. `header_ci` and `safe_resolve` are
  what they come to: the header's value, inside or outside the root.
- The page of `Livewire` has one input and two indicators per root; `decrement` is
  like `increment`, keyed lists are left out.

## Not modelled

Cryptography (`hash.hpp`, `pbkdf2_hash.hpp`), string processing (`view.hpp`,
`validation.hpp`, the SQL text of `schema.hpp`, mail), generators, tests and their
helpers, the WASM, FFI and parity builds, and the example applications except for the
commands that keep state. The first have nothing that a model checker tells apart,
and the others no state. `events.hpp`, `broadcast.hpp`, `gate.hpp` and the in-process
queues are synchronous loops over callbacks (`ArrayQueue::work` runs jobs again after
one has thrown, and jobs must not push to it); facades and `config.hpp` forward.

## Open

1. `HttpAuth`'s middleware in the pipeline's order instead of "the application's".
2. The readers of JSON, once there is a prover that takes an induction scheme.
