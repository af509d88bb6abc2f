# A TLA+ model of ethereyum

ethereyum is an asynchronous JSON-RPC client for Ethereum nodes: a pool of websocket
connections with an HTTP fallback, futures that are resolved by background threads, and
streams of blocks, transactions and notifications on top.  This directory models the parts
in which threads, callbacks and time meet, checks them with TLC on small instances and
proves the properties that matter most with TLAPS.  Paths below are relative to the
repository; lines are those of the commit the models were written from.

## Inventory

| Component | Source | State | Operations | Talks to |
|---|---|---|---|---|
| request correlation | `src/client/mod.rs` | `ids`, `pending` (id -> oneshot sender), `ts` (second -> ids) | `request`, `batch_request`, `send_http`, the read loop of a socket thread, `with_timeout`, `Drop` | socket pool (`send`), futures (oneshot receivers) |
| socket pool | `src/client/mod.rs` | `sockets` (a locked queue of workers); per worker a channel, a thread handle, a thread | `send`, `is_connected`, `stop`, `with_sentinel`, `reconnect`, `connect`, `Drop` | socket threads (channels, oneshots, join) |
| block stream | `src/client/stream.rs`, `src/ops/block.rs` | `from`, `queue` of futures, `completed` | `next`, `poll` | `batch_request`, the task that polls it |
| transaction stream | `src/client/streaming/transaction.rs` | `tx_list`, `queue` | `next`, `poll` | `batch_request`, its task |
| subscriptions | `src/client/streaming/pubsub.rs`, `src/client/mod.rs` | `state`, the client's `subscriptions` map | `poll`, `add_subscription`, delivery by a socket thread | `request`, socket threads |
| futures | `src/client/result.rs` | the variant of `YumFuture`, `YumBatchFuture`, `YumBatchFutureT` | `poll` | oneshot channels |
| start-up | `src/client/mod.rs`, `src/yum.rs`, `src/client/tcp.rs` | the client under construction, `MidHandshake::inner` | `YumClient::with_timeout`, `Client::new`, `start_connection`, `connect`, the TCP connection and the handshake | socket threads (a channel of capacity 0), `request`, a timer |
| RPC wrappers and token operations | `src/yum.rs`, `src/ops/*`, `src/client/ops.rs` | none, but a table of tokens | some thirty operations: requests, a decoder, the order of the results | `request`, `batch_request` |
| market operations, errors | `src/ops/market.rs`, `src/error.rs` | none | a GET of an exchange's API | |

`src/client/response.rs` is in the repository but no `mod` declaration names it.

What is hard here, and hard to test:

* **Time against answers.** A socket thread, a posting thread and the timeout thread take
  entries out of one map.  Each request must have one outcome, its own.
* **Locks held while waiting.** The sentinel, `is_connected` and `stop` hold the lock of the
  pool while they wait for socket threads, reconnect and join; every sender queues behind
  them.
* **Threads that end at any moment**, with messages and oneshot senders in their channel.
* **Wake-ups.** The streams return `NotReady` by hand; a `NotReady` without a registered
  future is a task that sleeps for ever.
* **Starts that fail half-way**: threads and connections that come up after the constructor
  has given up on them.
* **Boundary arithmetic**: inclusive ranges, `to + 1`, `capacity - len - 1`, ids against
  seconds, the last word of a string.

`PROJECT.json` lists each hazard at its line with the properties that cover it.

## Modules

| Module | Models | Variables and the code they stand for |
|---|---|---|
| `Requests` | request correlation | `ids`, `pending`, `ts` as in `Client`; `id`, `chan` the oneshot channel of each request; `pc` the caller's thread; `wire` the calls a socket thread was given; `reaper`, `seen`, `todo`, `removed` the thread of `with_timeout`; `got` a history of whose answer a request received |
| `RequestLife` | what the client promises of a request | `now`, `alive`, `chan`, `got` as in `Requests`; `noted` the seconds a request's age is counted from |
| `RequestsProofs` | | inductive invariant of `Requests`, the theorems, and that `Requests` implements `RequestLife` |
| `MCRequests` | | instances of `Requests` |
| `SocketPool` | socket pool | `pool` is `Client::sockets`; `held` the worker a sender has popped; `handle`, `queue`, `sock` a worker's thread handle, channel and thread; `lock`, `at`, `step`, `answer` the one thread that walks the pool with its lock held |
| `SocketPoolProofs` | | inductive invariant of `SocketPool` and the theorems |
| `MCSocketPool` | | instances of `SocketPool` |
| `BlockStream` | block stream and the batches it asks for | `from`, `queue`, `completed` as in `BlockStream`; `task` the task that polls it; `count` a history of the deliveries |
| `BlockStreamProofs` | | inductive invariant of `BlockStream` and the theorems |
| `MCBlockStream` | | instances of `BlockStream` |
| `TransactionStream` | transaction stream | `tx_list`, `queue` as in `TransactionStream`; `task`; `fate` a history of what became of each transaction |
| `TransactionStreamProofs` | | inductive invariant of `TransactionStream` and the theorems |
| `MCTransactionStream` | | instances of `TransactionStream` |
| `Subscriptions` | subscriptions | `state`, `tx`, `notifications` as in `Pubsub`; `subscriptions` as in `Client`; `task` the polling task, and, when it sleeps, what will wake it; `host`, `conn`, `sid`, `sent`, `wire` the nodes and their connections; `missed`, `taken` histories |
| `SubscriptionsProofs` | | inductive invariants of `Subscriptions` and the theorems |
| `MCSubscriptions` | | instances of `Subscriptions` |
| `Futures` | futures | `outer`, `batch`, `fut` the variants of `YumBatchFutureT`, `YumBatchFuture`, `YumFuture`; `joined`, `at` the state of `join_all`; `chan` the oneshot channels; `reg`, `woken` the task; `outcome` a history |
| `FuturesProofs` | | inductive invariant of `Futures` and the theorems |
| `MCFutures` | | an instance of `Futures` |
| `Startup` | start-up, TCP connection and handshake | `step` where the constructor is; `made` is `worker_id`; `mine`, `pool` the worker in hand and `Client::sockets`; `answer`, `req`, `timer` what it waits for; `th`, `mid`, `queue` a socket thread, its `MidHandshake::inner` and its channel; `asked` the threads that wrote the request |
| `StartupProofs` | | inductive invariant of `Startup` and the theorems |
| `MCStartup` | | an instance of `Startup` |
| `Operations` | RPC wrappers and token operations | `op`, `args` the call; `parts` its requests and their answers; `out` its outcome |
| `OperationsProofs` | | inductive invariant of `Operations` and the theorems |
| `MCOperations` | | the contracts and the table of an instance of `Operations` |

The interfaces between the models: `Requests` chooses freely between `SendSocket` and
`SendHttp`, which is what `Client::send` does in `SocketPool`; a text that `SocketPool` loses
with a dying thread is a call in `wire` that is never answered in `Requests`; `Respond` of the
two streams and `Answer` of `Futures` are channels of a batch that `Requests` resolves; `Fail` of
`Subscriptions` is a single request that ends without its answer, which
`EveryRequestResolves` promises.  `Startup` ends where `SocketPool` and `Requests` begin: with a
pool of workers, and the two background threads.  `Operations` takes from `Requests` that a
request gets its own answer or an error, and from `Futures` how a batch comes to its result.

`RequestLife` says what all of `Requests` is for.  A request is issued with the others of its
call; one of `Client::request` gets a time; it ends once, by its own answer, by a timeout
that is due, or with the client.  There are no ids, maps, locks or threads in it.  `Requests`
implements it (`ImplementsLife`) under the mapping that `noted[r]` is the set of seconds under
which `ts` holds the id of `r`: handing out ids, sending, and the moves of the timeout thread are
stutters, `Insert` is `Issue`, `Stamp` is `Note`, a delivered text is one `Answer`.

Definitions named "Mutant" in a comment are deliberate faults, next to the definition they
are variants of.  Nothing uses them; they record, for every property, a plausible bug in the
code that the property would catch.

### Abstractions

* Requests are pairs (call, position).  An answer is a partial map from the requests of a
  call to `Success`, `Failure` or `BadId`; one `BadId` fails the decoding of the whole text, as
  `handle_response` does.  A text that cannot be parsed is the empty answer.
* A websocket server may answer a call at any time after it was handed to a socket thread,
  in pieces, repeatedly or never.  That covers reordering, loss and late answers.
* `batch_request` holds the guard of `pending` from before its first id to after its last
  insert.  Ids are taken one by one in the model, because `request` takes its id without that
  lock; the inserts are one step, because nobody can look in between.
* `HashMap::insert` over an existing key drops the old sender (`Replaced`); proving that this
  never happens is part of the invariant.
* A notification (`RpcResponse::Subscription`) that a socket thread reads is looked up among the
  subscriptions and is in `Subscriptions`.  One in the place of an answer to a post is not: `send_http`
  takes its subscription id for a request id (`src/client/mod.rs:61`, `224`) and resolves whatever is
  pending under it (`HttpNote`).  `Notes` are the ids that can happen with; it is empty for a
  node that notifies over its sockets only.
* The lock of `sockets` is a variable only for the walks that keep it over several steps; a
  single `pop_front` or `push_back` is one step that needs it free.
* Only the holder of that lock waits for a oneshot, so there is one `answer`.
* A socket thread ends in one step: its receiver is dropped, the channel is drained, and the
  oneshot senders in it are cancelled.  "panicked" is the unwinding of the thread, for
  instance by `unreachable!()` in `handle_message`; whether the websocket library hands control
  frames to it is outside the repository.
* A node answers a request for block n with block n, with a block without a number, at which
  `expect` (`src/client/stream.rs:168`) panics in the task, with nothing, or with an error.
* A panic in `is_connected` or `reconnect` ends the sentinel for good; a user's thread that
  panics is one of many that may call `is_connected` and `stop` again.
* The clock of the streams is reduced to "five seconds have passed for this future".
* A task sleeps after `NotReady` until something it has registered with wakes it; `Wake` is the
  case that it drives something else too and is woken by that, which nothing guarantees.
* A transaction is its position in the list: a hash that is listed twice counts as two.
* A subscription's node numbers its notifications.  Ids are distinct per node only, and only
  among the subscriptions whose connection lasts: a node may give out again the id of one that
  went with its connection, as a restarted node does.  A notification is decodable or not when it is taken.  The texts of a connection arrive in
  order, and are lost together with the subscriptions made over it.
* `unbounded_send` and the poll of a channel are one step each, but a poll that registers a
  sender and then looks into the channel is two.
* In `Startup` a channel holds at most one message, so it is that message; the second of sleep
  before the status is the time in which a thread may die; whether `info!` evaluates its
  argument depends on the log level, so the status is asked for or not; a text that was
  handed to `start_send` is written or not.
* In `Operations` an operation is a row: method, data of an `eth_call`, what it takes, how it
  decodes.  A parameter list is the key that the request is about.  `u64` has two bits and
  wraps, or panics in a build that checks; a byte has four values, so that UTF-8 still has
  one-byte and two-byte characters and NUL; a word has two bytes.  What `BigDecimal` and
  `U256::from_str` do with a text they may refuse is a free choice.  What a result means
  (`Meaning`) is what the code makes of a true answer: the low 64 bits of a quantity (`low_u64`,
  `src/yum.rs:28`) and the last word of a string.  An invocation and its return are two steps: the
  requests are sent in between, even for a token of the table, and may be answered, or fail to be
  sent, before it returns.  `yum.rs` 140-193 and 249-292 and `client/ops.rs` repeat `BlockOps` and
  `TransactionOps`, request for request, and have no rows of their own.  The node knows the truth, and
  answers with it, with an error or with something of another type.
* `join_all` polls the futures one by one, with answers in between; `Waiting` stands for
  `WaitingFn`, and for `Now` with its value there.

## Runs

| Run | Instance | Shows |
|---|---|---|
| `requests_mixed` | two single calls, a batch of two, all begun in the first second; expiry after one | no post is answered by a notification: every answer reaches its own request, none times out early, and `Requests` implements `RequestLife` |
| `requests_clock` | two single calls, each begun in one of three seconds, expiry two, fair threads, so that scans start with a stale clock and find requests of several seconds; posts may be answered by notifications | the timeout thread forgets no live request and resolves each in the end |
| `pool` | two workers, two senders, three texts, two deaths, fair threads | one owner per worker, no live socket lost, no panic in `stop` for a missing handle, `stop` stops what it walks; the lock is released, dropping the client ends the sockets |
| `pool_status` | as `pool` | *violation*: `expect("Status rx")` can panic |
| `stream` | four blocks, capacity three, every result, slow answers and answers that never come, a fair task | a stream that ends is complete, the queue is bounded, no block comes more than twice; the stream ends unless a registered future is never answered or an empty answer or a dropped future leaves its task asleep (`EndsOrWaits`) |
| `stream_slow` | three blocks, capacity three, slow answers, but every future is answered | *violation*: the stream hangs |
| `transactions` | five transactions, capacity three, every result, slow answers and answers that never come, a fair task | a transaction is in one place until its fate is known, the queue is never full (`TypeOK`), only an unanswered, empty or dropped future keeps the stream from its end (`EndsOrWaits`) |
| `transactions_slow` | three transactions, capacity four, slow answers | *violation*: the stream ends without a transaction that was answered |
| `subscriptions` | two streams, two nodes and two ids; one stream can reach both nodes, the other one; two notifications of one node, one of the other; fair tasks | after its registration a stream misses nothing; no event is repeated or reordered even if ids collide or are given out again; no wake-up is lost, an id is not awaited for ever, decodable notifications are yielded until one is not |
| `futures` | a batch of three, plain, mapped, or an error from the start, every result, fair task | the outcome is true and final, one failure ends the batch, no wake-up is lost |
| `startup` | three workers, every host refusing, hanging, interrupting, late or dying, fair threads | a client that is handed out is whole and its node has answered; the constructor returns unless a post hangs; a failed start ends the connections that are up or being offered to it (a thread that hangs in its TCP connection or handshake stays) |
| `operations` | a chain of two blocks, eight contracts with strings of none to three words, batches of up to three, answered in any order | results are true and in order, one absent block fails no batch, a failure has a cause |

Bounds.  `MaxId` is at least the number of requests, so no call is cut short; `LastIssue` and
`Expiry` bound the clock, which runs until everything begun could have expired.  In `Requests`
three calls are enough for a caller, a request that shares the map with it, and a batch
whose ids surround both.  Symmetry is used where two calls or senders are interchangeable
and no liveness is checked.  In `SocketPool`, two workers give a first and a last position of
the walk, and two deaths a thread that dies again after its reconnect.  In `BlockStream` the
ranges need at least two refills and a final round; a capacity of at least three is needed,
see below.  In `Subscriptions` two nodes with two ids give both distinct and colliding ids,
and two notifications a gap or a swap.  A batch of three has a first, a middle and a last
future.  In `Startup` three workers give a first, a middle and a last one; the start is
sequential, so a fourth adds no new order.  In `Operations` three requests are a batch with
a middle, and the contracts cover both kinds of strings, decimals above one byte, broken
UTF-8 and an address without code.

Deadlock is checked for `Requests` and `Operations`.  A dropped client whose sentinel has panicked, and a
stream, batch or start that has ended or whose task is asleep, are really at rest, so it is off
there.

Fairness.  `Requests`: the clock ticks, the timeout thread is scheduled, a call that has begun
goes on up to its send; strong fairness for `Stamp`, because the timeout thread takes the same
lock again and again but sleeps in between and `parking_lot` locks are eventually fair.
Nothing is assumed of posts or answers.  `SocketPool`: threads are scheduled, `connect` and
the confirmation loop give up after their timeout, strong fairness for putting a worker back;
nothing is assumed of connections, posts or users.  The streams: a task that was
woken is run.  Nothing is assumed of answers, because the requests of a batch have no timestamp
and a lost one is never resolved; only `stream_slow` adds that every future is answered
(`AnsweredSpec`), to show that the stream hangs even then.  `Subscriptions`: a task that was woken
is run, and the request for an id ends (`EveryRequestResolves`); nothing is assumed of nodes.
`Futures`: a task that was woken is run; nothing need be answered.  `Startup`: threads are
scheduled, `connect` gives up after its timeout and the timer elapses; nothing is assumed of
the hosts or of a post.

## Findings

1. `pool_status`.  A socket thread that ends with a `ConnectedStatus` in its channel cancels
   the oneshot, and `rx.wait().expect("Status rx")` (`src/client/mod.rs:419`) panics in whoever
   asked: the user of `is_connected`, or the sentinel inside `reconnect`, which then never
   reconnects anything again.
2. `stream_slow`.  `BlockStream::poll` drops a future that is five seconds old
   (`src/client/stream.rs:177`) and returns `NotReady`; if no other future is registered, the
   task sleeps for ever and the final round for missing blocks is never reached.
3. `transactions_slow`.  `TransactionStream::poll` drops a future that is five seconds old
   (`src/client/streaming/transaction.rs:130`) where its comment says that it is pushed back, and
   nothing asks for it again: the stream ends, without an error, short of a transaction.

Facts the models record that no document of the repository denies outright: batches never time out
(`TimeoutJustified`); timestamps are never reclaimed, because the purge looks up request ids
among seconds (`TimestampsOnlyGrow`, and part of `ImplementsLife`); a worker whose channel is closed when it is used is gone
from the pool for good; `stop` stops at the first dead worker; the sentinel revives stopped
workers; a `BlockStream` with a capacity of 1 or 2 asks for the same block over and over; it
delivers both ends of its range, and a block on the border of two batches twice
(`AtMostTwice`; `examples/streaming_benchmark.rs` counts `processed` blocks against a `total` as if
each came once); an answer to a post that is a notification resolves
the request whose id equals its subscription id; a block without a number panics in the task of a
`BlockStream`; a `Pubsub` never ends, not even when its connection or its sender is gone, and
sleeps for good after a notification it cannot decode; when two hosts give out the same id the
later stream takes the place of the earlier one, and the events of an id that is given out again
go to the stream that had it before until the new one registers; `get_block_range` up to `u64::MAX` is empty, or
panics; a string of more than a word loses all but its last word; for a token of the table
the node is asked all the same, and an amount that `BigDecimal` refuses panics there; a worker
that dies before the first request of a start is not in the pool that is handed out.

## Proofs

Theorems hold for every value of the constants that satisfies the named assumptions.

`RequestsProofs`, from `RequestsAssumption` (a single call has one request; ids stay below the
clock's first second, 1.5 billion in practice).  The properties are not inductive alone:
that an answer goes to its own request needs that ids are unique (`UniqueIds`), that needs the
counter to be above all of them, and that a request in `pending` or on the wire has its id
(`Phases`); that a timeout is justified needs that what `ts` and the scan's `todo` hold are ids
of single requests with seconds that have passed (`TsFacts`, `ReaperFacts`).  `IInv` is the
conjunction; it is preserved by each action in a lemma of its own.  From it follow
`TypeCorrect`, `OpenExactlyWhilePending`, `AnswersMatch`, `Tracked`, `TimeoutsJustified`,
`CancelledByDrop`, and the action properties `OutcomesFinal` and `TimestampsKept`.  `AnswersMatch` has the
hypothesis `Notes = {}`; where a post can be answered by a notification it is false.  So has the
refinement below, for the same reason.

Its second half proves `RequestsImplementLife`, the refinement, from `IInv` and two more facts
(`LInv`): a call under way keeps the client alive, and nothing ends a request before it is
stamped.  Each action of `Requests` has a lemma that says which step of `RequestLife` it is.  The
numbering of a request stutters because its new id is above every id in `ts`; a delivered text
answers only requests that were noted (`TrackedUntilResolved`), each by its own output
(`UniqueIds`); the purge stutters because no second is a request id.

`BlockStreamProofs`, from `BlockStreamAssumption` (`from <= to`, a capacity that is not 0).  That a
stream which ends is complete needs that what is in `completed` was delivered (`Accounted`) and
that nothing moves after the end (`EndedFull`).  `TypeCorrect` includes that no block outside the
range is ever asked for, which is where the arithmetic of `get_this_many` is used; `Bounded`
that a refill fits; `Complete` is `EndsComplete`.  `DeliveredTwice` is `AtMostTwice`.  Its
invariant (`Delivered`) counts deliveries and futures in the queue together: two of any block at
most, one of `from`, none of the later ones (`Asked`); and what was delivered is in `completed`
(`Counted`), so that the final round, which asks for what is not, asks for no block a third time.
A batch begins where the last one ended, which is the one overlap.  The theorem has the
hypothesis that the capacity is at least three: with one or two a refill can ask for `from` alone
and leave it where it is, so the property is false there (see the facts above), not just unproved.

`SocketPoolProofs`, from `SocketPoolAssumption` (the workers are connected in some order, each once;
any number of workers, senders, texts and deaths).  `OneOwner`, `LiveSocketNeverLost` and
`NoHandleNoChannel` are inductive together with the types, with what the holder of the lock may be
doing at which place (`Walk`), and with what a sender holds in which step (`Holding`): whoever
changes the pool needs the lock free, so that a walk keeps its place.  `Passed` (what
`Client::stop` has walked past is not up) gives `StopIsComplete`, the action property
`StopStops`.

`StartupProofs`, from `StartupAssumption` (a natural number of workers).  `HandedOutWhole` speaks
of the moment the client is handed out; the invariant follows the pool to it.  While
`Client::new` runs, the pool is the first workers in order (`Building`); the request may turn it and
lose one worker of it (`Whole`); a worker with a live socket is in the pool or in hand (`Kept`);
only an answer hands the client out (`Answered`).

`TransactionStreamProofs`, from `TransactionStreamAssumption` (a capacity of at least two; with one
nothing is ever asked for).  `OnePlace` counts the places of a transaction and is inductive
once they are known: what is left of the list is its end (`Suffix`), and those before it that are
in the queue, once each, are just those whose fate is open (`Placed`).  That `get_this_many` times
`pop_front` takes the front of the list is in the model (`Rest`), so no induction is needed.

`SubscriptionsProofs`, from `SubscriptionsAssumption`, for every set of streams, nodes and ids, in
three layers.  `Links`: texts on their way and senders in the client belong to a subscription
with that node and id; it is inductive with the types.  `WakeupsKept` rests on it.  `FlowKept`: for
each stream there is a number up to which its notifications were read by a socket thread; the
later ones are on the wire of its node, each once and in order, as long as the connection
lasts (`Pending`); of the earlier ones none was received twice or out of order (`OnceInOrder`,
`Seen`), and a stream that has its id for itself received all since its registration
(`Gapless`).  The number is no variable of the model, so the invariant says that there is one,
and each step says which is the next.  `NoGap` and `OnceEach` follow.

`OperationsProofs`, from `OperationsAssumption`: any width of `u64` and of a word, any contracts
and table.  The invariant keeps the requests of a call in the order of its arguments (`Asked`),
says that an answer is true or of no use (`Answered`), that an outcome is what the decoders make
of the answers (`Results`), and that a call on a token of the table never returns a future that
waits (`NoFuture`).
`PlainResultsTrue` is `ResultsTrue` for the
23 operations whose decoder does not go through bytes; it includes that a range has both its
ends at every width (`WholeRange`) and that each decoder fits its method (`DecodedTrue`).
`FailuresCaused` is `FailsForCause` for all but `token_decimals`, `token_name` and `token_symbol`.

`FuturesProofs`, from `FuturesAssumption`, for batches of every size.  That a sleeping task is
registered needs what holds in the middle of a poll (`Passed`): of the futures it has come past,
each is joined or registered with a channel that is still open, unless the task has been woken
since.  `Places` says when the states are taken, put back or left behind; from it follows that
a mapped batch never polls a batch that is done (`OutcomesStand`).

Model-checked only: liveness (`EveryRequestResolves`, `LockReleased`,
`DropEndsSockets`, `EndsOrWaits`, `SubscriptionSettles`, `EventsYielded`,
`FailsFast`, `StartReturns`, `FailedStartEndsSockets`), which needs fairness and is out of this
prover's reach; and `ResultsTrue` for the six operations on tokens, `FailsForCause` for three of
them, whose decoders fold over the bytes of a word or drop NULs from it: what a fold computes for
every input needs an induction over data that the provers here cannot do.

## Not modelled, and the plan

Next: a composition of `Requests` and `SocketPool`, in which texts in the channels of workers are
calls, and are lost with their thread.  Until then the two meet in the free choice described
above, which allows everything that the composition could do.  In the proofs, what the
decoders of tokens do, as far as it goes without the value of a fold.

Left out for good: the market operations (a blocking GET and the decoding of its JSON), error
types, `response.rs` (not compiled), the examples, what the libraries for numbers make of an
amount, a `BlockStream` whose range is empty or whose capacity is 0 (`src/client/stream.rs:117`: the
subtraction wraps or panics, and nothing says what should happen), clocks that go backwards, and
request ids that overflow 64 bits.
