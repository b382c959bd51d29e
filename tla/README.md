# Formal models of go-ib-async

TLA+ models of the concurrent core of go-ib-async, a Go client of the
Interactive Brokers TWS/Gateway API: what its goroutines share, in which orders
their steps can come, and what the callers of the library can rely on.
`PROJECT.json` lists the components, runs, theorems, hazards and findings, and
maps every definition to the source lines it stands for.

## The system

One reader goroutine (`protocol.Client.readLoop`) parses every inbound message
and runs its handler (`IB.handleMessage`). Any number of user goroutines call
the public methods of `IB`. With `ConnectWithReconnect` one more goroutine
watches the connection and makes it again, and a heartbeat goroutine probes it.
They share `state.Manager` (maps under `Mu`, and one map, `Results`, outside
it), its `RequestMap` of one-shot channels, `Client.done`, and the throttle.

| Component | State | Operations | Meets the others through | Hard part | Correct when | Module |
|---|---|---|---|---|---|---|
| Request matching (`internal/state/request.go`, `state.go`, `ib.go`) | pending channels, `Results`, `ReqID2Contract` | Start, Complete, Cancel, DrainAll; StartReq, AppendResult, EndReq, Reset | `RequestMap.mu`, `Mu`, channels | completion, cancellation, two drains and a reset race | one answer per call, never a truncated one, none forgotten | `Requests` |
| Connection lifecycle (`protocol/client.go`, `connection.go`) | socket, `done`, `ConnState`, handshake flags | Connect, Disconnect, readLoop | `done`, `readWg`, `OnDisconnect` | a connection ends at any point; `done`, socket and flags are replaced under whoever uses them | ready means shaken hands; every waiter is released | `Client`, `Requests` |
| Reconnection (`reconnect.go`) | attempt counter, heartbeat | ConnectWithReconnect, heartbeatLoop | `Done`, `Disconnect`, DrainAll, Reset | loss at any step; silent peers; cancellation; `Disconnect` by others | it reconnects, gives up in time, returns when cancelled | `Reconnect`, `ReconnectUser` |
| Requests without id (`ib.go`) | `syntheticReqID`, `positionsReqID`, `completedReqID`, two mutexes | ReqPositions, ReqCompletedOrders and four handlers | the mutexes, `RequestMap` | calls that overlap or are retried | each call gets its own whole answer | `SharedStreams` |
| Orders (`ib.go`, `internal/state/orders.go`) | `Trades`, `PermID2Trade`, `Fills` | PlaceOrder and six handlers (CancelOrder only writes) | `Mu`, shared `Order` and `Trade` objects | repeated and reordered messages, foreign orders, reconnects | fills counted once, for the right order; final states stay | `Orders` |
| Market data (`ib.go`, `internal/state/market.go`) | `Tickers`, `ReqID2Ticker`, `PendingTickers` | ReqMktData, CancelMktData, tick handlers, OnDataProcessed | `Mu`, batches of the reader | cancelling while ticks arrive, key collisions, load | nothing streams to nobody; changes are announced | `MarketData` |
| Throttle (`internal/throttle`) | stamps | Wait, TryNow | its mutex, the clock | sleeping outside the lock, boundaries | at most `maxRequests` per interval | `Throttle` |
| Real-time bars (`ib.go`) | `ReqID2Subscriber` | ReqRealTimeBars, CancelRealTimeBars, handler | `Mu` | the handler appends without the lock | nothing arrives long after the cancellation | `MarketData` |
| Request ids, sending, framing (`protocol`) | `reqIDSeq`, socket, its mutex | GetReqID, UpdateReqID, Send, SendMessage, SendRaw | atomics, the mutex, the throttle | the reader moves the counter; a frame is two writes | ids are fresh, frames whole | `Transport` |
| Wire codec (`encoder.go`, `field.go`) | none | EncodeField, BuildMessage, split, FieldReader | the wire | empty and unset values, nested contracts | decoding inverts encoding | `Transport` |
| Events (`event`) | callbacks, channels | Subscribe, Unsubscribe, Chan, Once, Emit | its mutex | Emit works on a copy while Unsubscribe closes | everyone subscribed is told once, nobody else | `Events` |
| Contract keys (`contract`) | none | Key, bagHash | map keys | collisions | different contracts, different keys | `ContractKey` |
| Account, portfolio (`ib.go`) | maps under `Mu` | updates | `Mu` | little | latest value kept | not modelled |
| Data types, config, smoke test | none | constructors | - | - | - | not modelled |

## How to run

    tlc -workers 2 -config Requests_lost.cfg Requests
    tlapm RequestsProofs.tla

`runs` in `PROJECT.json` gives the module of each configuration. How the modules
build on each other:

- `Reconnect` extends `Client`, `ReconnectUser` extends `Reconnect`;
- `Transport` extends `Throttle`;
- `RequestsRefinement` extends `Requests` and instantiates `Calls`;
- `MCMarketData` gives `MarketData` the keys of `ContractKey`;
- `MCTransport` adds the symmetry of the goroutines for TLC;
- `Throttle`, `Transport` and `SharedStreams` take the loops over slices from `Loops`;
- the modules ending in `Proofs` hold the theorems. `OrdersProofs`, `EventsProofs`,
  `LoopsProofs`, `SharedStreamsProofs` and `TransportProofs` extend the module they
  are named after (the last one is about the limiter too), `RequestsProofs` extends
  `RequestsRefinement`, `ReconnectProofs` extends `ReconnectUser`, and
  `MarketDataProofs` extends `MarketData` and `ContractKey`. `SharedStreamsProofs` and
  `TransportProofs` use the lemmas of `LoopsProofs`.

## Modules

A step of a model is what the code does under one hold of one lock, or one
access to shared state that no lock protects. Payloads are abstract: the i-th
partial result of request r is the pair `<<r, i>>`, an execution is a pair of a
permId and a number, a ticker is the id of the request that made it. Definitions
whose comment begins with `Mutant:` are faulty variants of the definition that
follows them. No specification uses them; substituting one for its original
shows that a property can fail.

### Requests

Callers, the reader, the reconnect loop and a goroutine in `Disconnect` each
have a program counter. `ReqContractDetails`, `ReqAccountSummary`,
`ReqSecDefOptParams` and `ReqHistoricalData` draw an id and enter `StartReq`,
which the model splits where the code does: the section under `Mu`, the write of
`Results` outside it (`StartReq`), and `RequestMap.Start` (`Start`). Sending,
entering the `select` (which evaluates `Done()` once), and the cases of the
`select` are separate steps.

The reader's handlers are one action per message type. `AppendResult` is two
steps, since the code reads and writes `Results` without a lock; `EndReq`,
`Complete` and its send are three. When a read fails the reader closes `done`,
drains and leaves. `DrainAll` swaps the map in one step and then answers the
channels one at a time, so the drains of the reader and of the loop overlap with
each other and with callers that register, cancel or receive.

The server answers only requests written to the socket being read. It may repeat
an End or an error and does not send partial results after the End. A write to a
socket whose peer is gone may succeed or fail.

### SharedStreams

`ReqPositions` and `ReqCompletedOrders` over one `RequestMap`, with the mutex
each holds from the registration to the end of the write. The server collects
the requests it has seen on a stream and answers all of them with one list and
one End. `ReqCompletedOrders` filters what was collected for it with a loop
(`Kept`, of `Loops`). The connection stays up. `handleExecDetails` is here because a live
execution, whose reqId is -1, can be mistaken for a part of an answer.

### Orders

`heap` holds the `Trade` objects, `Trades` and `PermID2Trade` point into it.
`PlaceOrder` is three steps: the lookup under `Mu`, the insertion under `Mu`, and
the write with its failure path. A `Trade` made by `PlaceOrder` shares the
user's `Order`, whose `PermID` handlers set: `operm`. The server accepts,
executes and ends orders, also ones of TWS (no order id) and of another client
(its own order ids), and may deliver any handler's message again at any time. It ends
an order in any state of `DoneStates`, asked to or not: `CancelOrder`, which only writes
a message, is no action. A message says what the server knows of the order when it is
read, and always has the permId; openOrder messages from before the server has given
one, and ones that are out of date when they are read, are left out.
`Reset` stands for a reconnect: it clears the maps and not the objects the user
holds, and what was on the wire is lost.

### MarketData, ContractKey

`ReqMktData` fills both maps under one lock and then writes; `CancelMktData`
writes while it holds `Mu`, so `mu` is a variable that blocks every handler that
needs it. The four tick handlers look a ticker up by request id in the same way
and are one action. After each message the reader either finds more data in its
buffer or announces the pending tickers.

`ReqRealTimeBars` enters a list under its request id; `CancelRealTimeBars`
removes it under `Mu`, releases `Mu` and writes. `handleRealtimeBar` looks the list
up under `Mu` and appends without it (`AppendBar`); `late` counts the bars appended
after a cancellation.

`ContractKey` computes `Contract.Key` from the security type, the ConID and the
legs. `MCMarketData` uses it for a future, the continuous future with the same
ConID, and a combo with that future for a leg.

### Client, Reconnect, ReconnectUser

`Client` is the life of a connection. `Connect` is split at its waits: the reset
of the flags, `readWg.Wait`, the dial, the handshake's write with the start of the
reader, and the `select` on ready, done and the context. The reader fetches the
`bufio.Reader` under the lock, reads without it, checks the server's version,
sends `startApi` (until there is a version any message of two fields passes for the
greeting, and ends the reader, since its number is too small for a version:
`TakenForGreeting`), snoops `nextValidId` and `managedAccounts` and dispatches.
`Disconnect` is three steps, as in the code, and takes whichever socket and `done`
channel it finds at each. The peer may fall silent or close at any moment; what
it has sent before it closed is still delivered.

`Reconnect` is the loop of `ConnectWithReconnect` with its attempt counter, its
delays and its context, and `heartbeatLoop`: a tick, the probe, the reading of
`LastTime` after it, and the verdict. There is no clock: a timer expires at any
time. One assumption is about time: `DelayOutlasts` says that during `RetryDelay`
the previous reader gets rid of a message it already holds. Without it
`ReadyMeansHandshake` fails, since that message may set the flags which the next
`Connect` has just cleared.

`ReconnectUser` adds a goroutine that calls `Disconnect`.

### Transport

The way of a request to the wire, on top of `Throttle`: `GetReqID` (one atomic
add), `throttle.Wait`, and the two writes of `SendMessage` under the mutex, beside
the reader's `UpdateReqID` (load, compare-and-swap, again) and a socket that breaks,
is closed and is dialled again. `Connection.Connect` takes no lock: it may replace the
socket while a goroutine is between the two writes of a frame, whose payload then goes
to the new connection, or, if that goroutine still sees the old socket, nowhere
(`SeesOldSocket`). The constant `DialOutlasts` says that no frame is under way when
`Connect` dials. The run `send` sets it, and `FramesIntact` needs it: with `FALSE` TLC
finds a torn frame in seven states (header, loss, `Connect`, payload), while the other
properties of the run still hold. Nothing in the code ensures it. In
`ConnectWithReconnect` it takes a writer that stays between its two writes for the whole
of `RetryDelay` to break it; `IB.Connect`, called after a connection was lost, does not
wait at all.

The codec is a set of operators. A text is a token, since only whether it is
empty, and which of the reserved ones it is, matters: `EncodeField`,
`EncodeContract`, `BuildMessage` (whose writes to a builder are `Joined`, of `Loops`),
the split of `ReadMessage` (`Pieces`), and the reads of `FieldReader`.

### Loops

Three loops that build one slice from another, each as a recursive function of the
number of elements the loop has passed: `Kept` appends the elements of a given kind,
`Joined` writes parts one after the other, and `Pieces` is `strings.Split`.

### Throttle

`Wait` and `TryNow` over a clock. The pruning loop is stated as dropping a prefix
of the stamps, and `PruneIsFilter` shows that this is what the loop of the code,
`Kept`, computes.
`granted` is a history of the times at which requests were allowed.

### Events

One `Event`. `Emit` copies the two lists in one step and then serves one entry per
step; `Once` registers its closure in one step and stores `subID` in another. A send
on a closed channel is `SendPanics`, which ends the `Emit`.

### Calls and RequestsRefinement

`Calls` is the contract of a request method as its caller sees it: a call opens,
the server may answer it once, connections may end, and the call returns at most
once: with success only after an answer, and with all of its data or none;
with "disconnected" only after some connection ended; with a send error only if
the server was not reached. `RequestsRefinement` maps `Requests` to it: `status` comes
from `pc`, the answer from what the reader has read once it has read the end, `down`
from the closed done channels. Ids, maps, channels, drains and resets disappear.

## Runs

| Run | Checks | Result |
|---|---|---|
| `requests_lost` | `CompleteAnswer`, `AnsweredIsForgotten`, `AnsweredReturns`, `LostConnectionReleases`: on one connection that may be lost, success is the complete answer, an answered request leaves nothing behind, and no call is left waiting | holds |
| `requests_disconnect` | `TypeOK`, `NoPartialAnswer`, `AnsweredOnce`, `ImplementsCalls`: with Disconnect and reconnection at any time, no answer is truncated, each channel is answered once, and callers see what `Calls` allows | holds |
| `requests_hang` | `LostConnectionReleases` across a reconnect | fails: the call watches the wrong connection |
| `streams` | `SoleAnswerWhole`, `NewestReturns`: a call that shares its method with no other gets one whole answer; the newest call returns | holds |
| `streams_overlap` | `EveryCallReturns` | fails: the first of two overlapping calls waits for ever |
| `orders` | `TypeOK`, `FillsBelong`, `OwnFillsAttached`, `CommissionKept`, `SignalledOnce`, `DoneIsFinal`, `ConfirmedKept` on one connection | holds |
| `orders_reset` | `FillRecordedOnce` across a reconnect | holds |
| `marketdata` | `NoOrphanStream`, `CancelOnlyOwn`, `AtMostOneLateBar`, `UpdateAnnounced`: qualified contracts, traffic that pauses | holds |
| `send` | `TypeOK`, `WindowBound`, `PruneIsFilter`, `OvertakenOnly` of the throttle, `IdsFresh`, `FramesIntact` (with `DialOutlasts`), `CodecRoundTrip` | holds |
| `reconnect` | `TypeOK`, `ReadyMeansHandshake`, `HeartbeatEndsOwnConnection`, `GivesUpInTime`, `ConnectProceeds`, `SilentPeerDetected`, `CancelReturns` | holds |
| `reconnect_stuck` | `Reconnects` when another goroutine calls `Disconnect` | fails: Connect waits for ever for a live reader |
| `events` | `TypeOK`, `OnceGetsOne`, `EmitReachesAll`, `UnsubscribedUntouched` | holds |

A failing run states what a comment, a document or a test of the repository says;
`findings` quotes it. Each failing run has a passing companion that shows under
which condition the same property, or a weaker one, does hold.

More behaviours of the code are in the models and limit what the passing runs
can claim:

- `Disconnect` resets the Manager without draining, so a call under way can return
  success with no data although the server sent some: `CompleteAnswer` fails with
  `UserDisconnect = TRUE`. `NoPartialAnswer` and `Calls` say what remains.
- The first synthetic key is -1, the reqId of live executions: a fill that
  arrives during the first id-less call raises neither `ExecDetailsEvent` nor
  `FillEvent`. `SoleAnswerWhole` only says that it stays out of the answer.
- `Contract.Key` is 0 for every contract without a ConID: for two of them
  `CancelOnlyOwn` fails. It also ignores the actions of a combo's legs, which the comment
  at `contract.go:90` says are hashed: a spread and its reverse have one key. `bagHash` is
  given legs without an action, so the run does not show this.
- `ReqCompletedOrders` called while the server is still listing for an earlier
  call takes over its key and returns the rest of that answer. `SoleAnswerWhole`
  is therefore about calls that share their method with no other.
- After a reconnect `PlaceOrder` takes the modification of an order for a new
  order. If `openOrder` confirms it before the send fails, the trade is removed:
  `ConfirmedKept` fails with `MayReset = TRUE`, `MaxOrders = 1`, `MaxExecs = 0`.
- When a completedOrder is the first message to give the permId of an order placed here,
  the handler enters a second trade for it, under the permId, and the permId index leads
  there. Fills go to the second trade until openOrder or orderBound comes, and are
  missing from the one `PlaceOrder` returned. `OwnFillsAttached` therefore says that a
  fill is in the one or the other, and in no third place.
- `attempt > MaxRetries` lets `MaxRetries` retries follow a failed `Connect`. After a lost
  connection the first attempt is a reconnection too, so the loop makes
  `MaxRetries + 1` of them, where the comment at `reconnect.go:13` says "MaxRetries is the
  maximum number of reconnection attempts". `GivesUpInTime` states what the code does,
  in terms of retries; an invariant `failures <= MaxRetries` is violated by the run
  `reconnect`.
- Ticker updates are announced when the read buffer is empty. `UpdateAnnounced`
  rests on the bound on messages, that is, on traffic that pauses.
- The heartbeat reads `LastTime` after it has written the probe, so a live peer
  whose answer comes in between is given up.
- A `Once` whose callback runs before `subID` is stored is never unsubscribed; its
  spent callback stays in the list. `OnceGetsOne` holds all the same.
- An `Emit` that overlaps an `Unsubscribe` can send on the closed channel and
  panic; `UnsubscribedUntouched` says that no other can.

### Bounds

- `MaxReq` 2 and `MaxItems` 2 in `Requests`: two calls suffice for a race over
  the maps, two partial results for a truncated answer. `MaxConn` 2 gives one
  reconnection, which separates old from new sockets and done channels. The
  four methods differ in the handlers that answer them and in whether a
  contract is remembered; `requests_disconnect` uses all of them with one call,
  for which all four goroutines compete, and `requests_lost` uses one that
  streams and one that does not. What holds for more calls is proved.
- `SharedStreams`: three calls, so that one stream has an overlap or a retry
  while the other has a call of its own.
- `Orders`: one order object used twice (placed, modified), two orders at the
  server so that a foreign one collides with it, one execution each; with
  `Reset`, one order with two executions. `MaxTrades` leaves room for every
  trade these can make.
- `MarketData`: three contracts, two subscriptions (of two of them, of one again
  after its cancellation, or of bars), three messages.
- `Transport`: limit 2, interval 2, four ticks: two full windows and their
  boundaries; two goroutines and three requests, so that a sleeper is overtaken
  and frames compete; a `nextValidId` of 2, above and below what has been drawn;
  messages of up to three fields.
- `Reconnect`: three connections, enough for one that fails, one that is lost and
  one after it; one retry, so that giving up and starting the count again both
  happen. `ReconnectUser` has no limit on retries.
- `Events`: two emitters, three subscriptions of any kind, two values: an `Emit`
  begins before, during and after another; channels of capacity one fill up.

Runs do not check for deadlock: a client nobody uses any more has no step to
take. That nobody waits for ever is stated by the liveness properties.

### Fairness

The fair specifications assume that goroutines which can run are run: callers
inside a method, the reader once a message is in hand, the reconnect loop, the
goroutine in `Disconnect`. Nothing forces a user to call, a context to expire, a
peer to close or, in `Requests` and `MarketData`, a server to send anything.
`SharedStreams` assumes in addition that the server reads and ends the answers
it owes, since its question is whether the client returns when it does. In
`MarketData` a message of which part is in the buffer is read. In `Reconnect` the
loop, the heartbeat and the reader run, their timers expire and a dial returns,
and a peer that has closed has only finitely much on its way.

## Proofs

| Theorem | Statement | Assuming |
|---|---|---|
| `RequestsProofs!TypeCorrect` | `Spec => []TypeOK` | |
| `RequestsProofs!AnsweredExactlyOnce` | `Spec => []AnsweredOnce` | |
| `RequestsProofs!NeverPartial` | `Spec => []NoPartialAnswer` | |
| `RequestsProofs!RequestsImplementsCalls` | `Spec => ImplementsCalls` | |
| `RequestsProofs!AnsweredForgotten` | `Spec => []AnsweredIsForgotten` | |
| `RequestsProofs!SuccessIsComplete` | `Spec => []CompleteAnswer` | `~Reconnect`, `~UserDisconnect` |
| `OrdersProofs!OrderTypes` | `Spec => []TypeOK` | |
| `OrdersProofs!FillsCountOnce` | `Spec => []FillRecordedOnce` | |
| `OrdersProofs!FillsStayHome` | `Spec => []FillsBelong` | |
| `OrdersProofs!CommissionStays` | `Spec => []CommissionKept` | |
| `OrdersProofs!SignalsOnce` | `Spec => []SignalledOnce` | |
| `OrdersProofs!DoneStays` | `Spec => DoneIsFinal` | |
| `OrdersProofs!OwnFillsKept` | `Spec => []OwnFillsAttached` | `~MayReset` |
| `OrdersProofs!ConfirmedStays` | `Spec => ConfirmedKept` | `~MayReset` |
| `MarketDataProofs!OneLateBar` | `Spec => []AtMostOneLateBar` | |
| `MarketDataProofs!CancelsOwnOnly` | `Spec => []CancelOnlyOwn` | `IsInjective(Key)` |
| `MarketDataProofs!StreamsHaveOwners` | `Spec => []NoOrphanStream` | `IsInjective(Key)`, `Exclusive` |
| `MarketDataProofs!NumberedContractsKeptApart` | `Spec => []CancelOnlyOwn`, and `Spec => []NoOrphanStream` if `Exclusive` | `Numbered(Contracts)`, `Key` as `KeyOf` computes it |
| `ReconnectProofs!ReconnectTypes` | `Spec => []TypeOK` | |
| `ReconnectProofs!HeartbeatStaysWithConnection` | `Spec => []HeartbeatEndsOwnConnection` | |
| `ReconnectProofs!LoopGivesUpInTime` | `Spec => []GivesUpInTime` | |
| `ReconnectProofs!ReadyAfterHandshake` | `Spec => []ReadyMeansHandshake` | `DelayOutlasts` |
| `ReconnectProofs!DisconnectLeavesLoopSound` | `UserSpec => [](TypeOK /\ HeartbeatEndsOwnConnection /\ GivesUpInTime)` | |
| `EventsProofs!EventTypeOK` | `Spec => []TypeOK` | |
| `EventsProofs!OnceFiresOnce` | `Spec => []OnceGetsOne` | |
| `EventsProofs!EmitReachesSubscribers` | `Spec => []EmitReachesAll` | |
| `EventsProofs!RemovedStaysUntouched` | `Spec => []UnsubscribedUntouched` | |
| `TransportProofs!LimiterTypes` | `Spec => []TypeOK` | |
| `TransportProofs!LimiterHolds` | `Spec => []WindowBound` | |
| `TransportProofs!SleepersOvertakenOnly` | `Spec => []OvertakenOnly` | |
| `TransportProofs!PruningIsFiltering` | `Spec => []PruneIsFilter` | |
| `TransportProofs!SendUsesLimiter` | `TransportSpec => Spec` (of `Throttle`) | |
| `TransportProofs!SendsAreLimited` | `TransportSpec => [](TypeOK /\ WindowBound /\ OvertakenOnly)` | |
| `TransportProofs!RequestIdsFresh` | `TransportSpec => []IdsFresh` | |
| `TransportProofs!FramesStayIntact` | `TransportSpec => []FramesIntact` | `DialOutlasts` |
| `TransportProofs!MessagesReadBack` | `\A fields \in Seq(Fields) : ReadsBack(fields)` | |
| `TransportProofs!SentReadsBack` | `TransportSpec => []CodecRoundTrip` | |
| `SharedStreamsProofs!SoleAnswersWhole` | `Spec => []SoleAnswerWhole` | |

They hold for every value of the constants that satisfies the modules' ASSUMEs:
numeric bounds, kinds among the four modelled, Boolean modes; a limiter that is
enabled (`MaxRequests`, `Interval` positive); no goroutine called `Nobody`, the
value that marks a free mutex. The assumptions of the last column are not
conveniences. Each names a condition without which TLC finds the property violated:

- with `UserDisconnect` or `Reconnect`, `Reset` empties `Results` under a call that
  is pending or about to be, and its success has no data;
- with `MayReset`, a fill reported after a reconnect finds no trade of the session
  before it, and `PlaceOrder` takes a modification for a new order, whose trade it
  drops when the write fails;
- with two contracts of one key, `CancelMktData` of one cancels the other;
  `NumberedContractsKeptApart` says for which contracts this cannot happen: any that
  are no combos and have ConIDs, no two of them the same but for a continuous future
  and its future, whose keys differ in sign;
- without `Exclusive`, a second `ReqMktData` of a contract replaces the first one's
  ticker, whose stream nobody can cancel any more;
- without `DelayOutlasts`, a message the old reader still holds sets the flags the
  next `Connect` has just cleared;
- without `DialOutlasts`, the payload of a frame goes to another socket than its header.

Every inductive invariant below was model-checked on an instance of the size of
the runs before it was proved.

**One answer per call.** A registered channel has exactly one owner: its pending
entry, the reader inside `Complete`, the reader's drain or the loop's drain.
`AnsweredOnce` says so for every call and relates ownership to the channel's
contents. It is not inductive alone: `OwnershipInv` adds that a drain holds
channels only in its draining phase (otherwise a second swap would lose the
first one's channels), that a reader is started only after the previous one has
finished (`readWg`), and that an id not drawn yet belongs to no call (otherwise a
new call could find a used channel).

**No partial answer.** `AnswerInv` adds to `OwnershipInv` that an entry of
`Results` holds exactly what the server has sent so far, one item less while the
reader is between the two accesses of `AppendResult` (`ResultsExact`); that nothing
arrives for a request that has not been written (`NothingBeforeSend`), which is
why `StartReq` cannot discard results; and that every value in a handler, a
channel or a return is empty or the complete list of an ended request
(`AnswersExact`). Since ids are not used twice, no `StartReq` re-creates an entry
`Reset` has removed, so what survives a reset is nothing rather than a part.

**Callers see `Calls`.** The initial state maps to an initial state, and each
action to one step of `Calls` or to none; the proof has one case per action. What a
return needs is `BackedInv`: a successful result on its way answers a request that
was ended, a request whose caller is told that the send failed never reached the
server, and nobody is told "disconnected" before some `done` channel was closed,
since only then do the reader and the loop come to their drains.

**Nothing is left behind.** `EndReq` removes the entry of `Results`; only an
`AppendResult` could bring it back. `ForgottenInv` adds that the reader, the one
goroutine that appends, is never between its read and its write for a request
that has been ended. `CompleteInv` says that without `Reset` a pending call keeps its
entry until `EndReq` takes it, so that success is the whole answer.

**Orders.** `OrderInv` says that the server never has two orders of one client with
one id, and that the client hands out an order id once; then both indexes, by key and
by permId, lead from an order of the server only to its own trade (`KeyInv`), also
where a foreign order has the order id of one of ours. From this follow that a fill
is attached to the trade of its order, once and only if it is in `Fills`
(`FillInv`), and that a trade is done only because the server's order is
(`StatusInv`). The server never leaves a final state, hence no repeated or late
message undoes one: `DoneIsFinal`, an action property. On one connection `OwnInv` adds
that everything written has its trade, and that a trade which `PlaceOrder` may still
replace or drop is of an order the server has not seen. Hence the reader never makes a
trade under a key of this client (`PlacedInv`), and a fill of an order placed here is in
the trade `PlaceOrder` made or in the second one under the permId (`FillUnderOwnKey`).

**Market data.** At most one bar is late, since the reader holds at most one list it
has looked up, and a cancelled one can no longer be found (`LateInv`). `TickerInv`
keeps every ticker under the key of its own contract. For `NoOrphanStream`, `StreamInv`
says that a subscription that was sent can be routed and cancelled, or its
cancellation is about to be written, is on its way, has arrived or was lost with its
write; and that no request follows a cancellation of the same id on the wire.

**Requests without an id.** `StreamInv` says of every call that is the only one of its
method what the others have left it (`SoleInv`). Its request is the only one of its
stream, so the server answers it once, and nothing of that answer is on the wire before
the request is. `Positions` is what the list so far leaves (`SolePositions`; each item is
of a contract not listed before, so taking out one that is no longer held takes out
nothing else). `Results[k]`, less the fills that live executions have put there, is that
list, less the item the reader has taken and not yet appended while it waits for the
mutex (`SoleOrders`); and the key it reads under the mutex is the call's own (`KeyInv`,
`JobInv`). For the first call of a method `Untouched` is needed: nothing has happened on a
stream nobody called. That fills disappear from the answer is a fact about the loop of
`ReqCompletedOrders`, `KeptAppend`.

**Reconnection.** `LoopInv` relates the loop, the call of `Connect` it is in, and the
heartbeat, which lives only while the loop waits on the connection it was started
for; each failure used up a connection and is counted once. `CloseInv` says who
closes what: once `done` is closed, or the loop is in its delay, the reader has no
socket to read from or is about to leave. `FlagInv`, under `DelayOutlasts`, says that
the handshake flags are what this connection's reader has heard. `TypeOK` and `LoopInv`
are inductive without the other two, also when a goroutine of the application calls
`Disconnect` at any time (`UserSpec`): what such a call can end prematurely is a
connection, never the loop's count or the turn of a heartbeat. `CloseInv` and `FlagInv`
do not survive it, and TLC finds `ReadyMeansHandshake` violated under `UserSpec` with
three connections: the reader of a connection whose `done` was closed by mistake lives
on and sets the flags of the next one.

**Events.** `EventInv` says that the two lists hold the subscriptions in force, each
once and by its kind, and that an `Emit` under way has given its value once to each
callback before its position in its copy and to none after it. The closure of a
`Once` passes on one value: it closes its channel in the same step, and what is
closed it leaves alone.

**The limiter.** `HistoryInv` says that the stamps are the most recent part of
the history and everything older has left the window. When a request is allowed
with fewer than `MaxRequests` stamps left, the request `MaxRequests` before it is
among the older ones, at least an interval ago. For sleepers, `SleepInv`: one waits
exactly for the oldest of the last `MaxRequests` requests, or somebody was allowed
since.

**Ids and frames.** The send path uses the limiter as `Throttle` describes it
(`SendUsesLimiter`), so what is proved there holds here. `IdInv`: the counter is above
every id drawn and at least what the server announced, and a compare-and-swap that
succeeds raises it. `LockInv`: the mutex belongs to the goroutine between its two
writes, whose header is then the last chunk on the wire, unless `Connect` has replaced
the socket, which `DialOutlasts` excludes; a header without its payload is only on a
socket that is never written again.

**Loops and the codec.** What a recursive definition computes for every input needs an
induction, and the induction theorems of the library take a predicate, which the provers
cannot instantiate. `LoopsProofs` makes do with sets: `SetInduction` takes from the
well-foundedness of `<` that a set which contains 0 and is closed under successor
contains all naturals. From it `LoopExists` gets a function that satisfies the
equation of a loop, without which nothing would be known of the recursive function,
and `LoopsAgree` that two loops with the same start and the same steps are equal. These
give each loop its value for the empty slice and for a slice with one more element.
`PruneIsFilter` follows from `KeptSuffix`: the stamps are in order, so those to be dropped
come first, and the loop leaves the rest as it is. For the codec, `Pieces` cuts what
`Joined` has written back into the texts, since no text contains the separator and each
is followed by one; every field's texts begin where the texts of the fields before it
end (`JoinedAt`), and that is where `FieldReader` stands when it has read those.

Only model-checked:

- the liveness properties `AnsweredReturns`, `LostConnectionReleases`,
  `NewestReturns`, `UpdateAnnounced`, `ConnectProceeds`, `SilentPeerDetected` and
  `CancelReturns`: they need fairness and `ENABLED`, out of the prover's reach;
- that the keys of combos (`bagHash`, a hash) differ: `marketdata` checks `CancelOnlyOwn`
  with one combo, and no theorem is about them.

## Not modelled

- Account values and portfolio: single map writes that nothing waits for.
- The values of orders, ticks, bars and contracts, which field of a ticker a
  tick type sets, and which fields a request consists of. They are long lists of
  independent assignments, and say nothing about how goroutines interact.
- The digits of numbers on the wire, the length prefix, partial reads.
- Clocks in `Reconnect`, hence the question how often a live peer is given up, and
  the whole-second resolution of `currentTime`.
- Writes that block. A peer that reads no more fills the socket's buffer; a write
  then waits with `Connection.mu` held, and `Disconnect`, which the heartbeat would
  call, waits for that mutex. `SilentPeerDetected` is about writes that return.
- Callbacks that call back into `IB` or into the event that called them.
- Positions outside an answer. `reqPositions` is a subscription that `IB` never cancels, so
  a server may go on sending changes; in `SharedStreams` it lists positions only to answer.
- A disabled throttle (`maxRequests` 0) and a disabled heartbeat (`ProbeInterval` 0).
- Records, constants, the smoke test program.
- Memory-model effects of data races beyond the interleaving of the accesses
  (`Results`, the handshake flags, `LastTime`, `Client.done`); Go may abort the program
  when it detects concurrent map access.

The repository's own documents are behind the code here and there: `README.md:116` and
`:118` say that there is no reconnection, heartbeat or throttling at run time, and
`STATUS.md:62-63` that update events are never emitted and the throttle is not enforced.
The models follow the code, which has all of these.

## Plan

Every safety property that a passing run checks is proved. What is left, in this order:

1. The liveness properties for more than the instances of the runs: larger bounds, or
   proofs with a prover that handles `ENABLED`.
2. A length prefix and partial reads in `Transport`, so that `MessagesReadBack` goes from
   the fields of one side to those of the other through the bytes of a frame.
3. Account values and portfolio, once a method waits for them.
