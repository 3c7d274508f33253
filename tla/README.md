# Verification of the Poseidon HTTP server

TLA+ models of the server, the TLC configurations that check them on small
instances, and TLAPS proofs of the invariants that matter most. `PROJECT.json` lists
components, runs, mutants, the map from definitions to source lines, findings,
hazards and theorems. Paths below are relative to `src/`. A range of the map begins
at the comment in front of the function it names.

## The system

| Part | Source | What runs there |
|---|---|---|
| HTTP/2 connection | `conn/server_conn.go`, `server_handler.go`, `server_ops.go` | one frame reader per connection, a keepalive goroutine, `Close`/`GoAway`/`Ping` from anywhere |
| Streams | `conn/server_stream.go`, `stream_state.go`, `stream_table.go` | one handler goroutine per stream; state word, event channel, table of live streams |
| Flow control | `conn/fc_waiters.go`, `server_ops.go`, `server_stream.go` | writers park for credit; reader and handler refund the client |
| Push, h2c stream 1 | `conn/push.go`, `conn/server_upgrade.go` | the only streams the reader does not open |
| Server | `server/server.go`, `server/h2c.go` | accept loops, `Close`, `Shutdown`, tracking and totals |
| Requests and responses | `server/handler.go`, `stream_body.go`, `responsewriter.go`, `middleware/gzip.go` | the handler's goroutine, against resets and the end of the connection |
| gRPC | `grpcserver/` | calls, status, health service with Watch streams, reflection |
| HTTP/3 | `http3server/` | control streams and requests over an external QUIC library |
| Middleware | `middleware/` | rate limiter and metrics shared by all requests; gzip, real IP, headers, logs per request |
| Programs | `cmd/`, `examples/`, `loadtest/` | start-up, demonstrations, load generator |

Locks and their order: `wmu` (one frame at a time) before `tbl.mu` before `psMu`;
`fcOutMu` before a stream's `mu`; `fcMu`, `pingMu`, `Server.mu`, the health server's,
the limiter's and the metrics' mutexes on their own, except that `Server.mu` is held
while `Close` closes connections.

## Modules

Each step of a model is one critical section, one atomic transition, one channel
operation or one blocking write of the code. Octets, field names and error texts
are abstracted; order, guards, early returns and error paths are kept. Operators
marked *Mutant* are deliberately wrong variants which the properties must reject;
they take no part in any specification.

**SendCredits** - outbound flow control. Writers are handler goroutines in
`SendData`: fast path, slow path under `fcOutMu`, park, select, write, refund. The
reader applies `WINDOW_UPDATE` and `SETTINGS`, whose walk over the streams is a
step per stream, and wakes writers afterwards. `Close` wakes everybody. History
variables keep a ledger of grants and of octets sent.

**StreamTable** - identifiers, live counts, admission, release, drain, and `Push`,
in which a handler holds `wmu` from the check of the parent to the promise.

**StreamLifecycle** - every frame callback, field blocks with CONTINUATION, the
state bits, the accept queue, the event channel and its overflow goroutine, resets
from all sides, teardown. `rtodo` is the rest of the callback the reader is in.

**ConnTeardown** - `Close`, `GoAway`, `GoAwayGraceful`, `sendGoAway`, `Ping`, the
keepalive loop, the end of the reader and `AcceptStream`, over a transport that
delivers, stalls or is dead. A blocked write keeps `wmu`.

**Server** - `Serve`, its watcher, `serveConn`, `acceptLoop`, `closeIfFinished`,
`spawnStream`, `Close`, `Shutdown` and the transport totals. A connection is
reduced to whether it is open, read from, taking data (its peer may stall, and a
frame then waits), and its streams: each is queued, in the accept loop's hands or with a
handler, and apart from that live or not, since `ActiveStreams` counts the table's
streams and a handler outlives a stream that was reset. `Shutdown` writes a GOAWAY per
connection, which waits for a stalled peer. The two looks at `ActiveStreams` and the
`Close` after them are separate steps; a stream that is opened between the last look and
the `Close` is dropped with its connection. Pushed streams are not counted here.
`ServerConn.Close` is one step, which the `CloseCompletes` of ConnTeardown justifies
only while the peer reads.

**RecvWindow** and **RequestBody** - an upload, from the client that keeps to its
windows to the handler that reads it. RecvWindow has the reader's side: debits,
counted refunds, `WINDOW_UPDATE` frames written later, padding, trailers, a full
event buffer, aborts. RequestBody composes it with the handler's: `Recv`, the
`streamBody` with what an event left over, its limit and `Close`, and the buffered
mode of `serveStream`, which collects the body first.

**Http3Message**, **Http3** - HTTP/3. Http3Message is the algorithm: what the frames
of a request stream amount to, as the code's loop computes it (`decodeRequest`) and
as a declarative reading of RFC 9114 (`RequiredVerdict`). Http3 is the connection: a
goroutine per stream, the control stream with SETTINGS, GOAWAY and MAX_PUSH_ID, the
other unidirectional streams, the connection error that ends them all, responses
under the peer's field-section limit, and the end of the server.

**Exchange** - one request: `serveStream`, the handler (native or `net/http`, with
any order of calls on its `ResponseWriter`, panics included), the gzip wrapper, and
how the stream is closed or reset. A reset or the end of the connection may come
between any two steps.

**GrpcCall** over Exchange - `ServiceRegistrar.Handler`, the four kinds of call, message
framing, the deadline (with the width of `time.Duration`), and the status trailers.

**HealthWatch** - the health service: updates, `Shutdown`, Watch streams with bounded
channels. A status is the number of the update that set it. **HealthCall** over GrpcCall
runs this Watch loop as the method of a gRPC call, whose every response is several steps
of the response writer and can fail between two of them; its properties are about what
is on the client's wire.

**RateLimit** - the token buckets of `middleware/ratelimit.go`: look-up, creation,
eviction at the cap and the idle sweep under the map's mutex, the take under the
bucket's, time as ticks. A ghost bucket per key is one that is never dropped.

**Metrics** - the collector of `middleware/metrics.go`: the unlocked read of a
published view, the locked path behind it, the fold into `__other__`, the counts of a
request one after the other, the sweep between any of them, and the in-flight gauge.

**Totals** - sums of natural numbers over sets and sequences, for the ledgers of
SendCredits, Server, RecvWindow and Metrics.

`MC*` modules give TLC the constants, and MCMiddleware puts the two middleware
modules, which share nothing, into one run; `*Proofs` hold proofs. `RequestBody` is
run directly.

## Runs

Passing runs, with the distinct states TLC visits.

| Run | Question | States |
|---|---|---|
| `credits_main` | two writers on one stream: is a wake ever lost, credit lost or minted, a window out of range; does a parked writer whose credit, context or closed connection releases it go on, and is nobody left parked on a closed connection? | 158,356 |
| `table_main` | counts, idleness, window seeding, promises | 765,338 |
| `lifecycle_one` | one stream under every frame and call: order on the wire and on the channel, HPACK; an ended stream leaves the table | 347,162 |
| `lifecycle_two` | two streams under a limit of one: who releases a stream that has ended, and is every stream that left or was refused cancelled? | 3,062,272 |
| `teardown_main` | GOAWAY identifiers, nothing after Close, pings, no deadlock; Close returns, keepalive settles, a dead reader is noticed | 125,654 |
| `server_main` | WaitGroup use, drain, idle close, totals; if handlers return and peers read, Shutdown returns and ended connections are forgotten | 177,226 |
| `recv_main` | no false flow error, conserved credit, the handler reads what was sent, uploads complete | 190,072 |
| `http3_main` | does a request get the verdict RFC 9114 calls for, is every control frame heard, do SETTINGS bind every response encoded after them, does every request settle? | 184,220 |
| `exchange_main` | is every response one message and the one written, is the stream settled, has a gRPC call one status and its messages in order; does a Watch call learn of updates and unsubscribe? | 532,725 |
| `middleware_main` | limiter against a bucket that is never dropped, both caps, no request missing from the metrics | 258,149 |

Some properties are conjunctions of what belongs together:

- `CreditConserved`: the ledgers of the connection's window and of each stream's.
- `PromisesLegal`: the peer's limit, the order of identifiers, no promise on a reset
  parent.
- `ResetIsFinal`: no frame follows this side's RST_STREAM, and a reset is never
  answered by a reset.
- `ReleasedOnce`: released by the side that ended the stream, and its context
  cancelled.
- `GoAwaysInOrder`: identifiers never rise, and Close's GOAWAY is the last.
- `EndNoticed`: the keepalive loop settles, and the accept loop hears that the
  reader is gone.
- `DrainSound`: a drained server runs no handler, and nothing joins the WaitGroup
  that `Shutdown` already waits for.
- `OneGrpcStatus`: one status, the right one, and a deadline is never taken for a
  different length.
- `WatchCurrent`: the client knows the current status, channel updates are in
  order, and the wire is what the method sent.
- `MemoryBounded`: the limiter's inductive invariant, its cap, and that of every
  series map.

The type invariants of StreamLifecycle, Server, RecvWindow and HealthWatch are
conjuncts of `EofIsLast`, `DrainSound`, `NoFalseFlowError` and `WatchCurrent`; those
of the other modules with proofs are in their inductive invariants.

Runs that end in a violation, each showing that the code does not do what a
comment or a document says (quoted under "findings"):

| Run | What happens |
|---|---|
| `lifecycle_gap` | a body with a hole after an event overflow |
| `teardown_last_id` | a stream above Close's last-stream-id is served |

### Other disagreements with comments and documents

These are stated at the end of the modules and are not part of a run. TLC refutes
each within half a minute when it is added to the cfg of the module's run, with the
change given here, if any.

| Definition | What happens | Change |
|---|---|---|
| `SendCredits!DataWithinPeerWindow` | DATA is written after the ACK of SETTINGS that took its credit away | |
| `StreamTable!PushOnlyWhenEnabled`, `NoPushAfterPeerGoAway` | a promise after ENABLE_PUSH = 0 was acknowledged; after the client's GOAWAY | `Settings <- AllSettings`, with `MaxClientId = 1`, `MaxPushId = 2` for time |
| `StreamLifecycle!NoFrameAfterEnd` | frames after END_STREAM when the reader answers 431 | |
| `StreamLifecycle!OpenBlockStreamLive` | the "unreachable" branch of OnContinuation is reached | |
| `StreamLifecycle!DeliveredAlive` | a stream that died in the accept queue is handed out | |
| `StreamLifecycle!CompletedNotCharged` | a reset of a completed stream is charged | |
| `ConnTeardown!OneGoAway`, `GoAwayStopsAccept` | two GOAWAY frames; AcceptStream delivers after GoAway | |
| `ConnTeardown!ErrorReported` | a connection error without a GOAWAY | |
| `ConnTeardown!TeardownNotBlocked` | a blocked writer blocks the reader's teardown | |
| `Server!NoAbandonedConn` | a stream that arrives between the two looks at `ActiveStreams` after an idle timeout makes `closeIfFinished` leave the connection open, untracked, with nobody to close it | |
| `Server!GoAwaysEnd` | the graceful GOAWAYs of `Shutdown` wait for a peer that does not read, past the deadline of its context | |
| `Server!ConnLimit` | handshakes in progress pass the connection limit | |
| `Server!DrainWaits` | the documented drain does not wait | `Calls = {"cancel", "drain"}` |
| `RecvWindow!BackpressureHolds` | a client within its window is reset because the event buffer is full | |
| `RequestBody!ClosedReadsNothing` | a Read after Close hands out what an earlier event left | |
| `Exchange!TrailersTrail` | a handler that calls `WriteTrailers` first ends a response that has no status | |
| `Exchange!NothingStranded` | what is written through the gzip wrapper after a Flush is never sent | |
| `Exchange!GzipDeclinesInterim` | the wrapper takes an interim status for the final one | |
| `Exchange!WrittenMeansSent` | `Written` is true although the header section did not fit and was not sent; DATA and trailers then go out without one | |
| `GrpcCall!EofIsClean` | a stream that ends between a message header and its payload is a clean end | |
| `HealthWatch!LatestWins`, `NoOlderReport` | a client left with an old status; an older status after a newer one | `HealthWatch` run directly: two services, two watches, `Buffer = 2`, `MaxUpdates = 4` |
| `RateLimit!EvictionLosesNothing` | the cap evicts a bucket that is not full, and its key starts again with all its tokens | |
| `RateLimit!SweptUnused` | a bucket is swept between a request's look-up and its take | |
| `RateLimit!SweptIsFull` | with a refill time over the largest TTL, an idle bucket is dropped before it is full | `maxTTL = 2` |
| `Metrics!NeverDropped` | a request that loaded its view before a sweep counts on a series that is gone | |
| `Metrics!FoldsOnlyWhenFull` | a view from before a sweep folds a label the live store has room for | |

`UploadCompletes` carries a reservation for the same reason: padding is debited
from a stream's window and refunded only on the connection, so a stream whose window
has fallen below the refund threshold in this way waits for a refund that is not due.

### Bounds

- SendCredits: windows of 0 and 1 with a largest window of 1, bodies of 2 and one
  grant per window. A writer is short of either window or exactly at it, a SETTINGS
  change makes a window negative, and a grant overflows one; two writers are enough
  for one to take what the other was woken for.
- StreamTable: two client streams under a limit of one give refusals, two pushes give
  ordered promises.
- StreamLifecycle: three frames with an event buffer of one reach overflow,
  CONTINUATION and trailers. `lifecycle_two` has good and oversized field blocks,
  `lifecycle_one` every kind.
- ConnTeardown: one caller with the reader, the keepalive goroutine (which calls
  Close itself) and the accept loop give three contenders for `wmu`; the proofs hold
  for any number of callers.
- Server: two connections of one stream each under a limit of one, and one peer that may
  stall, give the accept
  loops, `Close` and `Shutdown` different views of `conns`.
- RequestBody: the body is longer than the window, so that refunds are needed, and
  longer than the limit; reads of one octet leave something of every larger event.
- Http3: messages of up to five frames, two unidirectional streams and two requests.
  The scripts vary one stream at a time, and the pairs that interact (SETTINGS with a
  response, an error on one request with another request).
- Exchange: four calls of a handler are enough for a status, a write on each side of
  the gzip threshold, a flush and an end in any order. Timeouts range over a
  `time.Duration` of 31 units, so that the product overflows.
- Health: four updates overflow a channel of two places.
- Middleware: two keys for one bucket and two paths for one series; a refill time of 4
  ticks over an idle time of 1, so that raising the TTL matters; views of one entry
  are rebuilt eagerly and larger ones are paced; two requests at a time and three
  in all let one hold a view over another's sweep.

Every bound is a named constant. Deadlock is checked in the ConnTeardown, HTTP/3,
exchange and middleware runs; elsewhere the system may come to rest (the client stops, the
connection is closed, the bound on frames is reached).

### Fairness

- SendCredits: strong fairness of each writer's steps under `fcOutMu` and its select,
  of the reader's wakes and of the steps of a `Close` that has begun, because they
  compete for mutexes, and Go's mutex hands over to a starved waiter. Nothing is assumed
  of the transport or of `wmu`, and nobody is made to call `Close`: a writer that waits
  for credit with a background context after the reader has gone stays parked until
  somebody closes the connection.
- StreamLifecycle: weak fairness of the reader, handlers inside a call and the
  overflow goroutine. Handlers are not made to call anything. Some of these steps write
  under `wmu`, so that `TerminalLeaves` assumes a peer that reads; ConnTeardown shows
  what a peer that does not read holds up.
- ConnTeardown: strong fairness of taking `wmu`, weak fairness of the section
  under it, of the keepalive's timeout and of the reader on a dead transport.
  Nothing makes a stalled peer read again; the three liveness properties are
  conditional on `PeerReadsOn`, that the transport is not stalled for good.
- Server: accept loops run and handlers return; clients are not made to do
  anything, and no timeout is made to fire. `ShutdownReturns` and `DeadConnForgotten` are
  conditional on `PeersRead`, that no peer is stalled for good.
- RequestBody: the client sends while it may and reads what it is sent, and the
  reader, the overflow goroutine and the handler run; a handler reads on.
- Http3: the goroutines of the connection run and handlers return; nothing is
  assumed of the peer.
- HealthCall: the exchange, the registrar and the Watch loop run while they can; a
  client that may send its body does, or goes away. No update is made to happen.
- Middleware: none, its properties are safety.

## Proofs

For every value of the constants that meets the named assumptions:

| Module | Theorems |
|---|---|
| `SendCreditsProofs` | `CreditInvariant`, `TypeCorrect`, `NoPhantomWaiter`, `CounterExact`, `NoWakeupIsLost`, `WindowsStayInRange`, `LedgersBalance` |
| `StreamTableProofs` | `TableInvariant`, `PopulationsExact`, `NeverIdleAndLive`, `WindowSeededOnce`, `ReservationsReturned`, `PushLimitRespected`, `PromisesOrdered`, `NoPromiseAfterReset`, `EveryPromiseLegal` |
| `StreamLifecycleProofs` | `LifecycleInvariant`, `EofLast`, `HpackSynchronised`, `ReleasedExactly`, `ResetFinal` |
| `ConnTeardownProofs` | `TeardownInvariant`, `PingsNeverLeak`, `LastStreamIdFalls`, `NothingAfterClose`, `GoAwaysKeepOrder` |
| `ServerProofs` | `ServerInvariant`, `ShutdownDrains`, `OnlyForceCuts`, `TotalsExact` |
| `RequestBodyProofs` | `NoFalseCharge`, `ConnCreditKept`, `BodyKept` |
| `MiddlewareProofs` | `LimitInvariant`, `LimiterIsExact`, `MetricsInvariant`, `MemoryStaysBounded`, `NoRequestMissing` |
| `TotalsProofs` | lemmas on sums, used by those of SendCredits, Server, RequestBody and Middleware |

So every safety property of the connection's runs, of the server's, of uploads and of the
middleware is proved: of the runs with `SendCredits`, `StreamTable`, `StreamLifecycle`,
`ConnTeardown`, `Server`, `RequestBody`, `RateLimit` and `Metrics`, only the liveness
properties rest on TLC alone.

Each theorem rests on an inductive invariant. It contains the module's types and the
smaller invariants that have theorems of their own (`WaitersLinked`,
`FcConnBlockedExact`, `WindowsFit`; `CountsExact`, `LiveNotIdle`,
`NoOrphanReservation`; `PingsAccounted`). `CreditInv`, `TableInv`, `TeardownInv` and
`LimitInv` (within `MemoryBounded`) are invariants of the runs; the others, which are
stated beside their proofs, held on the constants of the runs when TLC was given them
as a further invariant.

- `CreditInv`: `NoLostWakeup` says nothing of a writer that has failed its take and
  holds `fcOutMu` until it is parked, nor of why `fcWakeConn` may pass over a waiter
  without `needConn`; `WakeInv` says both. `WindowInv` ties a negative window to the
  SETTINGS value it was last adjusted to, since otherwise a second shrink could
  leave int32.
- `LedgerInv`, for `LedgersBalance`: a ledger adds what all writers hold, so a step of
  one writer changes one term of a sum; a stream enters the table with an empty
  history (`HistoryFresh`).
- `TableInv`: the counts need that a handler between the reservation and the
  promise holds `wmu` (`WmuInv`), that resets never touch an idle identifier
  (`WireInv`), and what the limit a handler has read still means (`PushInv`).
- `LifecycleInv`: none of the four properties is inductive, because each depends on
  what another goroutine has still to do. `CallbackInv` lists what a callback of the
  reader can have left and what each rest takes for granted: a release or a reset
  that is owed is of a stream that takes no more frames, and an EOF about to be pushed
  is the first. `PcInv` says what a position of the handler or of the overflow
  goroutine means for the stream's state word, `QuietInv` that a stream which left the
  table or was reset on the wire is no longer written, `EofInv` that the state word
  has seen an EOF that is on the channel, `QueueInv` that a stream waiting to be
  accepted waits once and has no handler.
- `TeardownInv`: identifiers are only written under `wmu`, after the clamp
  (`WmuInv`, `ProcInv`); once Close holds or has held `wmu` nobody else can be past
  the second look at `closed` (`CloseInv`); a payload is in at most one of
  `pingWaiters` and `answered` (`PingInv`).
- `ServerInv`: the WaitGroup's counter is the number of running handlers
  (`InFlightExact`); the flags are set before `Shutdown` waits, and a nil result means
  the counter was 0 (`StoppedInv`); a connection is tracked only after its handshake
  (`LoopInv`); a connection that `closeIfFinished` has decided to close has no live
  stream with a handler (`IdleInv`), although streams may still arrive on it: only the
  accept loop that made the decision could hand them to one.
- `BodyInv` of RequestBody: the server's window is what the client has been promised,
  exactly on the connection and at least on the stream (`ConnBooks`, `StreamBooks`),
  where a promise is the sum of what the client may send, what is on its way in either
  direction and what a refund still owes. For the body: nothing follows the end, on
  the wire (`LastInv`) or among the events (`EndInv`); and what was handed over is
  compared with what was sent while the stream takes frames, once the end is buffered
  and once it is read (`ReadInv`).
- `LimitInv`: a bucket that a request can reach, through the map or in its hand, has
  at least the tokens of the ideal one, and exactly those while no bucket of its key
  was dropped in use or before it was full; a key without a bucket, and not so marked, has
  a full ideal one. A sweep never marks a key for the second reason while the refill
  time is within the largest TTL, because it waits that long; beyond it `resolveIdleTTL`
  cuts the time short (see `SweptIsFull`). `ListInv` ties the list to the map.
- `MetricsInv`: a series that a request has resolved, or that the view it loaded shows,
  is live, or a sweep has run since the request began (`RequestInv`); what the live series
  show, what was swept and what was lost is what was recorded (`SumsInv`).

Sums over writers, connections and frames are the sizes of sets of numbered units
(`Total` of `Totals`), not a recursion: adding an element, changing one term and
comparing two sums are then facts about cardinalities, which `TotalsProofs` derives
from the library's theorems on finite sets.

Only model-checked:

- everything about liveness: this prover does neither fairness nor ENABLED;
- the verdicts on HTTP/3 messages and the properties that rest on them: they are a
  fold over a sequence, which needs induction over data;
- Exchange, GrpcCall, HealthWatch, HealthCall and Http3, explored on their small
  instances only.

## Not modelled

- The preface, the defaults and the range checks of SETTINGS: one goroutine, before the
  reader starts.
- Rules for single fields, percent-encoding, the text of a status, Accept-Encoding, and
  RealIP, headers and logs of the other middleware: functions on text without state.
- h2c detection and the HTTP/1.1 upgrade request: parsing of text by one goroutine. Its
  outcome, stream 1 before the reader starts, is in StreamTable; the events made up
  for that stream are not.
- The push API of `server/`: it validates and calls `conn.Push`, which is modelled.
- The exposition of the metrics (`WritePrometheus`): it reads and formats.
- Readiness, TLS and pprof helpers, gRPC reflection: no state, or one atomic flag.
- The binary, examples and load generator.
- The frame codec, HPACK and QPACK tables, QUIC and compression are external libraries.
- Smaller things left out of modelled parts: reads into an empty slice; a second Read
  of a `streamBody` after an error, which gives `io.EOF`; a `Close` of it that waits for
  a Read in progress; a panicking HTTP/3 handler, which nothing in `serveRequest`
  recovers; and a gRPC deadline that passes during a receive, which does not end it.
