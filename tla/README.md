# A formal model of rzgate (RzProxy)

rzgate is an HTTP/JSON proxy, written in Rust on tokio and axum, in front of a
Roomzin server or router.  It takes a command as JSON on `POST /api`, encodes
it as a binary frame, sends it on one of a few multiplexed TCP connections,
matches the reply by its correlation id, and turns it into JSON again.  It
keeps no data: what can go wrong is the path of a call through tasks, channels,
retries and connections that fail, and the decoding of what comes back.

This directory holds TLA+ modules that model that path, TLC configurations that
check them on small instances, and proofs checked by TLAPS.  Paths are relative
to the repository (`src/...` is the Rust crate's source directory).

    tlasany M.tla                        parse a module
    tlc -config X.cfg M                  one run; the module of each is below
    tlapm M.tla                          check the proofs of a module

## 1. The system

| Part | State | Operations | Works with |
|---|---|---|---|
| calls, `Handler::execute` (`src/handler/handler.rs`) | per call: attempts, connection, id, oneshot receiver | pick a connection, take an id, store the sender, send, await, retry up to three times | HTTP tasks call it and may drop its future at any await; connections |
| connection, `src/handler/connection.rs` | `closed`, `corr_id`, send channel, socket | write loop, read loop, keepalive task | calls (channel, table), the server |
| table of waiting calls, `src/handler/demux.rs` | `HashMap<u32, (Sender, Instant)>` | `store`, `load_remove`, (`cleanup`) | calls store, the read loop removes |
| pool, `Handler` in `handler.rs` | slots under an RwLock, cursor under a Mutex | `next_connection`, `reconnect_closed` by two tasks, `maintain_connections` | calls read, the tasks write |
| process, `src/main.rs`, `lib.rs`, `bitmask.rs`, `server.rs` | token, codecs in an OnceCell, server handle | ask for the codecs with retries, store them, bind, serve, shut down | the pool, axum_server |
| incoming frames, `drain_frame_async` in `src/protocol/mod.rs` | the read buffer | collect a header, a payload, split them off | the read loop |
| commands, `src/processor/base.rs` and the encoders in `src/processor/*` | none | dispatch, validate, encode | HTTP in, `execute` |
| outgoing frames, `prepend_header`, `prepend_router_header`, `build_keepalive_frame` | none | lay out a frame | `execute`, the keepalive task |
| replies, `src/protocol/response.rs`, decoders in `src/processor/*` | none (two counters in `src/metrics.rs`) | check the status, count, ids, types, lengths; build the response | `execute`'s result in, HTTP out |
| conversions, `src/helper.rs` | none (reads the codecs) | dates, property ids, rate masks | decoders |

### What is hard here, and what must hold

*Calls and connections.*  A call is a future that passes six awaits, any of
which may be its last.  Its reply comes through a table shared with a read loop
that may end at any time, and its retry loop may send it again.  It must not
get the reply of another, must not be carried out twice, must not be reported
as refused when it was sent, and must end.  A connection has three tasks that
end separately; the others must learn of it.

*Pool.*  Two tasks replace connections while calls scan the slots a probe at a
time.  No open connection may be lost from the pool, a scan may fail only when
there is nothing to find, nobody may wait for ever for a lock, and a broken slot
must recover without sockets piling up.

*Process.*  Start-up waits for a backend that may not answer.  No request may
run before the codecs are there, pauses must stay bounded, and Ctrl+C must end the
process at any point, also while requests run that never end.

*Frames and replies.*  The stream is cut into reads of any size; the parser must
stay in step with it, hold nothing back, and lose no reply in front of the end.
A decoder must show the whole reply or none of it, and must not refuse one that
is well formed.

*Requests.*  Nineteen modules of commands are copies of one another, with names,
field ids, types and flags that differ; the backend must be handed what the
client asked for, a router must be able to read it, and from the response the
client must be able to tell whether the backend was handed it.  Each path of
failure answers and counts by itself.  Two conversions exist twice and must
agree; packed dates count years from a year that passes.

## 2. The modules

    Command   Encoding   Conversions   Reply
        \         \           /          /
         +---------- Gateway ----------+
                        | uses
                       Rpc  <--refines--  Connection  <--refines--  Handler

    FrameStream  <--refines--  Framing     (the stream of replies)
    Startup (the process)        RateFeatures (the masks of rates)

Gateway is what happens to a request; of the call to the backend it knows only
what Rpc promises, and the two refinements below Rpc show that the calls,
connections and pool of the code keep that promise.  Proofs are in
ConnectionProofs, ConnectionRpcProofs, ConnectionLimitsProofs, HandlerProofs,
GatewayProofs, GatewayDataProofs, StartupProofs and FramingProofs.  Ordering has
what Command and Reply put in order.

`MC*` modules hold what TLC needs beside constants: symmetry sets, bounds used as
constraints, and the sizes of an instance.  Definitions marked *Variant* are what a bug could
make of the definition that follows them; no specification uses them, they serve
to see that each property can fail.

**Rpc** is what a caller of `execute` may rely on, with no connection in sight:
a call is handed over at most once; an answered one was handed over and gets its
own answer; a refused one was not handed over and never will be; an abandoned
one may still be carried out.

**Connection** has every `Connection` object as an element of `Conn` (a new
object for each reconnect, as in the code) and every call as an element of
`Req`.  `pc` is the place of a call in `execute`, one value for each await, and
one action for each stretch between two awaits: `Pick`/`NoConnection`,
`LateClosed`/`TakeId`, `Store`, `Send`, `RecvReply`/`RecvError`, `Wake`, and
`Cancel` at every await.  The tasks of a connection are `WriteFrame`/
`WriteFail`, `Dispatch`/`RejectFrame`/`ReadEof`, `KeepaliveTick`/
`KeepaliveSend`.  A oneshot channel has no variable: its sender is the entry of
the table, its value is `got`.  The server and the network are external:
`Faults` says whether they close connections, answer twice, answer keepalives
or send what cannot be read.  Replies may arrive in any order.  `written` is a
history of the frames of a call that reached a socket.

**Handler** extends it with slots, cursor, both locks and the tasks that renew
connections.  `next_connection` is `LockCursor`, `LockSlots`, then one `ProbeHit`
or `ProbeMiss` per slot, and `ScanFails`; a renewal is `LockForRenewal`,
`Inspect` and `DialSucceeds`/`DialFails` per slot, and `EndRenewal`.  The locks
follow from where everyone is.  Every step is one of Connection or leaves
its state alone, which is property `Spec` of its run: what holds of
Connection, where `next_connection` may return any open connection, holds
of the pool.

**Startup** is the process: `main` is where `async_main` is, `attempt` and
`backoff` are the variables of `get_codecs_with_retry`, `cell` is the OnceCell,
`token` the cancellation token, `request` what axum does with requests.

**Framing** is `drain_frame_async` on a stream of frames with payloads of any
length: `read` and `split` delimit the buffer, `ServerSend` delivers bytes in
pieces, `ServerEnd` closes the stream at any byte.  A frame is good, has a wrong
magic byte, or a payload that ends before its field count.  No bytes, only
lengths.

**FrameStream** is what the read loop may rely on when it asks for a frame, with no
length and no buffer: frames come in order, each once, and none before it is
whole; a good one is never rejected; and the end is reported only when
all that arrived was handed over.  Connection's read loop takes it at that.
Framing implements it with `arrived` as the frames whose last byte was sent.

**Reply** follows one reply through a decoder, field by field.  Ten decoders
cover the nineteen commands.  The server chooses each field (its id, type and
data) when the decoder comes to it, and where the data ends.  A text is the
number of the text that the conversions of `helper.rs` make of it.  `code` is
the HTTP status.  Ids and counts are modulo `Wrap`, 2^16 in the code, and a reply
may have more fields than that: nothing in the code bounds them.

**Command** has no state.  The modules of the commands all walk their fields in
the same way, so each is a table (`SetProp`, `SearchAvail`, ...): the name of a
field, the test of its value, and whether the command is refused without it.
`Process` is the dispatch of `base.rs`, `Accepts` the validation, `Payload` the
encoding: the fields whose tests pass, under the id of their place in the table,
with the type and the length of their data.  A JSON value is its kind and a number.

**Ordering** sorts: the fields of a payload by their ids, the dates of a reply
by time.  It does so by counting, since recursion cannot be reasoned about.

**Encoding** has the three frames that rzgate writes, with the lengths they
declare, and the reader of a router frame, which is another program:
`Understood` says that by those lengths it finds what was put in.

**Conversions** has the functions of `helper.rs` that turn replies into what a
client reads: packed dates, and property ids in both implementations.

**RateFeatures** has the other two, which turn a mask into the names of rate
features: each is a loop with its own way to the next bit (`1 << i` of an index,
and a bit that is shifted as the features are walked), and a round of either is an
action.  A `u32` is the set of its bits that are one.  As a state machine the loops
have invariants, so that what they compute can be proved for lists of every
length.  MCGateway composes them with Gateway: the loops run once the reply that
brings the names of the features has been shown.

**Gateway** follows one request through these.  `Refuse` is the answer of the
validation, `Dispatch` frames the payload and enters the call; `Deliver`,
`Answered`, `CallRefused` and `ClientGone` are the steps of Rpc with what the
gateway does at them; `ShowError`, `Begin`, `ReadOn`, `EndOfData` and
`EndOfFields` are those of Reply, with the counters of `metrics.rs` (`counted`).
`NewYear` moves the clock between the packing of a date at the backend and its
writing.  `Documented` is the table of README.md's request bodies, by the names that
it has there, which `FiltersKept`, `RequestKept` and `GoodTaken` compare with what
is encoded and refused.  `FiltersKept` is what README.md says of the fields, and fails;
`RequestKept` leaves out the one name on which the two differ (`Agreed`), and says
more of the others: also the type and the length that each is sent with (`Form`).

## 3. The runs

| Run | Module, cfg | Shows |
|---|---|---|
| `conn_lossy` | MCConnection, ConnLossy | `ReplyMatches`, `SenderKept`, `ResolvesOrConnectionDies`, `KeepaliveEnds` with lost connections and repeated replies |
| `conn_two` | MCConnection, ConnTwo | `AtMostOnce`, `RefusedUnsent`, `OnlyPeerCloses`, `ImplementsRpc` over two connections that may be lost |
| `conn_wrap` | MCConnection, ConnWrap | `TypeOK`, `CopiesBounded` when ids wrap and entries are overwritten |
| `conn_hang` | MCConnection, ConnHang | **violated**: `EveryCallResolves` when the peer may go away |
| `pool_scan` | MCHandler, PoolScan | `PoolTyped`, `OpenInPool`, `Spec`: two slots, two calls, both renewing tasks |
| `pool_live` | MCHandler, PoolLive | `PickEnds`, `SlotsRecover`: two calls and both tasks over one slot |
| `pool_leak` | MCHandler, PoolLeak | **violated**: `SocketsSettle` |
| `startup` | Startup, Startup | `TypeOK`, `CodecsBeforeRequests`, `PausesBounded`, `ShutdownEnds`, `StartupDecides` with the numbers of the code |
| `frames` | MCFraming, Frames | `TypeOK`, `InStep`, `NothingLeftBehind`, `ImplementsStream`, `FramesGetThrough` |
| `request` | MCGateway, Request | `TypeOK`, `ShownIsWhole`, `ListsWhatIsNamed`, `WellFormedIsTaken` of the decoder; `RequestKept`, `GoodTaken`, `RouterUnderstands` of what is sent; `AnswerTellsFate` of the response; `DatesShown`, `IdsKept` of the conversions; `FeaturesTyped`, `FeaturesAgree` of the two loops over a mask of rates |
| `search_type` | MCGateway, SearchType | **violated**: `FiltersKept` by the `type` of a SEARCHPROP |
| `answers_counted` | MCGateway, AnswersCounted | **violated**: `ErrorsCounted` by the 400 of a SEARCHPROP with one match |

`conn_lossy` and `conn_two` together say that without faults every call ends: a
call that does not waits on a connection that is closed, and only its peer closes
one.

### Bounds, and why they are enough

* `Req` has two or three calls, `Conn` one or two connections: the interesting
  cases are a pair of calls that share a connection, and a call that goes from
  one connection to another.  The proofs have no such bound.
* `ChanCap = 1` makes the channel full as soon as one frame waits; the code has
  at least 2048, which only makes that rarer.
* `IdSpace = 4` with `MayWrap = FALSE` stops a connection before its ids wrap
  (2^32 in the code: a call would have to wait while four thousand million others
  pass); `ConnWrap` has two ids and lets them wrap.  Its constraint `Busy` leaves
  cancellations, keepalives and closed connections to the other runs.
* The constraint `Scanning` of `PoolScan` follows a call until it holds its
  connection; what it does next is Connection's matter.
* The constraint `OneScan` of `PoolLive` also leaves a call after its first scan, found or
  not.  The steps cut off are under no fairness in `PoolSpec`, so the behaviours
  that are left are complete ones, in which those steps do not happen.
* A connect fails once `Conn` is used up, so `SlotsRecover` is about the renewals
  up to there.
* `Startup` runs with the sixty attempts and five seconds of the code.
* `Frames`: three frames of 12, 13 and 9 bytes, read in pieces of every size.  An
  empty payload can only be a bad frame.
* Replies of up to eight fields with ids modulo 6: counts up to five, the largest that a
  decoder treats apart; the largest count wraps the id that is due next, and
  replies of six, seven and eight fields come round to the counts 0, 1 and 2.  The two
  runs that are violated need one field, and commands in the form of README.md.
* `Requests` has every command with each of its fields omitted and each other one
  given any of the `Values` (the bounds of the tests and their neighbours, every
  wrong kind, empty texts and arrays), so pairs of fields vary together; the
  fields are tested one by one in the code.  Segments have 0, 5, 255 and 256
  bytes.  `Word = 1000` stands for the 2^32 of a `u32`: it has to be above the 255 of
  the bytes, and one value exceeds it.  `Byte` is the 256 of the code.
* `ShortTexts` has ids of printable ASCII of every length up to fifteen, one of them
  with a character that looks like the version of a UUID where the marker goes, and
  `RawIds` ids that are cut short, too long, with a zero at every place and with
  seventh bytes of several versions.
* `Features` has every mask of six bits (`WordBits`, 32 in the code) of which four are
  looked at (`MaskBits`, 24 in the code), so some bits stand for no feature; five lists
  of features are empty, shorter than those, as long and longer, and two of
  them have a name twice.
* `PackYear = 2023` and two New Years take the dates over leap years and common
  ones, one of them seven years ahead, where the three bits of the year wrap.

### Fairness, and why the code justifies it

Tokio polls every task that is ready, so each task has weak fairness; senders on
a full channel, and those who wait for a lock, queue up first come first served,
so `Send`, `KeepaliveSend` and the locks have strong fairness.  The server is
assumed to answer what it received (`ServerReply`) unless its connection is lost;
no fairness makes a client call or hang up, or a peer fail.  In Startup timers
fire and code that waits for nothing runs; the backend need not answer, except
in `StartupDecides`, which assumes that it does.  In Framing the read loop runs
and the server need not send.  Gateway states safety only: that a call ends is
Connection's matter.

## 4. What the code does otherwise than it says

* `EveryCallResolves` (`conn_hang`): README.md documents `--timeout-sec` as the
  request timeout, but nothing reads `timeout_sec`, nothing calls
  `DemuxMap::cleanup`, and the read loop ends without draining its table.  A call
  that has stored its sender on a connection that is then lost waits for ever.
  `ResolvesOrConnectionDies` is what holds instead: such a connection is marked
  closed, and later calls avoid it.
* `SocketsSettle` (`pool_leak`): the write task owns a sender of its own channel.
  When the read loop ends and the pool replaces the connection, the write task
  stays parked with its half of the socket, and the gauge
  `backend_connections_current` is not decremented.
* `FiltersKept` (`search_type`): SEARCHPROP reads `property_type` where README.md:179
  documents `type`, so that the documented filter is ignored and the search finds
  too much.  In SEARCHAVAIL the name is `type` in both.
* `ErrorsCounted` (`answers_counted`): a SEARCHPROP with one match, which README.md:173 has
  as a list, is taken for an error and answered with 400, the match as the message,
  and this error is not in `api_client_errors_total`, which README.md:476 says counts all
  4xx and 5xx.  The property is about the 4xx, so that its trace shows the lone match.

Also met, without a run of their own:

* The 500 of `INVALID_RESPONSE_FORMAT` (`protocol/mod.rs:271`) is not in
  `api_client_errors_total` either.  README.md:475 has the bytes of all responses in
  `api_bytes_sent_total`: those of `error_response`, of `invalid_response` and of the
  lone match are not, nor are the lists of SEARCHPROP, SEARCHAVAIL and PROPROOMLIST, or
  an empty list of segments.
* Decoders that scan compare the count in the end, in 16 bits ("Must have consumed all
  fields", `get_segments.rs:133`).  A reply of 65536 + k fields passes for one of k, and all
  its fields are shown; a debug build panics at the increment.  `ShownIsWhole` has the
  equality modulo `Wrap`, which is what holds.
* Calls that cannot reach the backend are answered with 400 by `error_response`,
  where README.md:146 has 5xx for the server's failures (`ExecuteFails` in Reply).
  Refusals and many errors of the backend share that status; the message tells them
  apart, and `AnswerTellsFate` is about what the message tells.
* A write whose reply cannot be decoded is answered with 500
  `INVALID_RESPONSE_FORMAT` although the backend carried it out; `AnswerTellsFate`
  says what a client may conclude from each response.
* The `date` of SEARCHAVAIL is optional in the code.
* An optional field that cannot be used is dropped without an error, and
  `final_price` is cut to 32 bits (`StandsFor`).  A segment of 256 bytes or more
  makes a router frame that a router cannot read (`RouterUnderstands`).
* Around New Year a packed date moves by a year, and a 29th of February may
  become one that cannot be written, at the cost of the whole reply (`DatesShown`).
* Both converters of property ids hand out the bytes of a short id as they are
  (`IdsKept`), and no response escapes them: SEARCHAVAIL pushes them into its JSON with the
  comment "safe: property IDs are printable ASCII" (`src/helper.rs:184`).  So are a quote
  and a backslash, which SETPROP accepts and with which the answer is no JSON.  SEARCHPROP
  and GETPROPROOMDAY only repair what is no UTF-8.
* The retry after a failed oneshot cannot happen while ids do not wrap
  (`SenderKept`), so the verdict `Timeout` and `backend_timeouts_total` are
  unreachable in practice.
* README.md:48 gives 30 seconds for `--keep-alive-sec` where `config.rs` has 15;
  the keepalive is a router frame also in standalone mode.

## 5. What is proved

All proofs are for every value of the constants under the named assumptions of
the modules (`IdSpace >= 2`, a channel capacity of at least one, and the like).

**ConnectionProofs.**  `TypeCorrect`: `Spec => []TypeOK`.  `RepliesMatch` and
`SendersKept`: `[]ReplyMatches` and `[]SenderKept` under `~MayWrap`.  The
invariants are not inductive; `IInv` adds that an entry of a table and a call
that holds an id were issued it (`EntriesIssued`, ids below `corr`), that two
calls on one connection hold different ids (`IdsApart`) and that an id about to be
stored has no entry (`IdsFresh`), that every frame carries the id of its call
wherever it travels (`FramesLabelled`), and that a listening call has its entry or
its reply (`EntriesKept`).  Unique ids are what makes matching by id sound, which
is why `~MayWrap` is needed.

**ConnectionRpcProofs.**  `CallsAtMostOnce`, `RefusedNeverSent` and
`ConnectionImplementsRpc` (`Spec => Abstract!Spec`), under `~MayWrap`.  `SInv` adds
where a call is before it sends (`UnsentAbsent`), that its frame is in one channel
once and then on no socket (`QueuedUnwritten`, `QueuedOnce`), and that what the
server holds was written (`TravelledWritten`).  As `SenderKept` keeps the retry
after a send from happening, a call passes `Send` once.

**ConnectionLimitsProofs.**  `OnlyPeersClose`: `[]OnlyPeerCloses` under
`~MayWrap`.  An unknown id ends the read loop, so the proof has to show that the
table still has the entry of every reply that arrives, whatever was cancelled:
`HInv` adds to `SInv` that a call travels on a connection once, unanswered or
answered (`TravelsOnce`), that the entry of a call stays while its frame or reply
is under way (`EntriesWait`), and that what is closed was closed by its peer.

`CopiesStayBounded`: `[]CopiesBounded`, with no assumption on ids: when they wrap,
senders are overwritten and calls sent again, and `written` may exceed one.  A copy in a channel carries the number of its
attempt; `KInv` says that no two are of the same attempt (`TriesApart`), that all are
of attempts made (`TriesPast`), and that the copies written and the copies that
wait together are no more than the sends (`CopiesCounted`).

**HandlerProofs.**  `PoolTypeCorrect`, `OpenStaysInPool`,
`HandlerImplementsConnection` and, from it, `HandlerImplementsRpc`, for pools of
any size.  `PoolInv` says that one call scans and one task writes at a time
(`ScansAlone`, `WritesAlone`), that a slot still needs its connection when the
connect that was awaited succeeds (`DialsForSlot`), and that the slots a scan has
passed hold nothing open (`PassedUnusable`, by the distance `Ahead` of a slot
from the cursor): the cursor is shared, so this rests on the Mutex being held for
the whole scan.

**GatewayProofs.**  `WholeRepliesShown`, `WellFormedTaken`, `ResponsesTellFate`,
`RouterFramesUnderstood`, `NamesAreListed`, for any set of requests, replies of any
length and any even width of the ids, longer replies than ids count included.  The
invariant is in four parts: what was
read is in sequence and a decoder that counts has not read too much
(`ReadingInv`), the phase of the call determines what the backend was handed and
how far the response is (`CallInv`), a frame is that of its request (`FrameInv`),
and what is listed is what the fields read so far name (`ListInv`): the k-th entry is the data of the
field at `PlaceOf(k)`, and of dates each is listed as often as it was read.
`ListsWhatIsNamed` alone is not inductive, as it says nothing before the response
is shown.  `CountedAll` is the arithmetic of the comparison in 16 bits: it
succeeds exactly if the fields read are as many as the header counts modulo `Wrap`.
That sorting loses nothing is `SequencesAscend`: counting the places up
to a place is a bijection (`PlacesCounted`), so no recursion has to be unfolded.

**GatewayDataProofs.**  `RequestsKept`, `GoodRequestsTaken`, `DatesAreShown`,
`IdsAreKept` and `GatewayTyped`, and `LoopsTyped` and `RateFeaturesAgree` of
RateFeatures.  The first five assume of the constants only what the
outside guarantees: that a body holds values of JSON (`RequestsAssumption`), that
the dates of a reply are dates within the eight years that a backend can pack
(`DatesAssumption`), and that short ids are printable ASCII (`IdsAssumption`).  For the requests, each command's table is shown to be what
README.md documents, but for `type` (`Documents`, eighteen commands in eleven lemmas), each test to suit what
README.md says of its field (`Suits`), and a test that suits to take what is usable
and to be encoded as what it stands for (`SuitedTests`); the fields of a payload
ascend because `InOrder` does.  `RefusedInv` says that a request that failed without
a call has a fault, `DatesInv` that there is a date only while a reply to
SEARCHAVAIL is decoded and that what was written is the date moved by some of the
New Years so far; `Unpacked` is the arithmetic of the three, four and five bits.
For the ids, `ZerosEnd` says what is read up to the first zero, and the rest
follows the bytes of an id to their places.  `LoopsInv` says of each list of names that
it is of the marked features among those walked so far, and of the shifted bit that
it is `1 << walked`; `MarkedNext` and `NothingMarked` are one round of that, and rest on
`GreatestIsLast`: an element above all others goes to the end of the sorted places.
The word has to be as wide as the mask (`BitsAssumption`), or bits get lost.

**StartupProofs.**  `StartupTyped`, `CodecsFirst`, `PausesStayBounded`.

**FramingProofs.**  `FramingTyped`, `StaysInStep`, `EofLosesNothing` and
`FramingImplementsStream` (`Spec => Stream!Spec`): for any number of frames of any
size, cut into reads of any size.  The refinement rests on those
invariants: the buffer begins where the frame that is due begins (`InStep`), so what is
taken off it has arrived and is due, and at the end nothing whole is left in it;
frames follow one another in the stream, so they arrive in order.

*Only model-checked*: liveness under fairness (`EveryCallResolves`,
`ResolvesOrConnectionDies`, `KeepaliveEnds`, `PickEnds`, `SlotsRecover`,
`SocketsSettle`, `ShutdownEnds`, `StartupDecides`, `FramesGetThrough`), which is
beyond TLAPS.  Every other property of the runs that pass is a theorem.

## 6. What is not modelled

* The text of requests and responses, logging, the counters of commands and
  of bytes received; routes and CORS; DNS (a failed lookup is a failed connect).
* `Connection::close`, `DemuxMap::cleanup` and `u16_to_date`, which nobody calls.
* `config.rs` and `error.rs`, which have no behaviour: the flags are constants of
  the modules, and the mode is a variable of Gateway.
* Writers and readers of the backend other than the frames themselves: the
  server is what rzgate may assume of it.
* Clients of rzgate: the tests, the benchmark, the example.

## 7. What could follow

1. `DemuxMap::cleanup` as a variant of Connection, should it come to be called:
   what a timeout changes in `EveryCallResolves`, `AtMostOnce` and `OnlyPeerCloses`
   (a late reply has no entry then, and ends the read loop).
2. FrameStream composed with Connection: a bad frame in the stream as the cause of
   `RejectFrame`, and the length of a batch of frames between two reads.
3. Liveness of a call that goes through the pool, once calls have a deadline.
