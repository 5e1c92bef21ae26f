# A TLA+ verification of the websocket client library

The library (`src/src/`) is a WebSocket client for macOS: a lock-free byte
ring, a kqueue event loop, a frame parser, a TLS layer and the WebSocket object
that ties them together. This directory models its control flow in TLA+ and
model-checks small instances with TLC. With TLAPS it proves, for every size and
bound, the safety of the ring, the socket table, the receive and the send path,
the ownership of descriptors, the heartbeat, the metrics and the functions
without state.

## The system and its parts

| Part | State it keeps | Operations | Modules | Status |
|---|---|---|---|---|
| Byte ring (`ringbuffer.c/.h`) | `buf`, `read_ptr`, `write_ptr`, `size` | write, read, batch_write, batch_read, writeable, readable, reset, cleanup, init | `RingIndex`, `SpscRing`, abstract `ByteStream`, `SpscRingProofs` | modelled |
| Socket table (`io_kqueue.c`) | `sockets[]`, `socket_count`, kqueue registrations | io_init, io_add_socket, io_remove_socket, io_poll, io_read, io_write, io_cleanup | `IoKqueue`, `OpeningProofs`; `Receiver` (io_read), `Sender` (io_write) | partly: no scheduling class, no write events |
| Frame codec (`parser_neon.c`, header building in `websocket.c`) | none | neon_parse_ws_frame, frame headers | `FrameCodec`, `Parsers`, `ParsersProofs` | modelled |
| Receive path (`websocket.c`, `ssl.c`) | receive ring, TLS buffer, state, locals of process_frames | websocket_process, process_frames, ssl_read | `Receiver`, abstract `MessageChannel`, `ReceiverProofs` | modelled, plain and TLS |
| Send path (`websocket.c`, `ssl.c`) | transmit ring, kernel buffer | handshake request, websocket_send, websocket_send_pong, heartbeat ping, ssl_write | `Sender`, `SenderProofs` | modelled, plain and TLS |
| Opening handshake (`websocket.c`) | state, receive ring | parse_handshake_response, CONNECTING branch | `Handshake`, `OpeningProofs` | partly: the text of the request is left out |
| Connection life cycle (`websocket.c`, `ssl.c`) | state, `fd`, `ssl_ctx->fd`, `io_ctx->kq` | create, connect (again and again), close, destroy, every end of a connection | `Connection`, `ConnectionProofs` | modelled |
| Heartbeat (`websocket.c`) | last ping, last pong, configuration | check_heartbeat, set_heartbeat_config | `Heartbeat`, `HeartbeatProofs` | modelled |
| TLS layer (`ssl.c`) | library context, copy of `fd` | ssl_connect, ssl_read, ssl_write, ssl_cleanup | in `Receiver`, `Sender`, `Connection`, `Timestamps` | partly: the libraries are external |
| Metrics and health (`websocket.c`) | counters, latency window, last reports | get_metrics, reset_metrics, get_health, both callbacks | `Metrics`, `Percentiles`, `MetricsProofs`; `Parsers`, `ParsersProofs` (percentiles) | modelled |
| JSON extraction (`parser_neon.c`) | none | vector and scalar version | `JsonFields`, `Parsers`, `ParsersProofs` | partly: one field at a time |
| URL (`websocket.c`) | none | parse_url | `Url`, `Parsers`, `ParsersProofs` | partly: without the key |
| Timestamps (`io_kqueue.c`, `ssl.c`, `websocket.c`) | last packet's stamp | conversion, fallback, latency | `Timestamps`, `Parsers`, `ParsersProofs` | modelled |
| Reconnection, logging, getters, `os_macos.h`, example | | | | not modelled, see the end |

How they interact: `websocket_process` polls the socket table, reads the socket
into the receive ring (`io_read` or `ssl_read`), parses the handshake response
or the frames in place, answers pings through the transmit ring, drains what
the TLS layer still holds, and ends with health, metrics and heartbeat.
`websocket_send` and the heartbeat write the transmit ring and flush it at once.
One thread drives a WebSocket; the ring itself promises to work between two
threads, and `tests/test_threading.c` uses it so.

What is hard here, and where the model looks: interleavings of the two ring
threads; stale copies of the other thread's pointer; the wrap of the ring under
code that reads linearly; TCP and TLS cutting frames, headers and the handshake
response anywhere; bytes the TLS layer holds and poll does not see; partial
writes; end-of-file overtaking data; descriptor numbers reused by the kernel;
one-shot registrations and slots that move; a pong racing a timeout; health
computed from figures that somebody else refreshes. `PROJECT.json` lists each
hazard at its line.

## The modules

**`RingIndex`** has the index arithmetic: `Space`, `Readable`, `Advance`,
`Slot` (where byte i of a possibly wrapping copy goes), `InlineSpace`. Operators
described as *Variant* in any module are plausible mistakes, not part of the
specification; they document what the properties are able to detect.

**`SpscRing`** splits every operation into the load of the other side's pointer
(`ringbuffer_write`, `ringbuffer_read`, ...), one step per byte of memcpy
(`CopyIn`, `CopyOut`) and the pointer store (`WritePublish`, `ReadPublish`).
`prod` and `cons` hold the local variables. The pointers are accessed with
acquire loads and release stores and have a single writer each, so interleaving
these steps is enough. A byte is named by its position in the stream. `told`
records what the queries answered. Reset, cleanup and init are the owner's and
run while no operation is in progress; init also on a ring in use, as a second
`websocket_connect` does it. **`ByteStream`** is the abstract bounded
stream that `SpscRing` implements.

**`Receiver`** has the socket, the TLS layer (`opened`: bytes it has taken from
the socket; a record is kept back until its last byte is there), the ring filled
in place, and `websocket_process` with the event branch, the drain loop and the
loop of `process_frames`; `pf.phase` says which caller `process_frames` returns
to. The frames are constants, `Opcode` and the positions `FrameStart` in the
stream; the parser is used through what `FrameCodec` shows of it. A frame counts
as dispatched when `process_frames` has consumed it; a CONT frame is handed to
nobody, for the library puts no messages together. Of the TLS library the model
assumes that it hands over no byte together with `errSSLWouldBlock`, where
`ssl_read` does not look at the count (`ssl.c:479`). Where it would
read bytes that are no frame the model stops and `StaysInRing` fails. `Fitting`
says what the stream and the limits must be for the receive path to work; it is
an assumption of run `receive` (`MCReceiver`) and of the proofs, explained
there. **`MessageChannel`** is what the receive path promises: messages in order,
each once, none before it is there (`ImplementsChannel`), all of them while the
connection is up (`ChannelDelivers`). `Receiver` implements it with `in` the set
of the frames that have arrived whole (over TLS: in whole records).

**`Sender`** uses the transmit ring as the stream the proofs show it to be;
`wire` is what the kernel or the TLS library has taken. `ssl_write` passes the
ring as one stretch of memory; a byte it takes from behind the buffer is
`Stray`. With `errSSLWouldBlock` it returns 0 whatever the library has taken by
then (`ssl.c:564`): these bytes stay in the ring and are handed over again;
`repeats` counts such writes. **`Handshake`**
knows a response by where its parts end; the thresholds 12, 100, 200 and 4096
are constants. **`Heartbeat`** and **`Metrics`** have clocks that move only after
a call of `websocket_process`; a pong answers the oldest ping or comes unasked,
and `Metrics` counts only how long ago the last report and the last check were.
**`Connection`** has several objects and the kernel's table of descriptors,
which gives out the lowest free number; each step at which
`websocket_connect` can fail is an action. **`IoKqueue`** has the
table, the slot stored with each registration, and the events of a poll still to
be handled.

Functions without state are operators: **`FrameCodec`** (headers as the three
builders make them, parsed from any prefix), **`JsonFields`** (the search in
blocks and with strstr, strings with escapes, the cut to the caller's buffer),
**`Url`**, **`Percentiles`** and **`Timestamps`** (integer conversion between
ticks and nanoseconds). **`Parsers`** enumerates their inputs.
`MCReceiver`, `MCStraddle`, `MCHandshake` and `MCHeartbeat` hold the constants of
the runs.

## The runs

Passing:

| Run | Checks | Bounds |
|---|---|---|
| `ring` | types, no race on a byte, what waits is intact, promises of the queries, nothing after cleanup, refinement of `ByteStream`, every byte is delivered | 4-byte ring, 8 bytes, lengths to 4: filled, emptied and wrapped; 153,574 states |
| `parsers` | frames are reported when complete and unchanged; both JSON versions find the same, exact value; URLs split back into their parts; percentiles have their rank; the two forms of a timestamp agree | payloads around 125/126/127, 255/256, 65535/65536 and above 2^24 with all header cuts; JSON text of up to 6 tokens over blocks of 5; URL parts of up to 3 characters against buffers of 3 and 4; 5 samples; 24 ticks of 7/3 ns; 82,997 states |
| `receive` | types, stays in the ring, nothing lost, nothing whole left behind, refinement of `MessageChannel`, every message is delivered | plain and TLS; 8-byte ring, 7 frames that go around it more than twice, receives of up to 4 bytes, 2 parse attempts per call (1000 in the code), 3 TLS reads and 2 passes (so that each limit is met); 43,303 states |
| `send` | types, frames in call order, accepted frames whole, the next send flushes what a short write left | plain and TLS; 9-byte ring, 5-byte kernel buffer, 4 frames with payloads of 0 and 3 bytes, one TLS write that would block after taking bytes; 220,400 states (the four also hold with payloads of 0, 1 and 3 bytes and two such writes: 11,195,329 states) |
| `handshake` | opens only on acceptance, frames start behind the headers, every decision is taken | plain and TLS; 13 responses of up to 13 bytes, every cut except between the headers and the blank line; 728 states |
| `heartbeat` | types, alarms justified, no false alarm, silence detected | 10 ticks, intervals 3 to 5, timeouts 2 and 3, and the heartbeat disabled, answers and unsolicited pongs; 511,906 states |
| `life` | own descriptors, no stray close, on_error once, nothing left open, closed means closed | two plain objects or one with TLS, 6 descriptors, any number of connects; 437,867 states |
| `sockets` | types, registrations match slots, data is served | 3 slots, 4 sockets, 4 additions; 64,887 states |
| `metrics` | the window holds the latest samples, a lasting health is reported | window of 2, 3 counted events, a period of 2 ticks; 142,823 states |

The bounds are small because the code is uniform in them: a ring of 4 bytes has
every relative position of the pointers, two objects suffice for one to take
another's number, three slots for a removal that moves a socket that is neither
the first nor alone, four sockets for a table that is full, a window of two and
three samples for an overwrite, blocks of 5 for a 4-character name that starts
in one block and ends in the next. `CHECK_DEADLOCK FALSE` stands where the
modelled activity really ends (a function's value, a decided handshake, all
frames sent, no additions left).

Three runs find a violation of what a comment in the source says:

| Run | What happens |
|---|---|
| `receive_straddle` | a frame across the end of the ring is read linearly, beyond the buffer |
| `handshake_split` | a response cut between the headers and the blank line is accepted with nothing consumed, and its text is read as frames |
| `life_tls_destroy` | `websocket_close` leaves the number in the TLS context, and `websocket_destroy` closes whatever has it by then: another object's descriptor (in the shortest behaviour its kqueue) |

### Restrictions of the passing runs

Each restriction below marks a place where the code does not do what a reader
would expect. TLC shows it when the restriction is lifted as described.

| Restriction | Lifted by | Then |
|---|---|---|
| one receive is smaller than the ring | `MaxRecv = 8` in `Receiver.cfg`, without `FittingStream` of `MCReceiver` | `NothingLost`: the full ring looks empty (`ringbuffer.h:78`) |
| data before the FIN is not promised | invariant `ReportedBeforeEof` of `Receiver` | messages in front of the FIN are dropped (`websocket.c:977`) |
| failed sends promise nothing | invariant `WholeFrames` of `Sender` | a send that fails leaves part of a frame in the stream (`websocket.c:918`) |
| masking is not promised | invariant `ClientFramesMasked` of `Sender` | messages and pings leave unmasked (`websocket.c:900`, against the comment at 806) |
| `AcceptedIntact` lets a TLS write put strays in the place of bytes | invariant `StaysInRing` of `Sender` | `ssl_write` passes bytes from behind the buffer when the ring wraps (`ssl.c:556`) |
| each byte once, only while `repeats = 0` | drop the `repeats` alternatives of `InCallOrder` and `AcceptedIntact` | both fail: bytes taken by a TLS write that would block are handed over again (`ssl.c:564`) |
| a short write is not retried | `FairSpec` and property `Flushed` of `Sender` | the rest waits for the next send (`websocket.c:1097`) |
| the response starts with "HTTP" | `Responses <- Prefixed` | `FramesAfterHeaders`: bytes before it are not skipped (`websocket.c:434`) |
| refusals are long | `Responses <- Refused`, property `RefusalReported` | a short refusal is never reported (`websocket.c:1102`) |
| timeout < interval | `Configs <- LongTimeout` | `SilenceDetected`: each ping restarts the wait (`websocket.c:1574`) |
| connections the server ended are exempt | drop `peerEnded` from `NothingLeftOpen` | the socket stays open for good (`websocket.c:942`, `ssl.c:487`) |
| objects that connected again are exempt | drop `reused` from `NothingLeftOpen` | the kqueue of the earlier connection stays open (`websocket.c:701`) |
| a connection in use is not connected again | drop the state from `Connectable` | `OwnDescriptors`, `NothingLeftOpen` and `ClosedMeansClosed` fail: `websocket_connect` has no such test, and overwrites the descriptors (`websocket.c:701`) |
| a socket is added once | drop `~InTable(fd)` from `io_add_socket` | `TypeOK`, `RegisteredWithSlot` and `Served` fail: it gets two slots and one registration (`io_kqueue.c:66`) |
| `NoStrayClose` only without TLS | `NoStrayClose == ~stray` | a failed connect closes the socket twice (`websocket.c:787`) |
| indices held by owners are not promised | invariant `HeldIndexIsSlot` of `IoKqueue` | removing one socket changes another's index (`io_kqueue.c:134`) |
| at least two bytes of a frame | invariant `PartialIsNoError` of `FrameCodec` | one byte is an error, not "more data needed" (`parser_neon.c:7`), and is counted as one on every pass (`websocket.c:493`) |
| JSON text does not end with the field's name | drop the condition of `Agree` | only the scalar version finds it (`parser_neon.c:132`; text shorter than the name is outside the model, the bound is an unsigned subtraction) |
| health needs both callbacks | drop `on_metrics` from `HealthFollows`, `on_metrics = FALSE` | nothing refreshes what `on_health` is computed from (`websocket.c:1404`) |
| health is steady since the last reset | `Observe(FALSE)` in `websocket_reset_metrics` | after a reset the health is reported from empty metrics (`websocket.c:1404`) |
| only of a connected object | invariant `LossReported` of `Metrics` | the end of the connection is never reported as health (`websocket.c:1223`) |
| latencies are not promised | invariant `LatencyMeasured` of `Parsers` | the kernel's stamp is time of day, the other time since boot; with equal origins (`Offsets = {0}`) it holds (`websocket.c:531`) |

## Fairness

`SpscRing`: a read that has begun goes on (it never waits), and the consumer's
loop calls `ringbuffer_read` again and again (strong fairness, because its guard
comes and goes); the producer owes nothing. `Receiver`,
`Handshake` and `IoKqueue`: the application calls `websocket_process` from its
event loop, as the header asks; in `Handshake` also what the server sent
arrives. `Receiver` owes nothing for the network: `ChannelDelivers` promises only
messages that have come in. `Served` in `IoKqueue` further rests on the bound on
additions: if the application changes the table for ever, between all events,
an event may always name a slot that has just changed hands. The other runs
check safety only.

## What is proved

Nothing below depends on a bound of a run. TLC also finds each inductive
invariant to hold on the run's instance.

**`SpscRingProofs`**, for every `Size` > 0 (`SizeAssumption`,
`BoundAssumption`): `TypeCorrect`, `RaceFreedom`, `WaitingStaysIntact`,
`PromisesAreKept`, `CleanupIsFinal` (the five invariants of run `ring`), and
`Refinement`: `Spec => StreamSpec`, the ring implements `ByteStream`.
None of the invariants is inductive: they speak of the published pointers, and
the threads act on copies. `IInv` adds, for each thread, that its own copy is
its published pointer advanced by the bytes of the finished chunks, and that
what it has planned fits into the room (or the data) its stale copy of the other
pointer shows, which is never more than there is (`ProdInv`, `ConsInv`); that
what the consumer has copied out are the next bytes of the stream; and that a
cleaned-up ring has all pointers and their copies at zero and no chunk behind
them (`Dead`).
`Wrap` replaces the modulo by one subtraction so that the index lemmas are
linear arithmetic. One lemma per action shows that it preserves `IInv`; race
freedom follows because the producer's slot lies behind all that waits and the
consumer's within it; the refinement because a pointer store moves exactly the
bytes that `Push` and `Pop` move.

**`ConnectionProofs`**, for any number of objects and descriptors
(`ConnectionAssumption`): `PlainConnectionsOwn` (without TLS a connection in use
keeps its descriptors), `PlainClosesAreOwn`, `OneErrorPerConnection`,
`DestroyLeavesNothing`, `CloseCloses`. The properties relate an object to the
kernel's table in one direction each; `Inv` has both: every entry of the table
is known to the object that opened it (`Keeps`), and without TLS every number
an object holds is still its own entry (`Holds`). `OthersKeep` carries the
argument: a step that adds and takes only its own entries disturbs no other
object. That is what fails with TLS, where a copy of the number outlives the
close; there `Holds` is not claimed and only `Keeps` remains.

**`OpeningProofs`**, about what has to hold before a frame is read. It extends
two components that share no variable; `Handshake` names its specification
`HandshakeSpec` for that reason.

For any number of slots and descriptors (`IoAssumption`): `TableStaysSound` and
`RegistrationsFollow`. `Inv` states the registrations slot by slot, so that the
swap of `io_remove_socket` and the renewal after a poll become facts about one
index; a poll turns out to leave all registrations as they were. With
`WaitingInv` (only sockets of the table have data) follow `NoSocketUnseen`,
every socket that has data is registered, and the action property
`PollsReportWaiting`: a poll returns the slot of each such socket, each once,
and nothing else. The events of a poll may still be stale when they are handled,
after a removal in between; that no socket is lost by it is what
`NoSocketUnseen` adds.

For any set of responses and any thresholds (`HandshakeAssumption`):

- `OpensOnlyIfAccepted`: without further conditions;
- `FramesFollowHeaders`: from `Orderly`. Each condition is needed: a read that
  ends in the blank line is the finding of run `handshake_split`, with bytes
  before "HTTP" nothing is consumed (`websocket.c` skips them with a read into
  NULL), and of a header longer than 4096 bytes only that much is consumed;
- `TextIsTakenWhole`: what remains true wherever a read ends. The text of the
  response is consumed whole or not at all;
- `NoFalseRejection`: on_error is called once, and only if the server closed or
  the response gave a reason (`Faulty`). That uses the thresholds as they are
  in the code, 100 + 12 <= 200 (`Thresholds`): a response that is long enough to
  be an error is long enough to show its status;
- `NoResponseForgotten`: a response that is all there has been decided, if the
  server accepts and the headers are where they are looked for, or if it refuses
  at length.

`ConnectedOnlyIfAccepted` and `FramesAfterHeaders` say nothing while connecting;
`DecisionInv` adds that what the last read left in the ring was undecided. Where
`FramesFollowHeaders` ends `ReceiverProofs` begins: `Init` of `Receiver` has
`read_ptr` behind the response.

**`HeartbeatProofs`**, for every set of configurations (`HeartbeatAssumption`):
`TimesArePast`, `AlarmsAreJustified`, `NoAlarmIsFalse`, and, if every enabled
timeout is shorter than its interval (`ShorterTimeouts`),
`EverySilenceIsDetected`. `PingInv` adds that a ping still waited for is no
older than the last pong received, and that some ping at least as old is unanswered,
across the resets by alarms and new configurations. `SilenceInv` adds that the
first ping of a silence is the last one sent: the timeout comes before the next
ping.

**`MetricsProofs`**, for every capacity, period and threshold
(`MetricsAssumption`): `WindowStaysRecent` (`WindowInv` adds where the next
sample goes while the window fills) and `HealthIsReported` (`HealthInv` adds
what the metrics and the last check know once the health has been steady for as
long as their age). Nothing is used of the percentiles but that they are a
function of the window.

**`SenderProofs`**, for every ring, kernel buffer and set of payloads
(`SenderAssumption`), plain and TLS: `SenderTypes`, `SentInCallOrder`,
`AcceptedFramesIntact`, `SendFlushesBacklog`, the four properties of run `send`.
They speak of what has left or of a call that returned 0; the inductive `Inv`
speaks of the whole stream, the bytes taken by the kernel followed by those that
wait. A send appends to that stream and a write moves its boundary
(`MovingSound`), so both order and wholeness become facts about appending; the
bytes a failed call leaves at its end belong to the last frame begun, which is
never accepted. A TLS write that would block instead puts a copy of bytes that
wait in front of them (`RepeatingSound`). From then on frames are no longer in
one piece, and `Inv` keeps two facts: a byte out of its turn has come in its
turn before, and no byte of an accepted frame is missing while none was taken
from behind the buffer.

**`ReceiverProofs`** (`ReceiverAssumption`, `StreamAssumption`: frames of two
bytes or more, in any number). `ReceiverTypes` holds without further conditions.
`ParserStaysInRing`, `NoByteLost`, `RingDrained` and `ReceiverRefinesChannel`
(`Spec => ImplementsChannel`) are proved from `Fitting`, whose five conditions
are all needed; TLC shows what happens without each:

| Condition of `Fitting` | Without it | In the code |
|---|---|---|
| no frame lies across the end of the ring | `StaysInRing` fails (run `receive_straddle`) | a ring of 8 MiB goes around rarely, and is then read linearly |
| a frame and one receive fit into the ring | `NothingLost` fails: the full ring looks empty | `ssl_read` returns at most 64 KiB (`ssl.c:466`; OpenSSL a record), a plain `recvmsg` (`io_kqueue.c:184`) what the socket's buffer holds; frames must be shorter than the rest |
| nothing follows a CLOSE frame | `NothingLost` fails: it stays in the ring | RFC 6455, 5.5.1 |
| what came with the handshake needs no more than one pass | `Drained` fails | 1000 attempts, two bytes or more each |
| what one `ssl_read` and the handshake bring fits into the passes of a call | `StaysInRing` fails: what is left adds up | 51 passes of 1000 attempts: 102000 bytes of the smallest frames, against 64 KiB and what came with the handshake; a plain connection has no such limit, its loop goes on while frames are found |

`Inv` has four parts besides the types. `RingInv`: the unread bytes lie in the
ring in one piece, short of the whole ring. `PassInv`: a pass covers exactly
these bytes, and each attempt has consumed a frame while a whole one is left.
`BudgetInv`: by phase, how many bytes can still follow the next frame, which is
what bounds the passes a call needs. `EndInv`: what the state, the socket and the
TLS layer know of the end. The refinement follows: a dispatch is a delivery of
the next message, every other step leaves the channel alone or lets a message
arrive or the connection end. `NoFrameStranded` is the safety part of
`ChannelDelivers`: a frame that has come and is not dispatched when a call
returns lies where the next call reads on, although poll may not show it.

**`ParsersProofs`**, about the functions without state, for every input of the
shape `Parsers` enumerates and every size of buffer and block
(`OpcodeAssumption`, `LenAssumption`, `LenFits`: lengths below 2^63;
`JsonAssumption`, `UrlAssumption`, `TimebaseAssumption`, `OffsetAssumption`,
`PercentileAssumption`), the six properties of run `parsers`:

- `FramesRoundTrip`: the length bytes of a header are put together again as they
  were taken apart, one division by 256 at a time, for each of the three forms;
- `JsonVersionsAlike`: both versions find the same places, whatever the block
  size, because a pattern that starts in a block is compared beyond its end;
- `JsonValuesExact`: the loop over a string with escapes ends at the first quote
  behind an even number of backslashes, the loop over any other value at the
  first delimiter. What closes a string does not change when a character, or a
  backslash and what it protects, is taken from its front (`ClosesBehind`,
  `ClosesBehindEscape`), so the closed form satisfies the equation of the loop,
  and the equation has only one solution (`ScansAlike`);
- `UrlsSplitBack`: where the first `:`, `/` and `?` are in the text put together
  from its parts;
- `StampFormsAlike`: bounds of the two divisions that convert a stamp to ticks
  and back;
- `PercentilesAreRanked`: the bubble sort permutes (`Rearranged`) and sorts, by
  induction over the inner loop (`Bubbled`) and the outer one (`TailSorted`);
  the number of samples below the one at index k of the sorted ones is then
  counted with the permutation. The cap of the index of p99 at the last sample
  is never needed (`RankInside`).

The invariant these need is only that an input is what the step that chose it
made it. The recursive functions are reasoned about by induction stated for a
set of numbers (`NatInduct`, from the fact that a set of naturals has a least
member), and by showing that the equation which defines each has a solution.

Only model-checked: liveness (`Delivered` of the ring, `ChannelDelivers`,
`Served`, `Decided` of the handshake), out of the prover's reach as is ENABLED.
For each a theorem shows that no state is stuck: what waits is where the next
step looks for it (`WaitingStaysIntact`, `NoFrameStranded`, `NoSocketUnseen`,
`NoResponseForgotten`); that the step is then taken, and that finitely many are
enough, is what the runs check.

## Plan

`Handshake` and `Receiver` composed into one module: today they meet only where
`FramesAfterHeaders` promises what `Init` of `Receiver` takes for granted.

## Not modelled, and why

- Reconnection: `trigger_reconnect` is static and has no caller, and
  `calculate_backoff` is called only from it. No behaviour of the program
  reaches this code, so a model of it would say nothing about the program.
- The text of the request and the key: no state. The request is cut to its
  buffer (`websocket.c:319`), and whether the key survives the length test at
  `websocket.c:169` depends on what the encoder of OpenSSL counts.
- `neon_extract_json_fields` calls the modelled function once per field and
  hands out the address of a buffer local to its loop: what its caller reads is
  undefined. `scalar_parse_ws_frame` makes the same tests as the vector version.
- `ssl_init` and the TLS libraries: options of external code.
- Effects outside the program (CPU affinity, scheduling, sysctl, memory
  locking), log messages, functions that return one field, failing malloc, and
  null arguments, which make every operation return at once.
- The example program: a loop around `websocket_process` that prints messages.
