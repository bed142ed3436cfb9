# TINs in TLA+

TINs is a small sensor network. Clients send HTTP requests over TCP to a
*proxy*; the proxy cuts each request into fragments and sends them over UDP, in
a stop-and-wait protocol called AAA, to the *device* that the path names; the
device carries the request out (it keeps a directory of files) and sends its
response back the same way. This directory models the programs, the datagrams
and connections between them, the texts they write and read, and the parts of
the web library they come with; checks the models with TLC; and proves some of
what they promise with TLAPS.

`device.cpp:70` is `src/src/device/device.cpp`, line 70, and so on;
`utility.hpp` and `client_http.hpp` are those of `src/lib/simple-web-server`.

## The system

| Part | State | Operations | Talks to |
| --- | --- | --- | --- |
| Proxy (`proxy/proxy.cpp`) | last session id per device, current session, collected response, the timeout of its device socket | accept a client, take a request, open a session, send fragments and await ACKs (80 ms, limited retries), collect and acknowledge the response, answer 500, 502 or 503 | clients (TCP), all devices through **one** UDP socket |
| Device (`device/device.cpp`) | session id, expected count, request text so far, in `SendData` the response and its position | take or refuse a fragment, parse and handle a request, send the response fragment by fragment, give up | proxy (UDP), its files |
| Files and routes (`device.cpp:163-286`) | `device_files/<id>/` | list, read, create, delete, info | the device |
| Client connections (`proxy.cpp:55-136`) | the queue of the listening socket, one served connection | accept, serve until closed or silent for too long | clients |
| AAA header (`common/aaa.cpp`) | none | set and get type, count and session in two bytes | both programs, the mocks |
| UDP | datagrams in flight and in socket buffers | deliver, lose, repeat, reorder | both programs |
| HTTP messages (`common/http.cpp`, `utility.hpp:134-289`) | a stream while parsing | write, parse | both programs |
| Utilities (`common/utility.cpp`) | none | cut into chunks, split, validate names | both programs |
| Dissector (`wireshark/tin-aaa.lua`) | none | show a captured datagram | none |
| Mocks (`device-mock/`, `proxy-mock/`) | a script and a position | replay packets | one of the programs |
| `ScopeRunner` (`utility.hpp:303-350`) | one atomic count | enter and leave a scope, stop | handlers of the library |
| HTTP client (`client_http.hpp`) | a pool of connections, sessions, timers | request, connect, write, read, retry, stop, destroy | threads, timers, a server |

Proxy and device are single-threaded and block only in `accept` and `recv`.
What is hard there is what they may find when a `recv` returns: a datagram that
is late, repeated, overtaken or left from another request or another device;
none at all, with a timeout or, often, without one; a header in which a byte is
missing; a text in a buffer that nobody has cleared. In the HTTP client it is
the threads: handlers, timers, `stop` and the destructor interleave.
`PROJECT.json` lists these hazards line by line, each with the properties that
would notice it going wrong.

What makes each part correct:

* *proxy*: a fragment counts as acknowledged only if the device has it; a
  client gets fragments of the response to its own request only, and all of
  them; every request is answered unless its device stays silent; retries are
  limited; a client that asks and waits does not end the proxy;
* *device*: fragments are assembled in order; no error path leaves it half in a
  session; it carries out requests that were sent;
* *files*: a name is created once, its contents never change, success is never
  reported of what failed;
* *texts*: what one part writes another reads as it was meant;
* *HTTP client*: a connection serves one request at a time, a request gets its
  own response, once, and nothing runs after the destructor;
* *the whole*: on a reliable network, `Gateway`.

## Modules

| Module | Models |
| --- | --- |
| `AAA` | limits, and what the two ends see of a header: `WireCount`, `WireSession` are what the receiver reads of a (signed) char session |
| `Network` | the queues of datagrams and what may happen to them; external, taken from how the code uses its sockets |
| `Device` | `Device::Run`, `SendData`, `SendPacket`, `ParseRequest`: one action per way from one `recv` to the next |
| `Proxy` | `Proxy::Run`, `SetDeviceSocket`, `SendDataDevice`, `ReceiveDataDevice`, `SendPacket`, likewise |
| `TINs` | proxy, devices and network with their faults, and the properties of the whole |
| `Restarts` | `TINs` with a proxy process that may die and be started again |
| `Gateway` | abstract: what clients are promised; implemented by `TINs` |
| `Mocks` | either mock, playing any short script against the real other side |
| `Connections` | the proxy's TCP side, with what happens behind it in one step |
| `DeviceFiles`, `FileStore` | the routes over a directory, a file being on disk before its contents are; the abstract store they implement |
| `AAAHeader`, `Dissector` | the two header bytes and the datagram, setter by setter; what Wireshark shows of them |
| `HttpMessages`, `HttpParser` | `to_string` of requests and responses; `RequestMessage::parse`, `ResponseMessage::parse` and `HttpHeader::parse`, line by line |
| `FieldTexts` | percent encoding, query strings, attribute lists |
| `Strings`, `Routing` | `chunk_data`, `split_string`, `is_valid_filename`, `GetDeviceId`, the path in `HandleRequest`; the two readings of one request line |
| `ScopeRunner` | one action per atomic operation |
| `HttpClient` | the asynchronous client over its `ScopeRunner` |
| `MC...` | instances for TLC, with sets of inputs; `MCCodecs` puts the modules about texts side by side |
| `...Proofs` | theorems |

**Proxy and device.** `pstate` and `dstate` say in which `recv` a process
blocks. The other variables have the names of the members and locals they stand
for (`session_ids`, `current_session_id`, `retry_counter`, `raw_http_response`;
`session_id`, `packet_counter`, `raw_http_request`). `rcvtimeo` is whether
`SO_RCVTIMEO` is set on the proxy's device socket: an exception leaves it set
(`proxy.cpp:173`, `180`). `sending` holds the locals of the device's
`SendData`. `accepted`, `handled` and `answers` are history (`answers` also
numbers the requests and bounds them). A request is its number, its device,
the number of its fragments and whether it parses; a fragment is its request
and its number, which counts down to 1 as in the code; a response is the
request the device *parsed*, the request whose last fragment *triggered* it and
its number of fragments. What a device finds in a buffer that does not begin
with one whole request is a choice: the request whose first line is there,
something nobody sent (`Mixed`), or nothing (`Garbage`).

**Undefined behaviour.** `SendPacket(..., char error_code)` takes the address
of one char for a string (`device.cpp:133`, `proxy.cpp:226`), and the device's
`header + data` takes two chars for one (`device.cpp:142`). Both read on to the
next zero byte on the stack. With `StackJunk` the outcomes are: the payload is
sound, it is spoiled, or the datagram exceeds the limit and is not sent. A zero
second header byte is dropped, and the first byte of the payload takes its
place, with or without `StackJunk`.

**Faults.** `MaxFaults` faults of `FaultKinds`, which `faults` records: a datagram is lost, repeated or
overtaken; a device process is restarted (with an empty socket); `recv` of a
device in `SendData` fails (ICMP error). `SpuriousTimeouts` lets the 80 ms pass
while an answer is in flight. In `Restarts` the proxy may restart as well: its
ids begin at 0 again, and of the datagrams on their way to it those that
had reached its socket, a prefix of the queue, are gone.

**Files.** `fails` is what may go wrong on this device: opening, writing,
removing, listing, and a crash between the open and the write of a `PUT`. The
mapping to `FileStore` takes the file a `PUT` has opened for absent until its
contents are there (`Visible`); what failed is a failure, or an empty file, of
the abstract store too.

**Connections.** The kernel's part is external: a closed connection still takes
what it is sent (`"sent"`), after which the client's host resets it; a `send` to
a reset connection raises `SIGPIPE` and ends the proxy; `recv` returns any number
of whole segments, at most `MaxRead`. A client that resets its connection
without having closed it is not modelled, nor is one that does not read its
answers, so that `send` blocks, nor 4096 bytes without a zero, after which
`std::string(buff)` reads on (`proxy.cpp:79`). `NoResponse` is what `FallSilent` is in
`Gateway`, and a lost datagram besides: any request may be the one that the
proxy waits for in vain (`"stuck"`), so no property promises that it does not.

**HTTP client.** `session[r]` is what a `Session` object holds, `phase` its
operation in progress; `connection[c]` a `Connection` object, whose `responses`
are the requests the server has yet to answer on it; `handler[h]` the request
whose handler a thread runs. A handler is `TakeUp` (it cancels the timer and
reads the count of the lock), `Enter` or `TryAgain` or `Drop`, and then one step of
`read` and its like; the callback has two, one under `connections_mutex` and one
without. `stop` and the timers abort any subset of the operations under way: one
between two reads, or that resolves, is not aborted.

## Runs

| Run | Shows | Instance |
| --- | --- | --- |
| `reliable` | the system implements `Gateway` and answers everything, until a device falls silent; at most two datagrams wait anywhere; nothing is left over between requests | 3 devices, one absent, an unknown name, 3 requests of 1-3 fragments (3 is too many), some that do not parse, responses of 1-3 fragments, no faults |
| `faulty` | sessions and counts protect request and response from any one fault and from the over-reads | 1 device, 2 requests of 1 or 3 fragments, some that do not parse, responses of 1, 2 or 4 fragments (4 is too many), one fault of any kind |
| `late` | the same under timeouts that come too early, again and again, and a device that restarts; sending ends, whatever devices do | 1 device, 2 requests, queues of 3 |
| `unreliable` | a forwarded response answers its client's request, which was carried out; after a loss it is whole as well, each fragment once and in its place | 1 device, 5 requests that parse, responses of 1 or 3 fragments, one fault other than a restart, queues of 12, which never fill |
| `restarts` | restarts of device and proxy, and datagrams repeated or overtaken, leave a device's session, counter and buffer in agreement | 1 device, 3 requests, 2 faults |
| `mocks` | the proxy, and a device, keep to the protocol whatever the other side says | every script of up to 4 commands of either mock |
| `connections` | a client that asks in whole requests and waits for its answers gets exactly these, and cannot end the proxy; a silent client is left for the next | 3 clients: one polite, one that also splits its requests in two segments, one that does not wait; 2 requests each |
| `files` | the routes implement `FileStore`, in which success means created unless an open or a write failed | 2 names, 3 contents, one of them empty, all combinations of failures |
| `codecs` | headers, HTTP messages, queries, attributes, paths, chunks and names are read as they were written | all texts up to 4 or 5 over the characters the code looks for; boundary values of every header field at real widths |
| `http_client` | each connection serves one request at a time, each request gets its own response, once, with two attempts at most; nothing after stop | 2 requests, 3 connections, 1 handler thread, 2 troubles |
| `passive_waits` | violated: a lost datagram leaves proxy and device in `recv` for ever | 1 device, 1 request, 1 loss |
| `session_wrap` | violated: sessions wrap to negative numbers | 5 requests, 4 session ids |

*Properties.* `AckedMeansAccepted`: a fragment the proxy counts as acknowledged
is in the device's buffer history. `OwnResponse`: what the client gets was sent
by a device that had the last fragment of this request. `ForwardedIsExecuted`:
it answers this request, which the device carried out. `ForwardedWhole`: it is
one response, with every fragment once and in order, if nothing but one loss has
occurred. `SessionPairing`: a
device in `Run` has a session exactly when it expects a count. `BufferInOrder`:
the last fragment in the buffer is the one before the one expected.
`StopAndWait`, `NoResidue`: bounds on what is in flight. `KeepsPromise`: the
system implements `Gateway`, with `pending`, `executed`, `answers` and `silent` read off
`pstate`, `request`, `handled`, `answers` and the device's state.
`EveryRequestAnswered`, `SendDataEnds`, `ScriptEnds`, `EveryClientAccepted`,
`EveryRequestCalledBack`, `StopEnds`, `WholeParseEnds`: liveness.

*Bounds.* `SessionMod` is 4 (8 in `unreliable`, so that 5 requests do not wrap)
rather than 128, `MaxCount` 2 or 3 rather than 127,
`MaxRetransmissions` 1 rather than 12. All the code does with the first is to
increment, wrap and compare, with the others to compare: requests of 1, 2 and
3 fragments are one, the largest and too many (with 3, there is also one in the
middle, which an overtaken or repeated fragment can meet); one retry and two are
below and above the limit. `MaxRequests` is 2 to 5, because what one request can
leave behind meets the next; `session_wrap` has 5 as well, enough to wrap. `QueueCap` is
4 (3 in `late`, where early timeouts fill the queues and datagrams are dropped
for want of room); on the reliable network no queue holds more than 2. In
`unreliable` it is 12, and no queue gets that long: after one lost
ACK each request resends more than the one before it, so that with 4 the queue
overflows at the fifth request, which is a second loss and breaks
`ForwardedIsExecuted`. A socket buffer of the kernel has room for hundreds of
datagrams. `MaxAsked`
bounds the requests of a client, and with them how long a busy client keeps the
others waiting: a client that never stops asking is served for ever. Two
requests and two troubles (failed operations, timeouts, calls of `stop`) make a
connection fail, be retried and fail again, or come back into use with a
response outstanding; one handler thread interleaves with users, timers, `stop` and
the destructor. The run with two handler threads and one chunk less has 1.4
million states and holds as well; it takes too long to be kept. The theorems
about the client are for any number of threads.

*Fairness*: a process whose `recv` has a datagram takes it, and a timer that is
set goes off. Both are what the kernel does for a blocked process. Nothing is
assumed of clients or faults. `FairSpec` assumes it of all processes;
`ProxyFairSpec` of the proxy alone, so that devices may stop at any time. `late`
uses the second: a timer may go off at any time but also must, and
`SendDataEnds` rests on the limit of retries. It is `AckWrongCount` that makes
this more than counting: it sends again and counts nothing, but each of these
consumes an ACK, and a device that has yet to take the fragment may send more.
In `HttpClient` an operation ends some day (the peer answers, or the connection
breaks), a completed operation is taken up by some thread that runs the
`io_service`, and every thread gets to run; timers need not go off, nobody need
call `stop`. In `Connections` the proxy runs, the timeout of its `recv` included.

*Deadlock* is not checked: each system may come to rest (the last request is
answered, the script is over, the file system idle, a device silent).
`EveryRequestAnswered` and its like say where it may not.

Each recursive function and parser here (`HttpParser`, `FieldTexts`, `Strings`) was also
compared with the compiled C++ on some ten thousand short texts.

## Findings

| Run | What the source says | What it does |
| --- | --- | --- |
| `passive_waits` | `aaa.h:14`, a passive proxy times out after 2.5 s | no timeout in `ReceiveDataDevice` (`proxy.cpp:187`) |
| `passive_waits` | `aaa.h:15`; `device.cpp:315`, "Resending" | 0.8 s in an integer is no timeout (`device.cpp:331`) |
| `session_wrap` | `proxy.cpp:83`, `88` | after 127 sessions the next 128 are refused |

Other places where the source says one thing and the modelled code does
another, with the actions that do it:

* `aaa.h:16` allows 12 retransmissions, the proxy makes 13: `proxy.cpp:178` compares
  with `>` before it counts, `device.cpp:317` with `>=` (`RetriesExhausted`).
* `proxy.cpp:215` logs a full response; a repeated datagram is appended again, one
  that was skipped is missing, and a repeated ACK of count 1 ends the response
  before it has begun (`ResponseSoFar`, `ResponseLast`). `FaultKinds = {"duplicate"}`
  is enough; one lost datagram is not, says `ForwardedWhole`.
* `device.cpp:105`: the last fragment is not always that of one request;
  `raw_http_request` survives the error branches and text that does not parse, and the
  next request is appended to it (`ParseOutcomes`).
* `proxy.cpp:91`: the response may be that of another device with the same
  session id, since `recv` does not look at the sender (`Devices = {d0, d1}` and one
  `"duplicate"`).
* `proxy.cpp:172` logs that an unexpected packet is ignored; it ends the request
  with 500 (`SendDataWrongType`).
* `proxy.cpp:94`: after a restart the proxy takes what a device sent to the one
  before it for the answer to a new request, and reports success of a request
  the device never got (`RestartSpec`, one restart).
* `utility.hpp:150`: the loop of `HttpHeader::parse` does not look at the state of
  the stream and never ends on a text cut inside a field, as a TCP segment or
  the proxy's 4096 bytes may cut it (`ParseField` on a message that is `cut`).
* `device.cpp:245-251`: a file that cannot be opened or written is answered with
  200 and "Created file" (`CreateWrites`); `FileStore` and `OkMeansCreated` therefore except
  devices on which a write or an open may fail.
* `tin-aaa.lua:18`, `81`: the error code is taken from the type byte of the header
  instead of from the payload.
* `utility.hpp:182`: an attribute whose value is empty and not quoted takes the text of
  the next one for its value; `AttributesKept` is about lists without one.
* `chunk_data` does not end for a chunk size of 0, which `max_aaa_size = 2` would
  give; `ChunkSizes` are positive, as in every configuration of the repository.

What the properties do *not* say: with two faults, a restart, requests that do
not parse or responses that do not fit, `ForwardedIsExecuted` fails (a request
whose last ACK was lost is carried out and answered with 500; its text, or its
response, meets the next request). No property says that a request is carried
out once, or only for a client that is told so: one lost ACK breaks both (the
requests after it resend, and one of a single fragment runs twice), and so does
one repeated datagram. `ForwardedWhole` fails with two losses, with one datagram
repeated or overtaken, and with two devices. `BufferInOrder` looks at the
last fragment of a buffer, which may begin with another request's text.
`AckedMeansAccepted` and `OwnResponse` are
for one device and fewer requests than session ids.

## Proofs

All theorems are about the specifications TLC runs, for every value of the
constants that the named assumptions allow: any devices, absent or not, limits,
requests, response sizes, faults, spurious timeouts and over-reads; any
threads, connections, names and contents; any paths, file names, chunk sizes,
values of fields and headers. `CodecProofs` has the theorems about headers and texts.

| Theorem | Says | Rests on |
| --- | --- | --- |
| `HeaderRoundTrip` | what the getters read from the header the setters wrote: type and session always, the count unless a negative session spoils its low bit | arithmetic on two bytes, by the eight bits involved |
| `DatagramsReadAsModelled` | `HeaderSpec => []ReadAsModelled`: the receiver reads from every datagram what `AAA` says, so the protocol modules may take a packet for a record | the invariant `HeaderSoFar`, one conjunct per setter that has run |
| `DissectorShowsAsRead` | `HeaderSpec => []ShownAsRead`: Wireshark's masks show of every datagram what the getters read | `HeaderSoFar`, and that the masks are the getters (`MasksAreGetters`) |
| `Chunked`, `NamesStay` | `RoutingSpec => []ChunksAreWhole` and `RoutingSpec => []NameStaysInside`: nothing of a text is lost by cutting it, an accepted file name leads nowhere else | `ChunksOf`; what `split_string` does at its first delimiter |
| `RoutedIsParsed` | `RoutingSpec => []RoutedToItsDevice`: the two readings of one request agree on the device | `NameInText` and `PathInText`, what each reading makes of a text with this path |
| `QueryReturns` | `TextSpec => []QueryRoundTrip`: `parse` finds the fields that `create` wrote | `QueryKept`, which says so of any list of fields; `DecodeUndoesEncode` |
| `AttributesReturn` | `TextSpec => []AttributesKept`: every attribute is found with its value | `FieldKept`, for any text as the value; `DecodeUndoesEncode` |
| `MessageReturns`, `NothingIsInvented` | `ParserSpec => []MessageSurvives` and `ParserSpec => []NothingInvented`: a message is read back as it was written, and the beginning of a request that is accepted says nothing that was not sent | the invariant `ParsedSoFar` (`ParsedAsWritten`): the parser stands behind one of the message's lines, or the text has ended within one |
| `TypeCorrect` | `Spec => []TypeOK` | the invariant `TypeInv` |
| `SessionPairingHolds` | `Spec => []SessionPairing` | itself, given `TypeInv` |
| `BufferInOrderHolds` | `MaxRequests < SessionMod` implies `Spec => []BufferInOrder` | `OrderInv`, given `TypeInv` and `SessionInv` |
| `AckedMeansAcceptedHolds`, `OwnResponseHolds` | with one device as well, `Spec => []AckedMeansAccepted` and `Spec => []OwnResponse`, for any faults | `OwnInv`, given `TypeInv`, `SessionInv` and `OrderInv` |
| `StopAndWaitHolds`, `NoResidueHolds` | `Reliable` implies `Spec => []StopAndWait` and `Spec => []NoResidue` | `ReliableInv`, given `TypeInv` and `SessionInv` |
| `KeepsPromiseHolds` | `Reliable` implies `Spec => KeepsPromise`: every step of proxy, devices and network is a step of `Gateway` or a stutter | the same |
| `ForwardedIsExecutedIfReliable` | `Reliable` implies `Spec => []ForwardedIsExecuted` | `DeliveredInv`, which steps of `Gateway` keep |
| `AckedInOrderHolds` | the proxy against the device mock, with a script of any length | `ScriptInv`: which commands' packets have been counted and which wait to be read |
| `AckedInTurnHolds` | the device against the proxy mock, with a script of any length whose packets have the headers a proxy sends (`LikeAProxy`) | `TurnInv`: the device's session and count follow from the last exchange |
| `RestartKeepsPairing`, `RestartTypeCorrect` | the first two with a proxy that restarts | the same invariants, kept by `RestartProxy` |
| `FilesTypeCorrect`, `NeverOverwrittenHolds` | a file's contents change only by a `DELETE` of its name, whatever fails | that what is being created is on disk, empty |
| `OkMeansCreatedHolds` | where nothing fails, `FilesSpec => OkMeansCreated` | `OpenPut`: the file of an open `PUT` is there; of TLC's runs, `files` has it as part of `KeepsFiles` |
| `ImplementsFileStore` | `FilesSpec => KeepsFiles`: every step of the routes is a step of `FileStore` or a stutter | the two above |
| `ScopeTypeCorrect`, `StoppedMeansOutsideHolds` | no handler is in a scope once a stop has returned | `ScopeInv`: the count is the number of handlers inside, or -1 with nobody inside |
| `ClientStoppedMeansOutside` | the same of the client, which uses its lock as `ScopeRunner` allows (`ClientStepIsScopeStep`) | `ScopeInv` |
| `ClientTypeCorrect` | `ClientSpec => []ClientTypeOK` | one lemma per operation |
| `NothingAfterStopHolds` | `ClientSpec => NothingAfterStop` | `ScopeInv` and the types: without a handler inside no step adds a connection or calls back (`OutsideMeansQuiet`) |
| `OneRequestEachHolds`, `OwnAnswerHolds`, `SentTwiceAtMostHolds` | the three invariants of the client's pool under `ClientSpec` | `PoolInv`, given `ClientTypeOK` |
| `AnswersInTurnHolds`, `SurvivesOrderlyClientsHolds` | the two invariants of the proxy's connections under `ConnectionsSpec` | `ConnectionsInv`, one part for the client served, one for clients whose requests come whole, one for those that wait |

What the functions on texts return is proved by induction over the text. The
library states induction for a predicate, which the provers cannot instantiate;
`NatSetInduction` states it for a set of naturals, as a fact of first order,
and follows from the well-foundedness of `<`. The operators that loop over a
text are folds, defined in the community modules by a `CHOOSE` of a function;
`FoldExists` proves that there is one and `FoldSteps` that its value is what a
sequence of steps leads to. So a loop becomes a run with a state after each
character (`SplitRun`, `QueryRun`, `AttributesRun`), and what is proved of it
is what it has done when it comes to a certain character: the first slash, the
end of a field, the end of a value. A whole message is a concatenation, so no
loop is needed to write it: `Laid` says of a message that it is n lines, the
first one the request or status line, one for each field, and an empty one, and
where each ends in the text. `ParsedSoFar` is about the parser between two
`getline`s: after line k it has the parts of the first line and the fields of
the k - 2 lines before line k, and what is left is the text after line k. A
text that is cut ends within a line. If this is the first, `RequestLine`
accepts no beginning that stops short of the second space, and one that goes
further has the method, path and query complete (`PartlyRead`); if it is the
line of a field, either its colon is not there and the field is left out, or it
is and the parser reads the same line again without end.

Three assumptions on constants are used, which TLC evaluates as well:
`RoutingAssumption` (a device's name in the configuration is not empty and has
no space, question mark or newline, as `device0` and `device1` of
`config/global.json`; chunks are not empty), `BytesAssumption` (a character is a
byte) and `MessagesAssumption` (no part of a message has the character that
ends it, no query has a second question mark and no value of a field begins
with a space: of such messages `parse` returns something else).
`AttributesKept` leaves one form out: a value without quotes that is empty,
which the parser does not find.

`TypeOK` is not inductive. That a count stays natural needs to know that a
process in a send loop has a fragment left (`ForwardingInv`, `RespondingInv`),
and that `raw_http_request` holds fragments needs to know that no `DATA` packet
on its way to a device is empty or counts 0 (the queues hold `SoundPacket`s):
`TypeInv` is the conjunction. `TINsProofs` also has the lemmas on sequences: losing,
repeating and overtaking keep a queue in any set its packets are in.

`BufferInOrder` is about two programs. The device takes a fragment by its
count; that the fragment *is* the one of that count is a fact about the proxy
and everything in flight: `FaithfulPacket`s. The proxy sends such packets only
as long as its session id is positive: session 0 costs a byte of the header
and a negative one the low bit of the count. Hence `SessionInv`, which
bounds the session ids by the requests started, and the hypothesis on
`MaxRequests`. With a proxy that restarts, ids are reused and this argument does
not apply; `restarts` checks the property there.

`AckedMeansAccepted` and `OwnResponse` relate the proxy to what one device did
at some earlier time, so `OwnInv` is about everything that can still arrive.
Every packet on its way carries a session id the proxy has used, and what a
session id says is the same for all: an `ACK` of the current session counts only
fragments the device has accepted, a `DATA` packet of it holds a fragment of a
response that was begun with the last fragment of the current request
(`TriggeredBy`), and packets of earlier sessions are refused by their id. The
last point is why ids must not be used twice (`MaxRequests < SessionMod`). A session id
belongs to one device, and the proxy reads the packets of all devices from one
socket without a look at their address; hence `OneDevice`.

The refinement of `Gateway` is about a network that is `Reliable`: nothing is
lost, repeated, late or spoiled (`FaultKinds`, `SpuriousTimeouts`,
`StackJunk`), two datagrams fit into a queue, and no session id is used twice.
Each of these is needed: when the last ACK is lost a request is carried out and
answered with 500; with room for one datagram the first fragment of a response
is dropped behind the last ACK. `ReliableInv` says where a request can be: a
chunk is `InFlight` to its device, or `Acknowledged`, or the proxy is
`Collecting` the response, or the device is `Silent` because it cannot parse
the request or has a response of too many fragments, or the proxy is `Refusing`
a request of too many. In each the two ends agree: the proxy's `i`, the
device's `packet_counter` and buffer, what is on its way and what has been
received are all functions of one number. Every other device is `Idle`: outside
a session, or with one ACK to read that ends its last one. `ReliableProofs` has
one lemma for each operation of either end. `Gateway` executes a request once;
that a device has not executed it before it has the last chunk is
`NumberedInv`, by the order in which requests are numbered.

Of the mocks' runs TLC checks scripts of four commands; the theorems have no
bound. `AckedInOrder` speaks of positions in the script, so `ScriptInv` carries
them: one rising sequence of positions, of the commands whose packets the proxy
has counted and behind these of the packets in its queue. To read a packet and
count it leaves the sequence as it is; to read it and not count it takes one
position out. `AckedInTurn` is about the history of a mock that waits for each
answer; `TurnInv` says that at most one packet is on its way, and that the
device is in a session exactly when its last answer was an `ACK` of a count
above 1. It needs the hypothesis that data counts from 1: a `DATA` packet that
counts 0 would set `packet_counter` to -1, which the device takes for unset.

The pool's properties need to know who may use a connection. `PoolInv` says that a
request under way holds a connection marked `in_use`, on which the response to it and
nothing else is to come; that nothing is to come on an unused one; that a connection
no one holds is new; and that what was written for a request before this
attempt, once at most, is the reason why it will not be sent a third time
(`attempt_reconnect`). `ConnectionsInv` counts: what is under way from a client is
its last requests, whole and in order, the request in `buff` is the next to be
answered, and a client that waits has one of them open at most.

Only model-checked: `ForwardedIsExecuted` and `ForwardedWhole` with one fault, which
need an invariant that says for each fault what it can have changed (without faults the first
follows from `KeepsPromise`, as `ForwardedIsExecutedIfReliable` shows); all
liveness, `EveryRequestAnswered` included (fairness and `ENABLED` are out of
the prover's reach); and `BitsAgree`, which uses the bit operations of
`Bitwise`, defined by recursion.

## Not modelled

* *The HTTP server* of the web library (`server_http.hpp`), TLS, the examples and
  `crypto.hpp`: no program of the repository uses them. Of the client, which
  none uses either, the synchronous requests (`client_http.hpp:176-234`) and
  the user's own reads of the response stream are left out, and of a response
  only the shape that `read` tells apart is kept.
* *Unit tests*: read as a reference for codec and utilities.
* `HandleRequest` is one step in `Device`; `DeviceFiles` has its parts. A response's
  text appears there as status and body, in `Device` as a number of fragments.
* Configuration, logging, command lines, `Date` and the case-insensitive
  comparison: pure I/O or formatting.
* Errors of `socket`, `bind`, `accept` and `setsockopt`, after which the programs exit.
* A data race of the client that TLC cannot tell from an interleaving:
  `attempt_reconnect` is read outside `connections_mutex`; in the model, reading
  it and taking the mutex is one step.
