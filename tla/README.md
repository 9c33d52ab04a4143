# A TLA+ model of Dynamic TAPS

Dynamic TAPS is a C library that gives applications the Transport Services
API over protocol libraries loaded at run time. This directory holds TLA+
modules of its core (connections, messages, listeners, the TCP protocol library,
the preconnections that choose a protocol, the directory they choose from) and
of the echo application on top of it, TLC
runs that check them on small instances, and TLAPS proofs of the main safety
results for every value of the constants. Paths below are relative to the
repository root.

## The system

| Part | State | Operations | Module |
|---|---|---|---|
| Connection (`src/taps_connection.c`) | send and receive queues, `sendReady`, `receiveReady`, the fill of each buffer, the listener | `tapsConnectionSend`, `Receive`, `Free`; the send, receive and close callbacks the protocol calls | `TapsConnection` |
| TCP connection (`src/tcp/tcp.c`) | `conn_ctx`: three libevent events, callback fields, the outstanding send and receive | `Send`, `Receive`, `_tcp_sent`, `_tcp_received`, `_tcp_closed` | `TcpConnection` |
| Listener (`src/taps_listener.c`, `Listen`, `Stop`, `_tcp_connection_received` of `tcp.c`) | `ref_count`, `readyToStop`, the `stopped` callback, the accept event | `tapsListenerNew`, `Stop`, `Free`, `Deref`, connection received, connection ended | `TapsListener` |
| Messages (`src/taps_message.c`) | a vector of buffers | new, get, truncate, free; `_taps_trunc_iovec` of the connection | `Iovec`, `MessageBuffers` |
| Transport properties (`src/taps_transport_properties.c`) | a bit vector per preference, typed values, the interface list | new, free and the setters | `TransportProperties` |
| Endpoint (`src/taps_endpoint.c`) | set-once fields; alias list, STUN server | attach, get, free | `Endpoint` (no aliases, no STUN) |
| Preconnection (`src/taps_preconnection.c`) | the table of candidate protocols, pointers to the above | new, listen, free | `Preconnection` |
| Protocol directory (`src/taps_cfg.c`) | protocol table, the parser's level and key | `tapsUpdateProtocols`, `tapsParseYaml` | `ProtocolDirectory` |
| Echo application (`examples/echoapp.c`) | the messages it owns | callbacks that receive and send back | `EchoApp` |
| `old/tapsd.c` | | | not built, not modelled |

Everything runs in one libevent loop. The application calls TAPS; TAPS calls
the protocol's `Send`, `Receive`, `Listen` and `Stop`; the protocol adds
events to the loop, and its event handlers call back into TAPS, which calls
the application's callbacks. The application may call TAPS again from any of
them. There are no threads and nothing is persisted: what is hard here is the
order of events of several connections, callbacks and API calls, calls that
fail half way, and memory used after one of many possible last events.

What makes each part correct:

* connection, sending: each message is written once, in call order; the send
  event answers for the message it belongs to; every message gets exactly one
  event;
* connection, receiving: the application gets the peer's bytes in order;
  minimum lengths neither lose nor repeat bytes nor leak vectors; a queued
  receive is never forgotten;
* listener: the reference count is exact; Stopped comes once, after the last
  connection; nobody uses a freed listener or a freed TCP context;
* preconnection: the candidates are the protocols with everything the
  application asked to require and nothing it asked to prohibit; the
  strings of every protocol are freed once; a listener is started where the
  endpoint says;
* messages: truncating keeps the first bytes at their addresses; the rest handed
  to the protocol after a partial read is exactly what is not yet filled;
* protocol directory: an entry describes one document and is complete; nothing
  is written past the caller's array; the scan returns;
* echo application: what goes back is what came, in order; a message belongs
  either to the application or to TAPS and is freed once.

## Modules

* `TcpConnection` declares the state of one `conn_ctx` and its socket, and the
  effect of each call. It has no specification: `TapsConnection` extends it and
  uses `Send` and `Receive` where `taps_connection.c` calls the protocol.
* `TapsConnection` is one accepted connection from `tapsConnectionInitialize`
  to `tapsConnectionFree`. An action is a whole handler: an API call, or a
  libevent callback with every call it makes. Application callbacks are the last
  statement of each handler, so what the application does in one is the next
  action. Messages and buffers are numbered in call order, so order is
  comparison of numbers; a byte is its position in the peer's stream, so that a
  lost, repeated or moved byte shows. `stream`, `reported` and `rcvFault` are
  history.
* `TapsListener` is one listener and the life cycles of its connections. Here
  the library calls the application in the *middle* of handlers (`_taps_closed`
  calls Stopped, then Closed; `_taps_connection_received` calls
  `connectionReceived`), so the running callbacks are a stack and a handler is
  split where it calls out.
* `ListenerContract` is what `taps.h` promises of a listener, with four
  variables: the phase, the number of Stopped events, the connections alive and
  those gone. `TapsListener` implements it under the mapping `Contract`, which
  maps the count to the count, so that a second Stopped would be a step the
  contract does not have.
* `TransportProperties` and `Endpoint` declare one object each and the effect of
  every call; `Preconnection` extends both and adds the choice of protocols. A
  bit vector is the set of its abilities. What `tapsUpdateProtocols` returns is
  any member of `Directories`, and an entry is its position in it. The loops of
  `tapsPreconnectionNew` and `tapsPreconnectionFree` take a step for each turn:
  an entry is dropped or copied to the slot `numProtocols` names, a slot is
  freed. `asked`, `askedThen` and `atListen` are history: the preferences asked
  for so far, those when New was called, and the endpoint and preferences when
  Listen was.
* `ProtocolDirectory` is one call of `tapsUpdateProtocols`. Its input, a
  directory with the events libyaml makes of each file, is chosen in `Init`; an
  action is a directory entry or an event. Each file also carries the documents
  its author wrote and, for each event, its place in them. The code never sees
  these: they are the reference the result is compared with. `Following` is the
  order in which libyaml reads the places, `EventAt` the event it makes of one.
  A file is `Readable` if its events are those of its documents, to the end or up
  to an error, and each field is one the parser can follow (`Plain`); it is
  `WellFormed` if moreover there is no error and no document lacks a field.
* `Iovec` has the functions over vectors of buffers (`tapsMessageTruncate`,
  `_taps_trunc_iovec`) and the reference for them, the sequence of addresses a
  vector covers. `MessageBuffers` drives them as receives of several reads and
  echoes do.
* `EchoApp` extends `TapsConnection` and `Iovec`: the application is the echo
  server's callbacks. `handler` is where the running callback stands, and no
  event is taken until it has returned. It keeps the message of each receive
  and how often each part has been freed. `overlapped` is history: a line came to
  `tapsConnectionSend` while the send event of another was pending.
* The modules `MC...` are the ones TLC runs; the `.cfg` files hold the bounds,
  the failing calls and what the application may do. `MCProtocolDirectory` also
  puts the places of each file together from its documents; TLC checks
  (`FormatAssumption`) which of the files the definitions above call readable
  and well formed.
* `TapsConnectionProofs`, `ConnectionEventProofs`, `TapsListenerProofs`,
  `PreconnectionProofs`, `ProtocolDirectoryProofs`, `ProtocolEntriesProofs`,
  `MessageBuffersProofs` and `EchoAppProofs` hold the proofs. `EchoAppProofs`
  extends `ConnectionEventProofs`, and that one `TapsConnectionProofs`;
  `ProtocolEntriesProofs` extends `ProtocolDirectoryProofs`.

Operators named `Mut...` are faulty variants of the definition they stand
before. No specification uses them: each shows, put in its place, that some
property notices the fault.

### What the models leave out of the code they cover

* Calls refused for bad arguments change no state and are not actions.
* In `TapsConnection` and `EchoApp` a message is one buffer of `BufLen` bytes,
  which is what `tapsMessageNew` makes; messages of several buffers are in
  `MessageBuffers`. A short write, which `Send` reports as sent, is in `EchoApp`
  (`ShortWrites`), where the bytes on the socket are; `TapsConnection` only
  records which messages were written.
* The peer's close is an orderly FIN. With a reset, libevent reports read and
  write events rather than the close event.
* `dlopen`, `dlsym` and the event base are part of the failing branch of
  `tapsListenerNew`.
* Reads of just-freed memory with no allocation in between (`currLength` in
  `_taps_received_partial`, `taps_ctx` in `Stop`) read the old value: the fields
  are not in the two words the allocator overwrites. Where it may be
  overwritten (`tapsConnectionFree`, the failure path of `Listen`) the model has
  a crash as an alternative.
* There is one object of each kind before the connection: one set of transport
  properties, one local endpoint (only the first is ever read), one
  preconnection at a time and one listener. An application does not listen
  with an endpoint it has freed, as `taps.h` warns.
* `numProtocols` of a preconnection is not cleared: it starts with any integer of
  `StaleCounts`, in the table, behind it or below 0. A copy outside the table,
  and the use of a slot that nobody filled, set `fault` and end the behaviour.
* `conn_ctx` is not cleared: its callback fields start with any value of
  `StaleCallbacks`. `connection_faults` has garbage among them, and an event that
  calls through it is a crash (`GarbageCallback`); `connection_tcp` and the echo
  runs, which ask what happens when the callbacks are called, have not.
* Once an early `tapsListenerFree` is followed by another, the listener is freed
  under its connections; the next end of one is a crash
  (`ConnectionEndsLate`).
* `ProtocolDirectory` leaves out a failing `strdup`, the strings leaked by a
  repeated key and by a directory that is overwritten, and the release of
  events. An element of a list under an unknown key is a key or a value in
  turn, as in the code; in the files `strayKey` and `staleKey` of the run such an
  element sets a field.
* `EchoApp` is one connection with the callback fields null before their first
  use. `main`, the signal handler and the listener's callbacks run in a fixed
  order and are not in it. A failing `writev` or `event_add` is left out of its runs: the
  code then leaves the refused message on the send queue and the application
  frees it, which `connection_faults` covers on the TAPS side and a listed
  hazard on the application's. Leaks of one part of an app_msg
  (`_app_send_error`, `_app_receive_error`) are modelled, and no property
  forbids them.

## Runs

| Run | Checks | Shows |
|---|---|---|
| `connection_faults` | `TypeOK`, `SendCtxQueued`, `WireInOrder`, `StreamIntact`, `TruncVecOwned`, `EventAtMostOnce` | safety of the connection when any call may fail and a protocol may report any disposition |
| `connection_tcp` | `SentTracksWire`, `ReceiverArmed`, `SendsAnswered`, `BytesAreRead`, `CloseAnswersAll` | TCP with no failing call: nothing stalls, closing answers everything |
| `listener_faults` | `TypeOK`, `RefCountExact`, `ListenerOutlives`, `OrphansOnlyUnaccepted`, `CrashesExplained`, `ImplementsContract`, `StopCompletes` | references, events, the contract, what can crash and that Stopped comes, whatever the application and failing calls do |
| `preconnection` | `TypeOK`, `PreferenceHonoured`, `CandidatesMatch`, `StringsFreedOnce`, `OnlyStaleFaults`, `ListensAsAsked` | properties, endpoint and preconnection in any order of calls |
| `directory` | `TypeOK`, `WithinSlots`, `EntriesComplete`, `OneFileFound`, `FromOneDocument`, `ScanReturns` | directories of up to three files, well formed or not, against the documents they were made from |
| `messages` | `TypeOK`, `TruncateShrinks`, `RestExact`, `EchoExact` | truncating, partial receives and echoes over several buffers, empty ones among them |
| `echo` | `EchoTypeOK`, `EchoFaithful`, `MessagesOwned`, `EchoCompletes`, `CloseFrees` | the echo server with a peer that sends and closes when it likes, when memory may run out and writes be short, up to the first overlapping send |
| `stopped_first` | `StoppedAfterClosed` | violated: Stopped before the last Closed |
| `rejected_event` | `NoOrphanEvents` | violated: a rejected connection leaves its close event behind |
| `directory_lost` | `AllFound` | violated: each file's count replaces the one before, so protocols are lost |
| `echo_overlap` | `EchoesPeer` | violated: even a peer that waits for each echo can get back memory the server has freed |
| `frozen_early` | `FrozenAtListen` | violated: a property set between New and Listen does not count |

The five violations are disagreements between the code and its documentation;
`PROJECT.json` quotes both sides under `findings`. Other constants show more of
what the hazards list says. `connection_tcp` with `ReceiveEvents =
{"received"}` violates `ReceiverArmed`: after a whole message the next queued
receive is never issued.
In `listener_faults` each of the three causes in `CrashesExplained` is
reached: leave one out and TLC shows the crash it names.

Deadlock is not checked: an application may stop calling, and a freed
connection does nothing more.

Bounds. Three sends let one message be stuck on the queue, one be outstanding
and one wait, which is what a wrong choice of the next item needs; four in
`connection_tcp`. Two receives and four bytes with `BufLen` 3 and minimum
lengths 1 and 3 give buffers filled by one, two and three reads, a buffer
completed while another waits, and a stream longer than a buffer. Three
connections let one end, one be open and one arrive while the listener stops.
In `preconnection` two setter calls let a preference replace another; of the
four protocols (UDP, TCP, TCP with multipath, TCP) three match the defaults and
the table holds two, so that it overflows, also with a garbage entry in
front; requiring or prohibiting `keepAlive` changes which ones match. The stale
counts are -1, 0, 1 and 3: below the table, in it and beyond it.
In `directory` three slots and files of up to four documents let one file, or
two, fill the array exactly or overflow it; the files cover every event at a
level where it is wrong, and a failed parse before, between and after good
files. In `messages` buffers of 0, 1 and 3 bytes and minimum lengths from 0 to
more than the largest message holds put the boundary inside, at and past every
buffer. In `echo` five bytes and `BufLen` 3 give two to five reads of one byte to a
full buffer; the bounds on sends and receives are never reached, since each
echo takes a byte. Its peer sends a byte whenever it likes. The peer of
`echo_overlap` (`Pipelined = FALSE`) is the most patient one: lines of one byte,
each only when the echo of the one before is on the wire, which is all a client
can see.
The proofs remove the bounds for the safety properties they cover.

Fairness. In `TapsConnection`: libevent runs the callback of an event that
stays ready (`SendDone`, `BytesReceived`, `NothingReceived`, `Closed`), and the
application frees a closed connection. `SendDone` fair means that the peer
keeps reading, so that the socket becomes writable again. Nothing makes the
application send or receive or the peer act. In `TapsListener`: application
callbacks return and the close event of a gone peer runs; `StopCompletes`
assumes in addition, in its own statement, that each peer closes, and excepts an
open connection whose close event could not be added. In `EchoApp`:
callbacks run to their end and libevent runs what stays ready. In
`ProtocolDirectory`: the scan is one uninterrupted call.

## Proofs

Assumptions: `BoundsAssumption`, `FaultsAssumption`, `EventsAssumption`
(naturals, a buffer of at least one byte, and the sets the switches are drawn
from), `ConnsAssumption`, `SwitchesAssumption` (finitely many connections), and
`PropertiesAssumption`, `EndpointAssumption`, `PreconnectionAssumption` (the
generic setter is given names `taps.h` lists for it, ports have 16 bits, a stale
count is an integer), `SlotsAssumption` (there is a slot),
`DirectoriesAssumption` (a directory is a sequence of files),
`ContentsAssumption` (an event has a type and a value),
`EchoAssumption` (the server asks for no minimum length, `MIN_BUF` being 0, and
its error callbacks allocate nothing), and `BuffersAssumption` (lengths are
naturals and one of them is the greatest). TLC evaluates them in every run.
Where a property needs more (that a call does not fail, or that an application
or a protocol behaves), the theorem says so in its own ASSUME; for each such
hypothesis TLC finds the property violated without it.

`TapsConnectionProofs` proves `TypeOK`, `SendCtxQueued`, `WireInOrder`,
`StreamIntact` and `TruncVecOwned`. None is inductive; `IInv` adds

* `SendInv`: queue and wire increase and hold no number past `sends`, and the
  outstanding message is the last of the wire *and* on the queue. Since
  `_taps_send_common` hands over the item behind the one it unlinks, and the
  queue increases, the next write is greater than the last.
* `QueueInv`: only the head of the receive queue is ever with the protocol or
  partly filled, `receive_off` is its fill, a ready receiver has an empty queue,
  and there is one truncated vector exactly when the head is partly filled.
* `StreamInv`: while a receive is outstanding, `readPos` is what was delivered
  plus what the head holds, and the head holds the next bytes in order. After a
  failing call the receiver stops for good with `receiveReady` false, which is
  why a lost byte can never be followed by a delivered one.

The proof treats the two directions apart (`SendSide`, `ReceiveSide`), one
lemma per action and side; `DeliverEffect`, `ErrorEffect` and `ReadFacts`
carry the receive callbacks, `WireEffect` and `SendEffect` the sends.

`ConnectionEventProofs` goes on from `IInv`:

* `EventAtMostOnce` holds with no further assumption. What is needed is `FateInv`:
  a message or buffer that has had its event is on no queue, and one on a queue
  is not yet answered, so that closing, which answers everything queued, answers
  nothing twice.
* `ReceiverArmed` holds if the protocol only delivers partial messages, as TCP
  does: `_taps_received` does not issue the next receive.
* `SentTracksWire` holds if the protocol reports only sent and `event_add` does
  not fail; a failing `writev` does not matter, since such a message is neither
  on the wire nor reported sent.

`TapsListenerProofs` proves `TypeOK`, `RefCountExact`, `ListenerOutlives` and
that `TapsListener` implements `ListenerContract`. Its invariant ties the
callback stack to the connections (a connection is being received or closed
exactly when it has a frame) and the stopped callback to the phase: after Stop
the field is set exactly while connections remain, and the listener is freed
only once the event has come, when the count is zero, or after an early free. It
also proves `OrphansOnlyUnaccepted` and `CrashesExplained` without any
assumption on the application or the failing calls. The latter needs that the
Stopped event comes only at a count of zero, so that a release that finds no
callback can only follow an early free; its causes name the constants that allow
them, so that for an application that rejects nothing and does not free early,
when memory does not run out and `Listen` does not fail, it says that nothing
crashes.

`PreconnectionProofs` proves `TypeOK`, `PreferenceHonoured`, `CandidatesMatch`,
`StringsFreedOnce`, `OnlyStaleFaults` and `ListensAsAsked`. The invariant has four
parts. `VectorInv`: an ability with a typed setter is never required, avoided or
prohibited (the typed setters clear none of those vectors). `CallInv`: while New
runs, `asked` is `askedThen`, since the application makes no other call. `TableInv`
carries the loops: `FillInv` says that the slots below the stale count are garbage,
those from it up to `numProtocols` hold entries the loop has passed, in order, and
no others do; with it a turn that drops or copies an entry, and one that frees a slot,
keeps `CandidatesMatch` and `StringsFreedOnce`. `ListenerInv` ties the listener to
what `atListen` recorded.

`ProtocolDirectoryProofs` proves `TypeOK` and `WithinSlots` for
every directory and every sequence of parser events. The invariant adds that
while the scan goes on there is a free slot and that a file has used less than
the space its call was given; so the entry being filled lies behind what is
counted and inside the array, although each file's result replaces the count.

`ProtocolEntriesProofs` proves `OneFileFound`, `EntriesComplete` (whose statement
is about directories whose usable files are readable, `AllReadable`, and so have
`Plain` fields only), `NeverFails`, that no parse fails where every usable file is
well formed, and, for every directory and every sequence of events, `FromOneDocument`.
The invariant `EInv` adds

* `ReadingInv`: in a readable file the events not yet taken are those from some
  place on, and `AtPlace` says what the parser's level, key, got flags and current
  entry are there. After j fields the entry has the value of the last field
  of each key (`Strings`) and the properties of all lists so far (`Named`); inside
  a field also those of the first v elements. The entries before it describe
  the documents that are done (`Stored`).
* `EntriesInv` and `OneFileInv`: what is counted describes documents, and is all of
  the only file once that has been passed.

`InsideStep` takes each event inside a document from one place to the next,
`EndStep` the end of a document, where the entry is counted if all three fields
were got; `ReadingStep` joins them and the end of the file. `Plain` has the
conditions the parser needs. It forgets the key `properties` only at the end of a
list, so a scalar there is not allowed. In the list of an unknown key it takes
the elements after the first for keys and values in turn, so none of them may be
the name of a field: its successor would be stored as that field. What holds
of such files too is `FromOneDocument`: an entry is never filled from two documents
or two files and never keeps what was there before. Its invariant needs no places:
`Taken` says of the events already read that the current entry, with the fields
got so far, was filled between the last `DOCUMENT_START` and here (`FilledBetween`),
and that a key that names a field is the last scalar read.

`EchoAppProofs` proves that every behaviour of the echo server is one of
`TapsConnection` (`EchoIsClient`), so that the theorems above hold of it, and
`EchoTypeOK`. For any peer and a `writev` that does not fail
it proves `EchoFaithful`, and with an `event_add` that does not fail
`MessagesOwned`; `malloc` and `readv` may fail and writes may be short. Both are
about the behaviour up to the first overlapping send, which `echo_overlap` shows
no client can exclude. The
argument is `PaceInv`: as long as no send has found another one outstanding, the
outstanding one is the last of the queue. `AliveInv` says that a buffer
with no receive event yet, and the one a callback works on, has not been freed;
`OwnInv` that at most one send is queued and its parts are alive; and `FaithInv`
where in the stream the bytes of the buffer in hand, and the ones already
echoed, lie. A message is one buffer here, so the recursive functions of `Iovec`
are unfolded once (`RemainingOfOne`, `CutAddresses`).

`MessageBuffersProofs` proves `TypeOK`, `TruncateShrinks`, `RestExact` and
`EchoExact` for messages of any number of buffers of any lengths. The functions
of `Iovec` are recursive, so the first half is about them. `IsSum(v, L)` says that
`L[r]` bytes lie in the first r entries; sums exist (`SumExists`), and with them
`RemainingIs`, `StopRowIs` and `AddressesAre` say what the loops and the reference
compute. The induction each of these needs is over a set of indices (`Upwards`,
from the least element of its complement). `SliceOf` then gives
`TruncateIs` and `TruncIovecIs`: the truncated message covers the first bytes, the
truncated vector the rest, and the loop of `_taps_trunc_iovec` stops before the end
because there are never more bytes read than the vector holds. The invariant
`BufInv` adds that entry i stays at the start of buffer i, so that no address
occurs twice and a read never overwrites what an earlier one has filled.

Only model-checked: the liveness properties (`SendsAnswered`, `BytesAreRead`,
`CloseAnswersAll`, `StopCompletes`, `ScanReturns`, `EchoCompletes`,
`CloseFrees`), since fairness and `ENABLED` are outside the prover.

## Not modelled

* `old/tapsd.c` is not built. The unit tests check single calls.
* The alias list and the STUN server of an endpoint: no code outside
  `taps_endpoint.c` reads them.
* The headers hold declarations; the ones with control (the item lists, the
  property names and tables) are modelled where they are used.

## Plan

Done: the modules, runs and proofs above. Next, in this order:

1. `ItemList`: the `prev`/`next` pointers of `ADD_ITEM` and `DELETE_ITEM`, shown
   to implement the sequences of `TapsConnection`, with the aliasing in
   `tapsConnectionFree`.
2. The echo application's listener callbacks and shutdown over `TapsListener`.
