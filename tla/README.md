# A verification project for the Network Audio System

The Network Audio System (NAS) is a network-transparent audio server: clients
connect to it as they would to an X server, build *flows* of audio elements in
it, and send or receive sound data while the server mixes all running flows
into the sound device from a timer interrupt. This directory holds TLA+ models
of the parts where that design is hard to test: a SIGALRM handler that shares
queues, ring buffers and flow lists with the request handlers, a credit
protocol between server and client library, and objects that live across both.

## The system

### Components, their state and their operations

| component | source | state | operations |
|---|---|---|---|
| dispatcher and clients | `server/dia/dispatch.c`, `main.c`, `dixutils.c` | `clients[]`, `nClients`, `currentMaxClients`, `isItTimeToYield`, `dispatchException` | `Dispatch`, `InitClient`, `NextAvailableClient`, `ProcInitialConnection`, `ProcEstablishConnection`, `CloseDownClient`, `KillAllClients`, `CloseDownRetainedResources` |
| resources | `server/dia/resource.c` | one hash table of ids per client | `FakeClientID`, `AddResource`, `FreeResource`, `FreeClientResources`, `LookupIDByType` |
| flows and elements | `server/dia/audispatch.c`, `auutil.c` | per flow its elements with their states and actions, `auClockedFlows`, `auUnclockedFlows` | `ProcAuCreateFlow`, `SetElements`, `SetElementStates`, `SetElementParameters`, `DestroyFlow`; `AuCompileFlow`, `AuChangeElementState`, `setFlowState`, `checkForTriggeredActions`, `AuProcessFlows` |
| ports | `audispatch.c`, `auprocess.c`, `auevents.c` | a ring buffer per ImportClient and ExportClient, `incoming`, `outgoing`, `eof` | `ProcAuWriteElement`, `ProcAuReadElement`, `readClient`, `writeClient`, `fillInEvent` |
| components and buckets | `audispatch.c`, `auutil.c` | reference-counted devices, buckets, radios | `ProcAuCreateBucket`, `DestroyBucket`, `ListBuckets`, `AuFreeComponent` |
| audio processing | `auprocess.c` | the compiled flow the interrupt runs | `AuProcessData`, `AuProcessFlow`, `AuStartFlow`, rate conversion, mixing, format conversion |
| audio event queue | `auevents.c` | a doubly linked list with head and tail | `AuRequestElementNotifyEvent`, `AuRequestMonitorNotifyEvent`, `ProcessAudioEvents`, `AuDequeueEvents` |
| OS layer | `server/os/*.c` | descriptor sets, input and output buffers of every connection, timers | `WaitForSomething`, `ReadRequestFromClient`, `FlushAllOutput`, `WriteToClient`, `EstablishNewConnections`, access control |
| device driver | `server/dda/voxware/auvoxware.c` (others: `sun`, `hpux`, `sgi`) | the open devices, the interval timer, `processFlowEnabled` | `intervalProc`, `setTimer`, `AuBlockAudio`, `AuUnBlockAudio`, `setSampleRate`, `openDevice`, `closeDevice`, `enableProcessFlow`, `disableProcessFlow`, reading and writing samples |
| client library: connection | `lib/audio/Alibint.c` and the calls on top of it | request buffer, event queue, error handlers, two mutexes, Xt work procedures | requests, `_AuReply`, `_AuForceRoundTrip`, `_AuReadEvents`, `AuNextEvent`, `AuScanEvents`, `AuHandleEvents` |
| client library: sounds | `lib/audio/soundlib.c`, `Util.c`, `bcache.c` | event handlers, scratch flows, bucket cache | `AuSoundPlay`, `AuSoundRecord`, `AuSoundPlayFromBucket`, `AuSoundCreateBucketFromData` |
| sound files | `lib/audio/sound.c`, `snd.c`, `voc.c`, `wave.c`, `aiff.c`, `8svx.c`, `fileutil.c` | an open file and what its header said | `SoundCreate`, `SoundOpenFileForWriting`, `SoundOpenFileForReading`, `SoundSeekFile`, `SoundTellFile`, `SoundCloseFile` |
| telephones | `clients/audio/auphone/auphone.c` | the local and the remote server, the flows to stop on hanging up | `call`, `answer`, `remoteAnswered`, `remoteHangup`, `hangup`, `quit` |
| other applications | `clients/audio/*` | widgets and command lines over the library | not modelled |

### How the components interact

- **The interrupt and the server share one address space.** The driver arms an
  interval timer; its SIGALRM handler `intervalProc`
  (`dda/voxware/auvoxware.c`) calls `AuProcessData`, which reads and writes the
  ring buffers, changes element states, posts events and may recompile the
  flows. The server's request handlers work on the same structures. They
  exclude the handler with `AuBlockAudio`/`AuUnBlockAudio`, which mask and
  unmask the signal and do not nest. The handler itself is never interrupted
  by the server.
- **Requests and replies.** `Dispatch` calls `WaitForSomething`, which accepts
  connections, flushes the output of all clients and sleeps in `select()`. It
  then serves each ready client until `isItTimeToYield`. `ReadRequestFromClient`
  returns one whole request. Handlers write replies with `WriteToClient` into
  buffers that are flushed when they are full and before the server sleeps.
- **Events.** The interrupt and the handlers append to one list.
  `ProcessAudioEvents` empties it in the dispatch loop and writes each event to
  the client that set the element. `select()` is left with `EINTR` when the timer
  ticks, and then looks whether events wait.
- **Credit.** Element events of a port carry the number of bytes the server can
  take or give. The library's event handlers answer with exactly so much data;
  `incoming` and `outgoing` record what was asked for or announced.
- **The library's calls share one connection.** A thread that waits for a reply
  reads events and errors meant for others; what waits for an event sends
  requests. Event handlers run inside these calls and call the library again.
- **Scratch flows.** The library builds its sounds in a pool of flows. A flow goes
  back to the pool when its handler has seen the Stop event, and its id then
  means the next sound.
- **Telephones** interact only through servers: a bucket on the other phone's
  server says that it is engaged, and stopping a flow there is how a phone
  answers and hangs up.
- **Resources.** Ids in `resource.c` belong to clients; flows refer to
  components by pointer and reference count; a client's end frees its ids unless
  it asked for them to be retained.

### What is hard

- the interrupt between any two instructions of a handler that are not blocked;
  blocks that do not nest; the same functions run by both;
- values taken before a block is left and used after it (pointers into rings,
  the next record of a list, a count of element states);
- events and requests that cross on the way, with an application that changes
  the flow's state meanwhile;
- the last bytes of a sound: several conditions decide whether the element
  pauses or stops;
- connections that end in any phase, with buffered requests, buffered
  replies, retained resources or in the middle of a round;
- buffers lent from client to client, partial reads and writes, and `select()`,
  which knows nothing of what is already buffered;
- the server's own restart after the last client;
- several threads, work procedures and callbacks on one connection, of which
  each may read what another one waits for;
- buckets and flows that another client, or the next sound, uses or destroys
  between two requests of a call;
- positions and sizes that five file formats count from different places.

`PROJECT.json` lists each hazard at its line, with the properties about it.

### What makes each component correct

- *Event queue:* every event is written once, in order, or dropped with its
  flow; the list is consistent between any two blocked sections; an event never
  waits for good while the server sleeps.
- *Import port:* the ring holds what was written and not yet read, in order;
  the write pointer agrees with the size; a client that follows the events is
  never refused; end of file means that all was played; every sound ends.
- *Export port:* the client reads the recording once and in order, and all of
  it; what is announced is there; the recording ends.
- *Flows:* element states, flow states and the compiled flow agree between
  requests; what the interrupt runs still exists.
- *Devices:* what runs has its devices open, at the rate it was compiled for;
  when nothing runs the devices are released, if they are to be.
- *Clients and resources:* slots, id bases and reference counts are exact;
  retained resources stay; a reset comes when nobody is connected and leaves
  nothing.
- *Connections:* requests arrive whole and in order, replies too; a buffer that
  may be lent is empty; neither side waits for data that the server holds.
- *Library:* who asked gets the answer to its own request, events come once and in
  order, every call returns.
- *Buckets:* samples stay in place; who reads a complete bucket gets all of it; a
  sound plays as often as was asked for, and its own handler is told.
- *Sound files:* what was written is found again, from any position; an unfinished
  file announces no more than it has.
- *Telephones:* who talks is engaged for others; an answer and a hang-up reach the
  other side.

## The modules

| module | models | extends or uses |
|---|---|---|
| `AudioEventFifo` | what the event queue promises | |
| `AudioEvents` | the linked list, its two walks, the dispatch loop around them, the interrupt | refines `AudioEventFifo` |
| `EventsAndBucketsProofs` | theorems about `AudioEvents`, with the refinement, and one about `Buckets` | `AudioEvents`, `Buckets`, `CountingLemmas` |
| `ImportPort` | a port with an arbitrary client, `WriteElement` against `readClient` | |
| `SoundStream` | the library playing a sound over an import port | composes with `ImportPort` |
| `SoundStreamProofs` | theorems about `ImportPort`, and on them those about `SoundStream` | `SoundStream`, `CountingLemmas` |
| `ExportPort` | a recording: port, interrupt, `ReadElement` and the library's handler | |
| `ExportPortProofs` | theorems about `ExportPort` | `ExportPort`, TLAPS |
| `SoundCard` | the voxware driver as operators on its state: opening, closing, rates, timer | |
| `ClockedFlows` | states, actions and compilation of flows, and the driver they enable; server and interrupt with a stack each | extends `SoundCard` |
| `ServerClients` | slots, ids, reference counts, retention, kill and reset | |
| `ServerClientsProofs` | theorems about `ServerClients` | `ServerClients`, `CountingLemmas` |
| `ClientIO` | input and output buffers, `WaitForSomething`, rounds of `Dispatch` | |
| `ClientIOProofs` | theorems about `ClientIO` | `ClientIO`, `CountingLemmas` |
| `CountingLemmas` | least elements, counting, recursive functions and joined sequences, for the proofs | TLAPS |
| `Buckets` | sounds kept in the server, and the library's calls that fill, read, play and record them | |
| `ClientLibrary` | the library's connection: buffers, replies, errors, the event queue, threads and Xt | extends `SequenceNumbers` |
| `ClientLibraryProofs` | theorems about `SequenceNumbers` and `ClientLibrary` | `ClientLibrary`, `CountingLemmas` |
| `SequenceNumbers` | the number of a request from the 16 bits that packets carry | |
| `SoundFiles` | five sound file formats: headers, closing, recognizing, reading, seeking | |
| `Phones` | telephones that signal through buckets and flows on each other's server | |
| `PhonesAndFlowsProofs` | a theorem about `Phones` and two about `ClockedFlows` | `Phones`, `ClockedFlows`, `CountingLemmas` |
| `MC*` | constants of the instances that TLC checks | |

In every module an action of the server is a stretch of code that the interrupt
cannot enter (a blocked section), or one that touches nothing the interrupt
uses; the interrupt is an action that may come between any two of them.
Variables named "history" are not in the program and only serve properties.
Definitions that begin with `\* Mutant:` are not part of a specification: they
are altered forms of the definition that follows them, with which the
properties were seen to fail.

### Correspondence with the code

**AudioEvents.** `head`, `tail`, `next`, `prev` are `AuEventQueue`,
`AuEventQueueTail` and the links of the records, freed records included, so
that a stale tail can be followed. `pc` names the position of the main program:
`process`, `write`, `remove`, `free` in `ProcessAudioEvents`; `wait`, `select` in
`WaitForSomething`; `freeflow`, `dequeue`, `peek`, `match`, `freerecord`,
`freed` in the destruction of a flow. `p` and `nx` are the locals `p` and `next` of
the walks. `eintr` says that a signal arrived while `select()` was blocking.

**ImportPort.** `read`, `write` are offsets of the pointers of the
port's `ComponentRec` (`au.h`); the bytes of `data` are numbered as they
are written. `BeginWrite`, `CopyBytes`, `CommitWrite`, `MarkEnd`,
`ClearIncoming` and `RestartPaused` are the stretches of `ProcAuWriteElement`;
`ReadClient` is `readClient` of the interrupt, with the two conversions of a
read that wraps (`Passes`); `StartElement` and its neighbours are
`AuChangeElementState` with the default actions of an `ImportClient`.
`createPort` leaves `incoming` and `eof` uninitialised: `Init` takes any
value. Sizes wrap at `Word`, which stands for 2^32.

**SoundStream.** `ImportPort` with requests from `toServer`; `SendData`,
`HandleDataEvent` and `HandleStop` are `sendData`/`sendFile` and `EventHandler`
of `soundlib.c`; `WriteElement` splits what exceeds a request as
`AuWriteElement` does. Each case of `Cases` is a length and a latency: when the
interrupt may come.

**ExportPort.** `WriteClient` is `writeClient`, with both passes; `BeginRead`,
`CopyReply`, `CommitRead`, `RestartPaused` are the stretches of
`ProcAuReadElement`; `Split` is how it divides a reply that wraps, and `Written`
what its pieces add up to;
`HandleEvent` is the library's handler for recording.

**ClockedFlows.** Server and interrupt have a stack of frames; a frame is a call
or the rest of one, and the top frame is the next step. `change`, `check`,
`count`, `store`, `unblock`, `compare` are the stretches of
`AuChangeElementState`, `checkForTriggeredActions` and `setFlowState`; `process`,
`find`, `gather`, `update`, `setup`, `swap`, `enable`, `mark` those of
`AuProcessClockedFlows`, `AuProcessFlows`, `AuSetupCompiledFlow` and
`AuStartFlow`; `read` and `note` those of `AuProcessData`, and `rearm` is the end
of `intervalProc`. `auFlow` is the compiled flow: a sequence of outputs, each with
the flow whose output element stands for it and the flows that are mixed into it.
A flow of the model has one input and one output. `card` is the driver
(`SoundCard`): what of `sndStatOut` and `sndStatIn` is open and at which rate,
whether the timer runs, and its own `processFlowEnabled`; `enabled` is the
variable of that name in `auprocess.c`, which caches it, and `rate` is
`auCurrentSampleRate`. `Reset` is what `serverReset` and the next
`AuInitPhysicalDevices` do to them. The operators of `SoundCard` have the names of
the driver's functions; each is atomic, since they run with the signal blocked, in
its handler or with the driver disabled, but for the moment before `mark` (see
below).

**ServerClients.** `clients`, `nClients`, `nextFreeClientID`,
`currentMaxClients` have the code's names; `exception` is
`dispatchException & DE_RESET`; `ready` is the rest of `clientReady` in a round.
`CloseDown` is `CloseDownClient` for a set of clients with the resources it
frees; `component[i]` and `flow[i]` are what a bucket id and a flow id of
client i refer to; `refCnt` is the count of each component, one less than its
references, as in `auutil.c`, and -1 when it is freed.

**ClientIO.** Data is counted in units of 4 bytes; a unit carries its client and
its number, so that lost, repeated or mixed data shows. `input[c]` is the
`ConnectionInput` (what is before `bufptr`, what is from it on, `lenLastReq`,
`size`), `freeInputs` and `available` are `FreeInputs` and `AvailableInput`,
`withInput` is `ClientsWithInput`, `pending`, `newPending` and `blocked` are
`OutputPending`, `NewOutputPending` and `ClientsWriteBlocked`. `FlushClient` and
`WriteToClient` are functions on the state of one connection's output; `WriteReply`
applies them to the pieces of a reply, one after the other. Requests are numbered
from 0, the connection setup: `Length(c, i)` is the length of request i of client c,
`Start(c, i)` where it begins in what c sends. A unit of a reply is
`<<c, i, j, k>>`: unit k of piece j of the reply to request i. `ReadRequest`
is `ReadRequestFromClient` with all its ways out; `HandleRequest` is a request
handler that writes a reply.

**Buckets.** `call[c]` is the position of a client in a library call: each step is
one round trip (`CreateBucket`, `GetAttributes`, `SetElements`, `StartFlow`,
`WriteElement`, `ReadElement`) and takes the server's handler with it. `flow[c][f]`
is scratch flow f in the server: its kind, bucket, `flow->count` or the element's
position, and whether it runs; `inuse`, `handler` and `cache` are
`aud->scratch_flows`, the registered `priv` records and the entries of `bcache.c`.
`Tick` is `readBucket` and `writeBucket` of all running flows in one interrupt.
`Collect` is `AuFreeComponent`: memory goes with its last id and its last element.

**ClientLibrary.** `aud` is the `AuServer` structure; `todo[t]` is what thread t has
yet to do of its call, a sequence of steps; a call inside another one (a flush, a
handler) comes before the rest of it. `lock` and `rev` are `_serv_mutex` and
`_rev_mutex`. `Widened` is `_AuSetLastRequestRead`, `Received` what
`_AuReadEvents` does with a packet, `Delivered` `_AuError` with its asynchronous handlers.
`syncDue` and `enqDue` are the two work procedures of `Xtutil.c`.

**SoundFiles.** A file is a sequence of bytes, each of which knows its field, so that
a number read at a wrong place is junk. `SndHeader` to `SvxHeader` are what
`*OpenFileForWriting` writes, `SndClosed` to `SvxClosed` what is filled in at
close, `SndOpened`, `VocOpened` and `ChunksOpened` (the chunk loops of WAVE, AIFF and 8SVX)
what is found. `Origin` is what rewind, seek and tell add.

**Phones.** Each phone stands for the program and for its server. `conn[s][x]` is a
connection to server s with its flow, `busy[s]` the BUSY buckets there; `pc` is the
position in `call`, `answer` and `remoteAnswered`, `callback` and `volFlow` are
`r->callback` and `l->volFlow`. Servers execute requests, and notice closed
connections, later.

## What the runs check

TLC runs a configuration with `tlc -config X.cfg M`. "fails" marks the runs in
which TLC finds what the findings below report.

| configuration | module | what it shows |
|---|---|---|
| `EventsOneClient` | `AudioEvents` | with one posting flow and any destruction the list is well formed, implements the FIFO, outlives no flow, and every event is handled |
| `ImportPortAnyClient` | `MCImportPort` | pointers, content and minibuffers of the ring against a client that writes what it likes |
| `StreamSafe` | `MCSoundStream` | with frames of two bytes, the credit protocol: writes fit, nothing is asked for twice, end of file means that all was played, sounds end; the application pauses, restarts and stops |
| `ExportPortInTime` | `ExportPort` | a recording of whole interrupt's worths is read once, in order and to its last sample, and it ends, when the port never overruns |
| `FlowsBetweenSteps` | `MCClockedFlows` | states and compiled flow agree with the interrupt between the steps of requests, and so do the devices with what runs, over resets of the server |
| `ClientsRetained` | `MCServerClients` | slots, counts, retention and reset for every order of closing, killing and resetting |
| `ClientsRefused` | `MCServerClients` | fails: connections that end before they are established (see Finding) |
| `ClientIOSmallBuffers` | `MCClientIO` | requests and replies in pieces, with buffers smaller than what goes through them |
| `BucketsShared` | `MCBuckets` | two clients fill, list, read, play, loop, record into and destroy each other's buckets |
| `LibraryPrograms` | `MCClientLibrary` | four kinds of programs: answers, errors and events reach whom they are for and calls return, until a call reads on after its error; an Xt program keeps up |
| `FilesClosed` | `MCSoundFiles` | sounds of all formats that are closed or cut off, and then read |
| `PhonesBothWays` | `MCPhones` | two phones that call each other, at any time and at once |

### Bounds

- *Events:* 3 records, 2 flows, 3 posts. Three is the first length with a record
  that is neither head nor tail, and every position of the removed record
  occurs; freed records may be allocated again.
- *Import port:* `DataSize = 4`, `Chunk = 2`, 6 bytes: the ring wraps, in the
  middle of a write and of a read, at every offset. `Word = 8`, the smallest power
  of two above `DataSize`, makes `incoming` wrap as well.
- *Streams:* frames of 2 bytes, a port of 4 frames, and sounds of 1 to 9 of them:
  shorter than the port, exactly as long, and longer than two ports.
  `MaxRequest = 3` splits writes, in the middle of a frame too, so that the interrupt
  finds half a frame and has to leave it (`auprocess.c:486`). `SoundEnds` also asserts that the bound on the
  event queue is never reached.
- *Recording:* a port of 10 bytes (no multiple of 4, so that replies that wrap
  are split) and recordings of 2, 6, 14, 22 and 30 bytes, of which the device brings 2 at
  a time (`Chunk`; others lose their end, see below). `MaxEvents = 14` bounds nothing: the
  proofs need no more than `DataSize + 4`.
- *Flows:* three flows, two of which share an output, one an `ImportClient`, one
  with an action on another flow; each request changes one flow (`MaxChanges = 1`;
  before the driver was part of it the instance was checked once with 2 changes and
  the same result). `MaxDepth` bounds the stacks. Two cards: two devices that are
  released when nothing runs and take every rate, and one device that is kept open
  and knows no rate below 11; flows at 8 and at 22, so that the rate goes up and
  down and is rounded. `Hurried = FALSE`: the tick that ends the last flow comes
  before a reset (see below). 4.5 million states.
- *Clients:* 3 slots (`MaxClients = 4`), 3 components: two clients and a third to
  kill them, and a bucket that outlives its client while another is created. Three
  components are what the device and one bucket for all but one client need;
  components are interchangeable, hence the symmetry.
- *ClientIO:* input buffers of 6 units, output buffers of 2, sockets that take 3:
  one request is larger than an input buffer, one reply larger than an output
  buffer, and two clients compete for `AvailableInput`. `MaxTimes = 2` is reached.
- *Buckets:* two clients with two scratch flows each, so that both can play while
  both record; two buckets, one of which can be recreated in the caches of
  both; 3 samples, more than `MaxRequest = 2` of them, so that a bucket is written
  and read in pieces. Four calls are the shortest history in which a bucket is
  created, played, destroyed and read by the other client; clients are
  interchangeable. The same instance with one bucket and 5 calls was checked
  once (724396 states, no error). `Behind = 0`: a loop is longer than the round
  trip that stops it (see below).
- *Library:* a buffer of 2 requests, so that a call flushes those before it, and a
  socket with room for 1 or 4; 6 requests with `Wrap = 4`, so that the low bits of a
  number repeat; 4 calls of two threads, 2 events, one that matches and one that
  does not; a call that reads on takes up to 2 packets (`MaxData`), all events. Four kinds of programs (`Kinds`) divide what programs may mix, because
  the mixtures fail (see below).
- *Files:* two rates, of which the larger does not fit the exact formula of VOC;
  comments of 0 to 2 bytes and sounds of up to 5, so that paddings occur; writes of
  1 to 3 samples. A number of 4 bytes that is read over field boundaries is junk;
  `LongSize` stands for the largest size.
- *Telephones:* two phones that may dial each other at any time, once each: all
  crossings of two calls. `Slots = 2`: a server has the connections of the other
  phone's present and last call. `Careful` keeps users from answering in the moment
  in which the caller hangs up (see below).

### Fairness

- `WF` of the interrupt (`AudioEvents`, `SoundStream`, `ExportPort`):
  `intervalProc` arms the timer again on every tick. In `AudioEvents` it is
  weakly fair only in waking `select()`; nothing makes it post.
- `WF` of the server's steps: the server has one thread that goes on until it
  sleeps in `select()`; steps of waiting for a client are not included, except
  where input is there.
- `WF` of the library's handler: an application that plays a sound runs an event
  loop. The application's own pauses, starts, stops and hang-ups are never fair.
- In `ClientIO` fairness of the server is written out
  (`[]<>~ServerCanStep \/ []<><<Server>>_vars`, the definition of
  `WF_vars(Server)` with its ENABLED spelled out, which TLC evaluates much
  faster), and clients read their replies, but need not send.
- `Buckets`: `WF` of the tick, of the server's execution of a stop, and of a client's
  next step and event handler: calls wait for replies that the server sends at once,
  and a sound needs an event loop. Beginning a call is never fair.
- `ClientLibrary`: `WF` of the server's execution, of a thread inside a call, and of
  the loop of an Xt program, which returns to its input and work procedures. No
  thread need call, and the server need not post.
- `Phones`: `WF` of each phone's program (an Xt loop) and each server; the users'
  buttons are not fair.
- `ClockedFlows`, `ServerClients` and `SoundFiles` state safety only.

Deadlock is checked except where the system may stop: a sound or a recording
that is over, clients that have sent all they have, and the flow that divides by
zero (below).

### Finding

**The server resets itself under connected clients** (`ClientsRefused`).
`nClients` is incremented when a connection is established and decremented
when any connection is closed (`dispatch.c:243`); the comment on it says "number
active clients" (`dispatch.c:85`). Connections that are refused, that time out or
that end before their setup make it too small, and the reset comes when later
clients leave although others are served.

### Further divergences

These are outside of the passing runs by a named parameter; each is seen by
changing the constants or the formula as given.

*Server:*

- *An event is lost when a flow is destroyed.* `AuDequeueEvents` (`auevents.c:244`)
  leaves `AuEventQueueTail` on the freed record when that was the last of several;
  the next event is linked to it. `EventsOneClient` with `Posting = {f1, f2}`:
  `QueueWellFormed` fails. The manual page of the ElementNotify event says that
  these events are sent to notify clients.
- *A sound that never ends.* `ProcAuWriteElement` sets `eof` after the block that
  commits the bytes (`audispatch.c:1298`); when the interrupt drains the port in
  between, it takes the end for an underrun, the restarted port is empty, and
  no Stop event is sent. `StreamSafe` with `Totals = {14}`, `Short = {}`, `Long = {}` and
  without the conjunct `latency # "any"`: `SoundEnds` fails.
- *Exact length.* A sound whose length is exactly what was asked for ends with a
  separate empty write; after an underrun that write does not restart the port
  (`audispatch.c:1308`, `soundlib.c:336`). `StreamSafe` with `Totals = {}`,
  `Short = {8}`, `Long = {}`: `SoundEnds` fails. This is why `Short` has no multiple
  of what the port asks for and the others are in `Long`.
- *The interrupt runs freed elements.* `AuProcessFlows` runs unblocked in the server
  (`auutil.c:897`); a flow that ends meanwhile is compiled although it has stopped,
  and `AuFreeFlowElements` ("stop the flow if it's running") does not stop it
  before it frees its elements. `FlowsBetweenSteps` with `Preempted <- MCAnywhere`:
  `RunningFlowsExist` fails. It does so with any one of `"find"`, `"gather"`, `"update"`,
  `"setup"`, `"swap"` and `"store"` in `Preempted` besides what the run has in it
  (for `"gather"`, with `CHECK_DEADLOCK FALSE`; see below).
- *Minibuffers under rate conversion.* `auprocess.c:514` compares converted bytes
  with bytes of the port. `ImportPortAnyClient` with `Resample = TRUE`:
  `MinibufFilled` fails. The theorem `MinibufferFilled` assumes `~Resample`.
- *Frames of 3 bytes.* `auprocess.c:486` rounds with a mask. `StreamSafe` with
  `Bps = 3`, `DataSize = 6`, `Totals = {3}`: `PlayedToTheEnd` fails.
- *A pause by the user* posts an event that counts as `incoming`
  (`auevents.c:91`) and that the library does not answer; from then on the server
  asks for less than the port can take. `IncomingCoversOwed` is therefore an
  inequality.
- *Overrun.* `ExportPortInTime` with `InTime = FALSE`: the second pass of `writeClient`
  overwrites what is unread (`auprocess.c:629`), and `ReadsInOrder` fails.
- *An odd reply.* With `DataSize = 7`, `Chunk = 1`, otherwise as in
  `ExportPortInTime`: a reply that wraps is split so that a piece becomes
  negative (`audispatch.c:1398`), and `ReadsInOrder` fails.
- *The last samples of a recording* are written to the port after the Stop event
  announced what was there (`auprocess.c:940`) and never read. `ExportPortInTime` with
  `Totals = {7}`: the client gets 6 samples, and `NothingLeftBehind` fails.
  `AuMElImD.man:53` calls the number that "of samples to read from the device". Only
  lengths that are a multiple of what one interrupt writes come to the client whole.
- *A stale count.* With `"store"` in `Preempted`, `FlowStateAgrees` fails: the
  interrupt between the count of element states and its storage
  (`auutil.c:1134`). With `"find"`, `"update"` or `"swap"` in it,
  `StartedFlowsRun` fails.
- *Division by zero.* With `"gather"` in it, TLC reports a deadlock of
  `GatherInputs`: no input is left and the average divides by their number
  (`auutil.c:815`). `"setup"` and `"mark"` are left out too; all other points are
  harmless in the instance.
- *Enabled twice.* With `"mark"` in it, `DeviceFollowsFlows` fails: `AuStartFlow` has
  enabled the driver and not yet noted it (`auprocess.c:343`) when a tick ends one
  flow and starts another. The driver is enabled again, `openDevice` makes the
  input the output's descriptor (`auvoxware.c:897`), and `closeDevice`, which then
  closes one descriptor twice, repeats the second for ever (`auvoxware.c:1051`).
- *Silent after a reset.* With `Hurried = TRUE`, `DeviceFollowsFlows` fails: a reset
  that comes before the tick that disables the driver disables it, but leaves the
  `processFlowEnabled` of `auprocess.c` set, and no flow ever enables it again.
- *The rate of a closed device.* `setSampleRate` cannot ask a device that is
  released what it makes of a rate; `AuSetupCompiledFlow` prepares the conversions
  for the rate it asked for (`auprocess.c:1155`). With a third card in `MCSetups`,
  `release` without `exact`, `DeviceFollowsFlows` fails.
- *The timer inside its handler.* `intervalProc` stops the timer "so that a
  potential race is avoided" (`auvoxware.c:1142`), but flows that it starts at another
  rate start it again with the signal unmasked: the invariant `TimerOffInHandler` fails.
- *Elements in error.* `FlowsBetweenSteps` with `Flows <- MCTwoFlows`, `Mortal = {"B"}`,
  `Outcomes = {"ok", "parse"}`: a flow that is on no list is removed from one
  (`audispatch.c:573`, `au.h:116`), and `StartedFlowsRun` fails; with
  `Mortal = {"A", "B"}`, `RunningFlowsExist` does.
- *The target of an action.* With the flow B of the chained action in `Mortal`,
  `RunningFlowsExist` fails: `act->flow` is never cleared (`auutil.c:956`).
- *Stopped and started again.* `AuFreeFlowElements` stops a flow that runs and frees its
  elements without looking whether it has stopped (`auutil.c:126-131`). With one more
  action of C on itself, `MCAction("Stop", "Any", "User", "C", "Start")`,
  `RunningFlowsExist` fails.
- *SIGHUP with retaining clients.* With `"hangup of retaining clients"` in `Happens`,
  `KillAllClients` closes such a client only once (`dispatch.c:267`); its slot
  survives above `currentMaxClients`, and `SlotsAccountedFor` and `ResetFreesAll`
  fail. `nasd.man:81` says that all resources are freed.
- *Killing a retaining client that is ready.* With `"kill of a ready client"` in
  `Happens`, `ServedClientConnected` fails: `Dispatch` reads from a client whose
  connection is closed.
- *Retained flows do not outlive the last client.* A reset frees them, as a BUG
  comment says (`dispatch.c:239-242`); `RetainedStay` allows it.
- *Forgotten output.* `WriteToClient` clears `NewOutputPending` for all clients when
  one buffer is full (`io.c:666-669`). Without the disjunct `Forgotten(c)` in
  `EveryRequestAnswered`, it fails in the same instance.
- *Listed and dead.* A bucket whose client leaves while a flow of another client
  plays it keeps its place in the list of components (`auutil.c:60`), and
  `ProcAuListBuckets` still lists an id that no longer resolves
  (`audispatch.c:396`); only `ProcAuDestroyBucket` unlists it. Clients of `Buckets`
  do not leave.

*Library:*

- *One end too many.* The handler of a sound in a loop counts its ends down and
  asks the server to stop at the last but one (`soundlib.c:449`). When one more
  loop ends before the request is executed, the handler and its scratch flow are
  given back for that event, and the Stop event that follows reaches the next sound
  in that flow. `BucketsShared` with `Behind = 1`: `SoundsPlayOut` fails.
  `AuSPFB.man` gives the count as how many times the bucket is played.
- *Somebody else's error.* While a call waits for its reply, `_AuReply` puts every error
  that it reads into `*ret_status` (`Alibint.c:982`), whichever request it is about, and
  the reply does not take it out: a call that succeeded after a failed request without a
  status is told that one's error. `AuListB.man:55` says "flush the output buffer and
  return the status from the server". `LibraryPrograms` with the invariant `StatusIsOwn`,
  which fails; `AnswersReachAskers` has the bound that is left: the error is one of an
  earlier request, and the handler got it as well.
- *Errors that are taken for replies.* `AuGetBucketAttributes`, `AuReadElement`,
  `AuGetDeviceAttributes`, `AuGetElements` and `AuGetElementStates` ignore that `_AuReply`
  returned false and read on after an error reply (`GetBucAttr.c:48`, `ReadEl.c:53`): a
  client that uses a bucket destroyed by another one waits, or takes what comes next for
  its data. In `ClientLibrary` that is `ReadOn`, and without `~astray` or `ReadingOn`,
  `EventsInOrder` and `CallsReturn` fail in `LibraryPrograms`; with them they hold up to
  that call. In `Buckets` such a call is "stuck". `AuSoundPlayFromBucket` does not look at
  the status of its elements (`Util.c:124`): the handler is never told of the end.
- *A count below the rest of a bucket* never stops a trivial flow: the number of
  samples is compared with what is read and only reduced (`auprocess.c:453-470`).
- *Two waits.* A thread in `AuNextEvent` of a program built with mutexes waits for a
  mutex that it holds, when it has to read before it can write (`Alibint.c:478`,
  `NextEvent.c:61`). `LibraryPrograms` with `Programs <- WaitsTwice` and the invariant
  `NoSelfDeadlock`, which fails.
- *Xt and a full socket.* Events read while a flush waits for room are queued
  for nobody. `Programs <- XtFull`: `XtKeepsUp` fails.
- *Two readers.* While one thread is in `AuNextEvent`, the reply that another one
  waits for may be read by it and thrown away, and the queue may be empty when
  it looks (`NextEvent.c:61`): `Take` follows a null pointer, and the program ends. The
  programs of the run have one reader.
- *2^16 requests.* The comment at `Alibint.c:868` says that the number found is the
  largest one possible; the code takes the smallest that is not below the last
  one read. The two agree exactly as long as `WideningExact` assumes.
- *A jump out of the work procedures* (`AuXtErrorJump`) leaves their flags set, and
  neither is ever registered again; the number of events is read before the
  callbacks that may take them; `AuDispatchEvent` keeps the next handler while a
  handler may unregister it. None of the three is in the model.

*Sound files:*

- *Telling and seeking.* VOC and 8SVX count positions from 3 and 8 bytes behind the
  beginning of the sound (`voc.c:255`, `8svx.c:244`); `SoTlFile.man:39` promises the
  position in the audio data. `FilesClosed` with `Placed <- AllFormats`:
  `TellLocatesAudio` fails.
- *AIFF sizes.* The sound chunk is closed without its own 8 bytes (`aiff.c:446`) and
  read with them, so that a sound loses its end. `Sized <- AllFormats`: `ReadsBack`
  fails.
- *Unfinished AIFF and 8SVX files.* What is left of the file is compared unsigned, and
  the loop goes on into the sound. `MayCrash <- AllFormats`: `NothingInvented` fails.
- Not in the run: rates below 3922 wrap in VOC; VOC and 8SVX with more tracks than
  they know; SND files to standard output keep the number of samples as that of
  bytes; an error in `SoundOpenFileForWriting` frees what `SoundCloseFile` frees
  again.

*Telephones:*

- *The wrong answerer.* Whoever puts a bucket on the server of a waiting caller
  is taken for the callee (`auphone.c:489`), where `auphone.man:36` has the called
  party answer. `PhonesBothWays` with `Phones = {ann, bob, cid}`, `Dials <- Chain` and
  the invariant `AnsweredByCallee`, which fails.
- *Answering a caller who leaves.* With `Careful = FALSE` a callee may answer in
  the moment in which the caller hangs up: it stops a flow that is gone, and the
  program exits on the error.

*Hazards of this code that no property covers*, besides those listed with a note in
`PROJECT.json`: frames of 3 bytes (`auprocess.c:486`); overruns of a recording
(`auprocess.c:629`); the count `outgoing` after a pause (`auevents.c:100`); the average
over no inputs (`auutil.c:815`); a descriptor number that is used again before the
client whose write failed is closed (`io.c:538`); the client an element remembers, which may be
gone (`auevents.c:76`); ids that exist twice (`resource.c:284`); cycles among
elements (`auutil.c:372`); output of a client with more input, which every flush puts off
(`io.c:604`); a second hang-up queued before the first has run (`auphone.c:474`).

## What is proved

`SoundStreamProofs` begins with the port alone. It proves for every `DataSize`, `LowWater`, `Chunk`, `Word`,
`WholeSamples` and bound that satisfy `PortAssumption` (a port has room, `Word`
exceeds it, rounding to whole samples does not add bytes):

| theorem | statement |
|---|---|
| `TypeCorrect` | `Spec => []TypeOK`: pointers stay in the ring, sizes between 0 and `DataSize` |
| `PortAlwaysSound` | `Spec => []PortSound`: that, and the write pointer is `currentSize` ahead of the read pointer |
| `StreamInOrder` | `Spec => []RingHoldsStream` |
| `MinibufferFilled` | `~Resample => (Spec => []MinibufFilled)` |

The inductive invariant `IInv` is `TypeOK /\ PointersAgree /\ RingHoldsStream
/\ WriteInProgress`. The first three are not inductive: between `BeginWrite`
and `CommitWrite` the interrupt moves the read pointer and shrinks the port, and
only `WriteInProgress` says why the bytes copied to `d` are still in free space
and still belong behind the last byte: `d` was taken from `write`, which only
the server moves, the room only grows while the write is in progress, and
after the copy the ring holds the new bytes from `write` on. No step may
clear the port in between, because requests are served one at a time. The
arithmetic of offsets (`Wrap`) and what the two passes of `readClient` take
(`Passes`) are lemmas; then there is one step for each action. `MinibufferFilled`
is proved from the lemma on `Passes` with the copying converter.

`ClientLibraryProofs`, for any programs, threads, buffers and sockets that satisfy
`LibraryAssumption` (threads share a connection only if the library is built with
mutexes), and every `Wrap` above 0:

| theorem | hypothesis | statement |
|---|---|---|
| `WideningExact` | fewer than `Wrap` requests since the last packet | `Widened` finds the number of the packet |
| `EventsStayInOrder` | `OneReader` | `Spec /\ []HeardInTime => []EventsInOrder` |

`OneReader` says that a thread that waits in `AuNextEvent`, or an Xt main loop, has the
connection for itself; threads that only make requests and scan may share one. As
`EventsInOrder` does, the theorem speaks of the time before a call reads on after its
error ("Errors that are taken for replies", above).

`HeardInTime` says that a packet is read before `Wrap` (in the code 2^16) more requests
have been made. Nothing in the library sees to that, so it is a hypothesis;
in `LibraryPrograms`, with a `Wrap` of 4, TLC checks that it holds (it is part of
`TypeOK`). `WideningExact` writes both numbers as a multiple of `Wrap` and a rest:
either they have the same multiple, or the packet's is the next one.

`EventsInOrder` compares what the program got, what is queued and what is to be read;
three things have to be known besides for a step to preserve it. `SentInv` and
`Numbered`: requests are sent and executed in the order of their numbers, so the
packets on their way have numbers between what was read last and what was executed,
and widening finds them. `StepInv`: `AuScanEvents` begins where it left off when it looks
at the queue again, and may skip only what it has seen, that is, what does not
match. `StackInv`: that place stays right because nobody takes an event in between.
Taking, discarding and scanning need the mutex, and who holds it can be read
off what a thread has yet to do: it holds it if it comes to an "unlock" before a
"lock" (`HeldAt`). So each operation has to put steps on the stack that
fit where the old one was (`Turns`), and within a thread nothing but reading and
flushing comes before the rest of a scan (`Alone`). This discipline is proved for
every call that can start inside another: the flush of a full buffer, the round
trip of a call with a status, calls of an event handler, the work procedures of Xt.

`SoundStreamProofs` then carries the invariant of the port to its use by the library
(`Copies` is `~Resample`; `Frames(F)` says that a frame has F bytes, any number of them:
the port, what the interrupt takes and the sound are whole frames, and rounding takes what
is above a multiple of F; the requests may split the sound at any byte):

| theorem | statement |
|---|---|
| `WritesAlwaysFit` | `Copies`: `StreamSpec => []WritesFit` |
| `IncomingAlwaysCovers` | `Copies`: `StreamSpec => []IncomingCoversOwed` |
| `SoundPlayedToTheEnd` | `Copies`, `Frames(F)`: `StreamSpec => []PlayedToTheEnd` |

Both hypotheses exclude divergences listed above (minibuffers under rate conversion,
and frames of 3 bytes, which the mask of `auprocess.c:486` does not round to frames). The heart of `StreamInv` is the credit (`Live`): port and `incoming`
together never exceed the port's size, bytes on their way are within `incoming`, and
as long as the sound has more, so is all that events ask for and nobody answered.
It does not hold before the start, when `incoming` is what `createPort` found
(`Fresh`). `EofOver`, `EndTaken` and `InOrder` say that nothing follows the end of the
sound on the way to the server, `Stopped` that a flow that is stopped is so for
good, `Conserved` that bytes are in exactly one place. `PlayedToTheEnd` also needs that an
EOF event in the queue keeps being right (`EofEmpty`), and that what was read is always
whole frames (`ReadInFrames`): when the end has been marked the port holds whole frames,
then, and the interrupt leaves none of them, whatever half frames it met before.

`ExportPortProofs`, for every size of the port, chunk, high water mark and
recording under `Undisturbed` (the port does not overrun; its size and the chunks are
even, because an odd reply is split wrongly; `MaxEvents` is above what can
wait):

| theorem | statement |
|---|---|
| `RecordingReadInOrder` | `Spec => []ReadsInOrder` |
| `RecordingReadWhole` | `WholeChunks`: `Spec => []NothingLeftBehind` |

`WholeChunks` says that each length asked for is a multiple of what one interrupt writes
("The last samples of a recording", above, is what happens otherwise).

Bytes are numbered as they are recorded, and the inductive invariant follows the numbers
from the ring to the client: the ring holds those above `Base`
(`RingHoldsRecording`), the client has received those below, and has asked for those
next to them (`Reading`); the events in the queue announce consecutive ranges from
there to what is not announced yet (`Positions`). `ReadsInOrder` alone says nothing of
what the next reply takes. `Phase` tells the three phases of a recording apart:
running, stopped with the Stop event in the queue, and handled; that each event of a
running port announces something (`Distinct`) is what bounds their number.

`EventsAndBucketsProofs`, for any number of records, flows and events, if at most one flow
posts (`OnePoster`; with two, `QueueWellFormed` fails, see above):

| theorem | statement |
|---|---|
| `QueueAlwaysWellFormed` | `Spec => []QueueWellFormed` |
| `ListImplementsQueue` | `Spec => ImplementsFifo`: every step of the list and its walks is a step of `AudioEventFifo`, or a stutter |

The inductive invariant describes the list as a sequence (`ListOK`), says that
what is allocated is in the list or in the hand of one walk (`Accounted`) and where both walks
are (`Walks`): with one posting flow either all records are the victim's or
none is, so that records leave at the head only. Under it the refinement is a case
for each action: removal of the head is the queue's `Write` or `Drop`, a post its
`Post`. `EventsAssumption` now states that there are records enough for all events.

The second half of `EventsAndBucketsProofs`, for any number of clients, scratch flows and
buckets, and any sizes of buckets and requests:

| theorem | statement |
|---|---|
| `SoundsAlwaysKept` | `BucketsSpec => []SoundsKept` |

`SoundsKept` says that samples are in their places, that who reads a bucket gets it
whole, and that what is listed resolves. It says nothing of a transfer half way, so
`SoundsInv` adds how far each call is: while a call fills a bucket or reads it, the flow
that serves it is at the same place of the same bucket as the library's loop, and all
before that place is filled, or has been received (`InCalls`); if the flow is gone, the
bucket has been destroyed and nothing is claimed of it. `OnceCreated` says that all that
refers to a bucket (calls, caches, flows) came after its creation, and `MemoryKept` that a
bucket keeps its memory while it resolves or a flow refers to it, which is what the
reference counts are for. The lemmas are one for each request of the server (`Collect` among
them, which frees buckets when flows go) and one for each step of the library.

`ServerClientsProofs`, for any number of slots and components:

| theorem | hypothesis | statement |
|---|---|---|
| `ComponentsAlwaysCounted` | | `Spec => []ComponentsCounted` |
| `OnlyConnectedServed` | `NoLateKill` | `Spec => []ServedClientConnected` |
| `SlotsAlwaysAccountedFor` | `Orderly` | `Spec => []SlotsAccountedFor` |
| `ResetsWhenIdle` | `Orderly` | `Spec => ResetOnlyWhenIdle` |
| `RetainedClientsStay` | `Orderly` | `Spec => RetainedStay` |
| `ResetsFreeAll` | `Orderly` | `Spec => ResetFreesAll` |

`NoLateKill` and `Orderly` leave out of `Happens` what the finding and the divergences
above need: the kill of a retaining client that is ready; refused connections
and a hang-up of retaining clients. `ComponentsCounted` is inductive with
the types alone. `ServedClientConnected` needs `RoundInOrder` (who is still to be served in
this round has its connection or is gone). The last four rest on `TableInOrder`:
`nextFreeClientID` is the least free slot, all clients are below
`currentMaxClients`, empty slots own nothing, `nClients` counts the established clients;
and a connection without a finished setup, or any while a reset is due, still has the
mode "Destroy", which is why no loop of `CloseDownClient` leaves it behind.

`ClientIOProofs`, for any number of clients, any requests and replies, and all sizes of
buffers and sockets that satisfy `IOAssumption` (they are not 0, and the watermark
is not below the size of a buffer):

| theorem | statement |
|---|---|
| `RequestsServedIntact` | `Spec => []RequestsIntact`, which includes `TypeOK` |
| `InputIsNoticed` | `Spec => []InputNoticed` |
| `RepliesWholeInOrder` | `Spec => []RepliesInOrder` |

The inductive invariant `IOInv` has, besides types and sizes: `Positions` (from `bufptr`
on, the buffer of a connection holds exactly the units that have arrived behind the
requests served so far, and begins with a header as soon as the request before is
done; a closed connection has no buffer), `Lent` (a free or available buffer has
nothing left behind its last request), `Rounds` (who is ready or has input is connected;
the request being served is whole) and `Noticed` (`ClientsWithInput` is right at
any time, not only where the server is about to sleep). Without `Positions`,
`RequestsIntact` says nothing of what the next read finds; without `Lent`, a client
would go on with what another one left. `RepliesInOrder` is inductive together with
`IOInv`. `FlushClient` and `WriteToClient` preserve what was written
(`FlushKeeps`, `WriteKeeps`), and so does a whole reply (`ReplyWritten`).

`PhonesAndFlowsProofs`, for any number of phones, slots and calls, and whoever dials whom, with
careful users or without:

| theorem | statement |
|---|---|
| `TalkersAreBusy` | `Spec => []BusyWhileTalking`, which includes `TypeOK` |

`BusyWhileTalking` is about two phones that talk to each other; what makes it so is
local to each connection (`ConnSound`): a request, the flow that it starts and the event
when that stops exist one at a time, and the first of them that plays leaves a bucket that
stays until the server reaps the connection. The requests come from phones that do not
look at what is there; that they are right is `PhoneSound`: before its flow rings,
and after the call was answered, the flow of a phone is quiet, in the first case
without a bucket, so that none is left twice, and in the second with the one that the
voice is to keep, whatever happened to the callee since then. That no slot has
two buckets (`NoneTwice`) is why `Reap`, which takes one out, takes out the right one.

The second part of `PhonesAndFlowsProofs`, for any flows with any actions on each other,
any outputs and rates, and any cards:

| theorem | hypotheses | statement |
|---|---|---|
| `DeviceAlwaysFollows` | `NotedAtOnce`, `~Hurried`, `TakesAnyRate` | `FlowsSpec => []DeviceFollowsFlows` |

`Preempted` is any set of points otherwise: the interrupt may also come where
`FlowsBetweenSteps` keeps it out (within `AuProcessFlows`, and between counting the
elements and storing the state). The hypotheses exclude the three divergences listed
above, "Enabled twice", "Silent after a reset" and "The rate of a closed device", and no
more: `NotedAtOnce` is `"mark" \notin Preempted`, `TakesAnyRate` that a card that is
released between flows takes the rates it is asked for.

`DeviceFollowsFlows` is about the moments when nothing is in progress. `DeviceInv` says what
holds while both stacks are at work. `Shaped`: an enabling of the driver is only ever
on top of a stack, and what the interrupt calls stays between its own frames.
`NotesAgree`: `enabled`, which caches the driver's `processFlowEnabled`, differs from it only
while a `mark` is on top, and then by exactly what that will note; the interrupt is not
there when the server is at that point. `RunsEnabled`: compiled flows run enabled, or the
enabling is next; a driver that is about to be disabled has nothing to run, although
the interrupt may have recompiled the flows since that was decided. `RateKnown`: from the
first compilation on, the noted rate is the card's and the timer runs whenever the interrupt
does not. `CardSound` is about the card alone: it is open as long as it is enabled, or for
good if it is never released. For each kind of frame there is a lemma saying what
it puts on the stack (`SimpleFrames` for those that touch no device), and for each of the
three that touch it (`setup`, `enable`, `mark`) one saying what it does to the card.

The last part of `PhonesAndFlowsProofs`, for any flows with any actions, outputs, rates and
cards, any `Preempted`, any `Outcomes` and hurried resets included:

| theorem | statement |
|---|---|
| `RunningAlwaysExist` | `FlowsSpec /\ [][Undisturbed]_flowVars => []RunningFlowsExist` |

Nothing is asked of the constants: no program and no point of preemption is left out.
`Undisturbed` is about steps, and the theorem says which of them must come before the
interrupt runs a flow without elements; up to the first, there is none. The code can take
all of them, and for each TLC finds a behaviour that comes to such a flow with this one
alone, so that none can be left out:

- `Intrusion`: the interrupt comes into a pass over the flows or between the count and
  the store of a flow's state, while compiled flows run ("The interrupt runs freed
  elements", above). It may come into the passes when there are none, and anywhere else.
- `Unlisted`: a flow is installed with an error that is found before the flow is on a list
  ("Elements in error").
- `Misfire`: an action starts a flow whose elements are about to be freed ("Stopped and
  started again"), or it changes another flow that may be destroyed, and neither this change
  nor what is left to do is followed by a pass ("The target of an action"). Actions may
  change any flow otherwise.

That a flow is stopped before its elements are freed is in two lines of
`AuFreeFlowElements`; that it is then out of the compiled flow depends on what is left to do
all over the server. `RunningInv` says it of `ToDo`, the two stacks joined, the interrupt's first:

- `RequestShaped`: a request that frees elements has that at its end, and before
  it only the stop, or nothing any more that starts the flow (`Quieted`). No flow
  without elements is set up or destroyed before that.
- `FlagsChecked`: an element that has changed and not yet been looked at for actions
  has a `check` before the `count` of its flow. `Counted`: what is pending for a flow is
  what its elements amount to, or a count of it is still to come, and what a `store` is going to
  store is right now.
- `Covered`: what may change the pending state of a mortal flow is followed by a comparison
  or a pass over all flows. `ToBeSettled`: as long as the pending state of such a flow is not
  its state, one of them is still to come. With `Counted` this is why nothing but the end of
  a request leaves the two equal (`Quiescent`).
- `ListOrdered`: the flows with elements are in a list, in the order of a rank, so that the
  pass that makes pending states the states meets all of them (`Updated`); `UnlinkLists`
  and `InstallLists` are the two changes of the list.
- `Compiled`: what a pass has compiled so far has elements and is pending to start.
  `RunningStarted`: what runs has elements and, except while the states are replaced, the state
  `Start`, which is what `AuFreeFlowElements` looks at.
- `HeadOnly`: a pass or a store is only ever at the top of `ToDo`. This is what
  no `Intrusion` means, and what nearly every step needs: nobody else changes flows
  meanwhile.

Most actions replace the frame on top by others; `PlainStep` says what follows if they do no
more, and `FlagsStep`, `CountedStep` and `SettledStep` what each conjunct needs of the frames
if elements or states change. `EndStep` is for the actions at the end of a request, and
`ServeRuns` for its beginning.

*Lemmas about recursion.* What a recursive definition computes is not provable by
the induction theorems of the library. The proofs use instead that a set of numbers that
is not empty has a least element (`LeastElement`, from the well-foundedness of inclusion
among finite sets), and that a function given by steps exists
(`RecursionExists`); with them the recursive functions of `Start`, `WriteReply`, the
folds behind `SumOf` and `FlattenSeq`, and the loop of `ReadAll`, are shown to satisfy their equations and to be unique.

Assumed is what the constants' ASSUME states, and the model. Model-checked only are:
all liveness properties (`EveryEventIsHandled`, `SoundEnds`, `RecordingEnds`,
`EveryRequestAnswered`, and those of `Buckets`, `ClientLibrary` and `Phones`), which the
provers cannot do; `FlowStateAgrees`, `StartedFlowsRun` and `StartedFlowsHeard` of `ClockedFlows`; the invariants of `SoundFiles`; and
`AnswersReachAskers` of `ClientLibrary`, of which no proof was attempted. `FlowStateAgrees` holds for the actions of
`MCActions` and not for any, too: it includes the bound `MaxDepth`, and chains of
actions can be of any length.

## What is not modelled

- Sample processing: mixing and conversion are numeric loops over data; how much
  of a port they take and give is modelled.
- Of the voxware driver: mixers and gains, fragments, device I/O, openings that
  fail, and how often the timer ticks. The drivers of other platforms.
- Monitors, and the devices and radios that are components like buckets but exist
  from the start. Of buckets: access masks, attributes, buckets that outlive
  their client, and scratch flows beyond the pool, which are not reused.
- Of the library: opening a connection and I/O errors, packets that are read in
  parts, `AuRequeueEvent` and `AuPeekEvent`, and the calls that only build a request.
- Of sound files: standard input and output, errors of the disk, chunks that NAS
  does not write itself.
- Applications other than `auphone`: each is a user interface over calls that are
  modelled for any caller. Two of the longest files of `auphone`, `ringin.h` and
  `ringout.h`, are the samples of its ring tones, and about half of the server's
  system layer and of the drivers is code for platforms and transports that a
  build leaves out.
- Connecting and authorizing, byte swapping, configuration, logging: stateless or
  run once; their outcome is an input of the models.
- Allocation failures, everywhere: among them `clients[i]` left dangling when the
  connection of a new client cannot be allocated (`dispatch.c:333`).
- In `ServerClients`: `DE_TERMINATE`, and ids that a client uses twice. In
  `ClientIO`: events and error replies, requests above `MAXBUFSIZE`, a new
  connection that gets the number of a descriptor closed before, byte order; and, since
  data is counted in units of 4 bytes, headers of which a part has arrived
  (`io.c:196-208`), reads that find nothing (`io.c:233`), and paddings that are written
  in part (`io.c:428`, `io.c:517`).
- In `AudioEvents`: clients. `WriteAuEventsToClient` drops the events of one that is gone
  (`auevents.c:76`), and the record that asks for another pass over the flows
  (`auevents.c:134`) is no event of a client; here all records are events, and written.
- In `ClockedFlows`: an interrupt inside the interrupt (the signal is masked while
  its handler runs, but `AuUnBlockAudio` in the handler unmasks it, and
  `TimerOffInHandler` says when one would come), bundles, sums and constants.
  `StartedFlowsHeard` relies on the default actions, which restart all elements of
  a flow: the run says nothing of flows with other actions.

## Plan

Done: `AudioEventFifo`, `AudioEvents`, `ImportPort`, `SoundStream`, `ExportPort`,
`ServerClients`, `ClientIO`, `Phones`, `ClientLibrary` with `SequenceNumbers`,
`Buckets` and `ClockedFlows` with `SoundCard`, each with proofs; `SoundFiles`.

Next, in this order:

1. monitors and devices: monitor events, `AuSetDeviceAttributes`, and openings of
   devices that fail;
2. the interrupt inside its handler, and `SetElementParameters`, in
   `ClockedFlows`; the owner of elements in `ServerClients`, and clients that
   leave in `Buckets`;
3. an abstract specification of a stream (what is written is played, once and in
   order, and then a Stop event comes) implemented by `SoundStream`, and one of
   a client's resources implemented by `ServerClients`.

Theorems to prove next: for `ClockedFlows`, that what is started runs (`StartedFlowsRun`),
for which `Covered` has to be said of all flows, mortal or not, and what has been compiled
so far of all that a pass has left behind; for `ClientLibrary`, that an answer reaches its
asker if one thread reads, on top of the lock discipline that `EventsStayInOrder`
rests on.
