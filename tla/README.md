# TvHolic: specifications, model checks and proofs

TvHolic is a DLNA media server in C++ and Qt 4: it lists films over UPnP and
streams them to TV sets over HTTP.  It consists of a small application
(`src/src`) and of the BRisa UPnP library it carries along (`src/qt-brisa`).
This directory holds TLA+ modules of the parts of the server that are hard to
get right, TLC configurations that check them on small instances, and TLAPS
proofs of what matters most for every instance.

    tlc -workers 2 -config MCTranscoding.cfg MCTranscoding     # a run
    tlapm TranscodingProofs.tla                                # the proofs

`PROJECT.json` is the index: components, runs, the lines of the source each
definition stands for, faults the properties catch, findings, hazards, theorems.

Contents: 1 the system, 2 the plan, 3 the modules, 4 the runs, 5 fairness,
6 the proofs, 7 what the checks have shown, 8 what is not modelled.

## 1. The system

Paths are relative to `src/`; U is `qt-brisa/src/upnp`, C is `qt-brisa/src/core`.

Threads: *Main* runs the Qt event loop with the device, the services, the
transcoders and the children.  `HttpServer` starts the *session threads*, each with
an `HttpSessionManager` and its sessions: one, unless `setThreadsNumber` was called,
which TvHolic does not do.  SIGCHLD may be handled in any of them.  `SIGINT` writes a byte to a pipe that Main reads.

| Component | State | Operations | Talks to | Hard | Correct when |
|---|---|---|---|---|---|
| Child processes `src/PipeProcess.*` | pid, exit status and pipes per object; registry of pids; a mutex that calls and the signal handler share | `start`, `kill`, `isRunning`, destructor, SIGCHLD handler, death and stdout notifiers | kernel; transcoder by signals | asynchronous signals, pids handed out again, coalescing, a handler that locks | registry and objects agree, `kill` hits its own child, each start is finished once, deaths are noticed |
| Ring buffer `src/RingBuffer.h` | memory, two indices that run to twice its size | `readToRing`, `readFromRing` | pipe and socket | masks, two-part transfers, refused writes | it is a bounded FIFO |
| Mencoder transcoder `src/MencoderTranscoder.*` | state, child, ring, thresholds | start, terminate, `process`, finish, destructor | PipeProcess, socket | back pressure, late signals, restart | bytes in order, once, all of them; bounded buffers |
| Media streaming `src/TranscoderService.*`, `src/AsIsTranscoder.*` | `m_sessions` (file by session), transcoders | request, bytes written, notifier, terminate, delete | sessions in another thread, Main's queue | two threads without locks, queued events, pooled sessions | a client reads the answers to its own requests, films end with their clients |
| HTTP sessions `C/httpsession*`, `C/brisawebserversession.*` | buffer, parser state, request, body counters, pool of sessions, timer, write buffer | new connection, read, respond, timeout, connection dies | services, sockets | TCP cuts anywhere, sessions are used again | requests reach the services as they were sent; one session, one connection |
| HTTP server threads `C/httpserver.*`, `C/httpsessionmanager.*` | list of threads, next thread, pool of each | start, stop, incoming connection | sessions, Main | posting to a thread that quits, pointers to deleted sessions | each connection has one session in a live thread |
| Web services and responses `C/brisaweb*`, `C/http{message,request,response}*` | table of services, the file of a response | look up, ranges, headers, body | sessions, the disk | ranges at the limits, bodies in pieces, files that change | the bytes sent are those asked for, as many as announced |
| Eventing `U/device/brisaevent*`, `U/brisaabstracteventsubscription.*` | list of subscriptions: date, timeout, next key | subscribe, renew, unsubscribe, `variableChanged` | sessions, state variables, control points | list shared by threads, erase while walking, expiry, keys go round | list and objects agree, keys in order, each subscriber learns the last value |
| Device and service `U/device/brisa{device,service,action,control}*`, `U/brisa{abstractservice,statevariable,action}*` | description, actions, state variables | start, stop, call an action, answer, set a variable | web server, SSDP, eventing | requests cross threads, messages may be anything, keys go round | an answer is one to what was asked; what is told of a variable is right |
| SSDP `U/ssdp` | running flag, sockets | announce, byebye, answer searches | network | lost and repeated datagrams | announced while running, found when searched for |
| Control point `U/controlpoint` | known devices, pending downloads, calls, subscriptions | found, gone, description arrived, call, answer, subscribe | network, application | answers out of order, event loops inside event loops | each device is known as it is; answers reach their callers |
| Content directory `src/ContentDirectoryService.*`, `src/MediaInfo.*`, `src/DIDL` | shared paths; the disk is its tree | `addPath`, Browse | service, mplayer | files come and go between two requests | a television comes to all films and to nothing else |
| Main program `src/TvHolic.cpp` | signal pipe, port | start up, SIGTERM and SIGINT, end | all | signals at any moment, also in a forked child | it ends when told to, and says farewell |
| Configuration `C/brisaconfig.*` | parameters, a file | update, save, get, set, remove, items | other processes | read, change and write by several | what was set last is what is read |
| Older media server `qt-brisa-mediaserver` | two trees of containers and items | add a file, Browse | service | containers known by name | each file in its place |
| Utilities, `src/List.h`, `src/Config.*`, `src/Encoder.*`, `ConnectionManagerService` | – | – | – | – | – |

`MencoderTranscoder` is built but the present application serves files as they
are (`AsIsTranscoder`); the control point and the configuration come with the
library and the application does not use them.  `qt-brisa/deps` (third party),
`qt-brisa/android` and the documentation are no part of the system's core.

What goes wrong here without a test noticing (each at its line under "hazards"
in `PROJECT.json`): signals between two instructions of a lock; pids and pooled
sessions that name somebody else by the time they are used; queued slots that run
after what they tell of is over; a stream that TCP cuts anywhere; a list two
threads change; counters that go round; answers in another order than their
requests; datagrams that are lost; files that change between two looks at them;
a child, a client or a subscriber that waits for something nobody does any more.

## 2. The plan

In order of importance:

| # | Module | Composes | Abstract specification | State |
|---|---|---|---|---|
| 1 | `RingBuffer` | | `BoundedFifo` (refined, proved) | done |
| 2 | `PipeProcess` | | | done, safety proved |
| 3 | `MencoderTranscoder` | the pipe, the ring as a bounded queue, the socket | in its properties: one stream | done, safety proved |
| 4 | `MediaStreaming` | sessions, service, transcoders, Main's queue | in its properties: `Answers` | done, safety proved |
| 5 | `HttpParser` | TCP, parser, dispatch | in its properties: the sequence of requests | done, safety proved |
| 6 | `EventController` | session threads and Main | | done, safety proved |
| 7 | `ServiceCall` | parser, service, action, hooks of the vendor | `Suits`: the answer told from the message | done, proved (with `WebServer`) |
| 8 | `WebServer` | threads, managers, sessions, Main's queue, `ServiceCall` | in its properties: `RightAnswer` | done, safety proved |
| 9 | `Discovery` | device, SSDP, control point, lossy network | the control point's set follows the device | done, safety proved |
| 10 | `StateVariable` | service, multicast events, receiver | | done, safety proved |
| 11 | `EventProxy` | control point, QHttp, device | | done, safety proved |
| 12 | `WebFile` | response, session, disk | `Wanted`: the bytes of a range | done, safety proved |
| 13 | `ContentDirectory`, `MediaLibrary` | directory, disk, mplayer | what is reached from the root | done, the first one proved |
| 14 | `Description` | device, pages, control point, fetchers, calls | what the device has | done, safety proved |
| 15 | `Configuration`, `MainProgram` | processes and a file; signals and children | what was set last | done, safety proved |

Left: a theorem about `MediaLibrary` (section 6 says why).

## 3. The modules

**`BoundedFifo`** – what a ring promises: a sequence of at most `Size` bytes,
`Put` at one end, `Take` at the other, as long as there is a consumer; when it has
gone, nothing more is handed over, and what is in the queue is nobody's.

**`RingBuffer`** (RingBuffer.h, `readToRing` and `readFromRing` of
PipeProcess.cpp).  `write_idx` and `read_idx` run over `0..2*Size-1`, as the
masked indices of the code do; `FirstHalf` is the part of a transfer before the
end of the memory.  A step is a whole call, which moves a burst in one or two
parts.  The device takes what it is given until its client has gone (`gone`, which may
happen between the two writes of a call); from then on `write()` answers -1, which
`readFromRing` adds to the bytes it has done, so that the read index moves back.  The
used size may then pass the size of the memory, and the free size wraps at `Word`.  The
power of two is not needed: all that the masks do is `%`.

**`PipeProcess`** (PipeProcess.cpp).  A call takes the steps of the code – mask
SIGCHLD, lock, body, restore the mask, unlock – as `Call`, `Lock`, `Fork` /
`OtherBody` / `Destroy`, `Unmask`, `Unlock`.  `Deliver` puts the handler on top of
any thread that has the signal unblocked; `HandlerLock`, `Waitpid`, `ChildDied`,
`HandlerReturn` are its steps.  The kernel has children, zombies, and one pending
SIGCHLD, however many have died; it hands out free pids again.  `DeathActivate`
is the notifier of the death pipe, which emits `finished()`.  `started`,
`finished`, `reported` and `childRun` are history.

**`MencoderTranscoder`** (MencoderTranscoder.cpp).  `pipe`, `ring`, `sock` and
`received` are the four places a byte can be; a byte is the run that wrote it and
its number.  `Portion` is the arithmetic of `process()`; `onStdout` is the notifier
(`onStdoutActivate`, then the slot), which also fires while the ring is full.
It takes a ring for the queue that `RingBuffer` was shown to be, and the life of
the child for what `PipeProcess` was shown to do.

**`MediaStreaming`** (TranscoderService.cpp, AsIsTranscoder.cpp, the life of
sessions in C/httpsession*.cpp).  A session thread runs `newConnection`,
`onRequest` in its three observable parts (entry, connect, respond), `Flush`,
`onTimeout`, `onConnectionDie`.  Main serves `queue`, to which bytesWritten()
events and deferred deletes are posted: `onSocketBytesWritten` in its five parts
(look at the socket and disconnect, take the entry, make the transcoder, which takes
the descriptor, connect it to `disconnected()`, start it), `onWriteActivated`,
`deleteTranscoder`.  A client may leave before each of them; `missed` marks a transcoder
whose client went before it was connected.  `wire` is what each client has been sent, the response head
through the write buffer and the body past it.  `Splits`, `Pipelining`,
`Leaving` and `Timeouts` say what the world does.

**`HttpParser`** (C/httpsession.cpp `onReadyRead`, C/brisawebserversession.cpp
`hasEntityBody`, `atEnd`, `onRequest`).  A stream is a sequence of tokens (line
ends, request lines, headers, chunk sizes, words); a version is a text that
`HttpVersion` reads.  `onReadyRead(n)` gives the
session the next n tokens, and the actions of `Parse` are the turns of the
handler's loops up to its return (`pc = "idle"`).  Error responses close
(`Refuse`).  What a service gets is appended to `dispatched`.

**`EventController`** (U/device/brisaeventcontroller.cpp and the subscription).
Session threads, any number of them, run `subscribe`, `renew` and `unsubscribe`; Main
changes a variable (`Change`) and walks the list (`Notify_read`, `Notify`, `Erase`,
`EndOfList`).  There is no lock.  `append` and `removeAt` have a step in which they
begin, with the list as it is then, and one in which they end: if it has changed
meanwhile, one of the two operations is lost, or there is garbage in the list
(`overlapped`, `crashed`).  `getNextSeq` has one in which it reads the object and one
in which it writes it, in a session thread for the first event (`at`) and in Main for
the others (`making`): if an event was made in between, the key is made from an
outdated reading (`mixed`).  `visit` is the iterator.  QList closes a gap from the nearer end, so
that an erase in the front half leaves the advanced iterator right and one in the
back half makes it pass over an element, or over the end of the list (`crashed`).
Who meets Main in the list may crash (undefined behaviour), or not.

**`ServiceCall`** (U/device/brisaactionxmlparser.cpp, brisacontrolwebservice.cpp,
brisaservice.cpp, U/brisaaction.cpp, U/brisaabstractservice.cpp).  Pure functions:
`parseSOAP` takes a message apart as the parser does, `call` looks the action up,
runs the hooks `pre`, `post` and `failure` of the vendor around it, and compares
the names of arguments.  `Proper` and `Suits` say what the answer should be,
without following the parser: of a message that is proper, has every argument come
back once (`Sent`), from the first action of the name (`ActionOf`), or is the fault
that of who refuses first; a child without a name or type (`Unnamed`) gets 401.

**`WebServer`** (C/httpserver.cpp, httpsessionmanager.cpp, brisawebserver.cpp, the
sessions of C/brisawebserversession.cpp, `startWebServer` and the tables of
U/device).  Main: `setThreadsNumber`, `start`, `incomingConnection`, `stop` and its
loop `stop_next`, `serve` (a slot that a session has posted).  A thread handles
what is `posted` to it in order (`newConnection`, `writeResponse`,
`DeferredDelete`) and ends (`run_end`); its sessions read requests and die.  An
answer is posted to a session, not to a connection.  `RightAnswer` tells the answer
to a request from its path, its method and `Suits`, not from the table of services.

**`Discovery`** (U/ssdp, the announcing half of U/device/brisadevice.cpp, the
listening half of U/controlpoint).  One device with embedded devices and services,
one control point with its timer, three channels (multicast, searches, answers)
that keep their order and lose datagrams, and downloads that fail or end late.

**`StateVariable`** (U/brisaservicexmlhandler.cpp, brisastatevariable.cpp, the
multicast half of the event controller, U/controlpoint/brisamulticasteventreceiver.cpp).
A description is parsed into variables, a method sets one (`SetValue`:
validation, `setAttribute`, the key, the datagram), the receiver reads.  What Qt
makes of a text is in the functions `Number` and `Read`.

**`EventProxy`** (U/controlpoint/brisaeventproxy.cpp, `httpResponse` of
brisacontrolpoint.cpp).  QHttp is a queue that numbers its requests; the device
is external.

**`WebFile`** (C/brisawebfile.cpp, `prepareResponse` of C/brisawebserversession.cpp,
`writeEntityBody` of C/httpsession.cpp, C/http{message,response}.cpp).  A body is the sequence
of places in the file it came from; a copy of a message shares or moves the body
as the constructors do (`copied`).  `writeEntityBody` is that of `HttpSession`, which
sends the whole file: the one of `BrisaWebserverSession`, with its loop over a range,
takes a `QTcpSocket *` and so overrides nothing (finding 4).  `Write` is somebody else
at the disk.

**`ContentDirectory`** (src/ContentDirectoryService.cpp, MediaInfo.cpp, src/DIDL)
and **`MediaLibrary`** (qt-brisa-mediaserver).  The first reads the disk at each
request and what mplayer prints line by line.  A run of mplayer (`Runs`) that could not be
started or did not end in time leaves the numbers as their memory was (`left`), since
`fillMediaInfo` returns before it sets them and Browse only warns; a size, a `qint64`,
is given for an `int` (`asInt`).  The second keeps containers in a
`memory` of places, as its pointers do.

**`Description`** (U/device/brisadevicexmlhandler.cpp, brisadevice.cpp, brisaservice.cpp,
U/controlpoint/brisacontrolpoint{,device,service}.cpp, brisadevicexmlhandlercp.*).
`writeDevice` makes a document, `parseDevice` reads it and stops at each service
to `fetch` its description in an event loop of its own: `readings` is the stack
of readings that wait for one another.  A text is a sequence of tokens, a document
the sequence of its elements with their depths.  `DescriptionConstants` says what
devices there are: attributes, icons and services have all their fields, the
application tells locations on the device's own server, and the address of this server
has its port after the second colon.

**`Configuration`** (C/brisaconfig.*).  Processes with a manager each; a file that
is empty from its opening until it is closed.

**`MainProgram`** (src/TvHolic.cpp, `getPort`, the device's `start` and destructor as
far as signals and ports go).  `stage` is the place in `main`; a forked child runs
the handlers of its parent until `execv`.

**`Deliveries`** (`StateVariable`, `EventProxy`, `WebFile`) and **`Data`**
(`ContentDirectory`, `MediaLibrary`, `Configuration`, `MainProgram`) put
modules that share no state side by side, each on constants of its own: a
behaviour is one of one part (`delivery`, `part`), while the others stand still, so
that their states add up and do not multiply; each property is that of the
module, asked of its own part.  `DeliveryParts` and `DataParts` prove that a
behaviour of the whole is one of each part.

The `MC…` modules supply the values of constants that a configuration cannot
write down.  `MCTranscoding` runs `RingBuffer`, `PipeProcess` and
`MencoderTranscoder`, and `MCParts` runs `Deliveries`, `Data` and `Description`, one of
them at a time (`moving`).  `MCEventController` has behaviours of one session thread with
four subscriptions and of several threads with two (`meeting`).
`TranscodingProofs` (ring, children, transcoder), `MediaStreamingProofs`,
`HttpParserProofs`, `DeviceProofs` (`Description` and `EventController`),
`WebServerProofs`, `DeliveriesProofs` and `DataProofs` (with `Discovery`) hold
theorems, `SequenceLemmas` the facts about
sequences that they share.  Where two modules are run or proved about together their
names differ (`RingInit`, `PipeSpec`, `DiscoveryNext`, `DescriptionSpec`).  Definitions
named `Fault_…` stand before the definition they are a wrong version of; no
specification uses them, and with one of them in the place of its original the
property `PROJECT.json` names ("mutants") fails.

## 4. The runs

| Run | Asks | Instance and why it is enough |
|---|---|---|
| `transcoding` | is the ring a FIFO? registry, `kill`, mutual exclusion, accounts of starts and finishes; are deaths noticed, do calls return? one stream, the reserve, ends; is the pipe emptied? | the ring: 4 bytes of 2 values, bursts of every size, a device that refuses from any write on: every position of both indices, both kinds of wrap. The children: 2 objects, 2 threads, 2 pids, 2 starts each: pids are handed out again, signals coalesce, a handler interrupts Main and another handler. The transcoder: thresholds 1 and 3, a ring of 2, a pipe of 2, 2 runs of 4 bytes: every fill of every place |
| `ring_refused` (violation) | does `free_size` tell the room there is? | the same ring |
| `pipe_death_byte` (violation) | does every death write its byte? | 1 start each |
| `mencoder_tail` (violation) | is all sent when the child has ended? | the same transcoder |
| `media_calm` | does a patient client read exactly the answers to its requests, and all of them? | 2 connections that use 1 session one after the other, 2 films of 2 chunks, 2 requests each |
| `media_rough` | is a session ever given twice, a foreign film sent, a transcoder started twice, a film left open? | 2 connections on 1 session, a film and a last page, everything the world can do, at each of the five steps of Main |
| `http_parser` | do the services get what plain clients have sent, however TCP cuts it? | 2 messages per connection of 12 kinds (plain, two-line and chunked bodies, one whose last line has a colon and no end, missing headers, unknown methods, versions), any number of connections |
| `eventing` | list, keys, first event, does a subscriber learn the last value? | one session thread: 4 subscriptions (the fewest of which one is passed over), timeouts of 1 and infinite, expiry, a change; two threads: 2 subscriptions, 2 changes, operations that overlap; keys up to 1, which go round within 2 changes |
| `calls` | does a client read the answers to its own requests; do calls and connections have live sessions; is a client that waits answered? | 2 connections, 2 threads, a pool of 1, `stop` at any moment: a session is used again, one is deleted that a call still names, a connection meets a thread that quits; messages that are no SOAP, for another type, with too many or too few arguments |
| `discovery` | does the control point's list follow the device; does a search find it? | 2 starts (the second crashes), 1 loss, 2 downloads at a time, an embedded device, a service, every search target |
| `parts` | are variables, subscriptions, heads of files, directories, descriptions, results, parameters and the end of the program right? | `Deliveries`, `Data` and `Description`, see below |
| `range_sent` (violation) | is the range sent that was asked for? | the same files |

The parts: variables of six types with and without ranges, keys up to 2
(they go round), 3 datagrams; 2 proxies with 4 requests between them, in any
order of answers; files of 0 to 3 bytes and every range header with bounds up to 3,
numbers or not; a tree three deep, 3 paths shared one inside another, 3 files
that come or go, ints up to 4 with films of 3 and 12 bytes, runs of mplayer that end,
print what is no number, or do not end; 3 files in directories inside one another and of one name; a
device with an icon, an embedded device and 2 services, with addresses of
both forms or of one id, 2 settings, 2 locations read inside each other, 2 calls; 2 processes
that die anywhere, with a stored key that has a dot; 2 ports, a signal pipe of 2
bytes, signals at every stage and in the child.  Each of these is as small as the
case that its property is about lets it be: two of a kind to be mixed up, three
where one lies between.

Bounds are constants with a comment "bound" (`MaxStarts`, `MaxBytes`,
`MaxRequests`, `MaxMessages`, `MaxChunks`, `MaxTime`, `MaxChanges`, `MaxLost`,
`MaxGets` and the like): they limit how long a run goes on, not what may happen
within it.  `CHECK_DEADLOCK FALSE` stands where a system may rightly stop: all
children have been started, all connections used, all changes made.  In the
liveness runs, these bounds make every behaviour a finite piece of work, whose
end the property asks for.

`SYMMETRY` is used in `eventing` only (subscriptions are interchangeable; its
properties are invariants).

## 5. Fairness

- `PipeFairness` of `PipeProcess`: a thread that can run does; the event loop serves
  notifiers; a deliverable signal is delivered; a mutex that becomes free again and
  again is got (strong fairness of the two lock steps: futex-based mutexes wake
  their waiters).  No child is made to exit and no call to be made.
- `Fairness` of `MencoderTranscoder`: both notifiers are served, the client reads on.
  No more than this is claimed: a client that stops holds the pipe up, rightly.
- `MediaStreaming!MainFairSpec` (`media_rough`): Main serves its queue, and nothing
  else is fair; `FilmClosed` needs no more.
- `MediaStreaming!FairSpec` (`media_calm`): each event loop serves its parties; strong fairness
  where parties of a thread disable each other for a while.  The notifier of a
  closed descriptor gets no fairness: select() does not report it.
- `HttpParser!FairSpec`: a handler that runs goes on, TCP delivers what was sent.
- `WebServer!Spec`: Main serves what is posted to it and goes on with a `stop` it
  has begun; each thread serves what is posted to it, each session what its socket
  tells it.  `ClientAnswered` holds without the help of the session's timer.
- `DiscoverySpec`: sockets are read and downloads end, one way or the other.
- Clients, timers, clocks, children, applications and the network's losses are
  never fair.

## 6. The proofs

`TranscodingProofs`, the ring: for every `Size` and set of bytes, and a device that
goes at any moment, also in the middle of a call,

- `RingTypeCorrect`, `RingNeverOverfull`: from `RingInv`, the types together with
  `~gone => used_size <= Size`; the latter is not inductive alone, since what an
  advance does to `(w - r) % (2*Size)` depends on where both indices are.  The types
  hold whatever the device refuses; that the ring is never overfull does not, as
  `ring_refused` shows, and is claimed only while the device takes what it is given.
- `RingImplementsFifo`: the refinement of `BoundedFifo` with `Contents`, the bytes
  from `read_slot` on, round the end.  `PutStep` and `TakeStep` show, position by
  position, that a call in two parts is one `Put` or `Take`.  When the device has
  gone it is only shown that nothing more is handed over.

The child processes: for all sets of objects, threads and pids,

- `PipeTypeCorrect`.
- `MutualExclusion` (`OneInside`), from `Inside`: who is in a critical section
  holds the mutex, and nobody else does.
- `RegistryIsTight`: with `Inside`, as only one party touches registry and pid
  fields between its two assignments.
- `RunsAreKnown`, `KillIsSafe`: in addition every registered pid has a child of
  the object it is registered for, so that `kill` can reach no stranger, although
  the kernel hands pids out again.
- `StartsFinishOnce`, `ReportsAreRecent`: the accounts of each object, and the
  exit status that never belongs to an older run than the finish that reports it.
The transcoder: for all thresholds, sizes of ring and pipe, numbers of
runs and bytes,

- `TypeCorrect`, `SocketNeverOverfilled`, `StreamIsWhole`, `TranscodingIsBounded`:
  from `IInv`, which has these four and that a living child belongs to a run.  The
  lemma `ProcessMoves` says that `process()` moves the border between ring and
  socket and no more; each handler is then a regrouping of one stream
  (`Grouping`).
- `ReserveIsKept`: the action property, from the same invariant and the
  arithmetic of `Portion`.

`DeviceProofs`, subscriptions: for any finite set of them, any number of session
threads, all timeouts and every `LastKey`,

- `ListIsSound`, `KeysComeInOrder`, `FirstEventTellsAll`, `SubscribersLearn`: from
  `IInv`.  In `Types`, every object is `Sound`: the key of its n-th event is
  `KeyOf(n)`, which `KeyOfNext` shows to be what the increment of the code makes,
  also where it goes round, unless a key was made from an outdated reading (`mixed`).
  `Session` and `MainThread` say what each thread may hold in the middle of
  `subscribe`, `unsubscribe` or `variableChanged`: the list or the object as it was
  when it looked, which may be older than they are now (`Later`) and is the same only
  if nobody else has been there.  `FirstOne` says that a session thread is about to make
  the first event where there was none, `Agree` that the list has the objects that are
  `Listed` as long as no operations have overlapped, in the middle of one too, and
  `Told` which subscriptions the walk through the list has still to tell.  That
  speaks of positions, and removing moves them: `RemoveFromList` of
  `SequenceLemmas` says how, `RemovalTold` what it means for the walk.

Descriptions: for any attributes, services, icons and embedded devices that
`DescriptionConstants` allows, and any number of settings, locations and calls,

- `DevicesRead` (`DescriptionRead`) and `AnswersReported` (`AnswersOwn`), both from
  `ToldInv`.  The document is followed element by element: `RecordWritten`,
  `TableWritten` and `DeviceWritten` say at which place of `xmlGenerator` each text
  stands, `FirstBelow` and its like what `elementsByTagName` finds there, so that
  `ParseRight` has the whole reading (`NewReading`): the attributes are found in the
  device's own elements because these stand before those of the embedded devices, and
  all services and icons because the lists of the device stand before its deviceList.
  The pages are those of the device as it was when it started (`PagesKnown`), the
  first of a path is served, and a path is that of one service or the device has two
  at one address (`Apart`, `Distinct`).  A reading, of whatever depth, has the first so
  many services in their order, without those dropped (`ToldAs`, `ToldUpTo`);
  `Continue` makes a device of it when all have been asked for (`DevicesOf`), and the
  icons of a device are `Counted`.  A call that no other overlapped is of the method
  its service was called with last (`CallsKnown`).  TLC and the proof showed that
  `AnswersOwn` and the actions in `DescriptionRead` had claimed too much: two services
  of one id share the page of their calls, which is why they ask for `Distinct`.

`MediaStreamingProofs`: for any finite sets of sessions and connections, all
requests, and a world that does everything (`Splits`, `Pipelining`, `Leaving`,
`Timeouts`),

- `PoolIsSound`: from `Types` and `Linked`, who has which connection.
- `FilmsAreOwn`: from `Own` in addition.  `OwnFilm` is about what is on the wire;
  a film gets there from an entry of `m_sessions`, from Main's steps between the one
  that takes the entry and the one that starts the transcoder, and from a transcoder,
  so that `Own` asks the same of these.
- `TranscodersAreCounted`: from `Counted`, an account of transcoders started, one
  about to be started and entries noted against the requests read.
- `AnswersAreRight`: `RightAnswers` in a `Calm` world, one with none of these four
  and with no film asked for by `Connection: close`; section 7 has what goes wrong
  in the others.  The two threads work for several clients at once, and the answer
  to a film passes from the session to Main and on to a transcoder.  `Steady` says,
  for each session, who has it: nobody, and the client has all it asked for
  (`Resting`), or exactly one party (`Unread`, `PageWaits`, and the five stages of
  `FilmWaits`), and then how much of the last answer is missing.  `Told` counts the
  queued calls of the slot: the signal is connected once for each film and
  disconnected when it is taken, so that no second call is under way; a queue that
  has lost its first element has to be counted again (`ToldWhenServed`).  That
  nobody else writes to the client follows from `Moved`: what a step does for one
  session leaves `Doing` of every other as it is.

`WebServerProofs`: for any connections, any finite sets of sessions and threads,
every size of the pool and any service,

- `SessionsStayLive`, from six conjuncts: the types; threads quit only when the
  server is stopped (`Stopping`); pools hold free sessions of their thread, none
  of which is or will be deleted (`Pooled`); connections being served have one
  session each (`Serving`), connections under way have none yet (`Carried`), and
  calls that Main has still to answer name sessions that exist (`Called`).  The
  events posted to a thread are a sequence, and each of the last three says what
  may be in it.
- `AnswersAreOwn`, from `Replying` on top of that.  While a connection is open its
  client waits for one answer at most, and all earlier requests have been read and
  answered (`Paced`); a connection without a session has not been read from
  (`Unread`); what is pending for a session, as a call in Main's queue or as an
  event of its thread, is one answer in one of the two places, and it is the right
  one for the last request of the connection (`Owing`), unless the session had a
  call pending when the connection came to it; an answer is only posted to the
  thread the session belongs to (`Homed`), and the table of services is complete
  before a connection is accepted (`Listed`).  `OwedKept` carries `Owing` through
  a step that shifts the queue or the events; `CallSuits` says that what Main
  answers to a proper message is what `Suits` asks for, since the folds of the
  parser over one body with one child come to `Sent` of that child
  (`ProperIsRead`, `ArgumentsSent`), and `PageSuits` that the table of services
  leads to the page that `RightAnswer` names.  Earlier forms of these definitions,
  which the run had accepted, left out the page `/service/scpd`, children without a
  type and hooks for failures that return 0; the proof did not go through until
  they said what the code does, and the instance of `calls` now has all three.

`DeliveriesProofs`, each proved for the module and carried over to `Deliveries`:

- `EventsAreTold` (`EventsTell` of `StateVariable`): for any descriptions, values and
  number of losses, every `SeqMax` and all datagrams of others that have keys of their
  own (`StateVariableConstants`; without that nobody could say whose message was read
  last).  `ServiceRight` says what each variable and the keys are, `LastKnown` where the
  last news is: in the last datagram on the wire that is the service's own (`Said`), or
  with the receiver (`Heard`), unless it was lost.  `AttributeSet` takes both through a
  call of `setAttribute`, `DefaultsRight` through the defaults, by the least variable
  at which they would fail; `LastOwnIsSaid` shows that the datagram that must not be
  lost is the one that `Said` speaks of.
- `ProxiesKnowTheirSid` (`OwnSid` of `EventProxy`): for any services, proxies and
  requests, from `EPInv`.  `RequestsKnown` says what each request that is under way
  carries, and `SubscriptionKnown`, for a proxy that subscribes once, that the device's
  subscription is where its SID, its request or the answer points.
- `HeadsAreRight` (`HeadRight` of `WebFile`): for all sizes and all ranges, numbers,
  empty or garbage (`FileConstants`, which `Deliveries` assumes).
  `FileInv` follows a request through its stages: `RangedFits` says, form by form,
  that the range `onRequest` makes of the header is the one that was asked for,
  `PreparedIsRight` that the head announces it, and `WholeIsCopied` that the body
  is the whole file.  Where the file has not what was asked for, or was written to,
  nothing is claimed; that the body is not the range announced is finding 4.

`DataProofs`, likewise for `Data`, and first `Discovery`:

- `ViewsAreRight` (`ViewRight` of `Discovery`): for any device, embedded devices and
  services (`DiscoveryConstants`: they are lists, and no device is called like one
  without description) and any number of losses, of which `ViewRight` forgives one.
  `Appearing` adds up chances: announcements, downloads and pages on their way, and
  what was lost, are two at least until the device is in the list, since everything
  is said twice.  `Leaving` has the same of farewells, which have to be those of the
  root device: two of them stand in the queue (`SaidTwice`, from `FlattenKeeps` of
  `SequenceLemmas`), and once one is read there is no page left that could bring
  the device back, or `late` is true.
- `ProgramEndsWell` (`EndsWell` of `MainProgram`): for any ports and a pipe that takes
  at least one byte, from `StageKnown`, what has been said of the device and of its
  server at each stage of `main`, and `PipeKnown`, which relates the signals caught
  to the bytes in the pipe.
- `ParametersAreKept` (`ConfigKept` of `Configuration`): for any processes, sections and
  parameters and any file at first (`ConfigurationConstants`: names are sequences).
  `FileHolds` says that between calls the file holds what was set, and so do the
  managers that read or wrote it last; `WriterHolds` that a manager which is writing
  does it alone and holds it too.  `KeyParts` and `UndottedKey` say how a key is split,
  and that the key of two names without a dot is of no others.  The proof showed that the
  property had claimed too much: with dots in a parameter too, a file holds one value
  for two names (`a` and `b.b`, `a.b` and `b`).  It now asks that the key be of one name
  (`OwnKey`), and the instance of `parts` has such a pair.
- `TelevisionSeesWhatIsShared` (`BrowseRight` of `ContentDirectory`): for any tree of
  finitely many paths, any shared paths and any run of mplayer on a film, one that
  does not end included (`ContentDirectoryConstants`): of such a run no length and no
  resolution is told, and of its numbers nothing is claimed.  `TreeInv` says that what is there is in a directory
  that is there; `ReplyRight`, the part of the property that is about one answer, is
  inductive with it.  The part about all answers is about listing from the root until
  nothing new comes: after n listings one has come to the root and to what is fewer
  than n steps below a shared directory (`ListingFromNear`, `ReachedIsNear`), as
  climbing from a thing goes one way only (`OneWayUp`, `UpFromInside`).
  `LineIsRead` and `FilmIsRead` follow the lines of mplayer one by one.

`HttpParserProofs`: for all messages, any number of them, and every way TCP cuts
the stream,

- `RequestsReadAsSent`, `PlainClientsAccepted`: from `Tracked`, which says where a
  client that waits is: everything is served and nothing is left to be parsed, or
  what is left (`Rest`, the buffer and the wire) is its last message from the
  first token, from some header, or from the body on.  `UnreadStep`,
  `HeadersReadStep` and `HeadReadStep` take the parser from one place to the next;
  a delivery leaves `Rest` as it is, so that no cut makes a difference.
- `BodiesAreOwn`: from `Own` (what is left is the end of what was sent) and
  `Announced`.  In the loop that reads headers the parser may have lost its place,
  in a pipelined request or in the lines of a body, and read a header that
  announces another length after it has taken the length for a number.
  `Ahead` says why it cannot: before the next announced length there is a request
  line on a line of its own, which the loop takes for an error.  This needs that
  the last line of a body does not swallow that request line, which is
  `KeepsItsLines`; without it the claim is false (`PostOpen` in `MCHttpParser`),
  and an earlier form of `BodyFromOwnConnection`, which did not ask for it, was
  wrong for clients that do not wait.

The assumptions are those the modules name: `Main \in Threads` and the like, that
sets of sessions, subscriptions, threads and connections are finite where
they are counted or listed, that `None` is no session, connection, file or page, and
of a message (`MessageAssumption`) that its
headers have finitely many names, that lengths and sizes in it are numbers, and
that the two headers that frame the body stand for themselves; and, in `WebServer`,
that the bodies of a SOAP message, the nodes of a child and the list of actions
are sequences, as the names of `Configuration`, the lists of `Discovery` and the documents of
`StateVariable` are; and in `ContentDirectory` that the paths are finitely many and what is
in something is in a directory; and `DescriptionConstants` (section 3).  No bound is assumed
to be small.

Each inductive invariant was first checked by TLC as an invariant of the run of
its module.  The prover's library has induction theorems it cannot
instantiate; where a fact needs induction on a length (what `FlattenSeq` and
`Cardinality` make of a sequence) the lemmas of `SequenceLemmas` take the least
counterexample (`LeastOfSet`) instead.

What is proved is not asked of every run again: the types of the first three modules,
that the ring is never overfull and the socket never overfilled are theorems only.
In the other modules the type invariant is a conjunct of the first safety
invariant (`PoolSound`, `BodyFromOwnConnection`, `ListSound`, `SessionsLive`).

Checked by TLC only: liveness (`DeadChildCollected`, `CallReturns`, `PipeDrains`,
`FilmArrives`, `FilmClosed`, `PlainServed`, `ClientAnswered`, `SearchFinds`), since
the prover does not reach fairness; and `LibraryRight` of `MediaLibrary`.  Its trees are
made of names: that the container of a path is found again by its name needs an
account of all the names in all paths that were added so far, and of a search through a
tree of any depth, for a program whose places in memory are never freed.
What is recursive in `StateVariable` and
`ContentDirectory` is a function, whose existence for all lengths follows from
`IterationUpTo` of `SequenceLemmas`.

## 7. What the checks have shown

Properties that hold say what the code may be relied on for.  Four that
do not are runs of their own ("findings" in `PROJECT.json`):

1. `sigchild_unlock` restores the signal mask before it unlocks: a SIGCHLD in
   between blocks Main for ever (PipeProcess.cpp:108).
2. The -1 of a refused `write()` moves the read index of the ring back; a full ring
   then says that it has nearly 2^32 bytes free (PipeProcess.cpp:232).
3. The last `minThreshold` bytes of a transcoding are never sent
   (MencoderTranscoder.cpp:86).
4. The `writeEntityBody` that sends a range of a file overrides nothing: the head
   announces the range, the body is the whole file (brisawebserversession.h:68).

Limits that the models contain and the properties leave room for:

- The handler spins, and keeps the mutex, as long as any child lives (`HeldUp` in
  `CallReturns`).
- A ring rounded down to no more than `minThreshold` (the assertion
  `minThreshold < maxThreshold` allows it) holds its child up for good:
  `PipeDrains` is checked with a larger ring.
- The late finish of an earlier run sets `Stopped` while a new child lives, which
  hides the child from `terminateTranscoding` and the destructor.
- The session timer is started with a request and never stopped while a film is
  sent: a 408 goes into its middle and the connection is closed.
- A film asked for with `Connection: close`, or by HTTP/1.0, ends with its head.
- The entry of a client that leaves early stays in `m_sessions` for the next
  connection on that session (`haunted` in `OwnFilm`); the next request is then
  dropped, or gets the film of the other.
- A head that the kernel takes in two parts may be overtaken by the body, which
  goes past the write buffer: `RightAnswers` is checked without `Splits`.
- After a dispatched request, the header loop goes on: a second request in the
  same segment is taken for headers and refused.  `RequestsAsSent` is about
  clients that wait (`patient`).  In the same loop a body of several lines that
  arrives with its headers is read as headers (`Plain` excludes it).
- The line end after a chunk is not consumed and is then taken for a chunk size:
  chunked bodies that are not empty are refused.  A trailer that
  arrives in pieces falls through to the case of plain bodies.
- Erasing an expired subscription passes over its neighbour, or over the end of
  the list (`passed` and `crashed` in `SubscriberLearns`); no lock protects the list.
- When a variable changes in the middle of a SUBSCRIBE, key 0 goes to the change
  (`early` in `FirstTellsAll`).
- A client that leaves after its transcoder has taken the descriptor and before this is
  connected to `disconnected()` (TranscoderService.cpp:76, :77) is missed: the film is
  closed only after the next client of the session has gone (`missed` in `FilmClosed`).
- An event key may be given twice, and a subscription lost or a deleted one kept,
  when session threads and Main, or two session threads, meet in
  `getNextSeq` or in the list (`mixed` in `KeysInOrder`, `overlapped` in `ListSound`).
- Nothing calls `keepAlive` (httpsession.h:80), so that the chunks of a lost
  connection stay in the session for the next one (httpsession.cpp:277).
- `getTimeOut` makes an infinite subscription one of 0 seconds
  (brisaeventcontroller.cpp:244, against brisaabstracteventsubscription.h:59),
  which has expired as soon as it is there.
- An answer is posted to a session: it reaches the connection that the session
  has by then (`late` in `OwnAnswers`).
- A server that was stopped still listens, has no threads, and divides by zero
  at the next connection (`died` in `WebServer`; `crashed` in `Discovery`, where the
  device starts again and is asked for its description).  A call that names a
  deleted session may crash Main.
- A message of another type of service, or one that is no POST, is never
  answered (`Ignored`).  Arguments after the first node that is no element are
  lost (`Proper`).
- `ViewRight` leaves out a device that was started again, a description that
  the byebye overtook, and more than one loss (everything is sent twice).
  In answers to a search the types of devices and services stand where their
  USN should (brisadevice.cpp:516, :526, :534), and the control point drops them:
  a search for a service finds nothing, and `SearchFinds` is about who looks for
  a device.
- A new variable has the number of an enumerator for its value
  (brisastatevariable.cpp:54; `Enumerator` in `Allowed`), and keeps it when its
  description has no default that is allowed.  The receiver of multicast events
  alters some texts (`Read`), about which `EventsTell` claims nothing.
- A proxy that subscribes twice, or has an error, may know another SID than the
  device (`unsure` in `OwnSid`).
- `HeadRight` is about ranges that the file has and a file nobody writes to; a range
  that is not longer than a byte is ignored.
- Of a film whose mplayer does not start or end in time, Browse tells whatever was in
  the memory of the numbers (MediaInfo.cpp:33); a film of 2^31 bytes or more is told
  with another size, or none (ContentDirectoryService.cpp:124).
- A shared path names the directory it is in as its parent, which is not shared,
  and asked about itself the root of several shared paths tells of all of them,
  against an assertion (ContentDirectoryService.cpp:217; `BrowseRight`).
- The older media server knows containers by the last name of their path:
  repeated names, those of the roots, and files in "/" are left out
  of `LibraryRight`.  A container that is already there is put into the root as
  well; the Result of Browse holds the container only; the ids of sounds are lost; a
  childCount may be read that was never set.
- `DescriptionRead` leaves out the name of the model and the fields of icons (the
  reader takes other elements for them, brisadevicexmlhandlercp.cpp:67, :125),
  devices whose document did not arrive, and icons asked for more than once.
- `AnswersOwn` leaves out calls of one service that overlap, and services kept
  without actions, which crash when called.
- `ConfigKept` leaves out managers that write without having read, write while
  another does, or die while writing, and sections with a dot, or keys that are of
  two names.  `removeSection` answers the opposite of what brisaconfig.h:128 says.
- `EndsWell` leaves out a child that is signalled before it has executed its
  program (its byte ends the parent), and a port that is taken between
  `getPort` and `start` (the device is then announced with no server behind it).

## 8. What is not modelled

- Connection managers (constant answers), logging, the choice of a network
  address, classes nobody uses, third-party and generated code, packaging.
- Notices to a subscriber: BrisaWebserver's NOTIFY goes to the default service
  (brisawebserver.cpp:44) and never reaches a proxy of the control point.
- `start` of a web server that has been stopped, beyond the division by zero;
  chunked responses, which no service asks for; `removeService` and copies of
  devices, which nobody calls.
- Files that vanish while a film is started (the request is dropped before any
  state changes), the ring's unused reset, `round_buffer_size`, requests the event
  controller refuses (no state changes), the search for the configuration file,
  the plugin manager (it has no plugins), stderr (logged), methods with constant
  answers, and everything about the text of messages that no property is about.
- Memory orders: threads interleave at the steps the modules show, and
  undefined behaviour is modelled only where a note says so.
