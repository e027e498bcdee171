--------------------------- MODULE MediaStreaming ---------------------------
(***************************************************************************)
(* How a film reaches a client.  Two threads share the work:               *)
(*                                                                         *)
(*   - a thread of HttpSessionManager owns the sessions: it takes them     *)
(*     from its pool for new connections, reads requests, writes response  *)
(*     heads through the sockets' write buffers, and gives sessions back   *)
(*     when connections die;                                               *)
(*   - Main runs TranscoderService::onSocketBytesWritten, a queued slot,   *)
(*     and the AsIsTranscoder it creates there, which sends the body to    *)
(*     the socket's descriptor, past the write buffer.                     *)
(*                                                                         *)
(* They meet in m_sessions, in the connection of the session's signal to   *)
(* the service's slot, and in the socket, which no lock protects.          *)
(*                                                                         *)
(* The constants Splits, Pipelining, Leaving and Timeouts say what the     *)
(* world does; with all four FALSE it is a calm one.                       *)
(***************************************************************************)
EXTENDS Naturals, SequencesExt

CONSTANTS
  Sessions,      \* the BrisaWebserverSession objects of one thread
  Conns,         \* TCP connections, each one used once
  Requests,      \* what a client may ask for: [file, close] (see Page)
  Page,          \* the "file" of a request that is not for TranscoderService
  FileChunks,    \* the sendfile() calls it takes to send one file
  MaxRequests,   \* bound: requests on one connection
  Splits,        \* the kernel may take a response head in two parts
  Pipelining,    \* clients may ask again before they have been answered
  Leaving,       \* clients may leave before they have been answered
  Timeouts,      \* SESSION_TIMEOUT may elapse
  None

ASSUME FinitenessAssumption == IsFiniteSet(Sessions) /\ IsFiniteSet(Conns)
ASSUME RequestAssumption ==
  \A r \in Requests : DOMAIN r = {"file", "close"} /\ r.close \in BOOLEAN
ASSUME BoundAssumption == FileChunks \in Nat \ {0} /\ MaxRequests \in Nat
ASSUME WorldAssumption ==
  {Splits, Pipelining, Leaving, Timeouts} \subseteq BOOLEAN
ASSUME NoneAssumption ==
  None \notin Sessions \cup Conns \cup {Page} \cup {r.file : r \in Requests}

Files == {r.file : r \in Requests} \ {Page}
Transcoders == 1..(MaxRequests * Cardinality(Conns))

VARIABLES
  (* connections *)
  link,        \* "new", "open", "left" by the client, "closing", "closed"
  asked,       \* what the client has asked for, in order
  read,        \* how many of those requests the server has read
  wbuf,        \* write buffer of the socket: items, each whole or partly sent
  wire,        \* what the client has been sent
  (* sessions *)
  pool,        \* HttpSessionManager::pool
  conn,        \* the connection a session's socket has, or None
  m_sessions,  \* the file TranscoderService has noted for a session
  slots,       \* how often the session's signal is connected to the service
  at,          \* where the session thread is in TranscoderService::onRequest
  haunted,     \* the session has lost a client with a film unfinished
  (* Main *)
  queue,       \* the events posted to Main
  slot,        \* where Main is in onSocketBytesWritten
  transcoder   \* the AsIsTranscoder objects

conn_vars == << link, asked, read, wbuf, wire >>
session_vars == << pool, conn, m_sessions, slots, at, haunted >>
main_vars == << queue, slot, transcoder >>
vars == << conn_vars, session_vars, main_vars >>

Idle == [step |-> "idle"]
Launching == {"new", "connect", "start"}
NoTranscoder == [state |-> "none"]
NextTranscoder ==
  CHOOSE t \in Transcoders :
    /\ transcoder[t] = NoTranscoder
    /\ \A u \in Transcoders : u < t => transcoder[u] # NoTranscoder

Init ==
  /\ link = [c \in Conns |-> "new"]
  /\ asked = [c \in Conns |-> << >>]
  /\ read = [c \in Conns |-> 0]
  /\ wbuf = [c \in Conns |-> << >>]
  /\ wire = [c \in Conns |-> << >>]
  /\ pool = << >>
  /\ conn = [s \in Sessions |-> None]
  /\ m_sessions = [s \in Sessions |-> None]
  /\ slots = [s \in Sessions |-> 0]
  /\ at = Idle
  /\ haunted = [s \in Sessions |-> FALSE]
  /\ queue = << >>
  /\ slot = Idle
  /\ transcoder = [t \in Transcoders |-> NoTranscoder]
-----------------------------------------------------------------------------
(* What a client may expect to read: an answer to each request in turn.    *)
ResponseHead(f) == << "head", f >>
Chunk(f, n) == << "body", f, n >>
RequestTimeout == << "408" >>

Answer(r) ==
  << ResponseHead(r.file) >>
    \o (IF r.file = Page THEN << >>
                         ELSE [n \in 1..FileChunks |-> Chunk(r.file, n)])

Answers(rs) == FlattenSeq([i \in 1..Len(rs) |-> Answer(rs[i])])

Answered(c) == wire[c] = Answers(asked[c])

-----------------------------------------------------------------------------
(* The client.                                                             *)
Ask(c, r) ==
  /\ link[c] = "open"
  /\ Len(asked[c]) < MaxRequests
  /\ Pipelining \/ Answered(c)
  /\ asked' = [asked EXCEPT ![c] = Append(@, r)]
  /\ UNCHANGED << link, read, wbuf, wire, session_vars, main_vars >>

Leave(c) ==
  /\ link[c] = "open"
  /\ Leaving \/ Answered(c)
  /\ link' = [link EXCEPT ![c] = "left"]
  /\ UNCHANGED << asked, read, wbuf, wire, session_vars, main_vars >>

-----------------------------------------------------------------------------
(* The session thread.  It serves one event at a time.                     *)

(* Fault: the session is not removed from the pool.                        *)
Fault_newConnection(c, s) ==
  /\ at = Idle
  /\ link[c] = "new"
  /\ IF pool # << >> THEN s = Last(pool) ELSE conn[s] = None
  /\ conn' = [conn EXCEPT ![s] = c]
  /\ link' = [link EXCEPT ![c] = "open"]
  /\ UNCHANGED << asked, read, wbuf, wire, pool, m_sessions, slots, at, haunted,
                  main_vars >>

(* newConnection: a session of the pool, last in first out, or a new one.  *)
(* It keeps what the service knows of it.                                  *)
newConnection(c, s) ==
  /\ at = Idle
  /\ link[c] = "new"
  /\ IF pool # << >> THEN s = Last(pool) /\ pool' = Front(pool)
                     ELSE conn[s] = None /\ pool' = pool
  /\ conn' = [conn EXCEPT ![s] = c]
  /\ link' = [link EXCEPT ![c] = "open"]
  /\ UNCHANGED << asked, read, wbuf, wire, m_sessions, slots, at, haunted,
                  main_vars >>

(* writeResponse: into the buffer, then close() if the response says so.   *)
(* A socket that is being closed takes nothing more.                       *)
writeResponse(c, item, close) ==
  IF link[c] = "closing"
  THEN UNCHANGED << link, wbuf >>
  ELSE /\ wbuf' = [wbuf EXCEPT ![c] = Append(@, [item |-> item, whole |-> TRUE])]
       /\ link' = IF close THEN [link EXCEPT ![c] = "closing"] ELSE link

NextRequest(s) == asked[conn[s]][read[conn[s]] + 1]
Reads(s) ==
  /\ at = Idle
  /\ conn[s] # None
  /\ link[conn[s]] \in {"open", "left"}
  /\ read[conn[s]] < Len(asked[conn[s]])
  /\ read' = [read EXCEPT ![conn[s]] = @ + 1]

(* A request some other service answers at once.                           *)
onOtherRequest(s) ==
  /\ Reads(s)
  /\ NextRequest(s).file = Page
  /\ writeResponse(conn[s], ResponseHead(Page), NextRequest(s).close)
  /\ UNCHANGED << asked, wire, session_vars, main_vars >>

(* TranscoderService::onRequest up to the end of its critical section.  A  *)
(* session that is noted already gets no answer.                           *)
onRequest(s) ==
  /\ Reads(s)
  /\ NextRequest(s).file # Page
  /\ IF m_sessions[s] # None
     THEN UNCHANGED << m_sessions, at >>
     ELSE /\ m_sessions' = [m_sessions EXCEPT ![s] = NextRequest(s).file]
          /\ at' = [step |-> "connect", session |-> s, request |-> NextRequest(s)]
  /\ UNCHANGED << link, asked, wbuf, wire, pool, conn, slots, haunted,
                  main_vars >>

(* ... QObject::connect, without Qt::UniqueConnection ...                  *)
onRequest_connect ==
  /\ at.step = "connect"
  /\ slots' = [slots EXCEPT ![at.session] = @ + 1]
  /\ at' = [at EXCEPT !.step = "respond"]
  /\ UNCHANGED << conn_vars, pool, conn, m_sessions, haunted, main_vars >>

(* ... and session->respond.                                               *)
onRequest_respond ==
  /\ at.step = "respond"
  /\ writeResponse(conn[at.session], ResponseHead(at.request.file),
                   at.request.close)
  /\ at' = Idle
  /\ UNCHANGED << asked, read, wire, pool, conn, m_sessions, slots, haunted,
                  main_vars >>

(* bytesWritten() is posted to Main once per connection of the signal.     *)
bytesWritten(s) ==
  queue' = queue \o [i \in 1..slots[s] |-> [event |-> "written", session |-> s]]

(* The kernel takes the first item of the write buffer, or part of it.     *)
Flush(s) ==
  /\ at = Idle
  /\ conn[s] # None
  /\ wbuf[conn[s]] # << >>
  /\ LET c == conn[s]
     IN  \/ /\ wire' = [wire EXCEPT ![c] = Append(@, wbuf[c][1].item)]
            /\ wbuf' = [wbuf EXCEPT ![c] = Tail(@)]
         \/ /\ Splits
            /\ wbuf[c][1].whole
            /\ wbuf' = [wbuf EXCEPT ![c][1].whole = FALSE]
            /\ UNCHANGED wire
  /\ bytesWritten(s)
  /\ UNCHANGED << link, asked, read, session_vars, slot, transcoder >>

(* onTimeout: 180 seconds after the last request was read, or the          *)
(* connection made, whatever the session is doing.                         *)
onTimeout(s) ==
  /\ Timeouts
  /\ at = Idle
  /\ conn[s] # None
  /\ link[conn[s]] \in {"open", "left"}
  /\ writeResponse(conn[s], RequestTimeout, TRUE)
  /\ UNCHANGED << asked, read, wire, session_vars, main_vars >>

(* A film is noted for session s, about to be started or partly sent.      *)
Unfinished(s) ==
  \/ m_sessions[s] # None
  \/ slot.step \in Launching /\ slot.session = s
  \/ \E t \in Transcoders : /\ transcoder[t].state = "Transcoding"
                            /\ transcoder[t].session = s
                            /\ transcoder[t].off < FileChunks

(* Fault: the transcoder is not connected to disconnected().               *)
Fault_onConnectionDie(s) ==
  /\ at = Idle
  /\ conn[s] # None
  /\ LET c == conn[s]
     IN  /\ link[c] = "left" \/ (link[c] = "closing" /\ wbuf[c] = << >>)
         /\ link' = [link EXCEPT ![c] = "closed"]
         /\ wbuf' = [wbuf EXCEPT ![c] = << >>]
  /\ conn' = [conn EXCEPT ![s] = None]
  /\ pool' = Append(pool, s)
  /\ haunted' = [haunted EXCEPT ![s] = @ \/ Unfinished(s)]
  /\ UNCHANGED << asked, read, wire, m_sessions, slots, at, main_vars >>

(* onConnectionDie: the client has left, or the server has closed and its  *)
(* buffer is sent.  disconnected() posts deleteLater() for every           *)
(* transcoder that is connected to this socket, started or not, the        *)
(* session goes back to the pool, and nobody tells TranscoderService.      *)
onConnectionDie(s) ==
  /\ at = Idle
  /\ conn[s] # None
  /\ LET c == conn[s]
     IN  /\ link[c] = "left" \/ (link[c] = "closing" /\ wbuf[c] = << >>)
         /\ link' = [link EXCEPT ![c] = "closed"]
         /\ wbuf' = [wbuf EXCEPT ![c] = << >>]
  /\ conn' = [conn EXCEPT ![s] = None]
  /\ pool' = Append(pool, s)
  /\ haunted' = [haunted EXCEPT ![s] = @ \/ Unfinished(s)]
  /\ queue' = queue \o SetToSeq({ [event |-> "delete", transcoder |-> t] :
                t \in { u \in Transcoders :
                  \/ /\ transcoder[u].state \in {"Transcoding", "Stopped"}
                     /\ transcoder[u].session = s
                  \/ slot.step = "start" /\ slot.session = s /\ u = NextTranscoder } })
  /\ UNCHANGED << asked, read, wire, m_sessions, slots, at, slot, transcoder >>

-----------------------------------------------------------------------------
(* Main.                                                                   *)

(* terminateTranscoding.                                                   *)
Stopped(x) == [x EXCEPT !.state = "Stopped"]
(* Fault: sendfile() answering 0 is not taken for the end of the file.     *)
Fault_process(t, x) ==
  LET c == conn[x.session]
  IN  IF c = None THEN transcoder' = [transcoder EXCEPT ![t] = Stopped(x)] /\ UNCHANGED wire
      ELSE /\ transcoder' = [transcoder EXCEPT ![t] = [x EXCEPT !.off = @ + 1]]
           /\ wire' = [wire EXCEPT ![c] = Append(@, Chunk(x.file, x.off + 1))]

(* The outcomes of process() on a transcoder x: one sendfile() to whatever *)
(* descriptor the socket has now, from which the new x and the new wire    *)
(* follow.                                                                 *)
process(t, x) ==
  LET c == conn[x.session]
      sends == /\ x.off < FileChunks
               /\ transcoder' = [transcoder EXCEPT ![t] = [x EXCEPT !.off = @ + 1]]
      stops == /\ transcoder' = [transcoder EXCEPT ![t] = Stopped(x)]
               /\ UNCHANGED wire
  IN  \/ c # None /\ sends
         /\ wire' = IF link[c] = "left" THEN wire
                    ELSE [wire EXCEPT ![c] = Append(@, Chunk(x.file, x.off + 1))]
      \/ (x.off = FileChunks \/ c = None) /\ stops
      \/ c # None /\ link[c] = "left" /\ stops

(* The first part of onSocketBytesWritten: bytesToWrite, disconnect.       *)
onSocketBytesWritten ==
  /\ slot = Idle
  /\ queue # << >>
  /\ queue[1].event = "written"
  /\ queue' = Tail(queue)
  /\ LET s == queue[1].session
     IN  IF conn[s] # None /\ wbuf[conn[s]] # << >>
         THEN UNCHANGED << slots, slot >>
         ELSE /\ slots' = [slots EXCEPT ![s] = 0]
              /\ slot' = [step |-> "take", session |-> s]
  /\ UNCHANGED << conn_vars, pool, conn, m_sessions, at, haunted, transcoder >>

(* Fault: the entry is read and not taken.                                 *)
Fault_onSocketBytesWritten_take ==
  /\ slot.step = "take"
  /\ LET s == slot.session
     IN  slot' = IF m_sessions[s] = None THEN Idle
                 ELSE [step |-> "new", session |-> s, file |-> m_sessions[s]]
  /\ UNCHANGED << conn_vars, session_vars, queue, transcoder >>

onSocketBytesWritten_take ==
  /\ slot.step = "take"
  /\ LET s == slot.session
     IN  /\ m_sessions' = [m_sessions EXCEPT ![s] = None]
         /\ slot' = IF m_sessions[s] = None THEN Idle
                    ELSE [step |-> "new", session |-> s, file |-> m_sessions[s]]
  /\ UNCHANGED << conn_vars, pool, conn, slots, at, haunted, queue, transcoder >>

(* new AsIsTranscoder: its write notifier is for the descriptor that the   *)
(* session's socket has now; for none, if the client has gone.             *)
onSocketBytesWritten_new ==
  /\ slot.step = "new"
  /\ slot' = [step |-> "connect", session |-> slot.session, file |-> slot.file,
              notifier |-> conn[slot.session]]
  /\ UNCHANGED << conn_vars, session_vars, queue, transcoder >>

(* The connect to disconnected(): too late for a client that has gone      *)
(* since.                                                                  *)
onSocketBytesWritten_connect ==
  /\ slot.step = "connect"
  /\ slot' = [step |-> "start", session |-> slot.session, file |-> slot.file,
              notifier |-> slot.notifier,
              missed |-> slot.notifier = None \/ conn[slot.session] # slot.notifier]
  /\ UNCHANGED << conn_vars, session_vars, queue, transcoder >>

(* startTranscoding: it sends at once, to the descriptor the socket has by *)
(* now, unless the kernel has no room.                                     *)
onSocketBytesWritten_start ==
  /\ slot.step = "start"
  /\ LET s == slot.session
         t == NextTranscoder
         x == [state |-> "Transcoding", session |-> s, file |-> slot.file,
               off |-> 0, notifier |-> slot.notifier, missed |-> slot.missed,
               late |-> FALSE]
     IN  \/ process(t, x)
         \/ /\ conn[s] # None
            /\ transcoder' = [transcoder EXCEPT ![t] = x]
            /\ UNCHANGED wire
  /\ slot' = Idle
  /\ UNCHANGED << link, asked, read, wbuf, session_vars, queue >>

(* The write notifier fires.  It watches the descriptor of the connection  *)
(* the transcoder was made for, if there was one.  When that has been      *)
(* closed, select() may just have found it ready; and for a transcoder     *)
(* that no delete awaits, the descriptor may be in use again.              *)
onWriteActivated(t) ==
  /\ slot = Idle
  /\ transcoder[t].state = "Transcoding"
  /\ transcoder[t].notifier # None
  /\ LET x == transcoder[t]
         dead == link[x.notifier] = "closed"
     IN  /\ ~x.late
         /\ process(t, [x EXCEPT !.late = dead /\ ~x.missed])
  /\ UNCHANGED << link, asked, read, wbuf, session_vars, queue, slot >>

(* The deferred delete; the destructor closes the file.                    *)
deleteTranscoder ==
  /\ slot = Idle
  /\ queue # << >>
  /\ queue[1].event = "delete"
  /\ queue' = Tail(queue)
  /\ transcoder' = [transcoder EXCEPT ![queue[1].transcoder].state = "deleted"]
  /\ UNCHANGED << conn_vars, session_vars, slot >>

-----------------------------------------------------------------------------
SessionThread ==
  \/ \E c \in Conns, s \in Sessions : newConnection(c, s)
  \/ \E s \in Sessions : onOtherRequest(s) \/ onRequest(s)
  \/ onRequest_connect
  \/ onRequest_respond
  \/ \E s \in Sessions : Flush(s) \/ onConnectionDie(s)

MainQueue ==
  \/ onSocketBytesWritten
  \/ onSocketBytesWritten_take
  \/ onSocketBytesWritten_new
  \/ onSocketBytesWritten_connect
  \/ onSocketBytesWritten_start
  \/ deleteTranscoder

MainThread == MainQueue \/ \E t \in Transcoders : onWriteActivated(t)

Next ==
  \/ \E c \in Conns, r \in Requests : Ask(c, r)
  \/ \E c \in Conns : Leave(c)
  \/ SessionThread
  \/ \E s \in Sessions : onTimeout(s)
  \/ MainThread

Spec == Init /\ [][Next]_vars

(* Main serves its queue; nobody else promises anything.                   *)
MainFairSpec == Spec /\ WF_vars(MainQueue)

(* Both event loops go on: Main serves its queue in order, and when several *)
(* parties of one thread are ready each is served in the end.  Clients and *)
(* the timer promise nothing, and the notifier of a closed descriptor need *)
(* not fire.                                                               *)
FairSpec ==
  /\ Spec
  /\ WF_vars(onRequest_connect \/ onRequest_respond)
  /\ \A s \in Sessions :
       /\ WF_vars(\E c \in Conns : newConnection(c, s))
       /\ SF_vars(onOtherRequest(s) \/ onRequest(s))
       /\ SF_vars(Flush(s)) /\ SF_vars(onConnectionDie(s))
  /\ WF_vars(MainQueue)
  /\ \A t \in Transcoders :
       SF_vars(onWriteActivated(t) /\ link[transcoder[t].notifier] # "closed")
-----------------------------------------------------------------------------
TypeOK ==
  /\ link \in [Conns -> {"new", "open", "left", "closing", "closed"}]
  /\ \A c \in Conns : asked[c] \in Seq(Requests) /\ read[c] \in 0..Len(asked[c])
  /\ conn \in [Sessions -> Conns \cup {None}]
  /\ pool \in Seq(Sessions)
  /\ m_sessions \in [Sessions -> Files \cup {None}]
  /\ slots \in [Sessions -> Nat]
  /\ at.step \in {"idle", "connect", "respond"}
  /\ slot.step \in {"idle", "take"} \cup Launching
  /\ \A t \in Transcoders :
       transcoder[t].state \in {"none", "Transcoding", "Stopped", "deleted"}

(* The types hold, the pool holds each session that has no connection      *)
(* once, and no two connections are given the same session.                *)
PoolSound ==
  /\ TypeOK
  /\ \A i, j \in 1..Len(pool) : pool[i] = pool[j] => i = j
  /\ \A s \in ToSet(pool) : conn[s] = None
  /\ \A s, u \in Sessions : conn[s] = conn[u] /\ conn[s] # None => s = u

(* In a calm world a client reads the answers to its requests, in order    *)
(* and each complete before the next, never a byte of another answer, on   *)
(* whichever used session its connection is.                               *)
RightAnswers == \A c \in Conns : IsPrefix(wire[c], Answers(asked[c]))

(* A client never reads a film it has not asked for, unless its session    *)
(* has lost an earlier client whose film was noted, starting or half sent. *)
OwnFilm ==
  \A s \in Sessions :
    conn[s] # None /\ ~haunted[s] =>
      \A i \in 1..Len(wire[conn[s]]) :
        LET item == wire[conn[s]][i]
        IN  item[1] = "body" =>
              \E k \in 1..read[conn[s]] : asked[conn[s]][k].file = item[2]

(* The requests for films that have been read: the connection, and which.  *)
FilmsRead ==
  { p \in Conns \X (1..MaxRequests) :
      p[2] <= read[p[1]] /\ asked[p[1]][p[2]].file # Page }
Started == { t \in Transcoders : transcoder[t] # NoTranscoder }

(* However often the signal is connected and its events are late, a        *)
(* request starts no more than one transcoder.                             *)
OneTranscoderPerRequest == Cardinality(Started) <= Cardinality(FilmsRead)

(* A film whose client has gone is closed: no transcoder goes on, or keeps *)
(* its file open, after its connection.  The one exception: a client who   *)
(* goes before the transcoder is connected to disconnected(), and whose    *)
(* session has another client already when it starts; then the film is     *)
(* closed after that one.                                                  *)
Orphaned(t) ==
  /\ transcoder[t].state = "Transcoding"
  /\ transcoder[t].notifier = None \/ link[transcoder[t].notifier] = "closed"
  /\ transcoder[t].missed => conn[transcoder[t].session] = None
FilmClosed ==
  \A t \in Transcoders :
    Orphaned(t) ~> transcoder[t].state # "Transcoding"

(* In a calm world a client that asks and stays is answered in full.      *)
FilmArrives ==
  \A c \in Conns :
    link[c] = "open" ~> (Answered(c) \/ link[c] = "left")
=============================================================================
