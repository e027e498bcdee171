------------------------ MODULE MediaStreamingProofs ------------------------
(***************************************************************************)
(* For any sessions, connections and requests, in the roughest world: the  *)
(* pool is sound, a request starts at most one transcoder, and a client    *)
(* reads a film it has not asked for only on a session that has lost a     *)
(* client with a film unfinished.                                          *)
(* In a calm world a client reads the answers to its requests, in their    *)
(* order and each whole: the second half of the module.                    *)
(***************************************************************************)
EXTENDS MediaStreaming, SequenceLemmas

USE FinitenessAssumption, RequestAssumption, BoundAssumption,
    WorldAssumption, NoneAssumption

Heads == { ResponseHead(f) : f \in Files \cup {Page} } \cup {RequestTimeout}
Chunks == { Chunk(f, n) : f \in Files, n \in 1..FileChunks }
Buffered == [item : Heads, whole : BOOLEAN]
Written == [event : {"written"}, session : Sessions]
Deletes == [event : {"delete"}, transcoder : Transcoders]
AtSteps == [step : {"connect", "respond"}, session : Sessions, request : Requests]
TakeSteps == [step : {"take"}, session : Sessions]
NewSteps == [step : {"new"}, session : Sessions, file : Files]
ConnectSteps ==
  [step : {"connect"}, session : Sessions, file : Files,
   notifier : Conns \cup {None}]
StartSteps ==
  [step : {"start"}, session : Sessions, file : Files,
   notifier : Conns \cup {None}, missed : BOOLEAN]
LaunchSteps == NewSteps \cup ConnectSteps \cup StartSteps
Objects ==
  [state : {"Transcoding", "Stopped", "deleted"}, session : Sessions,
   file : Files, off : 0..FileChunks, notifier : Conns \cup {None},
   missed : BOOLEAN, late : BOOLEAN]

(* The inductive invariant: the types ...                                  *)
ConnTypes ==
  /\ link \in [Conns -> {"new", "open", "left", "closing", "closed"}]
  /\ asked \in [Conns -> Seq(Requests)]
  /\ read \in [Conns -> Nat]
  /\ \A c \in Conns : read[c] <= Len(asked[c])
  /\ wbuf \in [Conns -> Seq(Buffered)]
  /\ wire \in [Conns -> Seq(Heads \cup Chunks)]

SessionTypes ==
  /\ pool \in Seq(Sessions)
  /\ conn \in [Sessions -> Conns \cup {None}]
  /\ m_sessions \in [Sessions -> Files \cup {None}]
  /\ slots \in [Sessions -> Nat]
  /\ at \in {Idle} \cup AtSteps
  /\ haunted \in [Sessions -> BOOLEAN]

(* A transcoder that a delete may be posted for exists, or is the one that *)
(* is connected to disconnected() and not started yet.                     *)
Deletable(t) ==
  transcoder[t] # NoTranscoder \/ (slot.step = "start" /\ t = NextTranscoder)

MainTypes ==
  /\ queue \in Seq(Written \cup Deletes)
  /\ slot \in {Idle} \cup TakeSteps \cup LaunchSteps
  /\ transcoder \in [Transcoders -> Objects \cup {NoTranscoder}]
  /\ \A i \in 1..Len(queue) :
       queue[i].event = "delete" => Deletable(queue[i].transcoder)

(* ... who has which connection: a session in the pool has none, a session *)
(* being served has one, a new connection has none and nothing on its wire;*)
Linked ==
  /\ IsInjective(pool)
  /\ \A s \in ToSet(pool) : conn[s] = None
  /\ \A s \in Sessions :
       conn[s] # None => link[conn[s]] \in {"open", "left", "closing"}
  /\ \A s, u \in Sessions : conn[s] = conn[u] /\ conn[s] # None => s = u
  /\ at # Idle => conn[at.session] # None
  /\ \A c \in Conns : link[c] = "new" => wire[c] = << >>

(* ... and what a session that is not haunted knows of: its films have     *)
(* been asked for on the connection it has now.                            *)
HasRead(c, f) == \E k \in 1..read[c] : asked[c][k].file = f
Film(s, f) ==
  \/ m_sessions[s] = f /\ f # None
  \/ slot.step \in Launching /\ slot.session = s /\ slot.file = f
  \/ \E t \in Transcoders : /\ transcoder[t].state = "Transcoding"
                            /\ transcoder[t].session = s
                            /\ transcoder[t].off < FileChunks
                            /\ transcoder[t].file = f
Carries(c, f) == \E i \in 1..Len(wire[c]) : wire[c][i][1] = "body" /\ wire[c][i][2] = f
Own ==
  \A s \in Sessions :
    ~haunted[s] =>
      \A f \in Files :
        /\ Film(s, f) => \E c \in Conns : conn[s] = c /\ HasRead(c, f)
        /\ \A c \in Conns : conn[s] = c /\ Carries(c, f) => HasRead(c, f)

(* The films started, about to be started and noted are no more than those *)
(* asked for and read.                                                     *)
Noted == { s \in Sessions : m_sessions[s] # None }
Starting == IF slot.step \in Launching THEN 1 ELSE 0
Counted ==
  /\ \A c \in Conns : Len(asked[c]) <= MaxRequests
  /\ Cardinality(Started) + Starting + Cardinality(Noted) <= Cardinality(FilmsRead)

Types == ConnTypes /\ SessionTypes /\ MainTypes
IInv == Types /\ Linked /\ Own /\ Counted

-----------------------------------------------------------------------------
LEMMA ItemsOfWire ==
  /\ \A h \in Heads : h[1] # "body"
  /\ \A f, n : Chunk(f, n)[1] = "body" /\ Chunk(f, n)[2] = f
  /\ \A f \in Files, n \in 1..FileChunks : Chunk(f, n) \in Chunks
  /\ \A f \in Files \cup {Page} : ResponseHead(f) \in Heads
  /\ RequestTimeout \in Heads
  BY DEF Heads, Chunks, ResponseHead, RequestTimeout, Chunk

LEMMA TranscodersAreNumbered ==
  /\ Cardinality(Conns) \in Nat
  /\ MaxRequests * Cardinality(Conns) \in Nat
  /\ IsFiniteSet(Transcoders)
  /\ Transcoders \subseteq Int
  <1>1. Cardinality(Conns) \in Nat
    BY FS_CardinalityType
  <1>2. MaxRequests * Cardinality(Conns) \in Nat
    BY <1>1
  <1>3. QED
    BY <1>1, <1>2, FS_Interval DEF Transcoders

(* The head goes into the buffer and may close the connection.             *)
LEMMA Writing ==
  ASSUME ConnTypes, NEW c \in Conns, NEW item \in Heads, NEW close,
         writeResponse(c, item, close)
  PROVE  /\ link' \in [Conns -> {"new", "open", "left", "closing", "closed"}]
         /\ wbuf' \in [Conns -> Seq(Buffered)]
         /\ \A d \in Conns : link'[d] = link[d] \/ (d = c /\ link'[d] = "closing")
  <1> USE DEF ConnTypes
  <1>1. CASE link[c] = "closing"
    BY <1>1 DEF writeResponse
  <1>2. CASE link[c] # "closing"
    <2> DEFINE b == [item |-> item, whole |-> TRUE]
    <2>1. b \in Buffered
      BY DEF Buffered
    <2> HIDE DEF b
    <2>2. Append(wbuf[c], b) \in Seq(Buffered)
      BY <2>1, AppendToList
    <2>3. wbuf' = [wbuf EXCEPT ![c] = Append(wbuf[c], b)]
      BY <1>2 DEF writeResponse, b
    <2>4. wbuf' \in [Conns -> Seq(Buffered)]
      BY <2>2, <2>3
    <2>5. link' = [link EXCEPT ![c] = "closing"] \/ link' = link
      BY <1>2 DEF writeResponse
    <2>6. QED
      BY <2>4, <2>5
  <1>3. QED
    BY <1>1, <1>2

(* What process() does to the transcoder x it runs on, and to the wire.    *)
LEMMA Processing ==
  ASSUME Types, NEW t, NEW x \in Objects, x.state = "Transcoding", process(t, x)
  PROVE  /\ \E y \in Objects :
              /\ transcoder' = [transcoder EXCEPT ![t] = y]
              /\ y.session = x.session /\ y.file = x.file
              /\ y.state = "Transcoding" =>
                   x.off < FileChunks /\ conn[x.session] # None
         /\ \/ wire' = wire
            \/ /\ conn[x.session] # None /\ x.off < FileChunks
               /\ wire' = [wire EXCEPT ![conn[x.session]] = Append(@, Chunk(x.file, x.off + 1))]
  <1> DEFINE c == conn[x.session]
             n == x.off + 1
             y == [x EXCEPT !.off = n]
  <1>1. /\ Stopped(x) \in Objects
        /\ Stopped(x).session = x.session /\ Stopped(x).file = x.file
        /\ Stopped(x).state = "Stopped"
    BY DEF Stopped, Objects
  <1>2. CASE /\ c # None /\ x.off < FileChunks
             /\ transcoder' = [transcoder EXCEPT ![t] = y]
             /\ \/ wire' = wire
                \/ wire' = [wire EXCEPT ![c] = Append(@, Chunk(x.file, x.off + 1))]
    <2>1. n \in 0..FileChunks
      BY <1>2 DEF Objects
    <2> HIDE DEF n
    <2>2. y \in Objects /\ y.session = x.session /\ y.file = x.file
      BY <2>1 DEF Objects
    <2>3. QED
      BY <1>2, <2>2
  <1>3. CASE /\ transcoder' = [transcoder EXCEPT ![t] = Stopped(x)]
             /\ wire' = wire
    BY <1>1, <1>3
  <1>4. QED
    BY <1>2, <1>3 DEF process

(* The deletes posted when a connection dies.                              *)
Posted(t, s) ==
  \/ transcoder[t] # NoTranscoder /\ transcoder[t].session = s
  \/ slot.step = "start" /\ slot.session = s /\ t = NextTranscoder

LEMMA Deleting ==
  ASSUME MainTypes, NEW s \in Sessions
  PROVE  LET d == SetToSeq({ [event |-> "delete", transcoder |-> t] :
                t \in { u \in Transcoders :
                  \/ /\ transcoder[u].state \in {"Transcoding", "Stopped"}
                     /\ transcoder[u].session = s
                  \/ slot.step = "start" /\ slot.session = s /\ u = NextTranscoder } })
         IN  /\ d \in Seq(Written \cup Deletes)
             /\ \A i \in 1..Len(d) :
                  /\ d[i].event = "delete"
                  /\ d[i].transcoder \in Transcoders
                  /\ Posted(d[i].transcoder, s)
  <1> DEFINE S == { u \in Transcoders :
                      \/ /\ transcoder[u].state \in {"Transcoding", "Stopped"}
                         /\ transcoder[u].session = s
                      \/ slot.step = "start" /\ slot.session = s /\ u = NextTranscoder }
             T == { [event |-> "delete", transcoder |-> t] : t \in S }
             d == SetToSeq(T)
  <1>1. IsFiniteSet(S)
    BY TranscodersAreNumbered, FS_Subset
  <1>2. IsFiniteSet(T)
    <2> DEFINE e(t) == [event |-> "delete", transcoder |-> t]
               f == [t \in S |-> e(t)]
    <2>1. f \in Surjection(S, T)
      BY DEF Surjection
    <2>2. QED
      BY <1>1, <2>1, FS_Surjection
  <1>3. d \in Seq(T)
    BY <1>2, SetToSeqOfFinite
  <1>4. \A e \in T : /\ e \in Written \cup Deletes
                     /\ e.event = "delete" /\ e.transcoder \in Transcoders
                     /\ Posted(e.transcoder, s)
    BY DEF Written, Deletes, Posted, NoTranscoder
  <1> HIDE DEF T, d
  <1>5. \A i \in 1..Len(d) : /\ d[i].event = "delete"
                             /\ d[i].transcoder \in Transcoders
                             /\ Posted(d[i].transcoder, s)
    BY <1>3, <1>4, ElementOfSeq
  <1>6. d \in Seq(Written \cup Deletes)
    BY <1>3, <1>4, SeqMonotonic
  <1>7. QED
    BY <1>5, <1>6 DEF d, T

-----------------------------------------------------------------------------
LEMMA Steps ==
  ASSUME SessionTypes, MainTypes
  PROVE  /\ at.step \in {"connect", "respond"} =>
              /\ at \in AtSteps /\ at # Idle
              /\ at.session \in Sessions /\ at.request \in Requests
         /\ at.step # "idle" <=> at # Idle
         /\ slot.step = "take" => slot.session \in Sessions
         /\ slot.step \in Launching =>
              slot.session \in Sessions /\ slot.file \in Files
         /\ slot.step \in {"connect", "start"} => slot.notifier \in Conns \cup {None}
         /\ slot.step = "start" => slot.missed \in BOOLEAN
         /\ slot.step = "idle" <=> slot = Idle
  BY DEF SessionTypes, MainTypes, AtSteps, TakeSteps, LaunchSteps, NewSteps,
         ConnectSteps, StartSteps, Launching, Idle

(* The steps between the film that is taken and its transcoder.            *)
LEMMA LaunchGoesOn ==
  ASSUME SessionTypes, MainTypes,
         onSocketBytesWritten_new \/ onSocketBytesWritten_connect
  PROVE  /\ slot.step \in Launching \ {"start"}
         /\ slot' \in LaunchSteps /\ slot'.step \in Launching
         /\ slot'.session = slot.session /\ slot'.file = slot.file
         /\ UNCHANGED << conn_vars, session_vars, queue, transcoder >>
  <1>1. CASE onSocketBytesWritten_new
    <2>1. slot.step = "new" /\ slot.session \in Sessions /\ slot.file \in Files
      BY <1>1, Steps DEF onSocketBytesWritten_new, Launching
    <2>2. conn[slot.session] \in Conns \cup {None}
      BY <2>1 DEF SessionTypes
    <2>3. QED
      BY <1>1, <2>1, <2>2
         DEF onSocketBytesWritten_new, LaunchSteps, ConnectSteps, Launching
  <1>2. CASE onSocketBytesWritten_connect
    <2>1. /\ slot.step = "connect" /\ slot.session \in Sessions /\ slot.file \in Files
          /\ slot.notifier \in Conns \cup {None}
      BY <1>2, Steps DEF onSocketBytesWritten_connect, Launching
    <2> DEFINE m == slot.notifier = None \/ conn[slot.session] # slot.notifier
    <2>2. m \in BOOLEAN
      OBVIOUS
    <2>3. /\ slot' = [step |-> "start", session |-> slot.session, file |-> slot.file,
                      notifier |-> slot.notifier, missed |-> m]
          /\ UNCHANGED << conn_vars, session_vars, queue, transcoder >>
      BY <1>2 DEF onSocketBytesWritten_connect
    <2> HIDE DEF m
    <2>4. QED
      BY <2>1, <2>2, <2>3 DEF LaunchSteps, StartSteps, Launching
  <1>3. QED
    BY <1>1, <1>2

LEMMA RequestsRead ==
  ASSUME Types, NEW s \in Sessions, Reads(s)
  PROVE  /\ conn[s] \in Conns
         /\ read' = [read EXCEPT ![conn[s]] = @ + 1]
         /\ read[conn[s]] + 1 \in 1..Len(asked[conn[s]])
         /\ NextRequest(s) \in Requests
         /\ NextRequest(s).file \in Files \cup {Page}
         /\ NextRequest(s).close \in BOOLEAN
         /\ at = Idle
  <1> USE DEF Types, ConnTypes, SessionTypes
  <1>1. /\ conn[s] \in Conns /\ at = Idle
        /\ read' = [read EXCEPT ![conn[s]] = @ + 1]
        /\ read[conn[s]] \in Nat /\ asked[conn[s]] \in Seq(Requests)
        /\ read[conn[s]] < Len(asked[conn[s]])
    BY DEF Reads
  <1>2. Len(asked[conn[s]]) \in Nat
    BY <1>1, LenProperties
  <1>3. read[conn[s]] + 1 \in 1..Len(asked[conn[s]])
    BY <1>1, <1>2
  <1>4. NextRequest(s) \in Requests
    BY <1>1, <1>3, ElementOfSeq DEF NextRequest
  <1>5. QED
    BY <1>1, <1>3, <1>4 DEF Files

(* Main runs a transcoder for a film of session s: in a step of its own or  *)
(* as the new one of onSocketBytesWritten.                                 *)
Runs(t, y, s, f) ==
  /\ y \in Objects /\ y.session = s /\ y.file = f
  /\ transcoder' = [transcoder EXCEPT ![t] = y]
  /\ y.state = "Transcoding" => Film(s, f) /\ conn[s] # None
  /\ \/ wire' = wire
     \/ /\ Film(s, f) /\ conn[s] # None
        /\ \E n \in 1..FileChunks :
             wire' = [wire EXCEPT ![conn[s]] = Append(@, Chunk(f, n))]
  /\ \/ transcoder[t] # NoTranscoder /\ slot = Idle /\ slot' = slot
     \/ slot.step = "start" /\ t = NextTranscoder /\ slot' = Idle
  /\ UNCHANGED << link, asked, read, wbuf, session_vars, queue >>

LEMMA StartRuns ==
  ASSUME Types, onSocketBytesWritten_start
  PROVE  \E t : \E y \in Objects, s \in Sessions, f \in Files : Runs(t, y, s, f)
  <1> USE DEF Types
  <1>1. slot.step = "start" /\ slot' = Idle
        /\ UNCHANGED << link, asked, read, wbuf, session_vars, queue >>
    BY DEF onSocketBytesWritten_start
  <1> PICK s \in Sessions, f \in Files : s = slot.session /\ f = slot.file
    BY <1>1, Steps DEF Launching
  <1>2. Film(s, f)
    BY <1>1 DEF Film, Launching
  <1>a. slot.notifier \in Conns \cup {None} /\ slot.missed \in BOOLEAN
    BY <1>1, Steps
  <1> PICK t : t = NextTranscoder
    OBVIOUS
  <1> DEFINE x == [state |-> "Transcoding", session |-> s, file |-> f,
                   off |-> 0, notifier |-> slot.notifier, missed |-> slot.missed,
                   late |-> FALSE]
  <1>3. /\ x \in Objects /\ x.state = "Transcoding"
        /\ x.session = s /\ x.file = f /\ x.off = 0
    BY <1>a DEF Objects
  <1>4. \/ process(t, x)
        \/ /\ conn[s] # None
           /\ transcoder' = [transcoder EXCEPT ![t] = x]
           /\ wire' = wire
    BY DEF onSocketBytesWritten_start
  <1> HIDE DEF x
  <1>5. CASE process(t, x)
    <2> PICK y \in Objects :
          /\ transcoder' = [transcoder EXCEPT ![t] = y]
          /\ y.session = x.session /\ y.file = x.file
          /\ y.state = "Transcoding" => x.off < FileChunks /\ conn[x.session] # None
      BY <1>3, <1>5, Processing
    <2>1. \/ wire' = wire
          \/ /\ conn[s] # None
             /\ wire' = [wire EXCEPT ![conn[s]] = Append(@, Chunk(f, 1))]
      BY <1>3, <1>5, Processing
    <2>2. 1 \in 1..FileChunks
      OBVIOUS
    <2>3. Runs(t, y, s, f)
      BY <1>1, <1>2, <1>3, <2>1, <2>2 DEF Runs
    <2>4. QED
      BY <2>3
  <1>6. CASE /\ conn[s] # None
             /\ transcoder' = [transcoder EXCEPT ![t] = x]
             /\ wire' = wire
    <2>1. Runs(t, x, s, f)
      BY <1>1, <1>2, <1>3, <1>6 DEF Runs
    <2>2. QED
      BY <1>3, <2>1
  <1>7. QED
    BY <1>4, <1>5, <1>6

LEMMA ActivatedRuns ==
  ASSUME Types, NEW t \in Transcoders, onWriteActivated(t)
  PROVE  \E y \in Objects, s \in Sessions, f \in Files : Runs(t, y, s, f)
  <1> USE DEF Types
  <1> DEFINE dead == /\ link[transcoder[t].notifier] = "closed"
                     /\ ~transcoder[t].missed
             x == [transcoder[t] EXCEPT !.late = dead]
  <1>1. /\ transcoder[t].state = "Transcoding" /\ process(t, x)
        /\ slot = Idle /\ slot' = slot
        /\ UNCHANGED << link, asked, read, wbuf, session_vars, queue >>
    BY DEF onWriteActivated
  <1>2. transcoder[t] \in Objects /\ transcoder[t] # NoTranscoder
    BY <1>1 DEF MainTypes, NoTranscoder
  <1>3. dead \in BOOLEAN
    OBVIOUS
  <1> HIDE DEF dead
  <1>4. /\ x \in Objects /\ x.state = "Transcoding"
        /\ x.session = transcoder[t].session /\ x.file = transcoder[t].file
        /\ x.off = transcoder[t].off
    BY <1>1, <1>2, <1>3 DEF Objects
  <1> HIDE DEF x
  <1> PICK s \in Sessions, f \in Files : s = x.session /\ f = x.file
    BY <1>4 DEF Objects
  <1>5. x.off < FileChunks => Film(s, f)
    BY <1>1, <1>4 DEF Film
  <1> PICK y \in Objects :
        /\ transcoder' = [transcoder EXCEPT ![t] = y]
        /\ y.session = x.session /\ y.file = x.file
        /\ y.state = "Transcoding" => x.off < FileChunks /\ conn[x.session] # None
    BY <1>1, <1>4, Processing
  <1> DEFINE n == x.off + 1
  <1>6. \/ wire' = wire
        \/ /\ conn[s] # None /\ x.off < FileChunks
           /\ wire' = [wire EXCEPT ![conn[s]] = Append(@, Chunk(f, n))]
    BY <1>1, <1>4, Processing
  <1>7. x.off < FileChunks => n \in 1..FileChunks
    BY <1>4 DEF Objects
  <1> HIDE DEF n
  <1>8. Runs(t, y, s, f)
    BY <1>1, <1>2, <1>5, <1>6, <1>7 DEF Runs
  <1>9. QED
    BY <1>8

LEMMA WireTyped ==
  ASSUME Types, NEW t, NEW y, NEW s \in Sessions, NEW f \in Files, Runs(t, y, s, f)
  PROVE  ConnTypes'
  <1>1. ConnTypes /\ SessionTypes
    BY DEF Types
  <1>2. CASE wire' = wire
    BY <1>1, <1>2 DEF ConnTypes, Runs
  <1>3. ASSUME conn[s] # None, NEW n \in 1..FileChunks,
               wire' = [wire EXCEPT ![conn[s]] = Append(@, Chunk(f, n))]
        PROVE  ConnTypes'
    <2>1. conn[s] \in Conns
      BY <1>1, <1>3 DEF SessionTypes
    <2>2. Chunk(f, n) \in Heads \cup Chunks
      BY ItemsOfWire
    <2>3. Append(wire[conn[s]], Chunk(f, n)) \in Seq(Heads \cup Chunks)
      BY <1>1, <2>1, <2>2, AppendToList DEF ConnTypes
    <2>4. wire' \in [Conns -> Seq(Heads \cup Chunks)]
      BY <1>1, <1>3, <2>1, <2>3 DEF ConnTypes
    <2>5. QED
      BY <1>1, <2>4 DEF ConnTypes, Runs
  <1>4. QED
    BY <1>2, <1>3 DEF Runs

LEMMA ConnTypesNext == Types /\ Linked /\ [Next]_vars => ConnTypes'
  <1> SUFFICES ASSUME Types, Linked, [Next]_vars PROVE ConnTypes'
    OBVIOUS
  <1>0. ConnTypes /\ SessionTypes /\ MainTypes
    BY DEF Types
  <1>1. ASSUME NEW c \in Conns, NEW r \in Requests, Ask(c, r) PROVE ConnTypes'
    <2>1. asked[c] \in Seq(Requests)
      BY <1>0 DEF ConnTypes
    <2>2. /\ Append(asked[c], r) \in Seq(Requests)
          /\ Len(Append(asked[c], r)) = Len(asked[c]) + 1
          /\ Len(asked[c]) \in Nat
      BY <2>1, AppendToList, LenProperties
    <2>3. asked' = [asked EXCEPT ![c] = Append(asked[c], r)]
          /\ link' = link /\ read' = read /\ wbuf' = wbuf /\ wire' = wire
      BY <1>1 DEF Ask
    <2>4. asked' \in [Conns -> Seq(Requests)]
      BY <1>0, <2>2, <2>3 DEF ConnTypes
    <2>5. \A d \in Conns : read'[d] <= Len(asked'[d])
      BY <1>0, <2>2, <2>3 DEF ConnTypes
    <2>6. QED
      BY <1>0, <2>3, <2>4, <2>5 DEF ConnTypes
  <1>2. ASSUME NEW c \in Conns, Leave(c) PROVE ConnTypes'
    BY <1>0, <1>2 DEF ConnTypes, Leave
  <1>3. ASSUME NEW c \in Conns, NEW s \in Sessions, newConnection(c, s) PROVE ConnTypes'
    BY <1>0, <1>3 DEF ConnTypes, newConnection
  <1>4. ASSUME NEW s \in Sessions, Reads(s), wire' = wire, asked' = asked
        PROVE  /\ read' \in [Conns -> Nat]
               /\ \A c \in Conns : read'[c] <= Len(asked'[c])
    <2> PICK c \in Conns : c = conn[s]
      BY <1>4, RequestsRead
    <2>1. /\ read' = [read EXCEPT ![c] = read[c] + 1]
          /\ read[c] + 1 \in 1..Len(asked[c])
      BY <1>4, RequestsRead
    <2>2. read[c] + 1 \in Nat /\ read[c] + 1 <= Len(asked[c])
      BY <1>0, <2>1 DEF ConnTypes
    <2>3. QED
      BY <1>0, <1>4, <2>1, <2>2 DEF ConnTypes
  <1>5. ASSUME NEW s \in Sessions, onOtherRequest(s) PROVE ConnTypes'
    <2>1. /\ Reads(s) /\ wire' = wire /\ asked' = asked
          /\ writeResponse(conn[s], ResponseHead(Page), NextRequest(s).close)
      BY <1>5 DEF onOtherRequest
    <2>2. conn[s] \in Conns /\ ResponseHead(Page) \in Heads
      BY <2>1, RequestsRead, ItemsOfWire
    <2>3. /\ link' \in [Conns -> {"new", "open", "left", "closing", "closed"}]
          /\ wbuf' \in [Conns -> Seq(Buffered)]
      BY <1>0, <2>1, <2>2, Writing
    <2>4. QED
      BY <1>0, <1>4, <2>1, <2>3 DEF ConnTypes
  <1>6. ASSUME NEW s \in Sessions, onRequest(s) PROVE ConnTypes'
    <2>1. Reads(s) /\ wire' = wire /\ asked' = asked /\ link' = link /\ wbuf' = wbuf
      BY <1>6 DEF onRequest
    <2>2. QED
      BY <1>0, <1>4, <2>1 DEF ConnTypes
  <1>7. CASE onRequest_connect
    BY <1>0, <1>7 DEF ConnTypes, onRequest_connect, conn_vars
  <1>8. CASE onRequest_respond
    <2>1. /\ at.step = "respond"
          /\ writeResponse(conn[at.session], ResponseHead(at.request.file),
                           at.request.close)
          /\ asked' = asked /\ read' = read /\ wire' = wire
      BY <1>8 DEF onRequest_respond
    <2>2. conn[at.session] \in Conns /\ at.request \in Requests
      BY <1>0, <1>8, <2>1, Steps DEF Linked, SessionTypes
    <2>3. ResponseHead(at.request.file) \in Heads
      BY <2>2, ItemsOfWire DEF Files
    <2>4. /\ link' \in [Conns -> {"new", "open", "left", "closing", "closed"}]
          /\ wbuf' \in [Conns -> Seq(Buffered)]
      BY <1>0, <2>1, <2>2, <2>3, Writing
    <2>5. QED
      BY <1>0, <2>1, <2>4 DEF ConnTypes
  <1>9. ASSUME NEW s \in Sessions, Flush(s) PROVE ConnTypes'
    <2> PICK c \in Conns : c = conn[s]
      BY <1>0, <1>9 DEF SessionTypes, Flush
    <2>1. wbuf[c] \in Seq(Buffered) /\ wbuf[c] # << >>
          /\ link' = link /\ asked' = asked /\ read' = read
      BY <1>0, <1>9 DEF ConnTypes, Flush
    <2>2. Len(wbuf[c]) \in Nat \ {0}
      BY <2>1, EmptySeq
    <2>3. wbuf[c][1] \in Buffered
      BY <2>1, <2>2, ElementOfSeq
    <2>4. CASE wire' = [wire EXCEPT ![c] = Append(@, wbuf[c][1].item)]
               /\ wbuf' = [wbuf EXCEPT ![c] = Tail(@)]
      <3>1. wbuf[c][1].item \in Heads \cup Chunks
        BY <2>3 DEF Buffered
      <3>2. Append(wire[c], wbuf[c][1].item) \in Seq(Heads \cup Chunks)
        BY <1>0, <3>1, AppendToList DEF ConnTypes
      <3>3. Tail(wbuf[c]) \in Seq(Buffered)
        BY <2>1, HeadTailProperties
      <3>4. QED
        BY <1>0, <2>1, <2>4, <3>2, <3>3 DEF ConnTypes
    <2>5. CASE wbuf' = [wbuf EXCEPT ![c][1].whole = FALSE] /\ wire' = wire
      <3> DEFINE b == [wbuf[c][1] EXCEPT !.whole = FALSE]
      <3>1. b \in Buffered
        BY <2>3 DEF Buffered
      <3>2. wbuf' = [wbuf EXCEPT ![c] = [wbuf[c] EXCEPT ![1] = b]]
        BY <2>5
      <3> HIDE DEF b
      <3>3. [wbuf[c] EXCEPT ![1] = b] \in Seq(Buffered)
        BY <2>1, <2>2, <3>1, ExceptSeq
      <3>4. wbuf' \in [Conns -> Seq(Buffered)]
        BY <1>0, <3>2, <3>3 DEF ConnTypes
      <3>5. QED
        BY <1>0, <2>1, <2>5, <3>4 DEF ConnTypes
    <2>6. QED
      BY <1>9, <2>4, <2>5 DEF Flush
  <1>10. ASSUME NEW s \in Sessions, onTimeout(s) PROVE ConnTypes'
    <2>1. /\ conn[s] \in Conns /\ writeResponse(conn[s], RequestTimeout, TRUE)
          /\ asked' = asked /\ read' = read /\ wire' = wire
      BY <1>0, <1>10 DEF onTimeout, SessionTypes
    <2>2. /\ link' \in [Conns -> {"new", "open", "left", "closing", "closed"}]
          /\ wbuf' \in [Conns -> Seq(Buffered)]
      BY <1>0, <2>1, Writing, ItemsOfWire
    <2>3. QED
      BY <1>0, <2>1, <2>2 DEF ConnTypes
  <1>11. ASSUME NEW s \in Sessions, onConnectionDie(s) PROVE ConnTypes'
    <2>1. << >> \in Seq(Buffered)
      BY EmptySeq
    <2>2. /\ conn[s] \in Conns
          /\ link' = [link EXCEPT ![conn[s]] = "closed"]
          /\ wbuf' = [wbuf EXCEPT ![conn[s]] = << >>]
          /\ asked' = asked /\ read' = read /\ wire' = wire
      BY <1>0, <1>11 DEF onConnectionDie, SessionTypes
    <2>3. QED
      BY <1>0, <2>1, <2>2 DEF ConnTypes
  <1>12. CASE MainThread
    <2>1. CASE UNCHANGED conn_vars
      BY <1>0, <2>1 DEF ConnTypes, conn_vars
    <2>2. CASE onSocketBytesWritten_start
      BY <2>2, StartRuns, WireTyped
    <2>3. ASSUME NEW t \in Transcoders, onWriteActivated(t) PROVE ConnTypes'
      BY <2>3, ActivatedRuns, WireTyped
    <2>4. QED
      BY <1>12, <2>1, <2>2, <2>3 DEF MainThread, MainQueue, deleteTranscoder,
         onSocketBytesWritten, onSocketBytesWritten_take,
         onSocketBytesWritten_new, onSocketBytesWritten_connect
  <1>13. CASE UNCHANGED vars
    BY <1>0, <1>13 DEF ConnTypes, vars, conn_vars
  <1>14. QED
    BY <1>1, <1>2, <1>3, <1>5, <1>6, <1>7, <1>8, <1>9, <1>10, <1>11, <1>12, <1>13
       DEF Next, SessionThread

LEMMA SessionTypesNext == Types /\ Linked /\ [Next]_vars => SessionTypes'
  <1> SUFFICES ASSUME Types, Linked, [Next]_vars PROVE SessionTypes'
    OBVIOUS
  <1>0. ConnTypes /\ SessionTypes /\ MainTypes
    BY DEF Types
  <1>1. CASE UNCHANGED session_vars
    BY <1>0, <1>1 DEF SessionTypes, session_vars
  <1>2. ASSUME NEW c \in Conns, NEW s \in Sessions, newConnection(c, s)
        PROVE  SessionTypes'
    <2>1. pool # << >> => Front(pool) \in Seq(Sessions)
      BY <1>0, FrontOfList DEF SessionTypes, Linked
    <2>2. /\ pool' \in Seq(Sessions)
          /\ conn' = [conn EXCEPT ![s] = c]
          /\ UNCHANGED << m_sessions, slots, at, haunted >>
      BY <1>0, <1>2, <2>1 DEF newConnection, SessionTypes
    <2>3. QED
      BY <1>0, <2>2 DEF SessionTypes
  <1>3. ASSUME NEW s \in Sessions, onRequest(s) PROVE SessionTypes'
    <2> DEFINE r == NextRequest(s)
    <2>1. r \in Requests /\ r.file \in Files
      BY <1>0, <1>3, RequestsRead DEF onRequest
    <2>2. [step |-> "connect", session |-> s, request |-> r] \in AtSteps
      BY <2>1 DEF AtSteps
    <2>3. /\ \/ UNCHANGED << m_sessions, at >>
             \/ /\ m_sessions' = [m_sessions EXCEPT ![s] = r.file]
                /\ at' = [step |-> "connect", session |-> s, request |-> r]
          /\ UNCHANGED << pool, conn, slots, haunted >>
      BY <1>3 DEF onRequest
    <2> HIDE DEF r
    <2>4. QED
      BY <1>0, <2>1, <2>2, <2>3 DEF SessionTypes
  <1>4. CASE onRequest_connect
    <2>1. at \in AtSteps /\ at.session \in Sessions
      BY <1>0, <1>4, Steps DEF onRequest_connect
    <2>2. [at EXCEPT !.step = "respond"] \in AtSteps
      BY <2>1 DEF AtSteps
    <2>3. QED
      BY <1>0, <1>4, <2>1, <2>2 DEF onRequest_connect, SessionTypes
  <1>5. CASE onRequest_respond
    BY <1>0, <1>5 DEF onRequest_respond, SessionTypes
  <1>6. ASSUME NEW s \in Sessions, onConnectionDie(s) PROVE SessionTypes'
    <2> DEFINE h == haunted[s] \/ Unfinished(s)
    <2>1. h \in BOOLEAN
      OBVIOUS
    <2> HIDE DEF h
    <2>2. Append(pool, s) \in Seq(Sessions)
      BY <1>0, AppendToList DEF SessionTypes
    <2>3. /\ conn' = [conn EXCEPT ![s] = None]
          /\ pool' = Append(pool, s)
          /\ haunted' = [haunted EXCEPT ![s] = h]
          /\ UNCHANGED << m_sessions, slots, at >>
      BY <1>6 DEF onConnectionDie, h
    <2>4. QED
      BY <1>0, <2>1, <2>2, <2>3 DEF SessionTypes
  <1>7. CASE onSocketBytesWritten
    <2>1. /\ slots' = slots \/ slots' = [slots EXCEPT ![queue[1].session] = 0]
          /\ UNCHANGED << pool, conn, m_sessions, at, haunted >>
      BY <1>7 DEF onSocketBytesWritten
    <2>2. slots' \in [Sessions -> Nat]
      BY <1>0, <2>1 DEF SessionTypes
    <2>3. QED
      BY <1>0, <2>1, <2>2 DEF SessionTypes
  <1>8. CASE onSocketBytesWritten_take
    BY <1>0, <1>8 DEF onSocketBytesWritten_take, SessionTypes
  <1>9. CASE UNCHANGED vars
    BY <1>1, <1>9 DEF vars
  <1>10. ASSUME NEW s \in Sessions, onOtherRequest(s) \/ Flush(s) \/ onTimeout(s)
         PROVE  SessionTypes'
    BY <1>1, <1>10 DEF onOtherRequest, Flush, onTimeout
  <1>11. ASSUME NEW t \in Transcoders, onWriteActivated(t) PROVE SessionTypes'
    BY <1>1, <1>11 DEF onWriteActivated
  <1>12. CASE onSocketBytesWritten_start \/ deleteTranscoder
    BY <1>1, <1>12 DEF onSocketBytesWritten_start, deleteTranscoder
  <1>15. CASE onSocketBytesWritten_new \/ onSocketBytesWritten_connect
    BY <1>0, <1>1, <1>15, LaunchGoesOn
  <1>13. ASSUME NEW c \in Conns, Leave(c) \/ \E r \in Requests : Ask(c, r)
         PROVE  SessionTypes'
    BY <1>1, <1>13 DEF Leave, Ask
  <1>14. QED
    BY <1>2, <1>3, <1>4, <1>5, <1>6, <1>7, <1>8, <1>9, <1>10, <1>11, <1>12, <1>13,
       <1>15 DEF Next, SessionThread, MainThread, MainQueue

(* The queue grows by events of known objects, and loses its head.         *)
LEMMA QueueGrows ==
  ASSUME MainTypes, NEW q \in Seq(Written \cup Deletes), queue' = queue \o q,
         transcoder' = transcoder, slot' = slot,
         \A i \in 1..Len(q) :
           q[i].event = "delete" => Deletable(q[i].transcoder)
  PROVE  MainTypes'
  <1>1. queue \in Seq(Written \cup Deletes)
    BY DEF MainTypes
  <1>2. /\ queue' \in Seq(Written \cup Deletes)
        /\ Len(queue') = Len(queue) + Len(q)
        /\ \A i \in 1..Len(queue) + Len(q) :
             queue'[i] = IF i <= Len(queue) THEN queue[i] ELSE q[i - Len(queue)]
    BY <1>1, ConcatProperties
  <1>3. Len(queue) \in Nat /\ Len(q) \in Nat
    BY <1>1, LenProperties
  <1>4. ASSUME NEW i \in 1..Len(queue'), queue'[i].event = "delete"
        PROVE  Deletable(queue'[i].transcoder)
    <2>1. CASE i <= Len(queue)
      BY <1>2, <1>3, <1>4, <2>1 DEF MainTypes
    <2>2. CASE ~(i <= Len(queue))
      <3>1. i - Len(queue) \in 1..Len(q) /\ queue'[i] = q[i - Len(queue)]
        BY <1>2, <1>3, <2>2
      <3>2. QED
        BY <1>4, <3>1
    <2>3. QED
      BY <2>1, <2>2
  <1>5. \A t : Deletable(t)' <=> Deletable(t)
    BY DEF Deletable, NextTranscoder
  <1>6. QED
    BY <1>2, <1>4, <1>5 DEF MainTypes

LEMMA QueueServed ==
  ASSUME MainTypes, slot = Idle, queue # << >>, queue' = Tail(queue),
         slot' \in {Idle} \cup TakeSteps,
         transcoder' \in [Transcoders -> Objects \cup {NoTranscoder}],
         \A t \in Transcoders :
           transcoder[t] # NoTranscoder => transcoder'[t] # NoTranscoder
  PROVE  MainTypes'
  <1>1. queue \in Seq(Written \cup Deletes) /\ Len(queue) \in Nat
    BY LenProperties DEF MainTypes
  <1>2. /\ queue' \in Seq(Written \cup Deletes)
        /\ Len(queue') = Len(queue) - 1
        /\ \A i \in 1..Len(queue') : queue'[i] = queue[i + 1]
    BY <1>1, HeadTailProperties
  <1>3. ASSUME NEW i \in 1..Len(queue'), queue'[i].event = "delete"
        PROVE  transcoder'[queue'[i].transcoder] # NoTranscoder
    <2>1. i + 1 \in 1..Len(queue) /\ queue'[i] = queue[i + 1]
      BY <1>1, <1>2
    <2>2. queue[i + 1] \in Written \cup Deletes
      BY <1>1, <2>1, ElementOfSeq
    <2>3. queue[i + 1].transcoder \in Transcoders
      BY <1>3, <2>1, <2>2 DEF Written, Deletes
    <2>4. Deletable(queue[i + 1].transcoder)
      BY <1>3, <2>1 DEF MainTypes
    <2>5. QED
      BY <2>1, <2>3, <2>4 DEF Deletable, Idle
  <1>4. QED
    BY <1>2, <1>3 DEF MainTypes, Deletable

LEMMA MainTypesNext == Types /\ [Next]_vars => MainTypes'
  <1> SUFFICES ASSUME Types, [Next]_vars PROVE MainTypes'
    OBVIOUS
  <1>0. ConnTypes /\ SessionTypes /\ MainTypes
    BY DEF Types
  <1>1. CASE UNCHANGED main_vars
    BY <1>0, <1>1 DEF MainTypes, Deletable, NextTranscoder, main_vars
  <1>a. ASSUME slot.step # "start", queue' = queue, transcoder' = transcoder,
               slot' \in {Idle} \cup TakeSteps \cup LaunchSteps
        PROVE  MainTypes'
    BY <1>0, <1>a DEF MainTypes, Deletable
  <1>2. ASSUME NEW s \in Sessions, Flush(s) PROVE MainTypes'
    <2> DEFINE e == [event |-> "written", session |-> s]
               q == [i \in 1..slots[s] |-> e]
    <2>1. e \in Written \cup Deletes /\ e.event = "written"
      BY DEF Written
    <2>2. slots[s] \in Nat
      BY <1>0 DEF SessionTypes
    <2> HIDE DEF e
    <2>3. q \in Seq(Written \cup Deletes) /\ \A i \in 1..Len(q) : q[i] = e
      BY <2>1, <2>2
    <2>4. queue' = queue \o q /\ transcoder' = transcoder /\ slot' = slot
      BY <1>2 DEF Flush, bytesWritten, e
    <2> HIDE DEF q
    <2>5. QED
      BY <1>0, <2>1, <2>3, <2>4, QueueGrows
  <1>3. ASSUME NEW s \in Sessions, onConnectionDie(s) PROVE MainTypes'
    <2> DEFINE q == SetToSeq({ [event |-> "delete", transcoder |-> t] :
                t \in { u \in Transcoders :
                  \/ /\ transcoder[u].state \in {"Transcoding", "Stopped"}
                     /\ transcoder[u].session = s
                  \/ slot.step = "start" /\ slot.session = s /\ u = NextTranscoder } })
    <2>1. queue' = queue \o q /\ transcoder' = transcoder /\ slot' = slot
      BY <1>3 DEF onConnectionDie
    <2>2. /\ q \in Seq(Written \cup Deletes)
          /\ \A i \in 1..Len(q) : Deletable(q[i].transcoder)
      BY <1>0, Deleting DEF Posted, Deletable
    <2> HIDE DEF q
    <2>3. QED
      BY <1>0, <2>1, <2>2, QueueGrows
  <1>4. CASE onSocketBytesWritten
    <2>1. queue # << >> /\ queue' = Tail(queue) /\ transcoder' = transcoder
          /\ slot = Idle /\ (slot' = slot \/ slot' = [step |-> "take", session |-> queue[1].session])
      BY <1>4 DEF onSocketBytesWritten
    <2>2. queue[1] \in Written \cup Deletes /\ queue[1].event = "written"
      BY <1>0, <1>4, ElementOfSeq, EmptySeq DEF MainTypes, onSocketBytesWritten
    <2>3. slot' \in {Idle} \cup TakeSteps
      BY <1>0, <2>1, <2>2 DEF TakeSteps, Written, Deletes
    <2>4. QED
      BY <1>0, <2>1, <2>3, QueueServed DEF MainTypes
  <1>5. CASE onSocketBytesWritten_take
    <2>1. slot.step = "take" /\ slot.session \in Sessions
      BY <1>0, <1>5, Steps DEF onSocketBytesWritten_take
    <2>2. slot' \in {Idle} \cup NewSteps
      BY <1>0, <1>5, <2>1 DEF onSocketBytesWritten_take, NewSteps, SessionTypes
    <2>3. queue' = queue /\ transcoder' = transcoder
      BY <1>5 DEF onSocketBytesWritten_take
    <2>4. QED
      BY <1>a, <2>1, <2>2, <2>3 DEF LaunchSteps
  <1>15. CASE onSocketBytesWritten_new \/ onSocketBytesWritten_connect
    BY <1>0, <1>a, <1>15, LaunchGoesOn
  <1>6. CASE deleteTranscoder
    <2> DEFINE t == queue[1].transcoder
               y == [transcoder[t] EXCEPT !.state = "deleted"]
    <2>1. queue # << >> /\ queue[1].event = "delete" /\ queue' = Tail(queue)
          /\ transcoder' = [transcoder EXCEPT ![t] = y]
          /\ slot = Idle /\ slot' = slot
      BY <1>6 DEF deleteTranscoder
    <2>2. 1 \in 1..Len(queue) /\ queue[1] \in Written \cup Deletes
      BY <1>0, <2>1, ElementOfSeq, EmptySeq DEF MainTypes
    <2>3. t \in Transcoders /\ transcoder[t] \in Objects
      BY <1>0, <2>1, <2>2 DEF MainTypes, Deletable, Idle, Written, Deletes
    <2>4. y \in Objects
      BY <2>3 DEF Objects
    <2>5. \A o \in Objects : o # NoTranscoder
      BY DEF Objects, NoTranscoder
    <2> HIDE DEF y, t
    <2>6. transcoder' \in [Transcoders -> Objects \cup {NoTranscoder}]
      BY <1>0, <2>1, <2>3, <2>4 DEF MainTypes
    <2>7. \A u \in Transcoders :
            transcoder[u] # NoTranscoder => transcoder'[u] # NoTranscoder
      BY <1>0, <2>1, <2>3, <2>4, <2>5 DEF MainTypes
    <2>8. QED
      BY <1>0, <2>1, <2>6, <2>7, QueueServed
  <1>7. ASSUME NEW t, NEW y \in Objects, NEW s \in Sessions, NEW f \in Files,
               Runs(t, y, s, f)
        PROVE  MainTypes'
    <2>1. \A o \in Objects : o # NoTranscoder
      BY DEF Objects, NoTranscoder
    <2>2. queue' = queue /\ transcoder' = [transcoder EXCEPT ![t] = y]
          /\ slot' = Idle /\ (slot = Idle \/ t = NextTranscoder)
      BY <1>7 DEF Runs
    <2>3. transcoder' \in [Transcoders -> Objects \cup {NoTranscoder}]
      BY <1>0, <2>2 DEF MainTypes
    <2>4. \A u \in Transcoders :
            transcoder[u] # NoTranscoder => transcoder'[u] # NoTranscoder
      BY <1>0, <2>1, <2>2 DEF MainTypes
    <2>5. \A i \in 1..Len(queue) :
            queue[i].event = "delete" => queue[i].transcoder \in Transcoders
      <3>1. \A i \in 1..Len(queue) : queue[i] \in Written \cup Deletes
        BY <1>0, ElementOfSeq DEF MainTypes
      <3>2. QED
        BY <3>1 DEF Written, Deletes
    <2>6. ASSUME NEW i \in 1..Len(queue), queue[i].event = "delete"
          PROVE  transcoder'[queue[i].transcoder] # NoTranscoder
      <3> PICK u \in Transcoders : u = queue[i].transcoder
        BY <2>5, <2>6
      <3>1. CASE u = t
        BY <1>0, <2>1, <2>2, <3>1 DEF MainTypes
      <3>2. CASE u # t
        <4>1. Deletable(u)
          BY <1>0, <2>6 DEF MainTypes
        <4>2. transcoder[u] # NoTranscoder
          BY <2>2, <3>2, <4>1 DEF Deletable, Idle
        <4>3. QED
          BY <2>4, <4>2
      <3>3. QED
        BY <3>1, <3>2
    <2>7. QED
      BY <1>0, <2>2, <2>3, <2>6 DEF MainTypes, Deletable
  <1>8. CASE UNCHANGED vars
    BY <1>1, <1>8 DEF vars
  <1>9. ASSUME NEW c \in Conns,
               Leave(c) \/ (\E r \in Requests : Ask(c, r))
               \/ \E s \in Sessions : newConnection(c, s)
        PROVE  MainTypes'
    BY <1>1, <1>9 DEF Leave, Ask, newConnection
  <1>10. ASSUME NEW s \in Sessions, onOtherRequest(s) \/ onRequest(s) \/ onTimeout(s)
         PROVE  MainTypes'
    BY <1>1, <1>10 DEF onOtherRequest, onRequest, onTimeout
  <1>11. CASE onRequest_connect \/ onRequest_respond
    BY <1>1, <1>11 DEF onRequest_connect, onRequest_respond
  <1>12. CASE onSocketBytesWritten_start
    BY <1>7, <1>12, StartRuns
  <1>13. ASSUME NEW t \in Transcoders, onWriteActivated(t) PROVE MainTypes'
    BY <1>7, <1>13, ActivatedRuns
  <1>14. QED
    BY <1>2, <1>3, <1>4, <1>5, <1>6, <1>8, <1>9, <1>10, <1>11, <1>12, <1>13,
       <1>15 DEF Next, SessionThread, MainThread, MainQueue

-----------------------------------------------------------------------------
(* Sessions keep their connections and connections stay in use.            *)
LEMMA LinkedKept ==
  ASSUME Types, Linked, UNCHANGED << pool, conn >>,
         at' = Idle \/ at' = at \/ (at' # Idle /\ conn[at'.session] # None),
         \A c \in Conns : \/ link'[c] = link[c]
                          \/ link[c] # "new" /\ link'[c] \in {"left", "closing"},
         \A c \in Conns : wire'[c] = wire[c] \/ link[c] # "new"
  PROVE  Linked'
  <1>1. \A s \in Sessions : conn[s] # None => conn[s] \in Conns
    BY DEF Types, SessionTypes
  <1>2. \A s \in Sessions :
          conn'[s] # None => link'[conn'[s]] \in {"open", "left", "closing"}
    BY <1>1 DEF Linked
  <1>3. \A c \in Conns : link'[c] = "new" => wire'[c] = << >>
    BY DEF Linked
  <1>4. at' # Idle => conn'[at'.session] # None
    BY DEF Linked
  <1>5. ToSet(pool') = ToSet(pool) /\ (IsInjective(pool') <=> IsInjective(pool))
    OBVIOUS
  <1>6. QED
    BY <1>2, <1>3, <1>4, <1>5 DEF Linked

LEMMA LinkedNext == Types /\ Linked /\ [Next]_vars => Linked'
  <1> SUFFICES ASSUME Types, Linked, [Next]_vars PROVE Linked'
    OBVIOUS
  <1>0. ConnTypes /\ SessionTypes /\ MainTypes
    BY DEF Types
  <1>1. ASSUME NEW c \in Conns, Leave(c) PROVE Linked'
    <2>1. UNCHANGED << pool, conn, at, wire >>
      BY <1>1 DEF Leave, session_vars
    <2>2. \A d \in Conns : \/ link'[d] = link[d]
                           \/ link[d] # "new" /\ link'[d] \in {"left", "closing"}
      BY <1>0, <1>1 DEF Leave, ConnTypes
    <2>3. QED
      BY <2>1, <2>2, LinkedKept
  <1>2. ASSUME NEW c \in Conns, NEW s \in Sessions, newConnection(c, s)
        PROVE  Linked'
    <2>1. /\ at = Idle /\ at' = Idle /\ wire' = wire
          /\ link[c] = "new"
          /\ conn' = [conn EXCEPT ![s] = c]
          /\ link' = [link EXCEPT ![c] = "open"]
      BY <1>2 DEF newConnection
    <2>2. \A u \in Sessions : conn[u] # c
      BY <2>1, NoneAssumption DEF Linked
    <2>3. pool \in Seq(Sessions) /\ IsInjective(pool) /\ ToSet(pool) \subseteq Sessions
      BY <1>0, ToSetOfSeq DEF SessionTypes, Linked
    <2>4. conn[s] = None /\ IsInjective(pool') /\ ToSet(pool') = ToSet(pool) \ {s}
      <3>1. CASE pool # << >>
        <4>1. s = Last(pool) /\ pool' = Front(pool)
          BY <1>2, <3>1 DEF newConnection
        <4>2. QED
          BY <2>3, <3>1, <4>1, FrontOfList DEF Linked
      <3>2. CASE pool = << >>
        <4>1. conn[s] = None /\ pool' = pool
          BY <1>2, <3>2 DEF newConnection
        <4>2. ToSet(pool) = { pool[i] : i \in 1..Len(pool) }
          BY <2>3, ToSetOfSeq
        <4>3. ToSet(pool) = {}
          BY <3>2, <4>2
        <4>4. QED
          BY <2>3, <4>1, <4>3
      <3>3. QED
        BY <3>1, <3>2
    <2>5. conn'[s] = c /\ \A u \in Sessions : u # s => conn'[u] = conn[u]
      BY <1>0, <2>1 DEF SessionTypes
    <2>6. link'[c] = "open" /\ \A d \in Conns : d # c => link'[d] = link[d]
      BY <1>0, <2>1 DEF ConnTypes
    <2>7. \A u \in ToSet(pool') : conn'[u] = None
      BY <2>3, <2>4, <2>5 DEF Linked
    <2>8. \A u \in Sessions :
            conn'[u] # None => link'[conn'[u]] \in {"open", "left", "closing"}
      BY <1>0, <2>2, <2>5, <2>6 DEF Linked, SessionTypes
    <2>9. \A u, v \in Sessions : conn'[u] = conn'[v] /\ conn'[u] # None => u = v
      BY <2>2, <2>5 DEF Linked
    <2>10. \A d \in Conns : link'[d] = "new" => wire'[d] = << >>
      BY <2>1, <2>6 DEF Linked
    <2>11. QED
      BY <2>1, <2>4, <2>7, <2>8, <2>9, <2>10 DEF Linked
  <1>3. ASSUME NEW s \in Sessions, onOtherRequest(s) \/ onTimeout(s) PROVE Linked'
    <2>1. \E item \in Heads : \E close : writeResponse(conn[s], item, close)
      BY <1>3, ItemsOfWire DEF onOtherRequest, onTimeout
    <2>2. conn[s] \in Conns /\ link[conn[s]] # "new"
      BY <1>0, <1>3 DEF onOtherRequest, onTimeout, Reads, SessionTypes
    <2>3. UNCHANGED << pool, conn, at, wire >>
      BY <1>3 DEF onOtherRequest, onTimeout, session_vars
    <2>4. QED
      BY <1>0, <2>1, <2>2, <2>3, Writing, LinkedKept
  <1>4. ASSUME NEW s \in Sessions, onRequest(s) PROVE Linked'
    <2>1. UNCHANGED << pool, conn, link, wire >>
          /\ (at' = at \/ at' = [step |-> "connect", session |-> s,
                                 request |-> NextRequest(s)])
      BY <1>4 DEF onRequest
    <2>2. conn[s] # None
      BY <1>4 DEF onRequest, Reads
    <2>3. at' = at \/ (at' # Idle /\ conn[at'.session] # None)
      BY <2>1, <2>2 DEF Idle
    <2>4. QED
      BY <2>1, <2>3, LinkedKept
  <1>5. CASE onRequest_connect
    <2>1. at \in AtSteps /\ at # Idle
      BY <1>0, <1>5, Steps DEF onRequest_connect
    <2>2. at'.session = at.session /\ at' # Idle
      BY <1>5, <2>1 DEF onRequest_connect, AtSteps, Idle
    <2>3. conn[at'.session] # None
      BY <2>1, <2>2 DEF Linked
    <2>4. UNCHANGED << pool, conn, link, wire >>
      BY <1>5 DEF onRequest_connect, conn_vars
    <2>5. QED
      BY <2>2, <2>3, <2>4, LinkedKept
  <1>6. CASE onRequest_respond
    <2>1. /\ at.session \in Sessions /\ conn[at.session] # None
          /\ at.request \in Requests
      BY <1>0, <1>6, Steps DEF onRequest_respond, Linked
    <2>2. conn[at.session] \in Conns /\ link[conn[at.session]] # "new"
      BY ZenonT(30), <1>0, <2>1 DEF SessionTypes, Linked
    <2>3. \E item \in Heads : \E close : writeResponse(conn[at.session], item, close)
      BY <1>6, <2>1, ItemsOfWire DEF onRequest_respond, Files
    <2>4. at' = Idle /\ UNCHANGED << pool, conn, wire >>
      BY <1>6 DEF onRequest_respond
    <2>5. QED
      BY <1>0, <2>2, <2>3, <2>4, Writing, LinkedKept
  <1>7. ASSUME NEW s \in Sessions, Flush(s) PROVE Linked'
    <2>1. conn[s] \in Conns /\ link[conn[s]] # "new"
      BY ZenonT(30), <1>0, <1>7 DEF Flush, Linked, SessionTypes
    <2>2. \A c \in Conns : c # conn[s] => wire'[c] = wire[c]
      BY <1>0, <1>7, <2>1 DEF Flush, ConnTypes
    <2>3. UNCHANGED << pool, conn, at, link >>
      BY <1>7 DEF Flush, session_vars
    <2>4. QED
      BY <2>1, <2>2, <2>3, LinkedKept
  <1>8. ASSUME NEW s \in Sessions, onConnectionDie(s) PROVE Linked'
    <2> PICK c \in Conns : c = conn[s] /\ c # None
      BY <1>0, <1>8, NoneAssumption DEF onConnectionDie, SessionTypes
    <2>1. /\ at' = at /\ at = Idle /\ wire' = wire
          /\ link' = [link EXCEPT ![c] = "closed"]
          /\ conn' = [conn EXCEPT ![s] = None]
          /\ pool' = Append(pool, s)
      BY <1>8 DEF onConnectionDie
    <2>2. conn'[s] = None /\ \A u \in Sessions : u # s => conn'[u] = conn[u]
      BY <1>0, <2>1 DEF SessionTypes
    <2>3. link'[c] = "closed" /\ \A d \in Conns : d # c => link'[d] = link[d]
      BY <1>0, <2>1 DEF ConnTypes
    <2>4. s \notin ToSet(pool)
      BY DEF Linked
    <2>5. pool \in Seq(Sessions) /\ ToSet(pool) \subseteq Sessions
      BY <1>0, ToSetOfSeq DEF SessionTypes
    <2>6. IsInjective(pool') /\ ToSet(pool') = ToSet(pool) \cup {s}
      BY <2>1, <2>4, <2>5, AppendToList DEF Linked
    <2>7. \A u \in ToSet(pool') : conn'[u] = None
      BY <2>2, <2>4, <2>5, <2>6 DEF Linked
    <2>8. \A u \in Sessions :
            conn'[u] # None => conn'[u] \in Conns /\ u # s /\ conn'[u] # c
      BY <1>0, <2>2 DEF Linked, SessionTypes
    <2>9. \A u \in Sessions :
            conn'[u] # None => link'[conn'[u]] \in {"open", "left", "closing"}
      BY <2>2, <2>3, <2>8 DEF Linked
    <2>10. \A u, v \in Sessions : conn'[u] = conn'[v] /\ conn'[u] # None => u = v
      BY <2>2 DEF Linked
    <2>11. \A d \in Conns : link'[d] = "new" => wire'[d] = << >>
      BY <2>1, <2>3 DEF Linked
    <2>12. QED
      BY <2>1, <2>6, <2>7, <2>9, <2>10, <2>11 DEF Linked
  <1>9. ASSUME NEW t, NEW y, NEW s \in Sessions, NEW f \in Files, Runs(t, y, s, f)
        PROVE  Linked'
    <2>1. UNCHANGED << pool, conn, at, link >>
      BY <1>9 DEF Runs, session_vars
    <2>2. \A c \in Conns : wire'[c] = wire[c] \/ (conn[s] # None /\ c = conn[s])
      BY <1>0, <1>9 DEF Runs, ConnTypes
    <2>3. \A c \in Conns : wire'[c] = wire[c] \/ link[c] # "new"
      BY <2>2 DEF Linked
    <2>4. QED
      BY <2>1, <2>3, LinkedKept
  <1>10. CASE onSocketBytesWritten_start
    BY <1>9, <1>10, StartRuns
  <1>11. ASSUME NEW t \in Transcoders, onWriteActivated(t) PROVE Linked'
    BY <1>9, <1>11, ActivatedRuns
  <1>12. CASE UNCHANGED << pool, conn, at, link, wire >>
    BY <1>12, LinkedKept
  <1>13. ASSUME NEW c \in Conns, NEW r \in Requests, Ask(c, r) PROVE Linked'
    BY <1>12, <1>13 DEF Ask, session_vars
  <1>14. CASE \/ onSocketBytesWritten \/ onSocketBytesWritten_take
              \/ onSocketBytesWritten_new \/ onSocketBytesWritten_connect
    BY <1>12, <1>14 DEF onSocketBytesWritten, onSocketBytesWritten_take,
       onSocketBytesWritten_new, onSocketBytesWritten_connect, conn_vars, session_vars
  <1>15. CASE deleteTranscoder
    BY <1>12, <1>15 DEF deleteTranscoder, conn_vars, session_vars
  <1>16. CASE UNCHANGED vars
    BY <1>12, <1>16 DEF vars, conn_vars, session_vars
  <1>17. QED
    BY <1>1, <1>2, <1>3, <1>4, <1>5, <1>6, <1>7, <1>8, <1>10, <1>11, <1>13, <1>14,
       <1>15, <1>16 DEF Next, SessionThread, MainThread, MainQueue

-----------------------------------------------------------------------------
(* What a session knows does not grow in most steps, and what has been     *)
(* asked for and read does not shrink.                                     *)
LEMMA HasReadStays ==
  ASSUME Types, NEW c \in Conns, NEW f, HasRead(c, f),
         asked'[c] = asked[c] \/ (\E r \in Requests : asked'[c] = Append(asked[c], r)),
         read'[c] = read[c] \/ read'[c] = read[c] + 1
  PROVE  HasRead(c, f)'
  <1> PICK k \in 1..read[c] : asked[c][k].file = f
    BY DEF HasRead
  <1>1. asked[c] \in Seq(Requests) /\ read[c] \in Nat /\ read[c] <= Len(asked[c])
        /\ Len(asked[c]) \in Nat
    BY LenProperties DEF Types, ConnTypes
  <1>2. k \in 1..Len(asked[c]) /\ k \in 1..read'[c]
    BY <1>1
  <1>3. asked'[c][k] = asked[c][k]
    BY <1>1, <1>2, AppendToList
  <1>4. asked'[c][k].file = f
    BY <1>3
  <1>5. QED
    BY <1>2, <1>4 DEF HasRead

LEMMA CarriesMore ==
  ASSUME Types, NEW c \in Conns, NEW item \in Heads \cup Chunks,
         wire'[c] = Append(wire[c], item), NEW f, Carries(c, f)'
  PROVE  Carries(c, f) \/ (item[1] = "body" /\ item[2] = f)
  <1> DEFINE w == wire[c]
  <1>1. w \in Seq(Heads \cup Chunks) /\ Len(w) \in Nat
    BY LenProperties DEF Types, ConnTypes
  <1>2. /\ Len(wire'[c]) = Len(w) + 1
        /\ \A j \in 1..Len(w) : wire'[c][j] = w[j]
        /\ wire'[c][Len(w) + 1] = item
    BY <1>1, AppendToList
  <1> PICK i \in 1..Len(wire'[c]) : wire'[c][i][1] = "body" /\ wire'[c][i][2] = f
    BY DEF Carries
  <1>3. CASE i \in 1..Len(w)
    BY <1>2, <1>3 DEF Carries
  <1>4. CASE i = Len(w) + 1
    BY <1>2, <1>4
  <1>5. QED
    BY <1>1, <1>2, <1>3, <1>4

(* No session changes its connection; each film that appears in what a     *)
(* session knows, or on its connection, was known to it or has been read.  *)
LEMMA OwnKept ==
  ASSUME Types, Own, UNCHANGED << conn, haunted >>,
         \A s \in Sessions, f \in Files :
           Film(s, f)' => \/ Film(s, f)
                          \/ \E c \in Conns : conn[s] = c /\ HasRead(c, f)',
         \A c \in Conns :
           \/ asked'[c] = asked[c]
           \/ \E r \in Requests : asked'[c] = Append(asked[c], r),
         \A c \in Conns : read'[c] = read[c] \/ read'[c] = read[c] + 1,
         \A s \in Sessions, c \in Conns, f \in Files :
           conn[s] = c /\ Carries(c, f)' => Carries(c, f) \/ Film(s, f)
  PROVE  Own'
  <1>1. ASSUME NEW c \in Conns, NEW f, HasRead(c, f) PROVE HasRead(c, f)'
    BY <1>1, HasReadStays
  <1> SUFFICES ASSUME NEW s \in Sessions, ~haunted[s], NEW f \in Files
               PROVE  /\ Film(s, f)' => \E c \in Conns : conn[s] = c /\ HasRead(c, f)'
                      /\ \A c \in Conns : conn[s] = c /\ Carries(c, f)' => HasRead(c, f)'
    BY DEF Own
  <1>2. Film(s, f) => \E c \in Conns : conn[s] = c /\ HasRead(c, f)
    BY DEF Own
  <1>3. Film(s, f)' => \E c \in Conns : conn[s] = c /\ HasRead(c, f)'
    BY <1>1, <1>2
  <1>4. ASSUME NEW c \in Conns, conn[s] = c, Carries(c, f)' PROVE HasRead(c, f)'
    <2>1. Carries(c, f) \/ Film(s, f)
      BY <1>4
    <2>2. HasRead(c, f)
      BY <1>2, <1>4, <2>1 DEF Own
    <2>3. QED
      BY <1>1, <2>2
  <1>5. QED
    BY <1>3, <1>4

LEMMA HeadsCarryNothing ==
  ASSUME Types, NEW c \in Conns, NEW item \in Heads,
         wire'[c] = Append(wire[c], item), NEW f, Carries(c, f)'
  PROVE  Carries(c, f)
  BY CarriesMore, ItemsOfWire

LEMMA OwnNext == Types /\ Linked /\ Own /\ [Next]_vars => Own'
  <1> SUFFICES ASSUME Types, Linked, Own, [Next]_vars PROVE Own'
    OBVIOUS
  <1>0. ConnTypes /\ SessionTypes /\ MainTypes
    BY DEF Types
  <1> DEFINE FilmsKept == UNCHANGED << m_sessions, slot, transcoder >>
             ReadKept == UNCHANGED << asked, read >>
  <1>a. ASSUME FilmsKept, NEW s, NEW f, Film(s, f)' PROVE Film(s, f)
    BY <1>a DEF Film
  <1>b. ASSUME wire' = wire, NEW c, NEW f, Carries(c, f)' PROVE Carries(c, f)
    BY <1>b DEF Carries
  <1>c. CASE /\ UNCHANGED << conn, haunted, wire >> /\ ReadKept
             /\ \A s \in Sessions, f \in Files : Film(s, f)' => Film(s, f)
    BY <1>b, <1>c, OwnKept
  <1>1. ASSUME NEW c \in Conns, NEW r \in Requests, Ask(c, r) PROVE Own'
    <2>1. UNCHANGED << conn, haunted, wire, read >> /\ FilmsKept
      BY <1>1 DEF Ask, session_vars, main_vars
    <2>2. \A d \in Conns : asked'[d] = asked[d] \/ asked'[d] = Append(asked[d], r)
      BY <1>0, <1>1 DEF Ask, ConnTypes
    <2>3. QED
      BY <1>a, <1>b, <2>1, <2>2, OwnKept
  <1>2. ASSUME NEW c \in Conns, Leave(c) PROVE Own'
    BY <1>a, <1>c, <1>2 DEF Leave, session_vars, main_vars
  <1>3. ASSUME NEW c \in Conns, NEW s \in Sessions, newConnection(c, s) PROVE Own'
    <2>1. /\ link[c] = "new" /\ conn' = [conn EXCEPT ![s] = c]
          /\ UNCHANGED << haunted, wire >> /\ FilmsKept /\ ReadKept
      BY <1>3 DEF newConnection, main_vars
    <2>2. conn[s] = None
      <3>1. CASE pool # << >>
        <4>1. s = Last(pool) /\ pool \in Seq(Sessions)
          BY <1>0, <1>3, <3>1 DEF newConnection, SessionTypes
        <4>2. s \in ToSet(pool)
          BY <3>1, <4>1, FrontOfList DEF Linked
        <4>3. QED
          BY <4>2 DEF Linked
      <3>2. QED
        BY <1>3, <3>1 DEF newConnection
    <2>3. conn'[s] = c /\ \A u \in Sessions : u # s => conn'[u] = conn[u]
      BY <1>0, <2>1 DEF SessionTypes
    <2>4. wire[c] = << >>
      BY <2>1 DEF Linked
    <2>5. ASSUME NEW u \in Sessions, ~haunted[u], NEW f \in Files
          PROVE  /\ Film(u, f) => \E d \in Conns : conn'[u] = d /\ HasRead(d, f)
                 /\ \A d \in Conns : conn'[u] = d /\ Carries(d, f) => HasRead(d, f)
      <3>1. CASE u = s
        <4>1. ~Film(s, f)
          BY <2>2, <2>5, <3>1 DEF Own
        <4>2. ~Carries(c, f)
          BY <2>4 DEF Carries
        <4>3. QED
          BY <2>3, <3>1, <4>1, <4>2
      <3>2. CASE u # s
        BY <2>3, <2>5, <3>2 DEF Own
      <3>3. QED
        BY <3>1, <3>2
    <2>6. \A d \in Conns, f \in Files : HasRead(d, f)' <=> HasRead(d, f)
      BY <2>1 DEF HasRead
    <2>7. QED
      BY <1>a, <1>b, <2>1, <2>5, <2>6 DEF Own
  <1>4. ASSUME NEW s \in Sessions, Reads(s), asked' = asked
        PROVE  \A c \in Conns : read'[c] = read[c] \/ read'[c] = read[c] + 1
    BY <1>0, <1>4, RequestsRead DEF ConnTypes
  <1>5. ASSUME NEW s \in Sessions, onOtherRequest(s) PROVE Own'
    <2>1. Reads(s) /\ UNCHANGED << conn, haunted, wire, asked >> /\ FilmsKept
      BY <1>5 DEF onOtherRequest, session_vars, main_vars
    <2>2. QED
      BY <1>a, <1>b, <1>4, <2>1, OwnKept
  <1>6. ASSUME NEW s \in Sessions, onRequest(s) PROVE Own'
    <2> PICK g : g = NextRequest(s).file
      OBVIOUS
    <2>1. /\ Reads(s) /\ UNCHANGED << conn, haunted, wire, asked, slot, transcoder >>
          /\ m_sessions' = m_sessions \/ m_sessions' = [m_sessions EXCEPT ![s] = g]
      BY <1>6 DEF onRequest, main_vars
    <2> PICK c \in Conns : c = conn[s]
      BY <2>1, RequestsRead
    <2> PICK k \in 1..Len(asked[c]) : k = read[c] + 1
      BY <2>1, RequestsRead
    <2>2. read' = [read EXCEPT ![c] = k] /\ read[c] \in Nat /\ g = asked[c][k].file
      BY <1>0, <2>1, RequestsRead DEF ConnTypes, NextRequest
    <2>3. HasRead(c, g)'
      <3>1. read'[c] = k /\ k \in 1..k
        BY <1>0, <2>2 DEF ConnTypes
      <3>2. asked'[c][k].file = g
        BY <2>1, <2>2
      <3>3. QED
        BY <3>1, <3>2 DEF HasRead
    <2>4. ASSUME NEW u \in Sessions, NEW f \in Files, Film(u, f)'
          PROVE  Film(u, f) \/ \E d \in Conns : conn[u] = d /\ HasRead(d, f)'
      <3>1. Film(u, f) \/ (u = s /\ f = g)
        BY <1>0, <2>1, <2>4 DEF Film, SessionTypes
      <3>2. QED
        BY <2>1, <2>3, <3>1
    <2>5. QED
      BY <1>b, <1>4, <2>1, <2>4, OwnKept
  <1>7. CASE onRequest_connect \/ onRequest_respond
    BY <1>a, <1>c, <1>7 DEF onRequest_connect, onRequest_respond, conn_vars, main_vars
  <1>8. ASSUME NEW s \in Sessions, Flush(s) PROVE Own'
    <2> PICK c \in Conns : c = conn[s]
      BY <1>0, <1>8, NoneAssumption DEF SessionTypes, Flush
    <2>1. /\ UNCHANGED << conn, haunted >> /\ FilmsKept /\ ReadKept
          /\ wire' = wire \/ wire' = [wire EXCEPT ![c] = Append(@, wbuf[c][1].item)]
          /\ wbuf[c] # << >>
      BY <1>8 DEF Flush, session_vars
    <2> PICK item \in Heads : item = wbuf[c][1].item
      <3>1. wbuf[c] \in Seq(Buffered) /\ 1 \in 1..Len(wbuf[c])
        BY <1>0, <2>1, EmptySeq DEF ConnTypes
      <3>2. wbuf[c][1] \in Buffered
        BY <3>1, ElementOfSeq
      <3>3. QED
        BY <3>2 DEF Buffered
    <2>2. ASSUME NEW d \in Conns, NEW f \in Files, Carries(d, f)' PROVE Carries(d, f)
      <3>1. CASE wire'[d] = wire[d]
        BY <2>2, <3>1 DEF Carries
      <3>2. CASE wire'[d] # wire[d]
        <4>1. d = c /\ wire'[d] = Append(wire[d], item)
          BY <1>0, <2>1, <3>2 DEF ConnTypes
        <4>2. QED
          BY <2>2, <4>1, HeadsCarryNothing
      <3>3. QED
        BY <3>1, <3>2
    <2>3. QED
      BY <1>a, <2>1, <2>2, OwnKept
  <1>9. ASSUME NEW s \in Sessions, onTimeout(s) PROVE Own'
    BY <1>a, <1>c, <1>9 DEF onTimeout, session_vars, main_vars
  <1>10. ASSUME NEW s \in Sessions, onConnectionDie(s) PROVE Own'
    <2>1. /\ conn' = [conn EXCEPT ![s] = None]
          /\ haunted' = [haunted EXCEPT ![s] = @ \/ Unfinished(s)]
          /\ UNCHANGED wire /\ FilmsKept /\ ReadKept
      BY <1>10 DEF onConnectionDie
    <2>2. \A u \in Sessions : ~haunted'[u] => ~haunted[u]
      BY <1>0, <2>1 DEF SessionTypes
    <2>3. ASSUME NEW f \in Files, ~haunted'[s] PROVE ~Film(s, f)
      <3>1. ~Unfinished(s)
        BY <1>0, <2>1, <2>3 DEF SessionTypes
      <3>2. QED
        BY <3>1 DEF Unfinished, Film
    <2>4. conn'[s] = None /\ \A u \in Sessions : u # s => conn'[u] = conn[u]
      BY <1>0, <2>1 DEF SessionTypes
    <2>5. ASSUME NEW u \in Sessions, ~haunted'[u], NEW f \in Files
          PROVE  /\ Film(u, f) => \E d \in Conns : conn'[u] = d /\ HasRead(d, f)
                 /\ \A d \in Conns : conn'[u] = d /\ Carries(d, f) => HasRead(d, f)
      <3>1. CASE u = s
        BY <2>3, <2>4, <2>5, <3>1, NoneAssumption
      <3>2. CASE u # s
        BY <2>2, <2>4, <2>5, <3>2 DEF Own
      <3>3. QED
        BY <3>1, <3>2
    <2>6. \A d \in Conns, f \in Files : HasRead(d, f)' <=> HasRead(d, f)
      BY <2>1 DEF HasRead
    <2>7. QED
      BY <1>a, <1>b, <2>1, <2>5, <2>6 DEF Own
  <1>11. CASE onSocketBytesWritten
    <2>1. /\ UNCHANGED << conn, haunted, wire, m_sessions, transcoder >> /\ ReadKept
          /\ slot' = slot \/ slot'.step = "take"
      BY <1>11 DEF onSocketBytesWritten, conn_vars
    <2>2. \A s \in Sessions, f \in Files : Film(s, f)' => Film(s, f)
      BY <2>1 DEF Film, Launching
    <2>3. QED
      BY <1>c, <2>1, <2>2
  <1>19. CASE onSocketBytesWritten_new \/ onSocketBytesWritten_connect
    <2>1. /\ UNCHANGED << conn, haunted, wire, m_sessions, transcoder >> /\ ReadKept
          /\ slot.step \in Launching
          /\ slot'.session = slot.session /\ slot'.file = slot.file
      BY <1>0, <1>19, LaunchGoesOn DEF conn_vars, session_vars
    <2>2. \A s \in Sessions, f \in Files : Film(s, f)' => Film(s, f)
      BY <2>1 DEF Film
    <2>3. QED
      BY <1>c, <2>1, <2>2
  <1>12. CASE onSocketBytesWritten_take
    <2> PICK s \in Sessions : s = slot.session
      BY <1>0, <1>12, Steps DEF onSocketBytesWritten_take
    <2>1. /\ UNCHANGED << conn, haunted, wire, transcoder >> /\ ReadKept
          /\ m_sessions' = [m_sessions EXCEPT ![s] = None]
          /\ \/ slot' = Idle
             \/ /\ m_sessions[s] # None
                /\ slot' = [step |-> "new", session |-> s, file |-> m_sessions[s]]
      BY <1>12 DEF onSocketBytesWritten_take, conn_vars
    <2>2. ASSUME NEW u \in Sessions, NEW f \in Files, Film(u, f)' PROVE Film(u, f)
      BY <1>0, <2>1, <2>2 DEF Film, Idle, Launching, SessionTypes
    <2>3. QED
      BY <1>c, <2>1, <2>2
  <1>13. ASSUME NEW t, NEW y, NEW s \in Sessions, NEW f \in Files, Runs(t, y, s, f)
         PROVE  Own'
    <2>1. UNCHANGED << conn, haunted, m_sessions >> /\ ReadKept
      BY <1>13 DEF Runs, session_vars
    <2>2. ASSUME NEW u \in Sessions, NEW g \in Files, Film(u, g)' PROVE Film(u, g)
      <3>1. /\ transcoder' = [transcoder EXCEPT ![t] = y]
            /\ y.session = s /\ y.file = f
            /\ y.state = "Transcoding" => Film(s, f)
            /\ slot' = slot \/ slot' = Idle
        BY <1>13 DEF Runs
      <3>2. CASE m_sessions[u] = g /\ g # None
        BY <3>2 DEF Film
      <3>3. CASE slot'.step \in Launching /\ slot'.session = u /\ slot'.file = g
        BY <3>1, <3>3 DEF Film, Idle, Launching
      <3>4. ASSUME NEW v \in Transcoders, transcoder'[v].state = "Transcoding",
                   transcoder'[v].session = u, transcoder'[v].off < FileChunks,
                   transcoder'[v].file = g
            PROVE  Film(u, g)
        <4>1. CASE v = t
          BY <1>0, <3>1, <3>4, <4>1 DEF MainTypes
        <4>2. CASE v # t
          <5>1. transcoder'[v] = transcoder[v]
            BY <1>0, <3>1, <4>2 DEF MainTypes
          <5>2. QED
            BY <3>4, <5>1 DEF Film
        <4>3. QED
          BY <4>1, <4>2
      <3>5. QED
        BY <2>1, <2>2, <3>2, <3>3, <3>4 DEF Film
    <2>3. ASSUME NEW u \in Sessions, NEW c \in Conns, conn[u] = c,
                 NEW g \in Files, Carries(c, g)'
          PROVE  Carries(c, g) \/ Film(u, g)
      <3>1. CASE wire'[c] = wire[c]
        BY <2>3, <3>1 DEF Carries
      <3>2. CASE wire'[c] # wire[c]
        <4> PICK n \in 1..FileChunks :
              /\ Film(s, f) /\ conn[s] # None
              /\ wire' = [wire EXCEPT ![conn[s]] = Append(@, Chunk(f, n))]
          BY <1>13, <3>2 DEF Runs
        <4>1. conn[s] = c /\ wire'[c] = Append(wire[c], Chunk(f, n))
          BY <1>0, <3>2 DEF ConnTypes, SessionTypes
        <4>2. u = s
          BY <2>3, <4>1, NoneAssumption DEF Linked
        <4>3. Chunk(f, n) \in Heads \cup Chunks /\ Chunk(f, n)[2] = f
          BY ItemsOfWire
        <4>4. QED
          BY <2>3, <4>1, <4>2, <4>3, CarriesMore
      <3>3. QED
        BY <3>1, <3>2
    <2>4. QED
      BY <2>1, <2>2, <2>3, OwnKept
  <1>14. CASE onSocketBytesWritten_start
    BY <1>13, <1>14, StartRuns
  <1>15. ASSUME NEW t \in Transcoders, onWriteActivated(t) PROVE Own'
    BY <1>13, <1>15, ActivatedRuns
  <1>16. CASE deleteTranscoder
    <2> DEFINE t == queue[1].transcoder
               y == [transcoder[t] EXCEPT !.state = "deleted"]
    <2>1. /\ UNCHANGED << conn, haunted, wire, m_sessions, slot >> /\ ReadKept
          /\ transcoder' = [transcoder EXCEPT ![t] = y]
          /\ queue # << >> /\ queue[1].event = "delete"
      BY <1>16 DEF deleteTranscoder, conn_vars, session_vars
    <2>a. slot = Idle
      BY <1>16 DEF deleteTranscoder
    <2>2. y.state # "Transcoding"
      <3>1. 1 \in 1..Len(queue) /\ queue[1] \in Written \cup Deletes
        BY <1>0, <2>1, ElementOfSeq, EmptySeq DEF MainTypes
      <3>2. t \in Transcoders /\ transcoder[t] \in Objects
        BY <1>0, <2>1, <2>a, <3>1 DEF MainTypes, Deletable, Idle, Written, Deletes
      <3>3. QED
        BY <3>2 DEF Objects
    <2> HIDE DEF t, y
    <2>3. \A v \in Transcoders : transcoder'[v] = transcoder[v]
                                 \/ transcoder'[v].state # "Transcoding"
      BY <1>0, <2>1, <2>2 DEF MainTypes
    <2>4. \A s \in Sessions, f \in Files : Film(s, f)' => Film(s, f)
      BY <2>1, <2>3 DEF Film
    <2>5. QED
      BY <1>c, <2>1, <2>4
  <1>17. CASE UNCHANGED vars
    BY <1>a, <1>c, <1>17 DEF vars, conn_vars, session_vars, main_vars
  <1>18. QED
    BY <1>1, <1>2, <1>3, <1>5, <1>6, <1>7, <1>8, <1>9, <1>10, <1>11, <1>12,
       <1>14, <1>15, <1>16, <1>17, <1>19 DEF Next, SessionThread, MainThread, MainQueue

-----------------------------------------------------------------------------
LEMMA TypesNext == Types /\ Linked /\ [Next]_vars => Types'
  BY ConnTypesNext, SessionTypesNext, MainTypesNext DEF Types

LEMMA FiniteCounts ==
  /\ \A S \in SUBSET Transcoders : IsFiniteSet(S) /\ Cardinality(S) \in Nat
  /\ \A S \in SUBSET Sessions : IsFiniteSet(S) /\ Cardinality(S) \in Nat
  /\ \A S \in SUBSET (Conns \X (1..MaxRequests)) :
       IsFiniteSet(S) /\ Cardinality(S) \in Nat
  <1>1. IsFiniteSet(1..MaxRequests)
    BY FS_Interval
  <1>2. IsFiniteSet(Conns \X (1..MaxRequests))
    BY <1>1, FS_Product
  <1>3. QED
    BY <1>2, TranscodersAreNumbered, FS_Subset, FS_CardinalityType

LEMMA OneMore ==
  ASSUME NEW S, IsFiniteSet(S), NEW x, NEW T \in SUBSET (S \cup {x})
  PROVE  Cardinality(T) <= Cardinality(S) + 1
  <1>1. /\ IsFiniteSet(S \cup {x})
        /\ Cardinality(S \cup {x}) = IF x \in S THEN Cardinality(S) ELSE Cardinality(S) + 1
    BY FS_AddElement
  <1>2. Cardinality(S) \in Nat
    BY FS_CardinalityType
  <1>3. Cardinality(S \cup {x}) <= Cardinality(S) + 1 /\ Cardinality(S \cup {x}) \in Nat
    BY <1>1, <1>2
  <1>4. Cardinality(T) <= Cardinality(S \cup {x}) /\ Cardinality(T) \in Nat
    BY <1>1, FS_Subset, FS_CardinalityType
  <1>5. QED
    BY <1>2, <1>3, <1>4

LEMMA CountsAreNumbers ==
  /\ IsFiniteSet(Started) /\ Cardinality(Started) \in Nat
  /\ IsFiniteSet(Started') /\ Cardinality(Started') \in Nat
  /\ IsFiniteSet(Noted) /\ Cardinality(Noted) \in Nat
  /\ IsFiniteSet(Noted') /\ Cardinality(Noted') \in Nat
  /\ IsFiniteSet(FilmsRead) /\ Cardinality(FilmsRead) \in Nat
  /\ IsFiniteSet(FilmsRead') /\ Cardinality(FilmsRead') \in Nat
  <1>1. /\ Started \in SUBSET Transcoders /\ Started' \in SUBSET Transcoders
        /\ Noted \in SUBSET Sessions /\ Noted' \in SUBSET Sessions
    BY DEF Started, Noted
  <1>2. /\ FilmsRead \in SUBSET (Conns \X (1..MaxRequests))
        /\ FilmsRead' \in SUBSET (Conns \X (1..MaxRequests))
    BY DEF FilmsRead
  <1>3. QED
    BY <1>1, <1>2, FiniteCounts

(* A film that has been read stays read.                                   *)
LEMMA FilmsReadGrow ==
  ASSUME Types,
         \A c \in Conns :
           \/ asked'[c] = asked[c]
           \/ \E r \in Requests : asked'[c] = Append(asked[c], r),
         \A c \in Conns : read'[c] = read[c] \/ read'[c] = read[c] + 1
  PROVE  FilmsRead \subseteq FilmsRead'
  <1> SUFFICES ASSUME NEW c \in Conns, NEW k \in 1..MaxRequests,
                      k <= read[c], asked[c][k].file # Page
               PROVE  k <= read'[c] /\ asked'[c][k].file # Page
    BY DEF FilmsRead
  <1>1. asked[c] \in Seq(Requests) /\ read[c] \in Nat /\ read[c] <= Len(asked[c])
        /\ Len(asked[c]) \in Nat
    BY LenProperties DEF Types, ConnTypes
  <1>2. k \in 1..Len(asked[c])
    BY <1>1
  <1>3. asked'[c][k] = asked[c][k]
    BY <1>1, <1>2, AppendToList
  <1>4. k <= read'[c]
    BY <1>1
  <1>5. QED
    BY <1>3, <1>4

(* The counts of the next state.                                           *)
LEMMA Counting ==
  ASSUME \A c \in Conns : Len(asked'[c]) <= MaxRequests,
         Cardinality(Started') + Starting' + Cardinality(Noted')
           <= Cardinality(FilmsRead')
  PROVE  Counted'
  <1>1. /\ Cardinality(Started)' = Cardinality(Started')
        /\ Cardinality(Noted)' = Cardinality(Noted')
        /\ Cardinality(FilmsRead)' = Cardinality(FilmsRead')
    OBVIOUS
  <1>2. QED
    BY <1>1 DEF Counted

LEMMA CountedKept ==
  ASSUME Counted, \A c \in Conns : Len(asked'[c]) <= MaxRequests,
         FilmsRead \subseteq FilmsRead', Started' \subseteq Started,
         Noted' \subseteq Noted, Starting' <= Starting
  PROVE  Counted'
  <1>1. /\ Cardinality(FilmsRead) <= Cardinality(FilmsRead')
        /\ Cardinality(Started') <= Cardinality(Started)
        /\ Cardinality(Noted') <= Cardinality(Noted)
    BY CountsAreNumbers, FS_Subset
  <1>2. Starting \in Nat /\ Starting' \in Nat
    BY DEF Starting
  <1>3. Cardinality(Started) + Starting + Cardinality(Noted) <= Cardinality(FilmsRead)
    BY DEF Counted
  <1>4. Cardinality(Started') + Starting' + Cardinality(Noted')
          <= Cardinality(FilmsRead')
    BY <1>1, <1>2, <1>3, CountsAreNumbers
  <1>5. QED
    BY <1>4, Counting

LEMMA CountedNext == Types /\ Linked /\ Counted /\ [Next]_vars => Counted'
  <1> SUFFICES ASSUME Types, Linked, Counted, [Next]_vars PROVE Counted'
    OBVIOUS
  <1>0. ConnTypes /\ SessionTypes /\ MainTypes
    BY DEF Types
  <1>a. CASE UNCHANGED << asked, read, m_sessions, slot, transcoder >>
    <2>1. /\ FilmsRead' = FilmsRead /\ Started' = Started /\ Noted' = Noted
          /\ Starting' = Starting
      BY <1>a DEF FilmsRead, Started, Noted, Starting
    <2>2. Starting \in Nat
      BY DEF Starting
    <2>3. \A c \in Conns : Len(asked'[c]) <= MaxRequests
      BY <1>a DEF Counted
    <2>4. QED
      BY <2>1, <2>2, <2>3, CountedKept
  <1>b. ASSUME UNCHANGED << asked, read >> PROVE FilmsRead' = FilmsRead
    BY <1>b DEF FilmsRead
  <1>c. ASSUME asked' = asked PROVE \A c \in Conns : Len(asked'[c]) <= MaxRequests
    BY <1>c DEF Counted
  <1>d. /\ Cardinality(Started) + Starting + Cardinality(Noted)
             <= Cardinality(FilmsRead)
        /\ slot.step \notin Launching => Starting = 0
        /\ slot.step \in Launching => Starting = 1
        /\ slot'.step \notin Launching => Starting' = 0
        /\ slot'.step \in Launching => Starting' = 1
    BY DEF Counted, Starting
  <1>1. ASSUME NEW c \in Conns, NEW r \in Requests, Ask(c, r) PROVE Counted'
    <2>1. /\ asked' = [asked EXCEPT ![c] = Append(asked[c], r)]
          /\ Len(asked[c]) < MaxRequests
          /\ UNCHANGED << read, m_sessions, slot, transcoder >>
      BY <1>1 DEF Ask, session_vars, main_vars
    <2>2. asked[c] \in Seq(Requests) /\ Len(asked[c]) \in Nat
      BY <1>0, LenProperties DEF ConnTypes
    <2>3. Len(Append(asked[c], r)) <= MaxRequests
      BY <2>1, <2>2, AppendToList
    <2>4. asked'[c] = Append(asked[c], r)
          /\ \A d \in Conns : d # c => asked'[d] = asked[d]
      BY <1>0, <2>1 DEF ConnTypes
    <2>5. \A d \in Conns : Len(asked'[d]) <= MaxRequests
      BY <2>3, <2>4 DEF Counted
    <2>6. \A d \in Conns : \/ asked'[d] = asked[d]
                           \/ \E q \in Requests : asked'[d] = Append(asked[d], q)
      BY <2>4
    <2>7. FilmsRead \subseteq FilmsRead'
      BY <2>1, <2>6, FilmsReadGrow
    <2>8. Started' = Started /\ Noted' = Noted /\ Starting' = Starting
      BY <2>1 DEF Started, Noted, Starting
    <2>9. Starting \in Nat
      BY DEF Starting
    <2>10. QED
      BY <2>5, <2>7, <2>8, <2>9, CountedKept
  <1>2. ASSUME NEW s \in Sessions, Reads(s), asked' = asked
        PROVE  FilmsRead \subseteq FilmsRead'
    <2>1. \A c \in Conns : read'[c] = read[c] \/ read'[c] = read[c] + 1
      BY <1>0, <1>2, RequestsRead DEF ConnTypes
    <2>2. QED
      BY <1>2, <2>1, FilmsReadGrow
  <1>3. ASSUME NEW s \in Sessions, onOtherRequest(s) PROVE Counted'
    <2>1. Reads(s) /\ UNCHANGED << asked, m_sessions, slot, transcoder >>
      BY <1>3 DEF onOtherRequest, session_vars, main_vars
    <2>2. Started' = Started /\ Noted' = Noted /\ Starting' = Starting
      BY <2>1 DEF Started, Noted, Starting
    <2>3. Starting \in Nat
      BY DEF Starting
    <2>4. QED
      BY <1>2, <1>c, <2>1, <2>2, <2>3, CountedKept
  <1>4. ASSUME NEW s \in Sessions, onRequest(s) PROVE Counted'
    <2> PICK g : g = NextRequest(s).file
      OBVIOUS
    <2>1. /\ Reads(s) /\ UNCHANGED << asked, slot, transcoder >> /\ g # Page
          /\ \/ m_sessions' = m_sessions
             \/ /\ m_sessions[s] = None
                /\ m_sessions' = [m_sessions EXCEPT ![s] = g]
      BY <1>4 DEF onRequest, main_vars
    <2>2. Started' = Started /\ Starting' = Starting /\ Starting \in Nat
      BY <2>1 DEF Started, Starting
    <2> PICK c \in Conns : c = conn[s]
      BY <2>1, RequestsRead
    <2> PICK k \in 1..Len(asked[c]) : k = read[c] + 1
      BY <2>1, RequestsRead
    <2>3. read' = [read EXCEPT ![c] = k] /\ read[c] \in Nat /\ g = asked[c][k].file
      BY <1>0, <2>1, RequestsRead DEF ConnTypes, NextRequest
    <2> DEFINE p == << c, k >>
    <2>4. p \notin FilmsRead
      BY <2>3 DEF FilmsRead
    <2>5. p \in FilmsRead'
      <3>1. Len(asked[c]) \in Nat /\ Len(asked[c]) <= MaxRequests
        BY <1>0, LenProperties DEF Counted, ConnTypes
      <3>2. k \in 1..MaxRequests
        BY <3>1
      <3>3. read'[c] = k /\ asked'[c][k].file # Page
        BY <1>0, <2>1, <2>3 DEF ConnTypes
      <3>4. QED
        BY <3>2, <3>3 DEF FilmsRead
    <2> HIDE DEF p
    <2>6. Cardinality(FilmsRead) + 1 <= Cardinality(FilmsRead')
      <3>1. FilmsRead \cup {p} \in SUBSET FilmsRead'
        BY <1>2, <2>1, <2>5
      <3>2. Cardinality(FilmsRead \cup {p}) = Cardinality(FilmsRead) + 1
        BY <2>4, CountsAreNumbers, FS_AddElement
      <3>3. Cardinality(FilmsRead \cup {p}) <= Cardinality(FilmsRead')
        BY <3>1, CountsAreNumbers, FS_Subset
      <3>4. QED
        BY <3>2, <3>3
    <2>7. Cardinality(Noted') <= Cardinality(Noted) + 1
      <3>1. Noted' \in SUBSET (Noted \cup {s})
        BY <1>0, <2>1 DEF Noted, SessionTypes
      <3>2. QED
        BY <3>1, CountsAreNumbers, OneMore
    <2>8. Cardinality(Started') + Starting' + Cardinality(Noted')
            <= Cardinality(FilmsRead')
      BY <1>d, <2>2, <2>6, <2>7, CountsAreNumbers
    <2>9. QED
      BY <1>c, <2>1, <2>8, Counting
  <1>5. CASE onSocketBytesWritten
    <2>1. /\ UNCHANGED << asked, read, m_sessions, transcoder >>
          /\ slot' = slot \/ slot'.step = "take"
      BY <1>5 DEF onSocketBytesWritten, conn_vars
    <2>2. Started' = Started /\ Noted' = Noted /\ Starting' <= Starting
      BY <2>1 DEF Started, Noted, Starting, Launching
    <2>3. QED
      BY <1>b, <1>c, <2>1, <2>2, CountedKept
  <1>16. CASE onSocketBytesWritten_new \/ onSocketBytesWritten_connect
    <2>1. /\ UNCHANGED << asked, read, m_sessions, transcoder >>
          /\ slot.step \in Launching /\ slot'.step \in Launching
      BY <1>0, <1>16, LaunchGoesOn DEF conn_vars, session_vars
    <2>2. Started' = Started /\ Noted' = Noted /\ Starting' <= Starting
      BY <2>1 DEF Started, Noted, Starting
    <2>3. QED
      BY <1>b, <1>c, <2>1, <2>2, CountedKept
  <1>6. CASE onSocketBytesWritten_take
    <2> PICK s \in Sessions : s = slot.session
      BY <1>0, <1>6, Steps DEF onSocketBytesWritten_take
    <2>1. /\ UNCHANGED << asked, read, transcoder >> /\ slot.step = "take"
          /\ m_sessions' = [m_sessions EXCEPT ![s] = None]
          /\ \/ slot' = Idle
             \/ m_sessions[s] # None /\ slot'.step \in Launching
      BY <1>6 DEF onSocketBytesWritten_take, conn_vars, Launching
    <2>2. Started' = Started /\ FilmsRead' = FilmsRead
      BY <2>1 DEF Started, FilmsRead
    <2>3. Starting = 0
      BY <2>1 DEF Starting, Launching
    <2>4. CASE slot' = Idle
      <3>1. Noted' \subseteq Noted
        BY <1>0, <2>1 DEF Noted, SessionTypes
      <3>2. Starting' = 0
        BY <2>4 DEF Starting, Launching, Idle
      <3>3. QED
        BY <1>c, <2>1, <2>2, <2>3, <3>1, <3>2, CountedKept
    <2>5. CASE m_sessions[s] # None /\ slot'.step \in Launching
      <3>1. s \in Noted /\ Noted' = Noted \ {s}
        BY <1>0, <2>1, <2>5 DEF Noted, SessionTypes
      <3>2. Cardinality(Noted') = Cardinality(Noted) - 1
        BY <3>1, CountsAreNumbers, FS_RemoveElement
      <3>3. Starting' = 1
        BY <2>5 DEF Starting
      <3>4. Cardinality(Started') + Starting' + Cardinality(Noted')
              <= Cardinality(FilmsRead')
        BY <1>d, <2>2, <2>3, <3>2, <3>3, CountsAreNumbers
      <3>5. QED
        BY <1>c, <2>1, <3>4, Counting
    <2>6. QED
      BY <2>1, <2>4, <2>5
  <1>7. ASSUME NEW t, NEW y, NEW s \in Sessions, NEW f \in Files, Runs(t, y, s, f)
        PROVE  Counted'
    <2>1. /\ UNCHANGED << asked, read, m_sessions >>
          /\ transcoder' = [transcoder EXCEPT ![t] = y]
          /\ \/ transcoder[t] # NoTranscoder /\ slot' = slot
             \/ slot.step = "start" /\ slot' = Idle
      BY <1>7 DEF Runs, session_vars
    <2>2. Noted' = Noted /\ FilmsRead' = FilmsRead
      BY <2>1 DEF Noted, FilmsRead
    <2>3. CASE transcoder[t] # NoTranscoder /\ slot' = slot
      <3>1. Started' \subseteq Started
        BY <1>0, <2>1, <2>3 DEF Started, MainTypes
      <3>2. Starting' = Starting /\ Starting \in Nat
        BY <2>3 DEF Starting
      <3>3. QED
        BY <1>c, <2>1, <2>2, <3>1, <3>2, CountedKept
    <2>4. CASE slot.step = "start" /\ slot' = Idle
      <3>1. Started' \in SUBSET (Started \cup {t})
        BY <1>0, <2>1 DEF Started, MainTypes
      <3>2. Cardinality(Started') <= Cardinality(Started) + 1
        BY <3>1, CountsAreNumbers, OneMore
      <3>3. Starting = 1 /\ Starting' = 0
        BY <2>4 DEF Starting, Launching, Idle
      <3>4. Cardinality(Started') + Starting' + Cardinality(Noted')
              <= Cardinality(FilmsRead')
        BY <1>d, <2>2, <3>2, <3>3, CountsAreNumbers
      <3>5. QED
        BY <1>c, <2>1, <3>4, Counting
    <2>5. QED
      BY <2>1, <2>3, <2>4
  <1>8. CASE onSocketBytesWritten_start
    BY <1>7, <1>8, StartRuns
  <1>9. ASSUME NEW t \in Transcoders, onWriteActivated(t) PROVE Counted'
    BY <1>7, <1>9, ActivatedRuns
  <1>10. CASE deleteTranscoder
    <2> DEFINE t == queue[1].transcoder
    <2>1. /\ UNCHANGED << asked, read, m_sessions, slot >>
          /\ queue # << >> /\ queue[1].event = "delete"
          /\ \A u \in Transcoders : u # t => transcoder'[u] = transcoder[u]
      BY <1>0, <1>10 DEF deleteTranscoder, conn_vars, session_vars, MainTypes
    <2>2. transcoder[t] # NoTranscoder
      BY <1>0, <1>10, <2>1, EmptySeq DEF MainTypes, Deletable, deleteTranscoder, Idle
    <2>3. Started' \subseteq Started
      BY <2>1, <2>2 DEF Started
    <2>4. Noted' = Noted /\ Starting' = Starting /\ Starting \in Nat
      BY <2>1 DEF Noted, Starting
    <2>5. QED
      BY <1>b, <1>c, <2>1, <2>3, <2>4, CountedKept
  <1>11. ASSUME NEW c \in Conns, Leave(c) \/ \E s \in Sessions : newConnection(c, s)
         PROVE  Counted'
    BY <1>a, <1>11 DEF Leave, newConnection, session_vars, main_vars
  <1>12. CASE onRequest_connect \/ onRequest_respond
    BY <1>a, <1>12 DEF onRequest_connect, onRequest_respond, conn_vars, main_vars
  <1>13. ASSUME NEW s \in Sessions, Flush(s) \/ onTimeout(s) \/ onConnectionDie(s)
         PROVE  Counted'
    BY <1>a, <1>13 DEF Flush, onTimeout, onConnectionDie, session_vars, main_vars
  <1>14. CASE UNCHANGED vars
    BY <1>a, <1>14 DEF vars, conn_vars, session_vars, main_vars
  <1>15. QED
    BY <1>1, <1>3, <1>4, <1>5, <1>6, <1>8, <1>9, <1>10, <1>11, <1>12, <1>13, <1>14,
       <1>16 DEF Next, SessionThread, MainThread, MainQueue

-----------------------------------------------------------------------------
LEMMA InvInit == Init => IInv
  <1> SUFFICES ASSUME Init PROVE IInv
    OBVIOUS
  <1>1. ConnTypes
    BY EmptySeq DEF Init, ConnTypes
  <1>2. SessionTypes
    BY EmptySeq DEF Init, SessionTypes
  <1>3. MainTypes
    BY EmptySeq DEF Init, MainTypes
  <1>4. Linked
    <2>1. pool \in Seq(Sessions) /\ pool = << >>
      BY EmptySeq DEF Init
    <2>2. ToSet(pool) = { pool[i] : i \in 1..Len(pool) }
      BY <2>1, ToSetOfSeq
    <2>3. ToSet(pool) = {} /\ IsInjective(pool)
      BY <2>1, <2>2 DEF IsInjective
    <2>4. QED
      BY <2>3, NoneAssumption DEF Init, Linked
  <1>5. Own
    <2>1. ASSUME NEW s \in Sessions, NEW f \in Files
          PROVE  ~Film(s, f) /\ \A c \in Conns : ~Carries(c, f)
      BY DEF Init, Film, Carries, Idle, Launching, NoTranscoder
    <2>2. QED
      BY <2>1 DEF Own
  <1>6. Counted
    <2>1. Started = {} /\ Noted = {} /\ Starting = 0
      BY DEF Init, Started, Noted, Starting, Launching, Idle
    <2>2. Cardinality({}) = 0
      BY FS_EmptySet
    <2>3. \A c \in Conns : Len(asked[c]) <= MaxRequests
      BY DEF Init
    <2>4. QED
      BY <2>1, <2>2, <2>3, CountsAreNumbers DEF Counted
  <1>7. QED
    BY <1>1, <1>2, <1>3, <1>4, <1>5, <1>6 DEF IInv, Types

LEMMA InvNext == IInv /\ [Next]_vars => IInv'
  BY TypesNext, LinkedNext, OwnNext, CountedNext DEF IInv

LEMMA Invariance == Spec => []IInv
  BY InvInit, InvNext, PTL DEF Spec

LEMMA PoolIsSoundNow == IInv => PoolSound
  <1> SUFFICES ASSUME IInv PROVE PoolSound
    OBVIOUS
  <1>1. ConnTypes /\ SessionTypes /\ MainTypes /\ Linked
    BY DEF IInv, Types
  <1>2. \A c \in Conns : asked[c] \in Seq(Requests) /\ read[c] \in 0..Len(asked[c])
    BY <1>1, LenProperties DEF ConnTypes
  <1>3. at.step \in {"idle", "connect", "respond"}
        /\ slot.step \in {"idle", "take"} \cup Launching
    BY <1>1 DEF SessionTypes, MainTypes, AtSteps, TakeSteps, LaunchSteps, NewSteps,
       ConnectSteps, StartSteps, Launching, Idle
  <1>4. \A t \in Transcoders :
          transcoder[t].state \in {"none", "Transcoding", "Stopped", "deleted"}
    BY <1>1 DEF MainTypes, Objects, NoTranscoder
  <1>5. TypeOK
    BY <1>1, <1>2, <1>3, <1>4 DEF TypeOK, ConnTypes, SessionTypes
  <1>6. \A i, j \in 1..Len(pool) : pool[i] = pool[j] => i = j
    BY <1>1, InjectiveSeq DEF Linked, SessionTypes
  <1>7. QED
    BY <1>1, <1>5, <1>6 DEF PoolSound, Linked

(* Whatever clients and the timer do: the pool holds each session without  *)
(* a connection at most once, and no two connections share a session.      *)
(* (HttpSessionManager::getSession and releaseSession.)                    *)
THEOREM PoolIsSound == Spec => []PoolSound
  BY Invariance, PoolIsSoundNow, PTL

LEMMA OwnFilmNow == IInv => OwnFilm
  <1> SUFFICES ASSUME IInv, NEW s \in Sessions, conn[s] # None, ~haunted[s],
                      NEW i \in 1..Len(wire[conn[s]]), wire[conn[s]][i][1] = "body"
               PROVE  \E k \in 1..read[conn[s]] :
                        asked[conn[s]][k].file = wire[conn[s]][i][2]
    BY DEF OwnFilm
  <1>1. ConnTypes /\ SessionTypes /\ Own
    BY DEF IInv, Types
  <1> PICK c \in Conns : c = conn[s]
    BY <1>1 DEF SessionTypes
  <1>2. wire[c][i] \in Heads \cup Chunks
    BY <1>1, ElementOfSeq DEF ConnTypes
  <1> PICK item \in Heads \cup Chunks : item = wire[c][i]
    BY <1>2
  <1>a. item[1] = "body" /\ item \in Chunks
    BY ItemsOfWire
  <1> PICK f \in Files, n \in 1..FileChunks : item = Chunk(f, n)
    BY <1>a DEF Chunks
  <1>3. item[1] = "body" /\ item[2] = f
    BY ItemsOfWire
  <1>4. Carries(c, f)
    BY <1>3 DEF Carries
  <1>5. HasRead(c, f)
    BY <1>1, <1>4 DEF Own
  <1>6. QED
    BY <1>3, <1>5 DEF HasRead

(* A client never gets a film it has not asked for, from whichever queued  *)
(* signal, transcoder or entry of m_sessions it may come, as long as its   *)
(* session has lost no client with a film unfinished.                      *)
THEOREM FilmsAreOwn == Spec => []OwnFilm
  BY Invariance, OwnFilmNow, PTL

LEMMA OneTranscoderNow == IInv => OneTranscoderPerRequest
  <1> SUFFICES ASSUME IInv PROVE OneTranscoderPerRequest
    OBVIOUS
  <1>1. Cardinality(Started) + Starting + Cardinality(Noted) <= Cardinality(FilmsRead)
    BY DEF IInv, Counted
  <1>2. Starting \in Nat
    BY DEF Starting
  <1>3. QED
    BY <1>1, <1>2, CountsAreNumbers DEF OneTranscoderPerRequest

(* However many times the signal is connected and however late its slots   *)
(* run, onSocketBytesWritten makes at most one transcoder for each request *)
(* for a film, in all.                                                     *)
THEOREM TranscodersAreCounted == Spec => []OneTranscoderPerRequest
  BY Invariance, OneTranscoderNow, PTL

-----------------------------------------------------------------------------
(* A calm world: the kernel takes whole items, clients wait for a complete *)
(* answer before they ask again or leave, nobody runs into the timer, and  *)
(* no film is asked for with "Connection: close".                          *)
Calm ==
  /\ ~Splits /\ ~Pipelining /\ ~Leaving /\ ~Timeouts
  /\ \A r \in Requests : r.close => r.file = Page

(* What each party does for one session: the session thread, the slot, the *)
(* events that call the slot (how many: 0, 1, or 2 for more), and the      *)
(* transcoders that lack a part of their film.                             *)
AtFor(s) == IF at # Idle /\ at.session = s THEN at ELSE Idle
SlotFor(s) == IF slot # Idle /\ slot.session = s THEN slot ELSE Idle
Tells(i, s) == queue[i].event = "written" /\ queue[i].session = s
Told(s) ==
  IF \A i \in 1..Len(queue) : ~Tells(i, s) THEN 0
  ELSE IF \A i, j \in 1..Len(queue) : Tells(i, s) /\ Tells(j, s) => i = j THEN 1
  ELSE 2
Lacking(t) == transcoder[t].state = "Transcoding" /\ transcoder[t].off < FileChunks
Sends(t, s) == Lacking(t) /\ transcoder[t].session = s
Sending(s) ==
  { << t, transcoder[t].file, transcoder[t].off >> :
      t \in { u \in Transcoders : Sends(u, s) } }

Doing(s, file, n, connects, slotRuns, told, sent) ==
  /\ m_sessions[s] = file /\ slots[s] = n
  /\ AtFor(s) = connects /\ SlotFor(s) = slotRuns
  /\ Told(s) = told /\ Sending(s) = sent

(* Nothing is under way for a session ...                                  *)
Quiet(s) == Doing(s, None, 0, Idle, Idle, 0, {})

(* ... and its client has all it asked for, ...                            *)
Missing(c) == Len(Answers(asked[c])) - Len(wire[c])
AllRead(c) == read[c] = Len(asked[c])
Resting(s, c) == Quiet(s) /\ wbuf[c] = << >> /\ AllRead(c) /\ Missing(c) = 0

(* ... or it lacks some of the answer to r, its last request: which is not *)
(* read yet, ...                                                           *)
Whole(f) == << [item |-> ResponseHead(f), whole |-> TRUE] >>
Unread(s, c, r) ==
  /\ Quiet(s) /\ wbuf[c] = << >> /\ link[c] = "open"
  /\ read[c] + 1 = Len(asked[c]) /\ Missing(c) = Len(Answer(r))

(* ... or a page that is in the write buffer, ...                          *)
PageWaits(s, c, r) ==
  /\ r.file = Page
  /\ Quiet(s) /\ wbuf[c] = Whole(Page) /\ link[c] \in {"open", "closing"}
  /\ AllRead(c) /\ Missing(c) = 1

(* ... or a film that is noted, its head in the buffer, the head sent and  *)
(* Main told, the transcoder to be made, or at work.                       *)
FilmNoted(s, c, r) ==
  /\ \/ Doing(s, r.file, 0, [step |-> "connect", session |-> s, request |-> r], Idle, 0, {})
     \/ Doing(s, r.file, 1, [step |-> "respond", session |-> s, request |-> r], Idle, 0, {})
  /\ wbuf[c] = << >> /\ Missing(c) = 1 + FileChunks
HeadWaits(s, c, r) ==
  /\ Doing(s, r.file, 1, Idle, Idle, 0, {})
  /\ wbuf[c] = Whole(r.file) /\ Missing(c) = 1 + FileChunks
HeadSent(s, c, r) ==
  /\ \/ Doing(s, r.file, 1, Idle, Idle, 1, {})
     \/ Doing(s, r.file, 0, Idle, [step |-> "take", session |-> s], 0, {})
  /\ wbuf[c] = << >> /\ Missing(c) = FileChunks
FilmStarts(s, c, r) ==
  /\ \E l : /\ l.step \in Launching /\ l.session = s /\ l.file = r.file
            /\ Doing(s, None, 0, Idle, l, 0, {})
  /\ wbuf[c] = << >> /\ Missing(c) = FileChunks
FilmRuns(s, c, r) ==
  /\ \E t \in Transcoders, n \in 0..FileChunks :
       /\ Doing(s, None, 0, Idle, Idle, 0, {<< t, r.file, n >>})
       /\ n < FileChunks /\ Missing(c) = FileChunks - n
  /\ wbuf[c] = << >>
FilmWaits(s, c, r) ==
  /\ r.file # Page /\ link[c] = "open" /\ AllRead(c)
  /\ \/ FilmNoted(s, c, r) \/ HeadWaits(s, c, r) \/ HeadSent(s, c, r)
     \/ FilmStarts(s, c, r) \/ FilmRuns(s, c, r)

Serving(s, c) ==
  \E r \in Requests :
    /\ asked[c] # << >> /\ Last(asked[c]) = r
    /\ Unread(s, c, r) \/ PageWaits(s, c, r) \/ FilmWaits(s, c, r)

(* The inductive invariant of a calm world.                                *)
Right(c) == IsPrefix(wire[c], Answers(asked[c]))
Untouched(c) == asked[c] = << >> /\ wire[c] = << >> /\ read[c] = 0 /\ wbuf[c] = << >>
Done(t) == transcoder[t] # NoTranscoder /\ ~Lacking(t)
DoneDeleted ==
  \A i \in 1..Len(queue) : queue[i].event = "delete" => Done(queue[i].transcoder)

Steady ==
  /\ \A c \in Conns : Right(c) /\ (link[c] = "new" => Untouched(c))
  /\ DoneDeleted
  /\ \A s \in Sessions : conn[s] = None => Quiet(s)
  /\ \A s \in Sessions : \A c \in Conns : conn[s] = c => Resting(s, c) \/ Serving(s, c)

LEMMA PrefixItems ==
  ASSUME NEW S, NEW w \in Seq(S), NEW a \in Seq(S), IsPrefix(w, a)
  PROVE  Len(w) <= Len(a) /\ \A i \in 1..Len(w) : w[i] = a[i]
  <1>1. Len(w) \in Nat /\ Len(a) \in Nat /\ Len(w) <= Len(a)
    BY LenProperties DEF IsPrefix
  <1>2. PICK k \in Nat : k = 0
    OBVIOUS
  <1>3. SubSeq(w, 1, Len(w)) = SubSeq(a, 1, Len(w))
    BY DEF IsPrefix
  <1>4. k + 1 = 1 /\ k + Len(w) = Len(w)
    BY <1>1, <1>2
  <1>5. /\ \A i \in 1..Len(w) : SubSeq(w, 1, Len(w))[i] = w[k + i]
        /\ \A i \in 1..Len(w) : SubSeq(a, 1, Len(w))[i] = a[k + i]
    BY <1>1, <1>4, PartOfSeq
  <1>6. \A i \in 1..Len(w) : k + i = i
    BY <1>1, <1>2
  <1>7. QED
    BY <1>1, <1>3, <1>5, <1>6

LEMMA ItemsPrefix ==
  ASSUME NEW S, NEW w \in Seq(S), NEW a \in Seq(S), Len(w) <= Len(a),
         \A i \in 1..Len(w) : w[i] = a[i]
  PROVE  IsPrefix(w, a)
  <1>1. Len(w) \in Nat /\ Len(a) \in Nat
    BY LenProperties
  <1>2. PICK k \in Nat : k = 0
    OBVIOUS
  <1>4. k + 1 = 1 /\ k + Len(w) = Len(w) /\ \A i \in 1..Len(w) : k + i = i
    BY <1>1, <1>2
  <1>5. /\ SubSeq(w, 1, Len(w)) \in Seq(S) /\ Len(SubSeq(w, 1, Len(w))) = Len(w)
        /\ SubSeq(a, 1, Len(w)) \in Seq(S) /\ Len(SubSeq(a, 1, Len(w))) = Len(w)
        /\ \A i \in 1..Len(w) : SubSeq(w, 1, Len(w))[i] = w[k + i]
        /\ \A i \in 1..Len(w) : SubSeq(a, 1, Len(w))[i] = a[k + i]
    BY <1>1, <1>4, PartOfSeq
  <1>6. SubSeq(w, 1, Len(w)) = SubSeq(a, 1, Len(w))
    BY <1>4, <1>5, SameSeq
  <1>7. QED
    BY <1>6 DEF IsPrefix

-----------------------------------------------------------------------------
(* What the answer to a request is, and to a sequence of them.             *)
LEMMA AnswerOf ==
  ASSUME NEW r \in Requests
  PROVE  /\ Answer(r) \in Seq(Heads \cup Chunks)
         /\ Answer(r)[1] = ResponseHead(r.file)
         /\ r.file = Page => Len(Answer(r)) = 1
         /\ r.file # Page =>
              /\ Len(Answer(r)) = 1 + FileChunks
              /\ \A n \in 1..FileChunks : Answer(r)[1 + n] = Chunk(r.file, n)
  <1> DEFINE I == Heads \cup Chunks
             h == ResponseHead(r.file)
             body == [n \in 1..FileChunks |-> Chunk(r.file, n)]
             rest == IF r.file = Page THEN << >> ELSE body
  <1>1. r.file \in Files \cup {Page}
    BY DEF Files
  <1>2. h \in I
    BY <1>1, ItemsOfWire
  <1>3. r.file # Page => body \in Seq(I) /\ Len(body) = FileChunks
    <2>1. SUFFICES ASSUME r.file # Page PROVE body \in Seq(I) /\ Len(body) = FileChunks
      OBVIOUS
    <2>2. body \in [1..FileChunks -> I]
      BY <1>1, <2>1, ItemsOfWire
    <2>3. FileChunks \in Nat
      OBVIOUS
    <2> HIDE DEF body, I
    <2>4. QED
      <3>1. body \in Seq(I)
        BY <2>2, <2>3, SeqDef
      <3>2. QED
        BY <2>2, <2>3, <3>1, LenProperties
  <1>4. rest \in Seq(I)
    BY <1>3, EmptySeq
  <1>5. Answer(r) = << h >> \o rest
    BY DEF Answer
  <1>6. \A n \in 1..FileChunks : body[n] = Chunk(r.file, n)
    OBVIOUS
  <1>7. Len(<< >>) = 0
    OBVIOUS
  <1>8. /\ r.file = Page => Len(rest) = 0
        /\ r.file # Page =>
             /\ Len(rest) = FileChunks
             /\ \A n \in 1..FileChunks : rest[n] = Chunk(r.file, n)
    BY <1>3, <1>6, <1>7
  <1> HIDE DEF h, rest, I
  <1>9. << h >> \in Seq(I) /\ Len(<< h >>) = 1 /\ << h >>[1] = h
    BY <1>2
  <1>10. /\ Answer(r) \in Seq(I)
         /\ Len(Answer(r)) = 1 + Len(rest)
         /\ \A i \in 1..1 + Len(rest) :
              Answer(r)[i] = IF i <= 1 THEN << h >>[i] ELSE rest[i - 1]
    BY <1>4, <1>5, <1>9, ConcatProperties
  <1>11. Len(rest) \in Nat
    BY <1>4, LenProperties
  <1>12. Answer(r)[1] = h
    BY <1>9, <1>10, <1>11
  <1>13. \A n \in 1..FileChunks : n <= Len(rest) => Answer(r)[1 + n] = rest[n]
    BY <1>10, <1>11
  <1>14. QED
    BY <1>8, <1>10, <1>11, <1>12, <1>13 DEF h, I

LEMMA AnswersOf ==
  /\ Answers(<< >>) = << >>
  /\ \A rs \in Seq(Requests), r \in Requests :
       Answers(Append(rs, r)) = Answers(rs) \o Answer(r)
  <1>1. Answers(<< >>) = << >>
    <2>1. [i \in 1..Len(<< >>) |-> Answer((<< >>)[i])] = << >>
      OBVIOUS
    <2>2. QED
      BY <2>1, FlattenAppend, EmptySeq DEF Answers, FlattenSeq
  <1>2. ASSUME NEW rs \in Seq(Requests), NEW r \in Requests
        PROVE  Answers(Append(rs, r)) = Answers(rs) \o Answer(r)
    <2> DEFINE T == { Answer(x) : x \in Requests }
               ss == [n \in 1..Len(rs) |-> Answer(rs[n])]
               ns == Append(rs, r)
               e == Answer(r)
    <2>1. Len(rs) \in Nat /\ \A i \in 1..Len(rs) : rs[i] \in Requests
      BY LenProperties, ElementOfSeq
    <2>2. /\ Len(ns) = Len(rs) + 1
          /\ \A i \in 1..Len(rs) : ns[i] = rs[i]
          /\ ns[Len(rs) + 1] = r
      BY AppendProperties
    <2> HIDE DEF ns
    <2>3. ss \in Seq(T) /\ Len(ss) = Len(rs)
      <3>1. ss \in [1..Len(rs) -> T]
        BY <2>1
      <3> HIDE DEF ss, T
      <3>2. QED
        BY <2>1, <3>1, SeqDef
    <2>4. e \in T /\ e \in Seq(Heads \cup Chunks)
      BY AnswerOf
    <2>5. [n \in 1..Len(ns) |-> Answer(ns[n])] = Append(ss, e)
      BY <2>1, <2>2, <2>3
    <2> HIDE DEF ss, T, e
    <2>6. FlattenSeq(Append(ss, e)) = FlattenSeq(ss) \o e
      BY <2>3, <2>4, FlattenAppend
    <2>7. QED
      BY <2>5, <2>6 DEF Answers, ss, e, ns
  <1>3. QED
    BY <1>1, <1>2

(* No sequence of requests is a least one whose answers are no sequence.   *)
LEMMA AnswersAreItems ==
  ASSUME NEW rs \in Seq(Requests)
  PROVE  /\ Answers(rs) \in Seq(Heads \cup Chunks)
         /\ Len(Answers(rs)) \in Nat
         /\ rs # << >> =>
              \E u \in Seq(Heads \cup Chunks) :
                /\ Last(rs) \in Requests
                /\ Answers(rs) = u \o Answer(Last(rs))
                /\ Len(Answers(rs)) = Len(u) + Len(Answer(Last(rs)))
  <1> DEFINE I == Heads \cup Chunks
             T == { n \in Nat : \E q \in Seq(Requests) :
                      Len(q) = n /\ Answers(q) \notin Seq(I) }
  <1>1. ASSUME NEW q \in Seq(Requests), q # << >>
        PROVE  /\ Front(q) \in Seq(Requests) /\ Last(q) \in Requests
               /\ Len(Front(q)) = Len(q) - 1 /\ Len(q) \in Nat
               /\ Answers(q) = Answers(Front(q)) \o Answer(Last(q))
    <2>1. Len(q) \in Nat /\ Len(q) # 0
      BY <1>1, LenProperties, EmptySeq
    <2>2. /\ Front(q) \in Seq(Requests) /\ Len(Front(q)) = Len(q) - 1
          /\ \A i \in 1..Len(q) - 1 : Front(q)[i] = q[i]
      <3>0. Len(q) - 1 \in Nat
        BY <2>1
      <3>1. PICK k \in Nat, n \in Nat : k = 0 /\ n = Len(q) - 1
        BY <3>0
      <3>2. k + n <= Len(q) /\ k + 1 = 1 /\ k + n = n /\ \A i \in 1..n : k + i = i
        BY <2>1, <3>1
      <3>3. /\ SubSeq(q, 1, n) \in Seq(Requests) /\ Len(SubSeq(q, 1, n)) = n
            /\ \A i \in 1..n : SubSeq(q, 1, n)[i] = q[k + i]
        BY <3>2, PartOfSeq
      <3>4. QED
        BY <3>1, <3>2, <3>3 DEF Front
    <2>3. Last(q) \in Requests /\ Last(q) = q[Len(q)]
      BY <2>1, ElementOfSeq DEF Last
    <2>4. /\ Append(Front(q), Last(q)) \in Seq(Requests)
          /\ Len(Append(Front(q), Last(q))) = Len(q)
          /\ \A i \in 1..Len(q) : Append(Front(q), Last(q))[i] = q[i]
      BY <2>1, <2>2, <2>3, AppendProperties
    <2>5. Append(Front(q), Last(q)) = q
      BY <2>4, SameSeq
    <2>6. Answers(Append(Front(q), Last(q))) = Answers(Front(q)) \o Answer(Last(q))
      BY <2>2, <2>3, AnswersOf
    <2>7. QED
      BY <2>1, <2>2, <2>3, <2>5, <2>6
  <1>2. \A q \in Seq(Requests) : Answers(q) \in Seq(I)
    <2>1. SUFFICES ASSUME NEW p \in Seq(Requests), Answers(p) \notin Seq(I) PROVE FALSE
      OBVIOUS
    <2>2. T \subseteq Nat /\ Len(p) \in T
      BY <2>1, LenProperties
    <2> DEFINE m == Min(T)
    <2>3. m \in T /\ \A n \in T : m <= n
      BY <2>2, LeastOfSet
    <2> HIDE DEF m
    <2>4. PICK q \in Seq(Requests) : Len(q) = m /\ Answers(q) \notin Seq(I)
      BY <2>3
    <2>5. q # << >>
      BY <2>4, AnswersOf, EmptySeq
    <2>6. /\ Front(q) \in Seq(Requests) /\ Last(q) \in Requests
          /\ Len(Front(q)) = Len(q) - 1 /\ Len(q) \in Nat
          /\ Answers(q) = Answers(Front(q)) \o Answer(Last(q))
      BY <1>1, <2>5
    <2>7. Len(Front(q)) \in Nat
      BY <2>6, LenProperties
    <2>8. Answers(Front(q)) \in Seq(I)
      <3>1. Len(Front(q)) \notin T
        BY <2>3, <2>4, <2>6, <2>7
      <3>2. QED
        BY <2>6, <2>7, <3>1
    <2>9. Answer(Last(q)) \in Seq(I)
      BY <2>6, AnswerOf
    <2> HIDE DEF I
    <2>10. Answers(q) \in Seq(I)
      BY <2>6, <2>8, <2>9, ConcatProperties
    <2>11. QED
      BY <2>4, <2>10
  <1>3. ASSUME rs # << >>
        PROVE  \E u \in Seq(I) : /\ Last(rs) \in Requests
                                 /\ Answers(rs) = u \o Answer(Last(rs))
                                 /\ Len(Answers(rs)) = Len(u) + Len(Answer(Last(rs)))
    <2>1. /\ Front(rs) \in Seq(Requests) /\ Last(rs) \in Requests
          /\ Answers(rs) = Answers(Front(rs)) \o Answer(Last(rs))
      BY <1>1, <1>3
    <2>2. Answers(Front(rs)) \in Seq(I) /\ Answer(Last(rs)) \in Seq(I)
      BY <1>2, <2>1, AnswerOf
    <2> HIDE DEF I
    <2>3. Len(Answers(rs)) = Len(Answers(Front(rs))) + Len(Answer(Last(rs)))
      BY <2>1, <2>2, ConcatProperties
    <2>4. QED
      BY <2>1, <2>2, <2>3
  <1>4. QED
    BY <1>2, <1>3, LenProperties

(* What is sent so far begins the answers, and the next item goes on.      *)
LEMMA PrefixGrows ==
  ASSUME NEW S, NEW w \in Seq(S), NEW a \in Seq(S), IsPrefix(w, a),
         Len(w) < Len(a), NEW e, e = a[Len(w) + 1]
  PROVE  /\ Append(w, e) \in Seq(S) /\ Len(Append(w, e)) = Len(w) + 1
         /\ IsPrefix(Append(w, e), a)
  <1>1. Len(w) \in Nat /\ Len(a) \in Nat
    BY LenProperties
  <1> DEFINE n == Len(w) + 1
  <1>2. n \in 1..Len(a) /\ n \in Nat
    BY <1>1
  <1>3. e \in S
    BY <1>2, ElementOfSeq
  <1>4. /\ Append(w, e) \in Seq(S) /\ Len(Append(w, e)) = n
        /\ \A i \in 1..Len(w) : Append(w, e)[i] = w[i]
        /\ Append(w, e)[n] = e
    BY <1>3, AppendProperties
  <1>5. \A i \in 1..Len(w) : w[i] = a[i]
    BY <1>1, PrefixItems
  <1>6. \A i \in 1..n : Append(w, e)[i] = a[i]
    BY <1>1, <1>4, <1>5
  <1>7. IsPrefix(Append(w, e), a)
    <2>1. PICK v \in Seq(S) : v = Append(w, e)
      BY <1>4
    <2>2. Len(v) <= Len(a) /\ \A i \in 1..Len(v) : v[i] = a[i]
      BY <1>2, <1>4, <1>6, <2>1
    <2>3. QED
      BY <2>1, <2>2, ItemsPrefix
  <1>8. QED
    BY <1>4, <1>7

(* The next item of the answer to the last request is sent.                *)
LEMMA ItemSent ==
  ASSUME ConnTypes, NEW c \in Conns, Right(c),
         NEW r \in Requests, asked[c] # << >>, Last(asked[c]) = r,
         NEW k \in Nat, NEW j \in Nat, Missing(c) = k, k > 0, j > 0,
         k + j = Len(Answer(r)) + 1,
         asked' = asked, wire'[c] = Append(wire[c], Answer(r)[j])
  PROVE  Right(c)' /\ Missing(c)' = k - 1
  <1> DEFINE I == Heads \cup Chunks
             a == Answers(asked[c])
  <1>1. wire[c] \in Seq(I) /\ asked[c] \in Seq(Requests)
    BY DEF ConnTypes
  <1>2. a \in Seq(I) /\ Len(a) \in Nat
    BY <1>1, AnswersAreItems
  <1> PICK u \in Seq(I) : a = u \o Answer(r) /\ Len(a) = Len(u) + Len(Answer(r))
    BY <1>1, AnswersAreItems
  <1>3. Answer(r) \in Seq(I)
    BY AnswerOf
  <1>4. /\ Len(wire[c]) \in Nat /\ Len(u) \in Nat /\ Len(Answer(r)) \in Nat
    BY <1>1, <1>3, LenProperties
  <1>5. Len(a) - Len(wire[c]) = k
    BY DEF Missing
  <1>6. IsPrefix(wire[c], a)
    BY DEF Right
  <1> HIDE DEF a, I
  <1>7. /\ Len(wire[c]) < Len(a)
        /\ Len(wire[c]) + 1 = Len(u) + j
        /\ Len(u) + j \in 1..Len(u) + Len(Answer(r)) /\ ~(Len(u) + j <= Len(u))
        /\ Len(u) + j - Len(u) = j
    <2>1. PICK n \in Nat, w \in Nat, v \in Nat, l \in Nat :
            n = Len(a) /\ w = Len(wire[c]) /\ v = Len(u) /\ l = Len(Answer(r))
      BY <1>2, <1>4
    <2>2. n = v + l /\ n - w = k /\ k + j = l + 1
      BY <1>5, <2>1
    <2>3. w < n /\ w + 1 = v + j /\ v + j \in 1..v + l /\ ~(v + j <= v) /\ v + j - v = j
      BY <2>2
    <2>4. QED
      BY <2>1, <2>3
  <1>8. a[Len(u) + j] = Answer(r)[j]
    <2>1. \A i \in 1..Len(u) + Len(Answer(r)) :
            (u \o Answer(r))[i] = IF i <= Len(u) THEN u[i] ELSE Answer(r)[i - Len(u)]
      BY <1>3, ConcatProperties
    <2>2. QED
      BY <1>7, <2>1
  <1> PICK e : e = Answer(r)[j]
    OBVIOUS
  <1>9. e = a[Len(wire[c]) + 1]
    BY <1>7, <1>8
  <1>10. /\ Len(Append(wire[c], e)) = Len(wire[c]) + 1
         /\ IsPrefix(Append(wire[c], e), a)
    <2>1. PICK w \in Seq(I), b \in Seq(I) : w = wire[c] /\ b = a
      BY <1>1, <1>2
    <2>2. IsPrefix(w, b) /\ Len(w) < Len(b) /\ e = b[Len(w) + 1]
      BY <1>6, <1>7, <1>9, <2>1
    <2>3. Len(Append(w, e)) = Len(w) + 1 /\ IsPrefix(Append(w, e), b)
      BY <2>2, PrefixGrows
    <2>4. QED
      BY <2>1, <2>3
  <1>11. wire'[c] = Append(wire[c], e)
    OBVIOUS
  <1>12. Len(a) - Len(wire'[c]) = k - 1
    BY <1>2, <1>4, <1>5, <1>10, <1>11
  <1>13. QED
    BY <1>10, <1>11, <1>12 DEF Right, Missing, a

(* A client that has been answered asks for more.                          *)
LEMMA MoreAsked ==
  ASSUME ConnTypes, NEW c \in Conns, Answered(c), NEW r \in Requests,
         asked'[c] = Append(asked[c], r), wire' = wire
  PROVE  /\ Right(c)' /\ Missing(c)' = Len(Answer(r))
         /\ asked'[c] # << >> /\ Last(asked'[c]) = r
         /\ Len(asked'[c]) = Len(asked[c]) + 1
  <1> DEFINE I == Heads \cup Chunks
             a == Answers(asked[c])
  <1>1. asked[c] \in Seq(Requests)
    BY DEF ConnTypes
  <1>2. a \in Seq(I) /\ Len(a) \in Nat
    BY <1>1, AnswersAreItems
  <1>3. Answer(r) \in Seq(I) /\ Len(Answer(r)) \in Nat
    BY AnswerOf, LenProperties
  <1>4. Answers(asked'[c]) = a \o Answer(r)
    BY <1>1, AnswersOf
  <1>5. wire'[c] = a
    BY DEF Answered
  <1>6. /\ asked'[c] # << >> /\ Len(asked'[c]) = Len(asked[c]) + 1
        /\ asked'[c][Len(asked[c]) + 1] = r
    BY <1>1, AppendProperties
  <1> HIDE DEF a, I
  <1> PICK b \in Seq(I) : b = a \o Answer(r)
    BY <1>2, <1>3, ConcatProperties
  <1>7. /\ Len(b) = Len(a) + Len(Answer(r))
        /\ \A i \in 1..Len(b) : b[i] = IF i <= Len(a) THEN a[i] ELSE Answer(r)[i - Len(a)]
    BY <1>2, <1>3, ConcatProperties
  <1>8. Len(a) <= Len(b) /\ \A i \in 1..Len(a) : a[i] = b[i]
    BY <1>2, <1>3, <1>7
  <1>9. IsPrefix(a, b)
    BY <1>2, <1>8, ItemsPrefix
  <1>10. Len(b) - Len(a) = Len(Answer(r))
    BY <1>2, <1>3, <1>7
  <1>11. Right(c)' /\ Missing(c)' = Len(Answer(r))
    BY <1>4, <1>5, <1>9, <1>10 DEF Right, Missing
  <1>12. Last(asked'[c]) = r
    BY <1>6 DEF Last
  <1>13. QED
    BY <1>6, <1>11, <1>12

LEMMA AnsweredLacksNothing ==
  ASSUME ConnTypes, NEW c \in Conns
  PROVE  /\ Missing(c) \in Int
         /\ Answered(c) => Missing(c) = 0
  <1>1. Len(Answers(asked[c])) \in Nat
    BY AnswersAreItems DEF ConnTypes
  <1>2. Len(wire[c]) \in Nat
    BY LenProperties DEF ConnTypes
  <1>3. QED
    BY <1>1, <1>2 DEF Missing, Answered

-----------------------------------------------------------------------------
(* What a step leaves alone: what is done for a session, and a connection. *)
Same(s) ==
  /\ m_sessions'[s] = m_sessions[s] /\ slots'[s] = slots[s]
  /\ AtFor(s)' = AtFor(s) /\ SlotFor(s)' = SlotFor(s)
  /\ Told(s)' = Told(s) /\ Sending(s)' = Sending(s)
SameConn(c) ==
  /\ link'[c] = link[c] /\ asked'[c] = asked[c] /\ read'[c] = read[c]
  /\ wbuf'[c] = wbuf[c] /\ wire'[c] = wire[c]

LEMMA DoingStays ==
  ASSUME NEW s, Same(s)
  PROVE  \A file, n, connects, slotRuns, told, sent :
           Doing(s, file, n, connects, slotRuns, told, sent)
             => Doing(s, file, n, connects, slotRuns, told, sent)'
  BY DEF Same, Doing

LEMMA ServiceStays ==
  ASSUME NEW s, NEW c, Same(s), SameConn(c)
  PROVE  /\ Quiet(s) => Quiet(s)'
         /\ Right(c) => Right(c)'
         /\ Untouched(c) => Untouched(c)'
         /\ Resting(s, c) => Resting(s, c)'
         /\ Serving(s, c) => Serving(s, c)'
  <1>1. Quiet(s) => Quiet(s)'
    BY DoingStays DEF Quiet
  <1>2. /\ Right(c) => Right(c)'
        /\ Untouched(c) => Untouched(c)'
        /\ AllRead(c) => AllRead(c)'
        /\ Missing(c)' = Missing(c)
        /\ link'[c] = link[c] /\ wbuf'[c] = wbuf[c] /\ asked'[c] = asked[c]
        /\ read'[c] = read[c]
    BY DEF SameConn, Right, Untouched, AllRead, Missing
  <1>3. Resting(s, c) => Resting(s, c)'
    BY <1>1, <1>2 DEF Resting
  <1>4. ASSUME NEW r \in Requests
        PROVE  /\ Unread(s, c, r) => Unread(s, c, r)'
               /\ PageWaits(s, c, r) => PageWaits(s, c, r)'
    BY <1>1, <1>2 DEF Unread, PageWaits
  <1>5. ASSUME NEW r \in Requests
        PROVE  /\ FilmNoted(s, c, r) => FilmNoted(s, c, r)'
               /\ HeadWaits(s, c, r) => HeadWaits(s, c, r)'
    BY <1>2, DoingStays DEF FilmNoted, HeadWaits
  <1>6. ASSUME NEW r \in Requests
        PROVE  /\ HeadSent(s, c, r) => HeadSent(s, c, r)'
               /\ FilmStarts(s, c, r) => FilmStarts(s, c, r)'
               /\ FilmRuns(s, c, r) => FilmRuns(s, c, r)'
    BY <1>2, DoingStays DEF HeadSent, FilmStarts, FilmRuns
  <1>7. ASSUME NEW r \in Requests PROVE FilmWaits(s, c, r) => FilmWaits(s, c, r)'
    BY <1>2, <1>5, <1>6 DEF FilmWaits
  <1>8. Serving(s, c) => Serving(s, c)'
    BY <1>2, <1>4, <1>7 DEF Serving
  <1>9. QED
    BY <1>1, <1>2, <1>3, <1>8

(* A step keeps what is said of all sessions when it keeps it of those it  *)
(* does not leave alone.                                                   *)
LEMMA SteadyKept ==
  ASSUME Steady, SessionTypes, DoneDeleted',
         \A d \in Conns : SameConn(d) \/ (Right(d)' /\ (link'[d] = "new" => Untouched(d)')),
         \A u \in Sessions : conn'[u] = None => (conn[u] = None /\ Same(u)) \/ Quiet(u)',
         \A u \in Sessions : \A d \in Conns :
           conn'[u] = d => \/ conn[u] = d /\ Same(u) /\ SameConn(d)
                           \/ Resting(u, d)' \/ Serving(u, d)'
  PROVE  Steady'
  <1>1. \A c \in Conns : Right(c)' /\ (link'[c] = "new" => Untouched(c)')
    <2> TAKE c \in Conns
    <2>1. Right(c) /\ (link[c] = "new" => Untouched(c))
      BY DEF Steady
    <2>2. CASE SameConn(c)
      <3>1. link'[c] = link[c]
        BY <2>2 DEF SameConn
      <3>2. (Right(c) => Right(c)') /\ (Untouched(c) => Untouched(c)')
        BY <2>2 DEF SameConn, Right, Untouched
      <3>3. QED
        BY <2>1, <3>1, <3>2
    <2>3. QED
      BY <2>2
  <1>2. \A s \in Sessions : conn'[s] = None => Quiet(s)'
    <2> TAKE s \in Sessions
    <2>1. conn[s] = None => Quiet(s)
      BY DEF Steady
    <2>2. Same(s) /\ Quiet(s) => Quiet(s)'
      BY DoingStays DEF Quiet
    <2>3. QED
      BY <2>1, <2>2
  <1>3. \A s \in Sessions : \A c \in Conns :
          conn'[s] = c => Resting(s, c)' \/ Serving(s, c)'
    <2> TAKE s \in Sessions
    <2> TAKE c \in Conns
    <2>1. conn[s] = c => Resting(s, c) \/ Serving(s, c)
      BY DEF Steady
    <2>2. Same(s) /\ SameConn(c) =>
            /\ Resting(s, c) => Resting(s, c)'
            /\ Serving(s, c) => Serving(s, c)'
      BY ServiceStays
    <2>3. QED
      BY <2>1, <2>2
  <1>4. QED
    BY <1>1, <1>2, <1>3 DEF Steady

LEMMA SameUnless ==
  ASSUME NEW u,
         m_sessions'[u] = m_sessions[u], slots'[u] = slots[u],
         at' = at \/ ((at = Idle \/ at.session # u) /\ (at' = Idle \/ at'.session # u)),
         slot' = slot \/ ((slot = Idle \/ slot.session # u) /\ (slot' = Idle \/ slot'.session # u)),
         queue' = queue \/ Told(u)' = Told(u),
         transcoder' = transcoder \/ Sending(u)' = Sending(u)
  PROVE  Same(u)
  <1>1. AtFor(u)' = AtFor(u)
    BY DEF AtFor, Idle
  <1>2. SlotFor(u)' = SlotFor(u)
    BY DEF SlotFor, Idle
  <1>3. Told(u)' = Told(u)
    BY DEF Told, Tells
  <1>4. Sending(u)' = Sending(u)
    BY DEF Sending, Sends, Lacking
  <1>5. QED
    BY <1>1, <1>2, <1>3, <1>4 DEF Same

(* The calls of the slot, as the queue grows and is served.                *)
LEMMA ToldWhenMore ==
  ASSUME MainTypes, NEW E, NEW d \in Seq(E), queue' = queue \o d, NEW u,
         \A i \in 1..Len(d) : ~(d[i].event = "written" /\ d[i].session = u)
  PROVE  Told(u)' = Told(u)
  <1> DEFINE Q == Written \cup Deletes
  <1>1. queue \in Seq(Q)
    BY DEF MainTypes
  <1>2. Len(queue) \in Nat /\ Len(d) \in Nat
    BY <1>1, LenProperties
  <1>3. queue \in Seq(Q \cup E) /\ d \in Seq(Q \cup E)
    BY <1>1, SeqMonotonic
  <1> HIDE DEF Q
  <1>4. /\ Len(queue') = Len(queue) + Len(d)
        /\ \A i \in 1..Len(queue) + Len(d) :
             queue'[i] = IF i <= Len(queue) THEN queue[i] ELSE d[i - Len(queue)]
    BY <1>3, ConcatProperties
  <1>5. \A i \in 1..Len(queue) : i \in 1..Len(queue') /\ (Tells(i, u)' <=> Tells(i, u))
    BY <1>2, <1>4 DEF Tells
  <1>6. ASSUME NEW i \in 1..Len(queue'), Tells(i, u)' PROVE i \in 1..Len(queue)
    <2>1. SUFFICES ASSUME ~(i <= Len(queue)) PROVE FALSE
      BY <1>2, <1>4
    <2>2. i - Len(queue) \in 1..Len(d) /\ queue'[i] = d[i - Len(queue)]
      BY <1>2, <1>4, <2>1
    <2>3. queue'[i].event = "written" /\ queue'[i].session = u
      BY <1>6 DEF Tells
    <2>4. QED
      BY <2>2, <2>3
  <1>7. (\A i \in 1..Len(queue') : ~Tells(i, u)') <=> (\A i \in 1..Len(queue) : ~Tells(i, u))
    BY <1>5, <1>6
  <1>8. (\A i, j \in 1..Len(queue') : Tells(i, u)' /\ Tells(j, u)' => i = j)
          <=> (\A i, j \in 1..Len(queue) : Tells(i, u) /\ Tells(j, u) => i = j)
    BY <1>5, <1>6
  <1>9. QED
    BY <1>7, <1>8 DEF Told

LEMMA ToldOnce ==
  ASSUME MainTypes, NEW s, NEW e \in Written, e.session = s,
         queue' = Append(queue, e), Told(s) = 0
  PROVE  Told(s)' = 1
  <1> DEFINE Q == Written \cup Deletes
  <1>1. queue \in Seq(Q) /\ e \in Q
    BY DEF MainTypes
  <1>2. Len(queue) \in Nat
    BY <1>1, LenProperties
  <1> HIDE DEF Q
  <1> PICK n \in Nat : n = Len(queue) + 1
    BY <1>2
  <1>3. /\ Len(queue') = n
        /\ \A i \in 1..Len(queue) : queue'[i] = queue[i]
        /\ queue'[n] = e
    BY <1>1, AppendProperties
  <1>4. \A i \in 1..Len(queue) : ~Tells(i, s)
    BY DEF Told
  <1>5. \A i \in 1..Len(queue) : ~Tells(i, s)'
    BY <1>3, <1>4 DEF Tells
  <1>6. n \in 1..Len(queue') /\ \A i \in 1..Len(queue') : i \in 1..Len(queue) \/ i = n
    BY <1>2, <1>3
  <1>7. Tells(n, s)'
    BY <1>3 DEF Tells, Written
  <1>8. ~(\A i \in 1..Len(queue') : ~Tells(i, s)')
    BY <1>6, <1>7
  <1>9. \A i, j \in 1..Len(queue') : Tells(i, s)' /\ Tells(j, s)' => i = j
    BY <1>5, <1>6
  <1>10. QED
    BY <1>8, <1>9 DEF Told

LEMMA ToldWhenServed ==
  ASSUME MainTypes, queue # << >>, queue' = Tail(queue), NEW s
  PROVE  /\ ~Tells(1, s) => Told(s)' = Told(s)
         /\ Tells(1, s) => Told(s) # 0 /\ (Told(s) = 1 => Told(s)' = 0)
  <1> DEFINE Q == Written \cup Deletes
             n == Len(queue)
  <1>1. queue \in Seq(Q)
    BY DEF MainTypes
  <1> HIDE DEF Q
  <1>2. /\ 1 \in 1..n /\ Len(queue') = n - 1
        /\ \A i \in 1..n - 1 : queue'[i] = queue[i + 1]
    BY <1>1, TailOfSeq
  <1>3. n \in Nat
    BY <1>1, LenProperties
  <1>4. \A i \in 1..Len(queue') : i + 1 \in 1..n /\ (Tells(i, s)' <=> Tells(i + 1, s))
    BY <1>2, <1>3 DEF Tells
  <1>5. \A i \in 1..n : i = 1 \/ (i - 1 \in 1..Len(queue') /\ (i - 1) + 1 = i)
    BY <1>2, <1>3
  <1>6. \A i \in 1..Len(queue') : i \in Int
    BY <1>2, <1>3
  <1> HIDE DEF n
  <1>7. ASSUME ~Tells(1, s) PROVE Told(s)' = Told(s)
    <2>a. ASSUME \A i \in 1..Len(queue') : ~Tells(i, s)', NEW i \in 1..n
          PROVE  ~Tells(i, s)
      <3>1. i = 1 \/ (i - 1 \in 1..Len(queue') /\ (i - 1) + 1 = i)
        BY <1>5
      <3>2. CASE i = 1
        BY <1>7, <3>2
      <3>3. CASE i - 1 \in 1..Len(queue') /\ (i - 1) + 1 = i
        BY <1>4, <2>a, <3>3
      <3>4. QED
        BY <3>1, <3>2, <3>3
    <2>b. ASSUME \A i \in 1..n : ~Tells(i, s), NEW i \in 1..Len(queue')
          PROVE  ~Tells(i, s)'
      BY <1>4, <2>b
    <2>1. (\A i \in 1..Len(queue') : ~Tells(i, s)') <=> (\A i \in 1..n : ~Tells(i, s))
      BY <2>a, <2>b
    <2>2. ASSUME \A i, j \in 1..n : Tells(i, s) /\ Tells(j, s) => i = j
          PROVE  \A i, j \in 1..Len(queue') : Tells(i, s)' /\ Tells(j, s)' => i = j
      <3>1. ASSUME NEW i \in 1..Len(queue'), NEW j \in 1..Len(queue'),
                   Tells(i, s)', Tells(j, s)'
            PROVE  i = j
        <4>1. i + 1 = j + 1
          BY <1>4, <2>2, <3>1
        <4>2. QED
          BY <1>6, <4>1
      <3>2. QED
        BY <3>1
    <2>3. ASSUME \A i, j \in 1..Len(queue') : Tells(i, s)' /\ Tells(j, s)' => i = j
          PROVE  \A i, j \in 1..n : Tells(i, s) /\ Tells(j, s) => i = j
      <3>1. ASSUME NEW i \in 1..n, NEW j \in 1..n, Tells(i, s), Tells(j, s)
            PROVE  i = j
        <4>1. /\ i - 1 \in 1..Len(queue') /\ (i - 1) + 1 = i
              /\ j - 1 \in 1..Len(queue') /\ (j - 1) + 1 = j
          BY <1>5, <1>7, <3>1
        <4>2. Tells(i - 1, s)' /\ Tells(j - 1, s)'
          BY <1>4, <3>1, <4>1
        <4>3. i - 1 = j - 1
          BY <2>3, <4>1, <4>2
        <4>4. QED
          BY <4>1, <4>3
      <3>2. QED
        BY <3>1
    <2>4. QED
      BY <2>1, <2>2, <2>3 DEF Told, n
  <1>8. ASSUME Tells(1, s) PROVE Told(s) # 0 /\ (Told(s) = 1 => Told(s)' = 0)
    <2>1. ~(\A i \in 1..n : ~Tells(i, s))
      BY <1>2, <1>8
    <2>2. Told(s) # 0
      BY <2>1 DEF Told, n
    <2>3. ASSUME Told(s) = 1 PROVE Told(s)' = 0
      <3>1. \A i, j \in 1..n : Tells(i, s) /\ Tells(j, s) => i = j
        BY <2>1, <2>3 DEF Told, n
      <3>2. \A i \in 1..Len(queue') : i + 1 # 1
        BY <1>2, <1>3
      <3>3. \A i \in 1..Len(queue') : ~Tells(i, s)'
        BY <1>2, <1>4, <1>8, <3>1, <3>2
      <3>4. QED
        BY <3>3 DEF Told
    <2>4. QED
      BY <2>2, <2>3
  <1>9. QED
    BY <1>7, <1>8

(* The transcoders at work for a session, as one of them changes.          *)
LEMMA SendersOf ==
  ASSUME NEW s
  PROVE  /\ Sending(s) = {} <=> \A t \in Transcoders : ~Sends(t, s)
         /\ \A t, f, n : Sending(s) = {<< t, f, n >>} =>
              /\ t \in Transcoders /\ Sends(t, s)
              /\ transcoder[t].file = f /\ transcoder[t].off = n
              /\ \A v \in Transcoders : Sends(v, s) => v = t
  <1>1. Sending(s) = {} <=> \A t \in Transcoders : ~Sends(t, s)
    BY DEF Sending
  <1>2. ASSUME NEW t, NEW f, NEW n, Sending(s) = {<< t, f, n >>}
        PROVE  /\ t \in Transcoders /\ Sends(t, s)
               /\ transcoder[t].file = f /\ transcoder[t].off = n
               /\ \A v \in Transcoders : Sends(v, s) => v = t
    <2>1. \A v \in Transcoders : Sends(v, s) =>
            << v, transcoder[v].file, transcoder[v].off >> \in Sending(s)
      BY DEF Sending
    <2>2. \A v \in Transcoders : Sends(v, s) => v = t
      BY <1>2, <2>1
    <2>3. \E v \in Transcoders : Sends(v, s) /\
            << t, f, n >> = << v, transcoder[v].file, transcoder[v].off >>
      BY <1>2 DEF Sending
    <2>4. QED
      BY <2>2, <2>3
  <1>3. QED
    BY <1>1, <1>2

LEMMA OnlySender ==
  ASSUME NEW s, NEW z, NEW t, NEW f, NEW n, z = << t, f, n >>,
         z \in Sending(s), \A d \in Sending(s) : d = z
  PROVE  /\ t \in Transcoders /\ Sends(t, s)
         /\ transcoder[t].file = f /\ transcoder[t].off = n
         /\ \A v \in Transcoders : Sends(v, s) => v = t
  <1>1. \A v \in Transcoders : Sends(v, s) =>
          << v, transcoder[v].file, transcoder[v].off >> \in Sending(s)
    BY DEF Sending
  <1>2. \E v \in Transcoders : Sends(v, s) /\
          << t, f, n >> = << v, transcoder[v].file, transcoder[v].off >>
    BY DEF Sending
  <1>3. QED
    BY <1>1, <1>2

LEMMA SendersChange ==
  ASSUME MainTypes, NEW t \in Transcoders, NEW y, transcoder' = [transcoder EXCEPT ![t] = y]
  PROVE  /\ \A u : ~Sends(t, u) /\ ~Sends(t, u)' => Sending(u)' = Sending(u)
         /\ \A u : (\A v \in Transcoders : Sends(v, u) => v = t) =>
              Sending(u)' = IF Sends(t, u)' THEN {<< t, y.file, y.off >>} ELSE {}
         /\ \A u : Sends(t, u)' <=>
              y.state = "Transcoding" /\ y.off < FileChunks /\ y.session = u
  <1>1. transcoder'[t] = y /\ \A v \in Transcoders : v # t => transcoder'[v] = transcoder[v]
    BY DEF MainTypes
  <1>2. \A u : Sends(t, u)' <=>
          y.state = "Transcoding" /\ y.off < FileChunks /\ y.session = u
    BY <1>1 DEF Sends, Lacking
  <1>3. \A u : \A v \in Transcoders : v # t => (Sends(v, u)' <=> Sends(v, u))
    BY <1>1 DEF Sends, Lacking
  <1>4. ASSUME NEW u, ~Sends(t, u), ~Sends(t, u)' PROVE Sending(u)' = Sending(u)
    BY <1>1, <1>3, <1>4 DEF Sending
  <1>5. ASSUME NEW u, \A v \in Transcoders : Sends(v, u) => v = t
        PROVE  Sending(u)' = IF Sends(t, u)' THEN {<< t, y.file, y.off >>} ELSE {}
    BY <1>1, <1>3, <1>5 DEF Sending
  <1>6. QED
    BY <1>2, <1>4, <1>5

LEMMA PartsStay ==
  ASSUME NEW s
  PROVE  /\ at' = at => AtFor(s)' = AtFor(s)
         /\ slot' = slot => SlotFor(s)' = SlotFor(s)
         /\ queue' = queue => Told(s)' = Told(s)
         /\ transcoder' = transcoder => Sending(s)' = Sending(s)
  BY DEF AtFor, SlotFor, Told, Tells, Sending, Sends, Lacking

LEMMA DeletesKept ==
  ASSUME MainTypes, DoneDeleted, queue' = queue,
         \A t \in Transcoders : Done(t) => Done(t)'
  PROVE  DoneDeleted'
  <1>1. SUFFICES ASSUME NEW i \in 1..Len(queue), queue[i].event = "delete"
                 PROVE  \E t : t = queue[i].transcoder /\ Done(t)'
    BY DEF DoneDeleted, Done, Lacking
  <1>2. queue[i] \in Written \cup Deletes
    BY ElementOfSeq DEF MainTypes
  <1> PICK t \in Transcoders : t = queue[i].transcoder
    BY <1>1, <1>2 DEF Written, Deletes
  <1>3. Done(t)
    BY <1>1 DEF DoneDeleted
  <1>4. QED
    BY <1>3

LEMMA DeletesServed ==
  ASSUME MainTypes, DoneDeleted, queue # << >>, queue' = Tail(queue),
         \A t \in Transcoders : Done(t) => Done(t)'
  PROVE  DoneDeleted'
  <1>1. queue \in Seq(Written \cup Deletes) /\ Len(queue) \in Nat
    BY LenProperties DEF MainTypes
  <1>2. Len(queue') = Len(queue) - 1 /\ \A i \in 1..Len(queue) - 1 : queue'[i] = queue[i + 1]
    BY <1>1, TailOfSeq
  <1>3. SUFFICES ASSUME NEW i \in 1..Len(queue'), queue'[i].event = "delete"
                 PROVE  \E t : t = queue'[i].transcoder /\ Done(t)'
    BY DEF DoneDeleted, Done, Lacking
  <1> PICK j \in 1..Len(queue) : queue'[i] = queue[j]
    BY <1>1, <1>2
  <1>4. queue[j] \in Written \cup Deletes
    BY <1>1, ElementOfSeq
  <1> PICK t \in Transcoders : t = queue'[i].transcoder
    BY <1>3, <1>4 DEF Written, Deletes
  <1>5. Done(t)
    BY <1>3 DEF DoneDeleted
  <1>6. QED
    BY <1>5

(* A step of the session that serves c.                                    *)
LEMMA Moved ==
  ASSUME Types, Linked, Steady, DoneDeleted', NEW s \in Sessions, NEW c \in Conns,
         conn[s] = c, conn' = conn,
         \A u \in Sessions \ {s} : Same(u), \A d \in Conns \ {c} : SameConn(d),
         Right(c)', link'[c] # "new", Resting(s, c)' \/ Serving(s, c)'
  PROVE  Steady'
  <1>1. \A u \in Sessions : conn[u] = c => u = s
    BY DEF Linked, NoneAssumption
  <1>2. c # None
    BY DEF NoneAssumption
  <1>3. \A d \in Conns : SameConn(d) \/ (Right(d)' /\ (link'[d] = "new" => Untouched(d)'))
    OBVIOUS
  <1>4. \A u \in Sessions : conn'[u] = None => conn[u] = None /\ Same(u)
    BY <1>2
  <1>5. \A u \in Sessions : \A d \in Conns :
          conn'[u] = d => \/ conn[u] = d /\ Same(u) /\ SameConn(d)
                          \/ Resting(u, d)' \/ Serving(u, d)'
    BY <1>1
  <1>6. QED
    BY <1>3, <1>4, <1>5, SteadyKept DEF Types

(* What a session with a connection is doing.                              *)
LEMMA Served ==
  ASSUME Types, Linked, Steady, NEW s \in Sessions, conn[s] # None
  PROVE  \E c \in Conns :
           /\ conn[s] = c /\ Right(c) /\ link[c] \in {"open", "left", "closing"}
           /\ asked[c] \in Seq(Requests) /\ read[c] \in Nat /\ Len(asked[c]) \in Nat
           /\ \/ Resting(s, c)
              \/ \E r \in Requests :
                   /\ asked[c] # << >> /\ Last(asked[c]) = r
                   /\ Unread(s, c, r) \/ PageWaits(s, c, r) \/ FilmWaits(s, c, r)
  <1> PICK c \in Conns : conn[s] = c
    BY DEF Types, SessionTypes
  <1>1. /\ Right(c) /\ link[c] \in {"open", "left", "closing"}
        /\ asked[c] \in Seq(Requests) /\ read[c] \in Nat
    BY DEF Linked, Steady, Types, ConnTypes
  <1>2. Len(asked[c]) \in Nat
    BY <1>1, LenProperties
  <1>3. Resting(s, c) \/ Serving(s, c)
    BY DEF Steady
  <1>4. QED
    BY <1>1, <1>2, <1>3 DEF Serving

LEMMA ServedLacks ==
  ASSUME NEW s, NEW c, Missing(c) = 0
  PROVE  ~Serving(s, c)
  <1>1. FileChunks \in Nat /\ FileChunks # 0
    OBVIOUS
  <1>2. SUFFICES ASSUME NEW r \in Requests,
                        Unread(s, c, r) \/ PageWaits(s, c, r) \/ FilmWaits(s, c, r)
                 PROVE  FALSE
    BY DEF Serving
  <1>3. CASE Unread(s, c, r)
    <2>1. Len(Answer(r)) # 0
      BY <1>1, AnswerOf
    <2>2. QED
      BY <1>3, <2>1 DEF Unread
  <1>4. CASE PageWaits(s, c, r)
    BY <1>4 DEF PageWaits
  <1>5. CASE FilmNoted(s, c, r) \/ HeadWaits(s, c, r)
    BY <1>1, <1>5 DEF FilmNoted, HeadWaits
  <1>6. CASE HeadSent(s, c, r) \/ FilmStarts(s, c, r)
    BY <1>1, <1>6 DEF HeadSent, FilmStarts
  <1>7. CASE FilmRuns(s, c, r)
    BY <1>1, <1>7 DEF FilmRuns
  <1>8. QED
    BY <1>2, <1>3, <1>4, <1>5, <1>6, <1>7 DEF FilmWaits

-----------------------------------------------------------------------------
LEMMA SteadyAsk ==
  ASSUME Calm, Types, Linked, Steady, NEW c \in Conns, NEW r \in Requests, Ask(c, r)
  PROVE  Steady'
  <1> USE DEF Types
  <1>1. /\ link[c] = "open" /\ Answered(c)
        /\ asked' = [asked EXCEPT ![c] = Append(@, r)]
        /\ UNCHANGED << link, read, wbuf, wire, session_vars, main_vars >>
    BY DEF Ask, Calm
  <1>2. /\ asked'[c] = Append(asked[c], r)
        /\ \A d \in Conns \ {c} : asked'[d] = asked[d]
    BY <1>1 DEF ConnTypes
  <1>3. Missing(c) = 0
    BY <1>1, AnsweredLacksNothing
  <1>4. /\ Right(c)' /\ Missing(c)' = Len(Answer(r))
        /\ asked'[c] # << >> /\ Last(asked'[c]) = r
        /\ Len(asked'[c]) = Len(asked[c]) + 1
    BY <1>1, <1>2, MoreAsked
  <1>5. \A u \in Sessions : Same(u)
    BY <1>1, SameUnless DEF session_vars, main_vars
  <1>6. \A d \in Conns \ {c} : SameConn(d)
    BY <1>1, <1>2 DEF SameConn
  <1>7. ASSUME NEW u \in Sessions, conn[u] = c PROVE Serving(u, c)'
    <2>1. Resting(u, c) \/ Serving(u, c)
      BY <1>7 DEF Steady
    <2>2. Resting(u, c)
      BY <1>3, <2>1, ServedLacks
    <2>3. Quiet(u)'
      BY <1>5, <2>2, DoingStays DEF Resting, Quiet
    <2>4. Unread(u, c, r)'
      BY <1>1, <1>4, <2>2, <2>3 DEF Resting, AllRead, Unread
    <2>5. QED
      BY <1>4, <2>4 DEF Serving
  <1>8. DoneDeleted'
    BY <1>1 DEF Steady, DoneDeleted, Done, Lacking, main_vars
  <1>9. conn' = conn /\ link'[c] = "open"
    BY <1>1 DEF session_vars
  <1>10. QED
    BY <1>4, <1>5, <1>6, <1>7, <1>8, <1>9, SteadyKept

LEMMA SteadyLeave ==
  ASSUME Calm, Types, Linked, Steady, NEW c \in Conns, Leave(c)
  PROVE  Steady'
  <1> USE DEF Types
  <1>1. /\ link[c] = "open" /\ Answered(c)
        /\ link' = [link EXCEPT ![c] = "left"]
        /\ UNCHANGED << asked, read, wbuf, wire, session_vars, main_vars >>
    BY DEF Leave, Calm
  <1>2. link'[c] = "left" /\ \A d \in Conns \ {c} : link'[d] = link[d]
    BY <1>1 DEF ConnTypes
  <1>3. Missing(c) = 0
    BY <1>1, AnsweredLacksNothing
  <1>4. \A u \in Sessions : Same(u)
    BY <1>1, SameUnless DEF session_vars, main_vars
  <1>5. \A d \in Conns \ {c} : SameConn(d)
    BY <1>1, <1>2 DEF SameConn
  <1>6. Right(c)'
    BY <1>1 DEF Steady, Right
  <1>7. ASSUME NEW u \in Sessions, conn[u] = c PROVE Resting(u, c)'
    <2>1. Resting(u, c) \/ Serving(u, c)
      BY <1>7 DEF Steady
    <2>2. Resting(u, c)
      BY <1>3, <2>1, ServedLacks
    <2>3. Quiet(u)'
      BY <1>4, <2>2, DoingStays DEF Resting, Quiet
    <2>4. QED
      BY <1>1, <2>2, <2>3 DEF Resting, AllRead, Missing
  <1>8. DoneDeleted'
    BY <1>1 DEF Steady, DoneDeleted, Done, Lacking, main_vars
  <1>9. conn' = conn
    BY <1>1 DEF session_vars
  <1>10. QED
    BY <1>2, <1>4, <1>5, <1>6, <1>7, <1>8, <1>9, SteadyKept

LEMMA SteadyConnection ==
  ASSUME Types, Linked, Steady, NEW c \in Conns, NEW s \in Sessions, newConnection(c, s)
  PROVE  Steady'
  <1> USE DEF Types
  <1>1. /\ link[c] = "new"
        /\ conn' = [conn EXCEPT ![s] = c] /\ link' = [link EXCEPT ![c] = "open"]
        /\ UNCHANGED << asked, read, wbuf, wire, m_sessions, slots, at, haunted, main_vars >>
    BY DEF newConnection
  <1>2. /\ conn'[s] = c /\ \A u \in Sessions \ {s} : conn'[u] = conn[u]
        /\ link'[c] = "open" /\ \A d \in Conns \ {c} : link'[d] = link[d]
    BY <1>1 DEF ConnTypes, SessionTypes
  <1>3. conn[s] = None
    <2>1. CASE pool # << >>
      <3>1. s = Last(pool) /\ Last(pool) \in ToSet(pool)
        BY <2>1, FrontOfList DEF newConnection, SessionTypes, Linked
      <3>2. QED
        BY <3>1 DEF Linked
    <2>2. CASE pool = << >>
      BY <2>2 DEF newConnection
    <2>3. QED
      BY <2>1, <2>2
  <1>4. \A u \in Sessions : conn[u] # c
    BY <1>1 DEF Linked, NoneAssumption
  <1>5. \A u \in Sessions : Same(u)
    BY <1>1, SameUnless DEF main_vars
  <1>6. \A d \in Conns \ {c} : SameConn(d)
    BY <1>1, <1>2 DEF SameConn
  <1>7. Untouched(c)
    BY <1>1 DEF Steady
  <1>8. Missing(c)' = 0 /\ AllRead(c)' /\ wbuf'[c] = << >>
    <2>1. Len(<< >>) = 0 /\ Answers(<< >>) = << >>
      BY AnswersOf
    <2>2. asked'[c] = << >> /\ wire'[c] = << >> /\ read'[c] = 0 /\ wbuf'[c] = << >>
      BY <1>1, <1>7 DEF Untouched
    <2>3. QED
      BY <2>1, <2>2 DEF Missing, AllRead
  <1>9. Quiet(s)'
    <2>1. Quiet(s)
      BY <1>3 DEF Steady
    <2>2. QED
      BY <1>5, <2>1, DoingStays DEF Quiet
  <1>10. Resting(s, c)'
    BY <1>8, <1>9 DEF Resting
  <1>11. Right(c)'
    BY <1>1 DEF Steady, Right
  <1>12. DoneDeleted'
    BY <1>1 DEF Steady, DoneDeleted, Done, Lacking, main_vars
  <1>13. \A d \in Conns : SameConn(d) \/ (Right(d)' /\ (link'[d] = "new" => Untouched(d)'))
    BY <1>2, <1>6, <1>11
  <1>14. \A u \in Sessions : conn'[u] = None => conn[u] = None /\ Same(u)
    BY <1>2, <1>5 DEF NoneAssumption
  <1>15. \A u \in Sessions : \A d \in Conns :
           conn'[u] = d => \/ conn[u] = d /\ Same(u) /\ SameConn(d)
                           \/ Resting(u, d)' \/ Serving(u, d)'
    BY <1>2, <1>4, <1>5, <1>6, <1>10
  <1>16. QED
    BY <1>12, <1>13, <1>14, <1>15, SteadyKept

(* The request a session reads is the last one of its client.              *)
LEMMA ReadsLast ==
  ASSUME Types, Linked, Steady, NEW s \in Sessions, Reads(s)
  PROVE  \E c \in Conns, r \in Requests :
           /\ conn[s] = c /\ NextRequest(s) = r /\ at = Idle
           /\ asked[c] # << >> /\ Last(asked[c]) = r
           /\ Unread(s, c, r) /\ Right(c) /\ link[c] = "open"
           /\ read'[c] = Len(asked[c]) /\ \A d \in Conns \ {c} : read'[d] = read[d]
  <1>1. /\ conn[s] \in Conns /\ at = Idle
        /\ read' = [read EXCEPT ![conn[s]] = @ + 1]
        /\ read[conn[s]] < Len(asked[conn[s]])
    BY RequestsRead DEF Reads
  <1>2. conn[s] # None
    BY <1>1 DEF NoneAssumption
  <1> PICK c \in Conns :
        /\ conn[s] = c /\ Right(c)
        /\ asked[c] \in Seq(Requests) /\ read[c] \in Nat /\ Len(asked[c]) \in Nat
        /\ \/ Resting(s, c)
           \/ \E r \in Requests :
                /\ asked[c] # << >> /\ Last(asked[c]) = r
                /\ Unread(s, c, r) \/ PageWaits(s, c, r) \/ FilmWaits(s, c, r)
    BY <1>2, Served
  <1>3. ~AllRead(c)
    BY <1>1 DEF AllRead
  <1> PICK r \in Requests :
        asked[c] # << >> /\ Last(asked[c]) = r /\ Unread(s, c, r)
    BY <1>3 DEF Resting, PageWaits, FilmWaits
  <1>4. read[c] + 1 = Len(asked[c]) /\ link[c] = "open"
    BY DEF Unread
  <1>5. NextRequest(s) = r
    BY <1>4 DEF NextRequest, Last
  <1>6. read'[c] = Len(asked[c]) /\ \A d \in Conns \ {c} : read'[d] = read[d]
    BY <1>1, <1>4 DEF Types, ConnTypes
  <1>7. QED
    BY <1>1, <1>4, <1>5, <1>6

LEMMA SteadyOther ==
  ASSUME Types, Linked, Steady, NEW s \in Sessions, onOtherRequest(s)
  PROVE  Steady'
  <1> USE DEF Types
  <1>1. /\ Reads(s) /\ NextRequest(s).file = Page
        /\ writeResponse(conn[s], ResponseHead(Page), NextRequest(s).close)
        /\ UNCHANGED << asked, wire, session_vars, main_vars >>
    BY DEF onOtherRequest
  <1> PICK c \in Conns, r \in Requests :
        /\ conn[s] = c /\ NextRequest(s) = r /\ at = Idle
        /\ asked[c] # << >> /\ Last(asked[c]) = r
        /\ Unread(s, c, r) /\ Right(c) /\ link[c] = "open"
        /\ read'[c] = Len(asked[c]) /\ \A d \in Conns \ {c} : read'[d] = read[d]
    BY <1>1, ReadsLast
  <1> DEFINE b == [item |-> ResponseHead(Page), whole |-> TRUE]
  <1>2. wbuf' = [wbuf EXCEPT ![c] = Append(wbuf[c], b)]
        /\ (link' = [link EXCEPT ![c] = "closing"] \/ link' = link)
    BY <1>1 DEF writeResponse
  <1>3. wbuf[c] = << >> /\ Append(<< >>, b) = Whole(Page)
    BY DEF Unread, Whole
  <1>4. /\ wbuf'[c] = Whole(Page) /\ \A d \in Conns \ {c} : wbuf'[d] = wbuf[d]
        /\ link'[c] \in {"open", "closing"} /\ \A d \in Conns \ {c} : link'[d] = link[d]
    BY <1>2, <1>3 DEF ConnTypes
  <1>5. \A u \in Sessions : Same(u)
    BY <1>1, SameUnless DEF session_vars, main_vars
  <1>6. \A d \in Conns \ {c} : SameConn(d)
    BY <1>1, <1>4 DEF SameConn
  <1>7. Quiet(s)'
    BY <1>5, DoingStays DEF Unread, Quiet
  <1>8. Missing(c)' = 1
    <2>1. Len(Answer(r)) = 1
      BY <1>1, AnswerOf
    <2>2. Missing(c) = 1
      BY <2>1 DEF Unread
    <2>3. QED
      BY <1>1, <2>2 DEF Missing
  <1>9. PageWaits(s, c, r)'
    BY <1>1, <1>4, <1>7, <1>8 DEF PageWaits, AllRead
  <1>10. Serving(s, c)'
    BY <1>1, <1>9 DEF Serving
  <1>11. Right(c)'
    BY <1>1 DEF Right
  <1>12. DoneDeleted'
    BY <1>1 DEF Steady, DoneDeleted, Done, Lacking, main_vars
  <1>13. conn' = conn /\ link'[c] # "new"
    BY <1>1, <1>4 DEF session_vars
  <1>14. QED
    BY <1>5, <1>6, <1>10, <1>11, <1>12, <1>13, Moved

LEMMA SteadyRequest ==
  ASSUME Types, Linked, Steady, NEW s \in Sessions, onRequest(s)
  PROVE  Steady'
  <1> USE DEF Types
  <1>1. /\ Reads(s) /\ NextRequest(s).file # Page
        /\ UNCHANGED << link, asked, wbuf, wire, pool, conn, slots, haunted, main_vars >>
    BY DEF onRequest
  <1> PICK c \in Conns, r \in Requests :
        /\ conn[s] = c /\ NextRequest(s) = r /\ at = Idle
        /\ asked[c] # << >> /\ Last(asked[c]) = r
        /\ Unread(s, c, r) /\ Right(c) /\ link[c] = "open"
        /\ read'[c] = Len(asked[c]) /\ \A d \in Conns \ {c} : read'[d] = read[d]
    BY <1>1, ReadsLast
  <1> DEFINE noting == [step |-> "connect", session |-> s, request |-> r]
  <1>2. Doing(s, None, 0, Idle, Idle, 0, {})
    BY DEF Unread, Quiet
  <1>3. /\ m_sessions' = [m_sessions EXCEPT ![s] = r.file]
        /\ at' = noting
    BY <1>2 DEF onRequest, Doing
  <1>4. noting.session = s /\ noting # Idle
    BY DEF Idle
  <1> HIDE DEF noting
  <1>5. /\ m_sessions'[s] = r.file
        /\ \A u \in Sessions \ {s} : m_sessions'[u] = m_sessions[u]
    BY <1>3 DEF SessionTypes
  <1>6. \A u \in Sessions \ {s} : Same(u)
    BY <1>1, <1>3, <1>4, <1>5, SameUnless DEF main_vars
  <1>7. \A d \in Conns \ {c} : SameConn(d)
    BY <1>1 DEF SameConn
  <1>8. AtFor(s)' = noting
    BY <1>3, <1>4 DEF AtFor
  <1>9. Doing(s, r.file, 0, noting, Idle, 0, {})'
    BY <1>1, <1>2, <1>5, <1>8, PartsStay DEF Doing, main_vars
  <1>10. Missing(c)' = 1 + FileChunks
    <2>1. Len(Answer(r)) = 1 + FileChunks
      BY <1>1, AnswerOf
    <2>2. Missing(c) = 1 + FileChunks
      BY <2>1 DEF Unread
    <2>3. QED
      BY <1>1, <2>2 DEF Missing
  <1>11. wbuf'[c] = << >> /\ link'[c] = "open"
    BY <1>1 DEF Unread
  <1>12. FilmNoted(s, c, r)'
    BY <1>9, <1>10, <1>11 DEF FilmNoted, noting
  <1>13. AllRead(c)'
    BY <1>1 DEF AllRead
  <1>14. Serving(s, c)'
    BY <1>1, <1>11, <1>12, <1>13 DEF Serving, FilmWaits
  <1>15. Right(c)'
    BY <1>1 DEF Right
  <1>16. DoneDeleted'
    BY <1>1 DEF Steady, DoneDeleted, Done, Lacking, main_vars
  <1>17. conn' = conn /\ link'[c] # "new"
    BY <1>1, <1>11
  <1>18. QED
    BY <1>6, <1>7, <1>14, <1>15, <1>16, <1>17, Moved

(* The session thread is noting a film.                                    *)
LEMMA Noting ==
  ASSUME Types, Linked, Steady, at.step \in {"connect", "respond"}
  PROVE  \E s \in Sessions, c \in Conns, r \in Requests :
           /\ at = [step |-> at.step, session |-> s, request |-> r]
           /\ at # Idle /\ AtFor(s) = at /\ conn[s] = c /\ Right(c)
           /\ asked[c] # << >> /\ Last(asked[c]) = r
           /\ r.file # Page /\ link[c] = "open" /\ AllRead(c) /\ FilmNoted(s, c, r)
           /\ Doing(s, r.file, IF at.step = "connect" THEN 0 ELSE 1, at, Idle, 0, {})
  <1> USE DEF Types
  <1>1. at \in AtSteps /\ at # Idle /\ at.session \in Sessions
    BY Steps
  <1> PICK s \in Sessions : s = at.session
    BY <1>1
  <1>2. AtFor(s) = at
    BY <1>1 DEF AtFor
  <1>3. conn[s] # None
    BY <1>1 DEF Linked
  <1> PICK c \in Conns :
        /\ conn[s] = c /\ Right(c)
        /\ \/ Resting(s, c)
           \/ \E r \in Requests :
                /\ asked[c] # << >> /\ Last(asked[c]) = r
                /\ Unread(s, c, r) \/ PageWaits(s, c, r) \/ FilmWaits(s, c, r)
    BY <1>3, Served
  <1>4. \A file, n, slotRuns, told, sent : ~Doing(s, file, n, Idle, slotRuns, told, sent)
    BY <1>1, <1>2 DEF Doing
  <1> PICK r \in Requests :
        asked[c] # << >> /\ Last(asked[c]) = r /\ FilmWaits(s, c, r)
    BY <1>4 DEF Resting, Unread, PageWaits, Quiet
  <1>5. FilmNoted(s, c, r)
    BY <1>4 DEF FilmWaits, HeadWaits, HeadSent, FilmStarts, FilmRuns
  <1>6. CASE Doing(s, r.file, 0, [step |-> "connect", session |-> s, request |-> r], Idle, 0, {})
    <2>1. at = [step |-> "connect", session |-> s, request |-> r]
      BY <1>2, <1>6 DEF Doing
    <2>2. at.step = "connect"
      BY <2>1
    <2>3. QED
      BY <1>1, <1>2, <1>5, <1>6, <2>1, <2>2 DEF FilmWaits
  <1>7. CASE Doing(s, r.file, 1, [step |-> "respond", session |-> s, request |-> r], Idle, 0, {})
    <2>1. at = [step |-> "respond", session |-> s, request |-> r]
      BY <1>2, <1>7 DEF Doing
    <2>2. at.step = "respond"
      BY <2>1
    <2>3. QED
      BY <1>1, <1>2, <1>5, <1>7, <2>1, <2>2 DEF FilmWaits
  <1>8. QED
    BY <1>5, <1>6, <1>7 DEF FilmNoted

LEMMA SteadyConnect ==
  ASSUME Types, Linked, Steady, onRequest_connect
  PROVE  Steady'
  <1> USE DEF Types
  <1>1. at.step = "connect"
    BY DEF onRequest_connect
  <1> PICK s \in Sessions, c \in Conns, r \in Requests :
        /\ at = [step |-> at.step, session |-> s, request |-> r]
        /\ at # Idle /\ AtFor(s) = at /\ conn[s] = c /\ Right(c)
        /\ asked[c] # << >> /\ Last(asked[c]) = r
        /\ r.file # Page /\ link[c] = "open" /\ AllRead(c) /\ FilmNoted(s, c, r)
        /\ Doing(s, r.file, IF at.step = "connect" THEN 0 ELSE 1, at, Idle, 0, {})
    BY <1>1, Noting
  <1> DEFINE answering == [step |-> "respond", session |-> s, request |-> r]
  <1>2. Doing(s, r.file, 0, at, Idle, 0, {})
    BY <1>1
  <1>3. at.session = s
    OBVIOUS
  <1>4. at' = answering
    BY <1>1 DEF onRequest_connect
  <1>5. answering.session = s /\ answering # Idle
    BY DEF Idle
  <1> HIDE DEF answering
  <1>6. /\ slots' = [slots EXCEPT ![s] = @ + 1]
        /\ UNCHANGED << conn_vars, pool, conn, m_sessions, haunted, main_vars >>
    BY <1>3 DEF onRequest_connect
  <1>7. slots'[s] = 1 /\ \A u \in Sessions \ {s} : slots'[u] = slots[u]
    BY <1>2, <1>6 DEF SessionTypes, Doing
  <1>8. \A u \in Sessions \ {s} : Same(u)
    BY <1>3, <1>4, <1>5, <1>6, <1>7, SameUnless DEF main_vars
  <1>9. \A d \in Conns : SameConn(d)
    BY <1>6 DEF SameConn, conn_vars
  <1>10. AtFor(s)' = answering
    BY <1>4, <1>5 DEF AtFor
  <1>11. Doing(s, r.file, 1, answering, Idle, 0, {})'
    BY <1>2, <1>6, <1>7, <1>10, PartsStay DEF Doing, main_vars
  <1>12. FilmNoted(s, c, r)'
    BY <1>6, <1>11 DEF FilmNoted, Missing, conn_vars, answering
  <1>13. AllRead(c)' /\ Right(c)' /\ link'[c] = "open"
    BY <1>6 DEF AllRead, Right, conn_vars
  <1>14. Serving(s, c)'
    BY <1>6, <1>12, <1>13 DEF Serving, FilmWaits, conn_vars
  <1>15. DoneDeleted'
    BY <1>6 DEF Steady, DoneDeleted, Done, Lacking, main_vars
  <1>16. conn' = conn
    BY <1>6
  <1>17. QED
    BY <1>8, <1>9, <1>13, <1>14, <1>15, <1>16, Moved

LEMMA SteadyRespond ==
  ASSUME Calm, Types, Linked, Steady, onRequest_respond
  PROVE  Steady'
  <1> USE DEF Types
  <1>1. at.step = "respond"
    BY DEF onRequest_respond
  <1> PICK s \in Sessions, c \in Conns, r \in Requests :
        /\ at = [step |-> at.step, session |-> s, request |-> r]
        /\ at # Idle /\ AtFor(s) = at /\ conn[s] = c /\ Right(c)
        /\ asked[c] # << >> /\ Last(asked[c]) = r
        /\ r.file # Page /\ link[c] = "open" /\ AllRead(c) /\ FilmNoted(s, c, r)
        /\ Doing(s, r.file, IF at.step = "connect" THEN 0 ELSE 1, at, Idle, 0, {})
    BY <1>1, Noting
  <1>2. Doing(s, r.file, 1, at, Idle, 0, {})
    BY <1>1
  <1>3. at.session = s /\ at.request = r /\ ~r.close
    BY DEF Calm
  <1> DEFINE b == [item |-> ResponseHead(r.file), whole |-> TRUE]
  <1>4. /\ wbuf' = [wbuf EXCEPT ![c] = Append(wbuf[c], b)] /\ link' = link
        /\ at' = Idle
        /\ UNCHANGED << asked, read, wire, pool, conn, m_sessions, slots, haunted, main_vars >>
    BY <1>3 DEF onRequest_respond, writeResponse
  <1>5. wbuf[c] = << >> /\ Append(<< >>, b) = Whole(r.file)
    BY DEF FilmNoted, Whole
  <1>6. wbuf'[c] = Whole(r.file) /\ \A d \in Conns \ {c} : wbuf'[d] = wbuf[d]
    BY <1>4, <1>5 DEF ConnTypes
  <1>7. \A u \in Sessions \ {s} : Same(u)
    BY <1>3, <1>4, SameUnless DEF main_vars
  <1>8. \A d \in Conns \ {c} : SameConn(d)
    BY <1>4, <1>6 DEF SameConn
  <1>9. AtFor(s)' = Idle
    BY <1>4 DEF AtFor
  <1>10. Doing(s, r.file, 1, Idle, Idle, 0, {})'
    BY <1>2, <1>4, <1>9, PartsStay DEF Doing, main_vars
  <1>11. HeadWaits(s, c, r)'
    BY <1>4, <1>6, <1>10 DEF FilmNoted, HeadWaits, Missing
  <1>12. AllRead(c)' /\ Right(c)' /\ link'[c] = "open"
    BY <1>4 DEF AllRead, Right
  <1>13. Serving(s, c)'
    BY <1>4, <1>11, <1>12 DEF Serving, FilmWaits
  <1>14. DoneDeleted'
    BY <1>4 DEF Steady, DoneDeleted, Done, Lacking, main_vars
  <1>15. conn' = conn
    BY <1>4
  <1>16. QED
    BY <1>7, <1>8, <1>12, <1>13, <1>14, <1>15, Moved

LEMMA DeletesMore ==
  ASSUME MainTypes, DoneDeleted, NEW d \in Seq(Written \cup Deletes), queue' = queue \o d,
         transcoder' = transcoder,
         \A i \in 1..Len(d) : d[i].event = "delete" => Done(d[i].transcoder)
  PROVE  DoneDeleted'
  <1>1. queue \in Seq(Written \cup Deletes)
    BY DEF MainTypes
  <1>2. Len(queue) \in Nat /\ Len(d) \in Nat
    BY <1>1, LenProperties
  <1>3. /\ Len(queue') = Len(queue) + Len(d)
        /\ \A i \in 1..Len(queue) + Len(d) :
             queue'[i] = IF i <= Len(queue) THEN queue[i] ELSE d[i - Len(queue)]
    BY <1>1, ConcatProperties
  <1>4. SUFFICES ASSUME NEW i \in 1..Len(queue'), queue'[i].event = "delete"
                 PROVE  \E e : e = queue'[i] /\ Done(e.transcoder)
    BY DEF DoneDeleted, Done, Lacking
  <1>5. CASE i <= Len(queue)
    BY <1>2, <1>3, <1>4, <1>5 DEF DoneDeleted
  <1>6. CASE ~(i <= Len(queue))
    <2>1. i - Len(queue) \in 1..Len(d) /\ queue'[i] = d[i - Len(queue)]
      BY <1>2, <1>3, <1>6
    <2>2. QED
      BY <1>4, <2>1
  <1>7. QED
    BY <1>5, <1>6

LEMMA SteadyFlush ==
  ASSUME Calm, Types, Linked, Steady, NEW s \in Sessions, Flush(s)
  PROVE  Steady'
  <1> USE DEF Types
  <1>1. conn[s] # None /\ wbuf[conn[s]] # << >>
    BY DEF Flush
  <1> PICK c \in Conns :
        /\ conn[s] = c /\ Right(c)
        /\ \/ Resting(s, c)
           \/ \E r \in Requests :
                /\ asked[c] # << >> /\ Last(asked[c]) = r
                /\ Unread(s, c, r) \/ PageWaits(s, c, r) \/ FilmWaits(s, c, r)
    BY <1>1, Served
  <1> PICK r \in Requests :
        /\ asked[c] # << >> /\ Last(asked[c]) = r
        /\ PageWaits(s, c, r) \/ (FilmWaits(s, c, r) /\ HeadWaits(s, c, r))
    BY <1>1 DEF Resting, Unread, FilmWaits, FilmNoted, HeadSent, FilmStarts, FilmRuns
  <1> DEFINE n == slots[s]
             e == [event |-> "written", session |-> s]
             d == [i \in 1..n |-> e]
  <1>2. /\ wire' = [wire EXCEPT ![c] = Append(@, wbuf[c][1].item)]
        /\ wbuf' = [wbuf EXCEPT ![c] = Tail(@)]
        /\ queue' = queue \o d
        /\ UNCHANGED << link, asked, read, session_vars, slot, transcoder >>
    BY DEF Flush, bytesWritten, Calm
  <1>3. /\ wbuf[c] = Whole(r.file) /\ AllRead(c) /\ link[c] \in {"open", "closing"}
    BY DEF PageWaits, HeadWaits, FilmWaits
  <1>4. /\ wbuf[c][1].item = ResponseHead(r.file) /\ Tail(wbuf[c]) = << >>
    BY <1>3 DEF Whole
  <1>5. /\ wbuf'[c] = << >> /\ \A b \in Conns \ {c} : wbuf'[b] = wbuf[b]
        /\ wire'[c] = Append(wire[c], ResponseHead(r.file))
        /\ \A b \in Conns \ {c} : wire'[b] = wire[b]
    BY <1>2, <1>4 DEF ConnTypes
  <1>6. Answer(r)[1] = ResponseHead(r.file)
    BY AnswerOf
  <1>7. n \in Nat
    BY DEF SessionTypes
  <1>8. e \in Written
    BY DEF Written
  <1>9. d \in Seq(Written) /\ Len(d) = n /\ \A i \in 1..Len(d) : d[i] = e
    <2>1. d \in [1..n -> Written]
      BY <1>8
    <2> HIDE DEF e, n
    <2>2. \A i \in 1..n : d[i] = e
      OBVIOUS
    <2> HIDE DEF d
    <2>3. d \in Seq(Written)
      BY <1>7, <2>1, SeqDef
    <2>4. Len(d) = n
      BY <1>7, <2>1, <2>3, LenProperties
    <2>5. QED
      BY <2>2, <2>3, <2>4
  <1>10. e.event = "written" /\ e.session = s
    OBVIOUS
  <1> HIDE DEF d, e, n
  <1>11. \A u \in Sessions \ {s} : Told(u)' = Told(u)
    BY SMTT(30), <1>2, <1>9, <1>10, ToldWhenMore
  <1>12. \A u \in Sessions \ {s} : Same(u)
    BY <1>2, <1>11, SameUnless DEF session_vars
  <1>13. \A b \in Conns \ {c} : SameConn(b)
    BY <1>2, <1>5 DEF SameConn
  <1>14. DoneDeleted'
    <2>1. d \in Seq(Written \cup Deletes)
      BY <1>9, SeqMonotonic
    <2>2. \A i \in 1..Len(d) : d[i].event # "delete"
      BY <1>9, <1>10
    <2>3. QED
      BY <1>2, <2>1, <2>2, DeletesMore DEF Steady
  <1>15. AllRead(c)' /\ conn' = conn /\ link'[c] = link[c] /\ asked' = asked
    BY <1>2, <1>3 DEF AllRead, session_vars
  <1>16. CASE PageWaits(s, c, r)
    <2>1. Missing(c) = 1 /\ Len(Answer(r)) = 1
      BY <1>16, AnswerOf DEF PageWaits
    <2>2. Right(c)' /\ Missing(c)' = 0
      <3>1. PICK k \in Nat : k = 1 /\ k > 0 /\ k - 1 = 0
        OBVIOUS
      <3>2. k + k = Len(Answer(r)) + 1 /\ Missing(c) = k
        BY <2>1, <3>1
      <3>3. wire'[c] = Append(wire[c], Answer(r)[k])
        BY <1>5, <1>6, <3>1
      <3>4. Right(c)' /\ Missing(c)' = k - 1
        BY <1>15, <3>1, <3>2, <3>3, ItemSent
      <3>5. QED
        BY <3>1, <3>4
    <2>3. Doing(s, None, 0, Idle, Idle, 0, {})
      BY <1>16 DEF PageWaits, Quiet
    <2>4. \A i \in 1..Len(d) : FALSE
      BY <1>9, <2>3 DEF Doing, n
    <2>5. Told(s)' = Told(s)
      BY <1>2, <1>9, <2>4, ToldWhenMore
    <2>6. Quiet(s)'
      BY <1>2, <2>3, <2>5, PartsStay DEF Doing, Quiet, session_vars
    <2>7. Resting(s, c)'
      BY <1>5, <1>15, <2>2, <2>6 DEF Resting
    <2>8. QED
      BY <1>3, <1>12, <1>13, <1>14, <1>15, <2>2, <2>7, Moved
  <1>17. CASE FilmWaits(s, c, r) /\ HeadWaits(s, c, r)
    <2>1. r.file # Page /\ link[c] = "open" /\ Missing(c) = 1 + FileChunks
      BY <1>17 DEF FilmWaits, HeadWaits
    <2>2. Len(Answer(r)) = 1 + FileChunks
      BY <2>1, AnswerOf
    <2>3. PICK k \in Nat : k = 1 + FileChunks /\ k > 0 /\ k - 1 = FileChunks
      OBVIOUS
    <2>4. Right(c)' /\ Missing(c)' = FileChunks
      <3>1. k + 1 = Len(Answer(r)) + 1 /\ Missing(c) = k /\ 1 \in Nat /\ 1 > 0
        BY <2>1, <2>2, <2>3
      <3>2. wire'[c] = Append(wire[c], Answer(r)[1])
        BY <1>5, <1>6
      <3>3. Right(c)' /\ Missing(c)' = k - 1
        BY <1>15, <2>3, <3>1, <3>2, ItemSent
      <3>4. QED
        BY <2>3, <3>3
    <2>5. Doing(s, r.file, 1, Idle, Idle, 0, {})
      BY <1>17 DEF HeadWaits
    <2>6. d = << e >>
      BY <2>5 DEF Doing, d, n
    <2>7. queue' = Append(queue, e)
      <3>1. queue \in Seq(Written \cup Deletes) /\ e \in Written \cup Deletes
        BY <1>8 DEF MainTypes
      <3>2. QED
        BY <1>2, <2>6, <3>1, AppendIsConcat
    <2>8. Told(s)' = 1
      BY <1>8, <1>10, <2>5, <2>7, ToldOnce DEF Doing
    <2>9. Doing(s, r.file, 1, Idle, Idle, 1, {})'
      BY <1>2, <2>5, <2>8, PartsStay DEF Doing, session_vars
    <2>10. HeadSent(s, c, r)'
      BY <1>5, <2>4, <2>9 DEF HeadSent
    <2>11. Serving(s, c)'
      BY <1>15, <2>1, <2>10 DEF Serving, FilmWaits
    <2>12. QED
      BY <1>3, <1>12, <1>13, <1>14, <1>15, <2>4, <2>11, Moved
  <1>18. QED
    BY <1>16, <1>17

LEMMA SteadyDie ==
  ASSUME Types, Linked, Steady, NEW s \in Sessions, onConnectionDie(s)
  PROVE  Steady'
  <1> USE DEF Types
  <1>1. conn[s] # None
    BY DEF onConnectionDie
  <1> PICK c \in Conns :
        /\ conn[s] = c /\ Right(c)
        /\ \/ Resting(s, c)
           \/ \E r \in Requests :
                /\ asked[c] # << >> /\ Last(asked[c]) = r
                /\ Unread(s, c, r) \/ PageWaits(s, c, r) \/ FilmWaits(s, c, r)
    BY <1>1, Served
  <1> PICK d : d = SetToSeq({ [event |-> "delete", transcoder |-> t] :
                t \in { u \in Transcoders :
                  \/ /\ transcoder[u].state \in {"Transcoding", "Stopped"}
                     /\ transcoder[u].session = s
                  \/ slot.step = "start" /\ slot.session = s /\ u = NextTranscoder } })
    OBVIOUS
  <1>2. /\ link[c] = "left" \/ (link[c] = "closing" /\ wbuf[c] = << >>)
        /\ link' = [link EXCEPT ![c] = "closed"]
        /\ wbuf' = [wbuf EXCEPT ![c] = << >>]
        /\ conn' = [conn EXCEPT ![s] = None]
        /\ queue' = queue \o d
        /\ UNCHANGED << asked, read, wire, m_sessions, slots, at, slot, transcoder >>
    BY DEF onConnectionDie
  <1>3. Resting(s, c)
    <2>1. Whole(Page) # << >>
      BY DEF Whole
    <2>2. QED
      BY <1>2, <2>1 DEF Unread, PageWaits, FilmWaits
  <1>4. d \in Seq(Written \cup Deletes)
        /\ \A i \in 1..Len(d) : /\ d[i].event = "delete"
                                /\ d[i].transcoder \in Transcoders
                                /\ Posted(d[i].transcoder, s)
    BY SMTT(30), Deleting
  <1>5. Quiet(s)
    BY <1>3 DEF Resting
  <1>6. \A t \in Transcoders : ~Sends(t, s)
    BY <1>5, SendersOf DEF Quiet, Doing
  <1>7. DoneDeleted'
    <2>1. SlotFor(s) = Idle
      BY <1>5 DEF Quiet, Doing
    <2>2. ~(slot.step = "start" /\ slot.session = s)
      BY <2>1 DEF SlotFor, Idle
    <2>3. \A i \in 1..Len(d) : Done(d[i].transcoder)
      BY <1>4, <1>6, <2>2 DEF Posted, Done, Sends
    <2>4. QED
      BY <1>2, <1>4, <2>3, DeletesMore DEF Steady
  <1>8. \A u \in Sessions : Told(u)' = Told(u)
    <2>1. \A i \in 1..Len(d) : d[i].event # "written"
      BY <1>4
    <2>2. QED
      BY <1>2, <1>4, <2>1, ToldWhenMore
  <1>9. \A u \in Sessions : Same(u)
    BY <1>2, <1>8, SameUnless
  <1>10. /\ link'[c] = "closed" /\ \A b \in Conns \ {c} : link'[b] = link[b]
         /\ \A b \in Conns \ {c} : wbuf'[b] = wbuf[b]
         /\ conn'[s] = None /\ \A u \in Sessions \ {s} : conn'[u] = conn[u]
    BY <1>2 DEF ConnTypes, SessionTypes
  <1>11. \A b \in Conns \ {c} : SameConn(b)
    BY <1>2, <1>10 DEF SameConn
  <1>12. Right(c)'
    BY <1>2 DEF Right
  <1>13. Quiet(s)'
    BY <1>5, <1>9, DoingStays DEF Quiet
  <1>14. \A b \in Conns : SameConn(b) \/ (Right(b)' /\ (link'[b] = "new" => Untouched(b)'))
    BY <1>10, <1>11, <1>12
  <1>15. \A u \in Sessions : conn'[u] = None => (conn[u] = None /\ Same(u)) \/ Quiet(u)'
    BY <1>9, <1>10, <1>13
  <1>16. \A u \in Sessions : \A b \in Conns :
           conn'[u] = b => conn[u] = b /\ Same(u) /\ SameConn(b)
    <2>1. \A u \in Sessions : conn[u] = c => u = s
      BY DEF Linked, NoneAssumption
    <2>2. QED
      BY <1>9, <1>10, <1>11, <2>1 DEF NoneAssumption
  <1>17. QED
    BY <1>7, <1>14, <1>15, <1>16, SteadyKept

-----------------------------------------------------------------------------
(* Main runs a slot for a session: its client has been sent the head.      *)
LEMMA SteadyWritten ==
  ASSUME Types, Linked, Steady, onSocketBytesWritten
  PROVE  Steady'
  <1> USE DEF Types
  <1>1. /\ slot = Idle /\ queue # << >> /\ queue[1].event = "written"
        /\ queue' = Tail(queue)
        /\ UNCHANGED << conn_vars, pool, conn, m_sessions, at, haunted, transcoder >>
    BY DEF onSocketBytesWritten
  <1>2. queue[1] \in Written \cup Deletes
    BY <1>1, TailOfSeq DEF MainTypes
  <1> PICK s \in Sessions : s = queue[1].session
    BY <1>1, <1>2 DEF Written, Deletes
  <1>3. Tells(1, s) /\ \A u \in Sessions \ {s} : ~Tells(1, u)
    BY <1>1 DEF Tells
  <1>4. /\ \A u \in Sessions \ {s} : Told(u)' = Told(u)
        /\ Told(s) # 0 /\ (Told(s) = 1 => Told(s)' = 0)
    BY <1>1, <1>3, ToldWhenServed
  <1>5. ~Quiet(s)
    BY <1>4 DEF Quiet, Doing
  <1>6. conn[s] # None
    BY <1>5 DEF Steady
  <1> PICK c \in Conns :
        /\ conn[s] = c /\ Right(c) /\ link[c] \in {"open", "left", "closing"}
        /\ \/ Resting(s, c)
           \/ \E r \in Requests :
                /\ asked[c] # << >> /\ Last(asked[c]) = r
                /\ Unread(s, c, r) \/ PageWaits(s, c, r) \/ FilmWaits(s, c, r)
    BY <1>6, Served
  <1> PICK r \in Requests :
        /\ asked[c] # << >> /\ Last(asked[c]) = r
        /\ FilmWaits(s, c, r) /\ HeadSent(s, c, r)
        /\ Doing(s, r.file, 1, Idle, Idle, 1, {})
    BY <1>4, <1>5 DEF Resting, Unread, PageWaits, FilmWaits, FilmNoted, HeadWaits,
                      HeadSent, FilmStarts, FilmRuns, Doing
  <1> DEFINE taking == [step |-> "take", session |-> s]
  <1>7. taking.session = s /\ taking # Idle
    BY DEF Idle
  <1>8. wbuf[c] = << >>
    BY DEF HeadSent
  <1>9. slots' = [slots EXCEPT ![s] = 0] /\ slot' = taking
    BY <1>8 DEF onSocketBytesWritten
  <1> HIDE DEF taking
  <1>10. slots'[s] = 0 /\ \A u \in Sessions \ {s} : slots'[u] = slots[u]
    BY <1>9 DEF SessionTypes
  <1>11. \A u \in Sessions \ {s} : Same(u)
    BY <1>1, <1>4, <1>7, <1>9, <1>10, SameUnless
  <1>12. \A d \in Conns : SameConn(d)
    BY <1>1 DEF SameConn, conn_vars
  <1>13. SlotFor(s)' = taking
    BY <1>7, <1>9 DEF SlotFor
  <1>14. Told(s)' = 0
    BY <1>4 DEF Doing
  <1>15. Doing(s, r.file, 0, Idle, taking, 0, {})'
    BY <1>1, <1>10, <1>13, <1>14, PartsStay DEF Doing
  <1>16. HeadSent(s, c, r)'
    BY <1>1, <1>15 DEF HeadSent, Missing, conn_vars, taking
  <1>17. /\ AllRead(c)' /\ Right(c)' /\ link'[c] = "open" /\ r.file # Page
         /\ asked'[c] = asked[c]
    BY <1>1 DEF FilmWaits, AllRead, Right, conn_vars
  <1>18. Serving(s, c)'
    BY <1>16, <1>17 DEF Serving, FilmWaits
  <1>19. DoneDeleted'
    <2>1. \A t \in Transcoders : Done(t) => Done(t)'
      BY <1>1 DEF Done, Lacking
    <2>2. QED
      BY <1>1, <2>1, DeletesServed DEF Steady
  <1>20. conn' = conn
    BY <1>1
  <1>21. QED
    BY <1>11, <1>12, <1>17, <1>18, <1>19, <1>20, Moved

(* The slot is in its later steps.                                         *)
LEMMA Running ==
  ASSUME Types, Linked, Steady, slot.step \in {"take"} \cup Launching
  PROVE  \E s \in Sessions, c \in Conns, r \in Requests :
           /\ slot # Idle /\ slot.session = s
           /\ conn[s] = c /\ Right(c)
           /\ asked[c] # << >> /\ Last(asked[c]) = r
           /\ r.file # Page /\ link[c] = "open" /\ AllRead(c)
           /\ wbuf[c] = << >> /\ Missing(c) = FileChunks
           /\ slot.step = "take" => Doing(s, r.file, 0, Idle, slot, 0, {})
           /\ slot.step \in Launching =>
                slot.file = r.file /\ Doing(s, None, 0, Idle, slot, 0, {})
  <1> USE DEF Types
  <1>1. slot # Idle /\ slot.session \in Sessions
    BY Steps DEF Idle, Launching
  <1> PICK s \in Sessions : s = slot.session
    BY <1>1
  <1>2. SlotFor(s) = slot
    BY <1>1 DEF SlotFor
  <1>3. \A file, n, connects, told, sent : ~Doing(s, file, n, connects, Idle, told, sent)
    BY <1>1, <1>2 DEF Doing
  <1>4. conn[s] # None
    BY <1>3 DEF Steady, Quiet
  <1> PICK c \in Conns :
        /\ conn[s] = c /\ Right(c)
        /\ \/ Resting(s, c)
           \/ \E r \in Requests :
                /\ asked[c] # << >> /\ Last(asked[c]) = r
                /\ Unread(s, c, r) \/ PageWaits(s, c, r) \/ FilmWaits(s, c, r)
    BY <1>4, Served
  <1> PICK r \in Requests :
        asked[c] # << >> /\ Last(asked[c]) = r /\ FilmWaits(s, c, r)
    BY <1>3 DEF Resting, Unread, PageWaits, Quiet
  <1>5. r.file # Page /\ link[c] = "open" /\ AllRead(c)
    BY DEF FilmWaits
  <1>6. CASE HeadSent(s, c, r)
    <2>1. Doing(s, r.file, 0, Idle, [step |-> "take", session |-> s], 0, {})
      BY <1>3, <1>6 DEF HeadSent
    <2>2. slot = [step |-> "take", session |-> s]
      BY <1>2, <2>1 DEF Doing
    <2>3. slot.step = "take"
      BY <2>2
    <2>4. QED
      BY <1>1, <1>5, <1>6, <2>1, <2>2, <2>3 DEF HeadSent, Launching
  <1>7. CASE FilmStarts(s, c, r)
    <2> PICK l : /\ l.step \in Launching /\ l.session = s /\ l.file = r.file
                 /\ Doing(s, None, 0, Idle, l, 0, {})
      BY <1>7 DEF FilmStarts
    <2>1. slot = l
      BY <1>2 DEF Doing
    <2>2. slot.step # "take"
      BY <2>1 DEF Launching
    <2>3. QED
      BY <1>1, <1>5, <1>7, <2>1, <2>2 DEF FilmStarts
  <1>8. QED
    BY <1>3, <1>6, <1>7 DEF FilmWaits, FilmNoted, HeadWaits, FilmRuns

LEMMA SteadyTake ==
  ASSUME Types, Linked, Steady, onSocketBytesWritten_take
  PROVE  Steady'
  <1> USE DEF Types
  <1>1. slot.step = "take"
    BY DEF onSocketBytesWritten_take
  <1> PICK s \in Sessions, c \in Conns, r \in Requests :
        /\ slot # Idle /\ slot.session = s
        /\ conn[s] = c /\ Right(c)
        /\ asked[c] # << >> /\ Last(asked[c]) = r
        /\ r.file # Page /\ link[c] = "open" /\ AllRead(c)
        /\ wbuf[c] = << >> /\ Missing(c) = FileChunks
        /\ slot.step = "take" => Doing(s, r.file, 0, Idle, slot, 0, {})
    BY <1>1, Running
  <1>2. Doing(s, r.file, 0, Idle, slot, 0, {})
    BY <1>1
  <1>3. r.file # None
    BY DEF NoneAssumption
  <1> DEFINE starting == [step |-> "new", session |-> s, file |-> r.file]
  <1>4. /\ starting.session = s /\ starting # Idle
        /\ starting.step \in Launching /\ starting.file = r.file
    BY DEF Idle, Launching
  <1>5. /\ m_sessions' = [m_sessions EXCEPT ![s] = None]
        /\ slot' = starting
        /\ UNCHANGED << conn_vars, pool, conn, slots, at, haunted, queue, transcoder >>
    BY <1>2, <1>3 DEF onSocketBytesWritten_take, Doing
  <1> HIDE DEF starting
  <1>6. m_sessions'[s] = None /\ \A u \in Sessions \ {s} : m_sessions'[u] = m_sessions[u]
    BY <1>5 DEF SessionTypes
  <1>7. \A u \in Sessions \ {s} : Same(u)
    BY <1>4, <1>5, <1>6, SameUnless
  <1>8. \A d \in Conns : SameConn(d)
    BY <1>5 DEF SameConn, conn_vars
  <1>9. SlotFor(s)' = starting
    BY <1>4, <1>5 DEF SlotFor
  <1>10. Doing(s, None, 0, Idle, starting, 0, {})'
    BY <1>2, <1>5, <1>6, <1>9, PartsStay DEF Doing
  <1>11. FilmStarts(s, c, r)'
    BY <1>4, <1>5, <1>10 DEF FilmStarts, Missing, conn_vars
  <1>12. /\ AllRead(c)' /\ Right(c)' /\ link'[c] = "open" /\ asked'[c] = asked[c]
    BY <1>5 DEF AllRead, Right, conn_vars
  <1>13. Serving(s, c)'
    BY <1>11, <1>12 DEF Serving, FilmWaits
  <1>14. DoneDeleted'
    BY <1>5 DEF Steady, DoneDeleted, Done, Lacking
  <1>15. conn' = conn
    BY <1>5
  <1>16. QED
    BY <1>7, <1>8, <1>12, <1>13, <1>14, <1>15, Moved

(* The transcoder is constructed and connected to disconnected().          *)
LEMMA SteadyLaunch ==
  ASSUME Types, Linked, Steady,
         onSocketBytesWritten_new \/ onSocketBytesWritten_connect
  PROVE  Steady'
  <1> USE DEF Types
  <1>1. /\ slot.step \in Launching /\ slot'.step \in Launching
        /\ slot'.session = slot.session /\ slot'.file = slot.file
        /\ UNCHANGED << conn_vars, session_vars, queue, transcoder >>
    BY LaunchGoesOn
  <1> PICK s \in Sessions, c \in Conns, r \in Requests :
        /\ slot # Idle /\ slot.session = s
        /\ conn[s] = c /\ Right(c)
        /\ asked[c] # << >> /\ Last(asked[c]) = r
        /\ r.file # Page /\ link[c] = "open" /\ AllRead(c)
        /\ wbuf[c] = << >> /\ Missing(c) = FileChunks
        /\ slot.file = r.file /\ Doing(s, None, 0, Idle, slot, 0, {})
    BY <1>1, Running
  <1>2. slot' # Idle /\ slot'.session = s /\ slot'.file = r.file
    BY <1>1 DEF Idle, Launching
  <1>3. \A u \in Sessions \ {s} : Same(u)
    BY <1>1, <1>2, SameUnless DEF session_vars
  <1>4. \A d \in Conns : SameConn(d)
    BY <1>1 DEF SameConn, conn_vars
  <1> PICK l : l = slot'
    OBVIOUS
  <1>5. SlotFor(s)' = l
    BY <1>2 DEF SlotFor
  <1>6. Doing(s, None, 0, Idle, l, 0, {})'
    BY <1>1, <1>5, PartsStay DEF Doing, session_vars
  <1>7. FilmStarts(s, c, r)'
    BY <1>1, <1>2, <1>6 DEF FilmStarts, Missing, conn_vars
  <1>8. /\ AllRead(c)' /\ Right(c)' /\ link'[c] = "open" /\ asked'[c] = asked[c]
    BY <1>1 DEF AllRead, Right, conn_vars
  <1>9. Serving(s, c)'
    BY <1>7, <1>8 DEF Serving, FilmWaits
  <1>10. DoneDeleted'
    BY <1>1 DEF Steady, DoneDeleted, Done, Lacking
  <1>11. conn' = conn
    BY <1>1 DEF session_vars
  <1>12. QED
    BY <1>3, <1>4, <1>8, <1>9, <1>10, <1>11, Moved

(* There is a transcoder left for every film that is to be started.        *)
LEMMA FreeTranscoder ==
  ASSUME Types, Counted, slot.step = "start"
  PROVE  NextTranscoder \in Transcoders /\ transcoder[NextTranscoder] = NoTranscoder
  <1> DEFINE F == { u \in Transcoders : transcoder[u] = NoTranscoder }
             P == Conns \X (1..MaxRequests)
  <1>1. F # {}
    <2>1. SUFFICES ASSUME F = {} PROVE FALSE
      OBVIOUS
    <2>2. Started = Transcoders
      BY <2>1 DEF Started
    <2>3. Cardinality(Transcoders) = MaxRequests * Cardinality(Conns)
      <3>1. PICK n \in Nat : n = MaxRequests * Cardinality(Conns)
        BY TranscodersAreNumbered
      <3>2. Cardinality(1..n) = n
        BY FS_Interval
      <3>3. QED
        BY <3>1, <3>2 DEF Transcoders
    <2>4. Cardinality(1..MaxRequests) = MaxRequests /\ IsFiniteSet(1..MaxRequests)
      BY FS_Interval
    <2>5. IsFiniteSet(P) /\ Cardinality(P) = Cardinality(Conns) * MaxRequests
      BY <2>4, FS_Product
    <2>6. FilmsRead \in SUBSET P
      BY DEF FilmsRead
    <2>7. Cardinality(FilmsRead) <= Cardinality(P)
      BY <2>5, <2>6, FS_Subset
    <2>8. Cardinality(Started) + 1 + Cardinality(Noted) <= Cardinality(FilmsRead)
      BY DEF Counted, Starting, Launching
    <2>9. PICK a \in Nat, b \in Nat : a = Cardinality(Conns) /\ b = MaxRequests
      BY TranscodersAreNumbered
    <2>10. a * b = b * a /\ a * b \in Nat
      OBVIOUS
    <2>11. Cardinality(P) = Cardinality(Started)
      BY <2>2, <2>3, <2>5, <2>9, <2>10
    <2>12. QED
      BY <2>7, <2>8, <2>11, CountsAreNumbers
  <1>2. F \subseteq Nat
    BY TranscodersAreNumbered DEF Transcoders
  <1>3. PICK u \in F : \A v \in F : u <= v
    BY <1>1, <1>2, LeastOfSet
  <1>4. /\ u \in Transcoders /\ transcoder[u] = NoTranscoder
        /\ \A v \in Transcoders : v < u => transcoder[v] # NoTranscoder
    <2>1. ASSUME NEW v \in Transcoders, v < u PROVE transcoder[v] # NoTranscoder
      <3>1. v \in F => u <= v /\ u \in Nat /\ v \in Nat
        BY <1>2, <1>3
      <3>2. QED
        BY <2>1, <3>1
    <2>2. QED
      BY <2>1
  <1>5. QED
    BY <1>4 DEF NextTranscoder

(* A transcoder is made or goes on, at n of the chunks of its film.        *)
LEMMA FilmGoesOn ==
  ASSUME Types, Linked, Steady,
         NEW s \in Sessions, NEW c \in Conns, NEW r \in Requests,
         NEW t \in Transcoders, NEW y, NEW n \in 0..FileChunks,
         conn[s] = c, asked[c] # << >>, Last(asked[c]) = r,
         r.file # Page, link[c] = "open", AllRead(c), wbuf[c] = << >>,
         y.state = "Transcoding", y.session = s, y.file = r.file, y.off = n,
         transcoder' = [transcoder EXCEPT ![t] = y],
         Lacking(t) \/ transcoder[t] = NoTranscoder,
         \A v \in Transcoders : Sends(v, s) => v = t,
         \A u \in Sessions \ {s} : ~Sends(t, u),
         m_sessions[s] = None, slots[s] = 0, AtFor(s) = Idle, Told(s) = 0,
         SlotFor(s)' = Idle, slot' = slot \/ (slot.session = s /\ slot' = Idle),
         Right(c)', Missing(c)' = FileChunks - n,
         \A d \in Conns \ {c} : wire'[d] = wire[d],
         UNCHANGED << link, asked, read, wbuf, session_vars, queue >>
  PROVE  Steady'
  <1> USE DEF Types
  <1>1. /\ \A u \in Sessions \ {s} : Sending(u)' = Sending(u)
        /\ Sending(s)' = IF n < FileChunks THEN {<< t, r.file, n >>} ELSE {}
    <2>0. \A u : Sends(t, u)' <=>
            y.state = "Transcoding" /\ y.off < FileChunks /\ y.session = u
      BY SendersChange
    <2>1. \A u \in Sessions \ {s} : ~Sends(t, u)'
      BY <2>0
    <2>2. Sends(t, s)' <=> n < FileChunks
      BY <2>0
    <2>3. \A u \in Sessions \ {s} : Sending(u)' = Sending(u)
      BY <2>1, SendersChange
    <2>4. Sending(s)' = IF Sends(t, s)' THEN {<< t, y.file, y.off >>} ELSE {}
      BY SendersChange
    <2>5. QED
      BY <2>2, <2>3, <2>4
  <1>2. \A u \in Sessions \ {s} : Same(u)
    BY <1>1, SameUnless DEF session_vars
  <1>3. \A d \in Conns \ {c} : SameConn(d)
    BY DEF SameConn
  <1>4. DoneDeleted'
    <2>1. \A v \in Transcoders : v # t => transcoder'[v] = transcoder[v]
      BY DEF MainTypes
    <2>2. \A v \in Transcoders : Done(v) => Done(v)'
      BY <2>1 DEF Done, Lacking
    <2>3. QED
      BY <2>2, DeletesKept DEF Steady
  <1>5. /\ AllRead(c)' /\ conn' = conn /\ link'[c] = "open" /\ asked'[c] = asked[c]
        /\ wbuf'[c] = << >>
    BY DEF AllRead, session_vars
  <1>6. CASE n < FileChunks
    <2>1. Doing(s, None, 0, Idle, Idle, 0, {<< t, r.file, n >>})'
      BY <1>1, <1>6, PartsStay DEF Doing, session_vars
    <2>2. FilmRuns(s, c, r)'
      BY <1>5, <1>6, <2>1 DEF FilmRuns
    <2>3. Serving(s, c)'
      BY <1>5, <2>2 DEF Serving, FilmWaits
    <2>4. QED
      BY <1>2, <1>3, <1>4, <1>5, <2>3, Moved
  <1>7. CASE ~(n < FileChunks)
    <2>1. Quiet(s)'
      BY <1>1, <1>7, PartsStay DEF Doing, Quiet, session_vars
    <2>2. Missing(c)' = 0
      BY <1>7
    <2>3. Resting(s, c)'
      BY <1>5, <2>1, <2>2 DEF Resting
    <2>4. QED
      BY <1>2, <1>3, <1>4, <1>5, <2>3, Moved
  <1>8. QED
    BY <1>6, <1>7

(* The next chunk of the film is sent.                                     *)
LEMMA ChunkSent ==
  ASSUME Types, NEW c \in Conns, NEW r \in Requests,
         NEW m \in 1..FileChunks, NEW k \in Nat, k + m = FileChunks + 1,
         Right(c), asked[c] # << >>, Last(asked[c]) = r, r.file # Page,
         Missing(c) = k, asked' = asked,
         wire'[c] = Append(wire[c], Chunk(r.file, m))
  PROVE  Right(c)' /\ Missing(c)' = k - 1
  <1> USE DEF Types
  <1>1. PICK j \in Nat : j = 1 + m /\ j > 0 /\ k > 0 /\ k + j = FileChunks + 2
    BY SMTT(30)
  <1>2. Len(Answer(r)) = 1 + FileChunks /\ Answer(r)[j] = Chunk(r.file, m)
    BY <1>1, AnswerOf
  <1>3. wire'[c] = Append(wire[c], Answer(r)[j])
    BY <1>2
  <1>4. k + j = Len(Answer(r)) + 1
    BY <1>1, <1>2
  <1>5. QED
    BY <1>1, <1>3, <1>4, ItemSent

LEMMA ChunkCount ==
  ASSUME NEW n \in 0..FileChunks, n < FileChunks
  PROVE  \E m \in 1..FileChunks, q \in Nat :
           /\ m = n + 1 /\ q = FileChunks - n
           /\ q + m = FileChunks + 1 /\ q - 1 = FileChunks - m /\ m \in 0..FileChunks
  <1>1. n + 1 \in 1..FileChunks /\ n + 1 \in 0..FileChunks /\ FileChunks - n \in Nat
    OBVIOUS
  <1>2. /\ (FileChunks - n) + (n + 1) = FileChunks + 1
        /\ (FileChunks - n) - 1 = FileChunks - (n + 1)
    OBVIOUS
  <1>3. QED
    BY <1>1, <1>2

LEMMA SteadyStart ==
  ASSUME Types, Linked, Counted, Steady, onSocketBytesWritten_start
  PROVE  Steady'
  <1> USE DEF Types
  <1>1. /\ slot.step = "start" /\ slot' = Idle
        /\ UNCHANGED << link, asked, read, wbuf, session_vars, queue >>
    BY DEF onSocketBytesWritten_start
  <1> PICK s \in Sessions, c \in Conns, r \in Requests :
        /\ slot # Idle /\ slot.session = s
        /\ conn[s] = c /\ Right(c)
        /\ asked[c] # << >> /\ Last(asked[c]) = r
        /\ r.file # Page /\ link[c] = "open" /\ AllRead(c)
        /\ wbuf[c] = << >> /\ Missing(c) = FileChunks
        /\ slot.step \in Launching =>
             slot.file = r.file /\ Doing(s, None, 0, Idle, slot, 0, {})
    BY <1>1, Running DEF Launching
  <1> PICK t : t = NextTranscoder
    OBVIOUS
  <1>2. t \in Transcoders /\ transcoder[t] = NoTranscoder
    BY <1>1, FreeTranscoder
  <1>3. slot.file = r.file /\ Doing(s, None, 0, Idle, slot, 0, {})
    BY <1>1 DEF Launching
  <1> DEFINE x == [state |-> "Transcoding", session |-> s, file |-> r.file,
                   off |-> 0, notifier |-> slot.notifier, missed |-> slot.missed,
                   late |-> FALSE]
             y == [x EXCEPT !.off = 0 + 1]
  <1>4. process(t, x) \/ (transcoder' = [transcoder EXCEPT ![t] = x] /\ wire' = wire)
    BY <1>3 DEF onSocketBytesWritten_start
  <1>5. /\ x.state = "Transcoding" /\ x.session = s /\ x.file = r.file /\ x.off = 0
        /\ y.state = "Transcoding" /\ y.session = s /\ y.file = r.file /\ y.off = 0 + 1
    OBVIOUS
  <1> HIDE DEF x
  <1>6. c # None /\ 0 \in 0..FileChunks /\ 0 < FileChunks /\ FileChunks - 0 = FileChunks
    BY DEF NoneAssumption
  <1>7. \/ transcoder' = [transcoder EXCEPT ![t] = x] /\ wire' = wire
        \/ /\ transcoder' = [transcoder EXCEPT ![t] = y]
           /\ wire' = [wire EXCEPT ![c] = Append(@, Chunk(r.file, 0 + 1))]
    BY <1>4, <1>5, <1>6 DEF process
  <1> HIDE DEF y
  <1>8. \A u : ~Sends(t, u)
    BY <1>2 DEF Sends, Lacking, NoTranscoder
  <1>9. \A v \in Transcoders : ~Sends(v, s)
    BY <1>3, SendersOf DEF Doing
  <1>10. SlotFor(s)' = Idle
    BY <1>1 DEF SlotFor
  <1>11. m_sessions[s] = None /\ slots[s] = 0 /\ AtFor(s) = Idle /\ Told(s) = 0
    BY <1>3 DEF Doing
  <1>12. CASE transcoder' = [transcoder EXCEPT ![t] = x] /\ wire' = wire
    <2>1. Right(c)' /\ Missing(c)' = FileChunks - 0
      BY <1>1, <1>6, <1>12 DEF Right, Missing
    <2>2. \A d \in Conns \ {c} : wire'[d] = wire[d]
      BY <1>12
    <2>3. QED
      BY <1>1, <1>2, <1>5, <1>6, <1>8, <1>9, <1>10, <1>11, <1>12, <2>1, <2>2, FilmGoesOn
  <1>13. CASE /\ transcoder' = [transcoder EXCEPT ![t] = y]
              /\ wire' = [wire EXCEPT ![c] = Append(@, Chunk(r.file, 0 + 1))]
    <2> PICK n \in 0..FileChunks : n = 0
      BY <1>6
    <2>1. PICK m \in 1..FileChunks, k \in Nat :
            /\ m = n + 1 /\ k = FileChunks - n
            /\ k + m = FileChunks + 1 /\ k - 1 = FileChunks - m /\ m \in 0..FileChunks
      BY <1>6, ChunkCount
    <2>2. m = 0 + 1 /\ k = FileChunks
      BY <1>6, <2>1
    <2>3. asked' = asked
      BY <1>1
    <2>4. Missing(c) = k
      BY <2>2
    <2>5. wire' = [wire EXCEPT ![c] = Append(@, Chunk(r.file, m))]
      BY <1>13, <2>2
    <2>6. Right(c) /\ asked[c] # << >> /\ Last(asked[c]) = r /\ r.file # Page
      OBVIOUS
    <2>7. /\ wire'[c] = Append(wire[c], Chunk(r.file, m))
          /\ \A d \in Conns \ {c} : wire'[d] = wire[d]
      BY <2>5 DEF ConnTypes
    <2>8. k + m = FileChunks + 1
      BY <2>1
    <2>9. Right(c)' /\ Missing(c)' = k - 1
      BY <2>3, <2>4, <2>6, <2>7, <2>8, ChunkSent
    <2>10. y.off = m /\ Missing(c)' = FileChunks - m /\ m \in 0..FileChunks
      BY <1>5, <2>1, <2>2, <2>9
    <2>11. QED
      BY <1>1, <1>2, <1>5, <1>8, <1>9, <1>10, <1>11, <1>13, <2>7, <2>9, <2>10, FilmGoesOn
  <1>14. QED
    BY <1>7, <1>12, <1>13

LEMMA SteadyActivated ==
  ASSUME Types, Linked, Steady, NEW t \in Transcoders, onWriteActivated(t)
  PROVE  Steady'
  <1> USE DEF Types
  <1> PICK dead : dead = (/\ link[transcoder[t].notifier] = "closed"
                          /\ ~transcoder[t].missed)
    OBVIOUS
  <1> DEFINE x == [transcoder[t] EXCEPT !.late = dead]
  <1>1. /\ transcoder[t].state = "Transcoding" /\ process(t, x) /\ slot' = slot /\ slot = Idle
        /\ UNCHANGED << link, asked, read, wbuf, session_vars, queue >>
    BY DEF onWriteActivated
  <1>2. transcoder[t] \in Objects
    BY <1>1 DEF MainTypes, NoTranscoder
  <1> PICK s \in Sessions, n \in 0..FileChunks :
        s = transcoder[t].session /\ n = transcoder[t].off
    BY <1>2 DEF Objects
  <1> DEFINE y == [x EXCEPT !.off = n + 1]
  <1>3. /\ x.state = "Transcoding" /\ x.session = s /\ x.off = n
        /\ x.file = transcoder[t].file
        /\ Stopped(x).state = "Stopped"
        /\ y.state = "Transcoding" /\ y.session = s /\ y.off = n + 1
        /\ y.file = transcoder[t].file
        /\ y = [x EXCEPT !.off = x.off + 1]
    BY <1>1, <1>2 DEF Objects, Stopped
  <1> HIDE DEF x, y
  <1>4. \A u : Sends(t, u) <=> n < FileChunks /\ u = s
    BY <1>1 DEF Sends, Lacking
  <1>5. CASE ~(n < FileChunks)
    <2>1. transcoder' = [transcoder EXCEPT ![t] = Stopped(x)] /\ wire' = wire
      BY <1>1, <1>3, <1>5 DEF process
    <2>2. \A u : ~Sends(t, u) /\ ~Sends(t, u)'
      BY <1>3, <1>4, <1>5, <2>1, SendersChange
    <2>3. \A u : Sending(u)' = Sending(u)
      BY <2>1, <2>2, SendersChange
    <2>4. \A u \in Sessions : Same(u)
      BY <1>1, <2>3, SameUnless DEF session_vars
    <2>5. \A d \in Conns : SameConn(d)
      BY <1>1, <2>1 DEF SameConn
    <2>6. DoneDeleted'
      <3>1. \A v \in Transcoders : v # t => transcoder'[v] = transcoder[v]
        BY <2>1 DEF MainTypes
      <3>2. transcoder'[t] = Stopped(x)
        BY <2>1 DEF MainTypes
      <3>3. \A v \in Transcoders : Done(v) => Done(v)'
        BY <1>3, <3>1, <3>2 DEF Done, Lacking, NoTranscoder
      <3>4. QED
        BY <1>1, <3>3, DeletesKept DEF Steady
    <2>7. conn' = conn
      BY <1>1 DEF session_vars
    <2>8. QED
      BY <2>4, <2>5, <2>6, <2>7, SteadyKept
  <1>6. CASE n < FileChunks
    <2>1. Sends(t, s) /\ Lacking(t)
      BY <1>4, <1>6 DEF Sends
    <2>2. Sending(s) # {}
      BY <2>1, SendersOf
    <2>3. \A file, k, connects, slotRuns, told :
            ~Doing(s, file, k, connects, slotRuns, told, {})
      BY <2>2 DEF Doing
    <2>4. conn[s] # None
      BY <2>3 DEF Steady, Quiet
    <2> PICK c \in Conns :
          /\ conn[s] = c /\ Right(c)
          /\ \/ Resting(s, c)
             \/ \E r \in Requests :
                  /\ asked[c] # << >> /\ Last(asked[c]) = r
                  /\ Unread(s, c, r) \/ PageWaits(s, c, r) \/ FilmWaits(s, c, r)
      BY <2>4, Served
    <2> PICK r \in Requests :
          /\ asked[c] # << >> /\ Last(asked[c]) = r
          /\ FilmWaits(s, c, r) /\ FilmRuns(s, c, r)
      BY <2>3 DEF Resting, Unread, PageWaits, Quiet, FilmWaits, FilmNoted, HeadWaits,
                  HeadSent, FilmStarts
    <2> PICK v \in Transcoders, k \in 0..FileChunks :
          /\ Doing(s, None, 0, Idle, Idle, 0, {<< v, r.file, k >>})
          /\ Missing(c) = FileChunks - k
      BY DEF FilmRuns
    <2>5. /\ v = t /\ transcoder[t].file = r.file /\ k = n
          /\ \A w \in Transcoders : Sends(w, s) => w = t
      <3>1. Sending(s) = {<< v, r.file, k >>}
        BY DEF Doing
      <3>2. PICK z, f : f = r.file /\ z = << v, f, k >>
        OBVIOUS
      <3>3. z \in Sending(s) /\ \A d \in Sending(s) : d = z
        BY <3>1, <3>2
      <3>4. /\ Sends(v, s) /\ transcoder[v].file = f /\ transcoder[v].off = k
            /\ \A w \in Transcoders : Sends(w, s) => w = v
        BY <3>2, <3>3, OnlySender
      <3>5. t = v
        BY <2>1, <3>4
      <3>6. QED
        BY <3>2, <3>4, <3>5
    <2>6. r.file # Page /\ link[c] = "open" /\ AllRead(c) /\ wbuf[c] = << >>
      BY DEF FilmWaits, FilmRuns
    <2>7. c # None /\ n # FileChunks
      BY <1>6 DEF NoneAssumption
    <2>8. PICK m \in 1..FileChunks, q \in Nat :
            /\ m = n + 1 /\ q = FileChunks - n
            /\ q + m = FileChunks + 1 /\ q - 1 = FileChunks - m /\ m \in 0..FileChunks
      BY <1>6, ChunkCount
    <2>9. /\ transcoder' = [transcoder EXCEPT ![t] = y]
          /\ wire' = [wire EXCEPT ![c] = Append(@, Chunk(r.file, m))]
      <3>1. m = n + 1
        BY <2>8
      <3>2. QED
        BY SMTT(30), <1>1, <1>3, <1>6, <2>5, <2>6, <2>7, <3>1 DEF process
    <2>10. /\ Right(c)' /\ Missing(c)' = FileChunks - m /\ m \in 0..FileChunks
           /\ \A d \in Conns \ {c} : wire'[d] = wire[d]
      <3>1. asked' = asked
        BY <1>1
      <3>2. Missing(c) = q
        BY <2>5, <2>8
      <3>3. q + m = FileChunks + 1
        BY <2>8
      <3>4. Right(c) /\ asked[c] # << >> /\ Last(asked[c]) = r /\ r.file # Page
        BY <2>6
      <3>5. /\ wire'[c] = Append(wire[c], Chunk(r.file, m))
            /\ \A d \in Conns \ {c} : wire'[d] = wire[d]
        BY <2>9 DEF ConnTypes
      <3>6. Right(c)' /\ Missing(c)' = q - 1
        BY SMTT(30), <3>1, <3>2, <3>3, <3>4, <3>5, ChunkSent
      <3>7. QED
        BY <2>8, <3>5, <3>6
    <2>11. /\ m_sessions[s] = None /\ slots[s] = 0 /\ AtFor(s) = Idle /\ Told(s) = 0
           /\ SlotFor(s) = Idle
      BY DEF Doing
    <2>12. SlotFor(s)' = Idle
      BY <1>1, <2>11, PartsStay
    <2>13. \A u \in Sessions \ {s} : ~Sends(t, u)
      BY <1>4
    <2>14. y.state = "Transcoding" /\ y.session = s /\ y.file = r.file /\ y.off = m
      BY <1>3, <2>5, <2>8
    <2>15. QED
      BY ZenonT(30), <1>1, <2>1, <2>5, <2>6, <2>9, <2>10, <2>11, <2>12, <2>13, <2>14, FilmGoesOn
  <1>7. QED
    BY <1>5, <1>6

LEMMA SteadyDelete ==
  ASSUME Types, Linked, Steady, deleteTranscoder
  PROVE  Steady'
  <1> USE DEF Types
  <1>1. /\ queue # << >> /\ queue[1].event = "delete" /\ queue' = Tail(queue)
        /\ transcoder' = [transcoder EXCEPT ![queue[1].transcoder].state = "deleted"]
        /\ UNCHANGED << conn_vars, session_vars, slot >>
    BY DEF deleteTranscoder
  <1>2. queue[1] \in Written \cup Deletes /\ 1 \in 1..Len(queue)
    BY <1>1, TailOfSeq DEF MainTypes
  <1> PICK t \in Transcoders : t = queue[1].transcoder
    BY <1>1, <1>2 DEF Written, Deletes
  <1> DEFINE y == [transcoder[t] EXCEPT !.state = "deleted"]
  <1>3. ~Lacking(t) /\ transcoder[t] # NoTranscoder
    BY <1>1, <1>2 DEF Steady, DoneDeleted, Done
  <1>4. y.state = "deleted"
    BY <1>3 DEF MainTypes, Objects
  <1>5. transcoder' = [transcoder EXCEPT ![t] = y]
    BY <1>1
  <1> HIDE DEF y
  <1>6. \A u : ~Sends(t, u) /\ ~Sends(t, u)'
    BY ZenonT(30), <1>3, <1>4, <1>5, SendersChange DEF Sends
  <1>7. \A u : Sending(u)' = Sending(u)
    BY ZenonT(30), <1>5, <1>6, SendersChange
  <1>8. \A u : Told(u)' = Told(u)
    <2>1. \A u : ~Tells(1, u)
      BY <1>1 DEF Tells
    <2>2. QED
      BY <1>1, <2>1, ToldWhenServed
  <1>9. \A u \in Sessions : Same(u)
    BY <1>1, <1>7, <1>8, SameUnless DEF session_vars
  <1>10. \A d \in Conns : SameConn(d)
    BY <1>1 DEF SameConn, conn_vars
  <1>11. DoneDeleted'
    <2>1. transcoder'[t] = y /\ \A v \in Transcoders : v # t => transcoder'[v] = transcoder[v]
      BY <1>5 DEF MainTypes
    <2>2. \A v \in Transcoders : Done(v) => Done(v)'
      BY <1>4, <2>1 DEF Done, Lacking, NoTranscoder
    <2>3. QED
      BY <1>1, <2>2, DeletesServed DEF Steady
  <1>12. conn' = conn
    BY <1>1 DEF session_vars
  <1>13. QED
    BY <1>9, <1>10, <1>11, <1>12, SteadyKept

-----------------------------------------------------------------------------
LEMMA SteadyInit == Init => Steady
  <1> SUFFICES ASSUME Init PROVE Steady
    OBVIOUS
  <1>1. ASSUME NEW c \in Conns PROVE Right(c) /\ Untouched(c)
    <2>1. IsPrefix(<< >>, << >>)
      <3>1. PICK e \in Seq({}) : e = << >> /\ Len(e) = 0
        BY EmptySeq
      <3>2. Len(e) <= Len(e) /\ \A i \in 1..Len(e) : e[i] = e[i]
        BY <3>1
      <3>3. QED
        BY <3>1, <3>2, ItemsPrefix
    <2>2. Answers(<< >>) = << >>
      BY AnswersOf
    <2>3. QED
      BY <2>1, <2>2 DEF Init, Right, Untouched
  <1>2. DoneDeleted
    BY DEF Init, DoneDeleted
  <1>3. ASSUME NEW s \in Sessions PROVE Quiet(s) /\ conn[s] = None
    <2>1. AtFor(s) = Idle /\ SlotFor(s) = Idle
      BY DEF Init, AtFor, SlotFor
    <2>2. Told(s) = 0
      BY DEF Init, Told
    <2>3. Sending(s) = {}
      BY DEF Init, Sending, Sends, Lacking, NoTranscoder
    <2>4. QED
      BY <2>1, <2>2, <2>3 DEF Init, Quiet, Doing
  <1>4. QED
    BY <1>1, <1>2, <1>3 DEF Steady, NoneAssumption

LEMMA SteadyNext ==
  ASSUME Calm
  PROVE  IInv /\ Steady /\ [Next]_vars => Steady'
  <1> SUFFICES ASSUME IInv, Steady, [Next]_vars PROVE Steady'
    OBVIOUS
  <1>1. Types /\ Linked /\ Counted
    BY DEF IInv
  <1>2. CASE \/ \E c \in Conns : Leave(c) \/ \E r \in Requests : Ask(c, r)
             \/ \E c \in Conns, s \in Sessions : newConnection(c, s)
    BY <1>1, <1>2, SteadyAsk, SteadyLeave, SteadyConnection
  <1>3. CASE \E s \in Sessions : onOtherRequest(s) \/ onRequest(s)
    BY <1>1, <1>3, SteadyOther, SteadyRequest
  <1>4. CASE onRequest_connect \/ onRequest_respond
    BY <1>1, <1>4, SteadyConnect, SteadyRespond
  <1>5. CASE \E s \in Sessions : Flush(s) \/ onConnectionDie(s)
    BY <1>1, <1>5, SteadyFlush, SteadyDie
  <1>6. CASE \E s \in Sessions : onTimeout(s)
    BY <1>6 DEF onTimeout, Calm
  <1>7. CASE MainQueue
    BY <1>1, <1>7, SteadyWritten, SteadyTake, SteadyLaunch, SteadyStart, SteadyDelete
       DEF MainQueue
  <1>8. CASE \E t \in Transcoders : onWriteActivated(t)
    BY <1>1, <1>8, SteadyActivated
  <1>9. CASE UNCHANGED vars
    <2>1. UNCHANGED << conn_vars, session_vars, main_vars >>
      BY <1>9 DEF vars
    <2>2. \A u \in Sessions : Same(u)
      BY <2>1, SameUnless DEF session_vars, main_vars
    <2>3. \A d \in Conns : SameConn(d)
      BY <2>1 DEF SameConn, conn_vars
    <2>4. DoneDeleted' /\ conn' = conn
      BY <2>1 DEF Steady, DoneDeleted, Done, Lacking, main_vars, session_vars
    <2>5. QED
      BY <1>1, <2>2, <2>3, <2>4, SteadyKept DEF Types
  <1>10. QED
    BY <1>2, <1>3, <1>4, <1>5, <1>6, <1>7, <1>8, <1>9
       DEF Next, SessionThread, MainThread

(* In a calm world each client reads the answers to its requests in their  *)
(* order, each one whole before the next and never a byte of another, on   *)
(* whatever session, after whatever clients the session has had, and       *)
(* however the two threads' steps fall.  (onSocketBytesWritten and         *)
(* onRequest of TranscoderService, AsIsTranscoder::process.)               *)
THEOREM AnswersAreRight == Calm => (Spec => []RightAnswers)
  <1> SUFFICES ASSUME Calm PROVE Spec => []RightAnswers
    OBVIOUS
  <1>1. Init => IInv /\ Steady
    BY InvInit, SteadyInit
  <1>2. IInv /\ Steady /\ [Next]_vars => IInv' /\ Steady'
    BY InvNext, SteadyNext
  <1>3. IInv /\ Steady => RightAnswers
    BY DEF Steady, Right, RightAnswers
  <1>4. QED
    BY <1>1, <1>2, <1>3, PTL DEF Spec
=============================================================================
