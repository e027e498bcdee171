----------------------------- MODULE HttpParser -----------------------------
(***************************************************************************)
(* How a session reads requests: HttpSession::onReadyRead with the         *)
(* hasEntityBody, atEnd and onRequest of BrisaWebserverSession.  TCP cuts  *)
(* what clients send wherever it likes; each piece runs onReadyRead, whose *)
(* loops are the steps below, from "idle" back to "idle".  One session     *)
(* serves one connection after the other.                                  *)
(*                                                                         *)
(* A stream is a sequence of tokens: a line end, or a text without one     *)
(* that is a request line, a header, a chunk size, or any other word.  The *)
(* parser acts on line ends and counts only, so that a cut inside a token  *)
(* is no different from one before it; each token counts for one byte.     *)
(* A version is a text too, << "HTTP", 1, 1 >> or something else.          *)
(***************************************************************************)
EXTENDS Naturals, SequencesExt

CONSTANTS
  Messages,    \* what a client may send: [method, uri, version, names,
               \* coding, body]
  Uris,        \* the paths that have a service
  MaxMessages, \* bound: messages on one connection
  MaxChunks    \* bound: connections begin with no more left in chunksBuffer

(* A client writes numbers where numbers belong, also into lines of a body *)
(* that look like a header or a chunk size.                                *)
ASSUME MessageAssumption ==
  \A m \in Messages :
    /\ DOMAIN m = {"method", "uri", "version", "names", "coding", "body"}
    /\ m.coding \in {"none", "length", "chunked"}
    /\ IsFiniteSet(m.names)
    /\ "CONTENT-LENGTH" \notin m.names /\ "TRANSFER-ENCODING" \notin m.names
    /\ m.body \in Seq(ToSet(m.body))
    /\ m.coding = "none" => m.body = << >>
    /\ \A t \in ToSet(m.body) :
         /\ t[1] = "header" /\ t[2] = "CONTENT-LENGTH" => t[3] \in Nat
         /\ t[1] = "size" => t[2] \in Nat
ASSUME BoundAssumption == MaxMessages \in Nat /\ MaxChunks \in Nat

Crlf == << "crlf" >>
Line(method, uri, version) == << "request", method, uri, version >>
Header(name, value) == << "header", name, value >>
ChunkSize(n) == << "size", n >>

VARIABLES
  (* the client *)
  link,          \* "none", "open", "closing" (close() called)
  sent,          \* the messages sent on this connection
  wire,          \* tokens TCP has not delivered yet
  patient,       \* every message was sent after the one before was dispatched
  (* the session *)
  buffer, state, \* HttpSession
  requestInfo,   \* its method, uri, version and headers
  entitySize, chunkedEntity, chunksBuffer,   \* BrisaWebserverSession
  pc,            \* where onReadyRead is
  dispatched     \* what onRequest gave to the services on this connection

client_vars == << link, sent, wire, patient >>
body_vars == << entitySize, chunkedEntity, chunksBuffer >>
vars == << client_vars, buffer, state, requestInfo, body_vars, pc, dispatched >>

(* HttpVersion: 0.0 is what is not a version.                              *)
HttpVersion(text) ==
  IF Len(text) = 3 /\ text[1] = "HTTP" THEN [major |-> text[2], minor |-> text[3]]
  ELSE [major |-> 0, minor |-> 0]
IsVersion(v) == v.major # 0 \/ v.minor # 0
LastSupported == [major |-> 1, minor |-> 1]

Init ==
  /\ link = "none" /\ sent = << >> /\ wire = << >> /\ patient = TRUE
  /\ buffer = << >> /\ state = "line"
  /\ requestInfo = [method |-> "", uri |-> "/", version |-> LastSupported, headers |-> {}]
  /\ entitySize = 0 /\ chunkedEntity = "no" /\ chunksBuffer = << >>
  /\ pc = "idle" /\ dispatched = << >>
-----------------------------------------------------------------------------
(* The client.                                                             *)
Headers == [m \in Messages |->
  { Header(n, n) : n \in m.names }
    \cup (CASE m.coding = "none" -> {}
            [] m.coding = "length" -> { Header("CONTENT-LENGTH", Len(m.body)) }
            [] m.coding = "chunked" -> { Header("TRANSFER-ENCODING", "chunked") })]

Body(m) ==
  IF m.coding # "chunked" THEN m.body
  ELSE (IF m.body = << >> THEN << >>
        ELSE << ChunkSize(Len(m.body)), Crlf >> \o m.body \o << Crlf >>)
         \o << ChunkSize(0), Crlf, Crlf >>

Tokens == [m \in Messages |->
  LET hs == SetToSeq(Headers[m])
  IN  << Line(m.method, m.uri, m.version), Crlf >>
        \o FlattenSeq([i \in 1..Len(hs) |-> << hs[i], Crlf >>])
        \o << Crlf >> \o Body(m)]

Connect ==
  /\ link = "none"
  /\ Len(chunksBuffer) <= MaxChunks
  /\ link' = "open"
  /\ sent' = << >> /\ wire' = << >> /\ patient' = TRUE /\ dispatched' = << >>
  /\ UNCHANGED << buffer, state, requestInfo, body_vars, pc >>

Send(m) ==
  /\ link = "open"
  /\ Len(sent) < MaxMessages
  /\ sent' = Append(sent, m)
  /\ wire' = wire \o Tokens[m]
  /\ patient' = (patient /\ Len(dispatched) = Len(sent))
  /\ UNCHANGED << link, buffer, state, requestInfo, body_vars, pc, dispatched >>

(* Fault: what the last client has sent stays in the buffer.               *)
Fault_onConnectionDie ==
  /\ pc = "idle"
  /\ link # "none"
  /\ link' = "none"
  /\ state' = "line"
  /\ requestInfo' = [requestInfo EXCEPT !.headers = {}]
  /\ UNCHANGED << sent, wire, patient, buffer, body_vars, pc, dispatched >>

(* onConnectionDie: the client has gone or the session has closed.  The    *)
(* counters and the chunks of atEnd are left as they are.                  *)
onConnectionDie ==
  /\ pc = "idle"
  /\ link # "none"
  /\ link' = "none"
  /\ buffer' = << >> /\ state' = "line"
  /\ requestInfo' = [requestInfo EXCEPT !.headers = {}]
  /\ UNCHANGED << sent, wire, patient, body_vars, pc, dispatched >>

(* readyRead() with the next n tokens.                                     *)
onReadyRead(n) ==
  /\ pc = "idle"
  /\ link = "open"
  /\ n <= Len(wire)
  /\ buffer' = buffer \o SubSeq(wire, 1, n)
  /\ wire' = SubSeq(wire, n + 1, Len(wire))
  /\ pc' = state
  /\ UNCHANGED << link, sent, patient, state, requestInfo, body_vars, dispatched >>
-----------------------------------------------------------------------------
(* Where the first line ends, 0 if it does not.                            *)
LineEnd(b) == SelectInSeq(b, LAMBDA t : t = Crlf)
FirstLine(b) == SubSeq(b, 1, LineEnd(b) - 1)
AfterLine(b) == SubSeq(b, LineEnd(b) + 1, Len(b))

(* The line has a colon, and what setHeader makes of it.                   *)
IsHeader(l) == \E i \in 1..Len(l) : l[i][1] = "header"
HeaderOf(l) == l[SelectInSeq(l, LAMBDA t : t[1] = "header")]
setHeader(r, h) ==
  [r EXCEPT !.headers = { x \in @ : x[2] # h[2] } \cup {h}]
header(r, name) == \E h \in r.headers : h[2] = name
ContentLength(r) == (CHOOSE h \in r.headers : h[2] = "CONTENT-LENGTH")[3]

(* Fault: a request leaves its headers to the next one.                    *)
Fault_cleared(r) == r
cleared(r) == [r EXCEPT !.headers = {}]

(* An error response with close(); onReadyRead returns.                    *)
Refuse ==
  /\ link' = "closing"
  /\ pc' = "idle"
  /\ UNCHANGED << sent, wire, patient, dispatched >>

(* onRequest: no HOST in HTTP/1.1 or no service is an error and closes, but*)
(* neither returns to the caller's caller.  A NOTIFY without a service of its own  *)
(* goes to that of "/", or nowhere.                                        *)
HostMissing(r) == r.version = LastSupported /\ ~header(r, "HOST")

onRequest(r, body) ==
  \/ /\ ~HostMissing(r)
     /\ r.uri \in Uris \/ (r.method = "NOTIFY" /\ "/" \in Uris)
     /\ dispatched' = Append(dispatched, [method |-> r.method, uri |-> r.uri,
                                          version |-> r.version,
                                          headers |-> r.headers, body |-> body])
     /\ UNCHANGED link
  \/ /\ ~HostMissing(r)
     /\ r.uri \notin Uris /\ r.method = "NOTIFY" /\ "/" \notin Uris
     /\ UNCHANGED << link, dispatched >>
  \/ /\ HostMissing(r) \/ (r.uri \notin Uris /\ r.method # "NOTIFY")
     /\ link' = "closing"
     /\ UNCHANGED dispatched

-----------------------------------------------------------------------------
(* case WAITING_FOR_REQUEST_LINE: empty lines are skipped ...              *)
SkipEmptyLine ==
  /\ pc = "line"
  /\ LineEnd(buffer) = 1
  /\ buffer' = AfterLine(buffer)
  /\ UNCHANGED << client_vars, state, requestInfo, body_vars, pc, dispatched >>

IsRequestLine(l) == Len(l) = 1 /\ l[1][1] = "request"
Supported(method) == method \in {"GET", "POST", "SUBSCRIBE", "UNSUBSCRIBE", "NOTIFY"}
isRequestSupported(r) ==
  r.version.major = 1 /\ r.version.minor \in {0, 1} /\ Supported(r.method)

(* ... the next one is awaited ...                                         *)
NoRequestLine ==
  /\ pc = "line"
  /\ LineEnd(buffer) = 0
  /\ pc' = "idle"
  /\ UNCHANGED << client_vars, buffer, state, requestInfo, body_vars, dispatched >>

(* ... and read.                                                           *)
RequestLine ==
  /\ pc = "line"
  /\ LineEnd(buffer) > 1
  /\ buffer' = AfterLine(buffer)
  /\ LET l == FirstLine(buffer)
     IN  IF IsRequestLine(l)
         THEN /\ requestInfo' =
                   [requestInfo EXCEPT !.method = l[1][2], !.uri = l[1][3],
                      !.version = IF IsVersion(HttpVersion(l[1][4]))
                                  THEN HttpVersion(l[1][4]) ELSE @]
              /\ IF IsVersion(HttpVersion(l[1][4])) /\ isRequestSupported(requestInfo')
                 THEN /\ state' = "headers" /\ pc' = "headers"
                      /\ UNCHANGED << client_vars, dispatched >>
                 ELSE Refuse /\ UNCHANGED state
         ELSE Refuse /\ UNCHANGED << state, requestInfo >>
  /\ UNCHANGED body_vars

(* case WAITING_FOR_HEADERS: one line of its loop ...                      *)
HeaderLine ==
  /\ pc = "headers"
  /\ LineEnd(buffer) > 1
  /\ buffer' = AfterLine(buffer)
  /\ IF IsHeader(FirstLine(buffer))
     THEN /\ requestInfo' = setHeader(requestInfo, HeaderOf(FirstLine(buffer)))
          /\ UNCHANGED << client_vars, pc, dispatched >>
     ELSE Refuse /\ UNCHANGED requestInfo
  /\ UNCHANGED << state, body_vars >>

WithBody(method) == method \in {"POST", "NOTIFY"}

(* ... hasEntityBody says how the body comes ...                           *)
hasEntityBody ==
  /\ IF header(requestInfo, "CONTENT-LENGTH")
     THEN /\ entitySize' = ContentLength(requestInfo)
          /\ chunkedEntity' = "no"
     ELSE chunkedEntity' = "size" /\ UNCHANGED entitySize
  /\ UNCHANGED chunksBuffer

(* ... and an empty line ends the headers, but never the loop.             *)
EmptyLine ==
  /\ pc = "headers"
  /\ LineEnd(buffer) = 1
  /\ buffer' = AfterLine(buffer)
  /\ \/ /\ ~WithBody(requestInfo.method)
        /\ onRequest(requestInfo, << >>)
        /\ requestInfo' = cleared(requestInfo)
        /\ state' = "line"
        /\ UNCHANGED << sent, wire, patient, body_vars, pc >>
     \/ /\ WithBody(requestInfo.method)
        /\ header(requestInfo, "CONTENT-TYPE")
        /\ \/ header(requestInfo, "CONTENT-LENGTH")
           \/ header(requestInfo, "TRANSFER-ENCODING")
        /\ hasEntityBody
        /\ state' = "body"
        /\ UNCHANGED << client_vars, requestInfo, pc, dispatched >>
     \/ /\ WithBody(requestInfo.method)
        /\ \/ ~header(requestInfo, "CONTENT-TYPE")
           \/ /\ ~header(requestInfo, "CONTENT-LENGTH")
              /\ ~header(requestInfo, "TRANSFER-ENCODING")
        /\ Refuse
        /\ UNCHANGED << state, requestInfo, body_vars >>

(* Fault: the body is not looked at until more arrives.                    *)
Fault_EndOfLines ==
  /\ pc = "headers"
  /\ LineEnd(buffer) = 0
  /\ pc' = "idle"
  /\ UNCHANGED << client_vars, buffer, state, requestInfo, body_vars, dispatched >>

EndOfLines ==
  /\ pc = "headers"
  /\ LineEnd(buffer) = 0
  /\ pc' = IF state = "body" THEN "body" ELSE "idle"
  /\ UNCHANGED << client_vars, buffer, state, requestInfo, body_vars, dispatched >>

-----------------------------------------------------------------------------
(* case WAITING_FOR_ENTITY_BODY: atEnd is FALSE, or TRUE with a body.      *)
NotAtEnd ==
  /\ pc' = "idle"
  /\ UNCHANGED << client_vars, buffer, state, requestInfo, body_vars, dispatched >>

AtEnd(body) ==
  /\ onRequest(requestInfo, body)
  /\ requestInfo' = cleared(requestInfo)
  /\ buffer' = << >> /\ state' = "line" /\ pc' = "idle"
  /\ UNCHANGED << sent, wire, patient >>

(* Fault: what comes after the body is taken for a part of it.             *)
Fault_PlainBody ==
  /\ pc = "body"
  /\ chunkedEntity = "no"
  /\ IF Len(buffer) < entitySize THEN NotAtEnd
     ELSE AtEnd(buffer) /\ UNCHANGED body_vars

(* A body of entitySize bytes; what comes after it is thrown away.         *)
PlainBody ==
  /\ pc = "body"
  /\ chunkedEntity = "no"
  /\ IF Len(buffer) < entitySize THEN NotAtEnd
     ELSE AtEnd(SubSeq(buffer, 1, entitySize)) /\ UNCHANGED body_vars

SizeLine ==
  /\ pc = "body"
  /\ chunkedEntity = "size"
  /\ LET l == FirstLine(buffer)
     IN  \/ LineEnd(buffer) = 0 /\ NotAtEnd
         \/ /\ LineEnd(buffer) # 0
            /\ buffer' = AfterLine(buffer)
            /\ IF Len(l) = 1 /\ l[1][1] = "size"
               THEN /\ entitySize' = l[1][2]
                    /\ chunkedEntity' = IF l[1][2] # 0 THEN "chunk" ELSE "trailer"
                    /\ UNCHANGED << client_vars, pc, dispatched >>
               ELSE entitySize' = 0 /\ Refuse /\ UNCHANGED chunkedEntity
            /\ UNCHANGED << state, requestInfo, chunksBuffer >>

(* The line end after a chunk is not taken with it.                        *)
Chunk ==
  /\ pc = "body"
  /\ chunkedEntity = "chunk"
  /\ IF Len(buffer) < entitySize THEN NotAtEnd
     ELSE /\ chunksBuffer' = chunksBuffer \o SubSeq(buffer, 1, entitySize)
          /\ buffer' = SubSeq(buffer, entitySize + 1, Len(buffer))
          /\ chunkedEntity' = "size"
          /\ UNCHANGED << client_vars, state, requestInfo, entitySize, pc, dispatched >>

(* Without a complete line the trailer falls through to the case of the    *)
(* plain body, whose entitySize is now 0.                                  *)
Trailer ==
  /\ pc = "body"
  /\ chunkedEntity = "trailer"
  /\ \/ /\ LineEnd(buffer) > 1
        /\ buffer' = AfterLine(buffer)
        /\ IF IsHeader(FirstLine(buffer))
           THEN /\ requestInfo' = setHeader(requestInfo, HeaderOf(FirstLine(buffer)))
                /\ UNCHANGED << client_vars, pc, dispatched >>
           ELSE Refuse /\ UNCHANGED requestInfo
        /\ UNCHANGED << state, body_vars >>
     \/ /\ LineEnd(buffer) = 1
        /\ AtEnd(chunksBuffer)
        /\ chunksBuffer' = << >>
        /\ UNCHANGED << entitySize, chunkedEntity >>
     \/ /\ LineEnd(buffer) = 0
        /\ AtEnd(<< >>)
        /\ UNCHANGED body_vars

-----------------------------------------------------------------------------
Parse ==
  SkipEmptyLine \/ NoRequestLine \/ RequestLine \/ HeaderLine
    \/ EmptyLine \/ EndOfLines \/ PlainBody \/ SizeLine \/ Chunk \/ Trailer

Delivery == \E n \in 1..Len(wire) : onReadyRead(n)

Next ==
  \/ Connect
  \/ \E m \in Messages : Send(m)
  \/ onConnectionDie
  \/ Delivery
  \/ Parse

Spec == Init /\ [][Next]_vars

(* The handler runs to its end and TCP delivers what is sent.              *)
FairSpec == Spec /\ WF_vars(Parse) /\ WF_vars(Delivery)
-----------------------------------------------------------------------------
Request(m) ==
  [method |-> m.method, uri |-> m.uri, version |-> HttpVersion(m.version),
   headers |-> Headers[m], body |-> m.body]

(* A message the server can answer, whose body is one piece of one line.   *)
Plain(m) ==
  /\ m.uri \in Uris \/ (m.method = "NOTIFY" /\ "/" \in Uris)
  /\ m.version = << "HTTP", 1, 0 >> \/ (m.version = << "HTTP", 1, 1 >> /\ "HOST" \in m.names)
  /\ Supported(m.method)
  /\ \/ ~WithBody(m.method) /\ m.coding = "none"
     \/ WithBody(m.method) /\ m.coding = "length" /\ "CONTENT-TYPE" \in m.names
  /\ \A i \in 1..Len(m.body) : m.body[i] # Crlf

PlainClient == patient /\ \A i \in 1..Len(sent) : Plain(sent[i])

TypeOK ==
  /\ link \in {"none", "open", "closing"}
  /\ sent \in Seq(Messages) /\ Len(sent) <= MaxMessages
  /\ state \in {"line", "headers", "body"}
  /\ pc \in {"idle", "line", "headers", "body"}
  /\ chunkedEntity \in {"no", "size", "chunk", "trailer"}
  /\ entitySize \in Nat
  /\ {patient} \subseteq BOOLEAN
  /\ \A h \in requestInfo.headers : h[1] = "header"

(* Wherever TCP cuts the stream, and whatever connection the session has   *)
(* served before, the services get the requests of a plain client as they  *)
(* were sent: method, path, headers and body, in order and each once.      *)
RequestsAsSent ==
  PlainClient =>
    IsPrefix(dispatched, [i \in 1..Len(sent) |-> Request(sent[i])])

(* A plain client is never answered with an error.                         *)
PlainAccepted == PlainClient => link # "closing"

(* Each line of the body that looks like a header is ended in the body,    *)
(* and none announces a length.                                            *)
KeepsItsLines(m) ==
  \A i \in 1..Len(m.body) :
    m.body[i][1] = "header" =>
      /\ m.body[i][2] # "CONTENT-LENGTH"
      /\ \E j \in i + 1..Len(m.body) : m.body[j] = Crlf

Stream(ms) == FlattenSeq([n \in 1..Len(ms) |-> Tokens[ms[n]]])

(* Also with clients that do not wait and with bodies of many lines, the   *)
(* body of a request is a piece of what its own connection has sent, chunks*)
(* aside, and as long as announced, unless the last line of a body is taken*)
(* for a header; the types hold, by which what a body still lacks is never *)
(* less than nothing.                                                      *)
BodyFromOwnConnection ==
  /\ TypeOK
  /\ \A i \in 1..Len(dispatched) :
       LET d == dispatched[i]
       IN  /\ WithBody(d.method)
           /\ header(d, "CONTENT-LENGTH") /\ ~header(d, "TRANSFER-ENCODING")
           => /\ \E k \in 0..Len(Stream(sent)) :
                   SubSeq(Stream(sent), k + 1, k + Len(d.body)) = d.body
              /\ (\A n \in 1..Len(sent) : KeepsItsLines(sent[n]))
                   => Len(d.body) = ContentLength(d)

(* What a plain client has sent gets to a service.                         *)
PlainServed ==
  (link = "open" /\ PlainClient)
    ~> (Len(dispatched) = Len(sent) \/ link = "none" \/ ~PlainClient)
=============================================================================
