------------------------------ MODULE WebServer ------------------------------
(***************************************************************************)
(* The web server of a device, from the connection to the answer.          *)
(*                                                                         *)
(*   - Main accepts connections and hands them round to the threads        *)
(*     (HttpServer); it runs the slots of the services, one call after the *)
(*     other (ServiceCall), and it stops the server;                       *)
(*   - a thread (HttpSessionManager) has sessions, some of them in its     *)
(*     pool.  It reads requests, answers what it can answer at once, and   *)
(*     posts calls of actions to Main.  What it has been posted by Main,   *)
(*     connections and answers, it handles in order.                       *)
(*                                                                         *)
(* An answer is posted to a session, not to a connection, and Main keeps   *)
(* pointers to sessions that their thread may delete.                      *)
(*                                                                         *)
(* HttpParser models how requests are read: here a client asks again when  *)
(* it has been answered, and its request arrives as a whole.               *)
(***************************************************************************)
EXTENDS Naturals, SequencesExt

CONSTANTS
  Conns,         \* TCP connections, each used once
  Sessions,      \* BrisaWebserverSession objects
  Threads,       \* HttpSessionManager objects
  PoolSize,      \* how many sessions a pool takes (16)
  Requests,      \* what the client of a connection may ask:
                 \* [uri, method, message, vendor], the last of which is what
                 \* the code of the service's vendor does with it
  MaxRequests,   \* bound: requests on one connection
  None,
  serviceType, actionList, Methods, Absent   \* of the service (ServiceCall)

INSTANCE ServiceCall

ASSUME FinitenessAssumption ==
  IsFiniteSet(Sessions) /\ IsFiniteSet(Threads) /\ Threads # {}
ASSUME PoolAssumption == PoolSize \in Nat
ASSUME BoundAssumption == MaxRequests \in Nat
ASSUME NoneAssumption ==
  /\ None \notin Conns \cup Sessions \cup Threads
  /\ None \notin {"default", "description", "control", "scpd"}
ASSUME ActionAssumption ==
  /\ actionList \in Seq(ToSet(actionList))
  /\ \A i \in DOMAIN actionList : DOMAIN actionList[i] = {"name", "in", "out"}
ASSUME RequestAssumption ==
  \A c \in Conns : \A r \in Requests[c] :
    DOMAIN r = {"uri", "method", "message", "vendor"}
ASSUME MessageAssumption ==
  \A c \in Conns : \A r \in Requests[c] :
    \A body \in ToSet(r.message.bodies) :
      /\ body \in Seq(ToSet(body))
      /\ \A child \in ToSet(body) : child.nodes \in Seq(ToSet(child.nodes))

VARIABLES
  (* connections *)
  link,       \* "new", "accepted", "left" by the client, "closed"
  asked,      \* what the client has asked
  read,       \* how many of its requests have been read
  wire,       \* what it has been answered
  (* HttpServer and BrisaWebserver *)
  listening, threads, ringIndex,
  services,   \* the table of [path, service]
  stopped,    \* stop() has been called
  died,       \* the process has divided by zero
  (* threads *)
  phase,      \* "new", "running", "quitting", "gone"
  pool,       \* sessions to be used again
  posted,     \* events posted to the thread
  (* sessions *)
  home,       \* the thread of a session, None before it is made
  conn,       \* the connection its socket has
  deleted,    \* the sessions that have been deleted
  late,       \* the connections that have a session with an older call pending
  (* Main *)
  queue,      \* the calls posted to Main
  closing     \* the thread that stop() waits for

conn_vars == << link, asked, read, wire >>
server_vars == << listening, threads, ringIndex, services, stopped, died >>
thread_vars == << phase, pool, posted >>
session_vars == << home, conn, deleted, late >>
main_vars == << queue, closing >>
vars == << conn_vars, server_vars, thread_vars, session_vars, main_vars >>

RequestTimeout == << "408" >>
NotFound == << "404" >>
Page(service) == << "page", service >>

(* The table of services, and its first match.                             *)
addService(table, path, service) == Append(table, [path |-> path, service |-> service])
serviceAt(path) ==
  LET matching == {i \in DOMAIN services : services[i].path = path}
  IN  IF matching = {} THEN None ELSE services[Min(matching)].service

(* buildWebServerTree, after what the constructor of BrisaWebserver has    *)
(* put there.                                                              *)
DefaultTable == addService(<< >>, "/", "default")
buildWebServiceTree(table) ==
  addService(addService(table, "/service/control", "control"),
             "/service/scpd", "scpd")
buildWebServerTree(table) ==
  buildWebServiceTree(addService(table, "/device.xml", "description"))

Init ==
  /\ link = [c \in Conns |-> "new"]
  /\ asked = [c \in Conns |-> << >>]
  /\ read = [c \in Conns |-> 0]
  /\ wire = [c \in Conns |-> << >>]
  /\ listening = FALSE /\ stopped = FALSE /\ died = FALSE
  /\ threads = << CHOOSE t \in Threads : TRUE >>
  /\ ringIndex = 0
  /\ services = DefaultTable
  /\ phase = [t \in Threads |-> "new"]
  /\ pool = [t \in Threads |-> << >>]
  /\ posted = [t \in Threads |-> << >>]
  /\ home = [s \in Sessions |-> None]
  /\ conn = [s \in Sessions |-> None]
  /\ deleted = {} /\ late = {}
  /\ queue = << >>
  /\ closing = None

-----------------------------------------------------------------------------
(* Clients.                                                                *)

(* Whether an answer is one to the request, told from what was asked.      *)
RightAnswer(answer, r) ==
  IF r.uri = "/service/control"
  THEN /\ r.method = "POST"
       /\ IF Proper(r.message) THEN Suits(answer, r.message, r.vendor)
                               ELSE answer[1] \in {"response", "fault"}
  ELSE answer = IF r.uri = "/device.xml" THEN Page("description")
                ELSE IF r.uri = "/service/scpd" THEN Page("scpd")
                ELSE IF r.uri = "/" \/ r.method = "NOTIFY" THEN Page("default")
                ELSE NotFound

(* The requests that get none: no POST, or for a service of another type.  *)
Ignored(r) ==
  /\ r.uri = "/service/control"
  /\ \/ r.method # "POST"
     \/ /\ Proper(r.message) /\ ~Unnamed(r.message.bodies[1][1])
        /\ r.message.bodies[1][1].type # serviceType

Ask(c, r) ==
  /\ link[c] = "accepted"
  /\ Len(asked[c]) = Len(wire[c]) /\ Len(asked[c]) < MaxRequests
  /\ asked' = [asked EXCEPT ![c] = Append(@, r)]
  /\ UNCHANGED << link, read, wire, server_vars, thread_vars, session_vars, main_vars >>

Leave(c) ==
  /\ link[c] = "accepted"
  /\ link' = [link EXCEPT ![c] = "left"]
  /\ UNCHANGED << asked, read, wire, server_vars, thread_vars, session_vars, main_vars >>

-----------------------------------------------------------------------------
(* Main: the server.                                                       *)
MainFree == closing = None /\ ~died

(* setThreadsNumber, before the server listens.                            *)
setThreadsNumber(number) ==
  /\ MainFree /\ ~listening
  /\ number \in 1..Cardinality(Threads)
  /\ \/ /\ number <= Len(threads)
        /\ threads' = SubSeq(threads, 1, number)
     \/ /\ number > Len(threads)
        /\ threads' = threads \o SubSeq(SetToSeq(Threads \ ToSet(threads)),
                                        1, number - Len(threads))
  /\ UNCHANGED << conn_vars, listening, ringIndex, services, stopped, died,
                  thread_vars, session_vars, main_vars >>

(* BrisaDevice::startWebServer: the table, then the threads.               *)
start ==
  /\ MainFree /\ ~listening
  /\ services' = buildWebServerTree(services)
  /\ listening' = TRUE
  /\ phase' = [t \in Threads |-> IF t \in ToSet(threads) THEN "running" ELSE phase[t]]
  /\ UNCHANGED << conn_vars, threads, ringIndex, stopped, died, pool, posted,
                  session_vars, main_vars >>

NextThread == threads[(ringIndex % Len(threads)) + 1]

(* incomingConnection and addSession.  A stopped server still listens, and *)
(* has no threads: the remainder is a division by zero.                    *)
incomingConnection(c) ==
  /\ MainFree /\ listening
  /\ link[c] = "new"
  /\ IF threads = << >>
     THEN died' = TRUE /\ UNCHANGED << link, ringIndex, posted >>
     ELSE /\ died' = FALSE
          /\ ringIndex' = ringIndex + 1
          /\ link' = [link EXCEPT ![c] = "accepted"]
          /\ posted' = [posted EXCEPT ![NextThread] =
                          Append(@, [kind |-> "connection", conn |-> c])]
  /\ UNCHANGED << asked, read, wire, listening, threads, services, stopped,
                  phase, pool, session_vars, main_vars >>

(* stop: each thread in turn is told to quit, waited for and deleted.      *)
stop ==
  /\ MainFree /\ listening /\ threads # << >>
  /\ closing' = threads[1]
  /\ phase' = [phase EXCEPT ![threads[1]] = "quitting"]
  /\ stopped' = TRUE
  /\ UNCHANGED << conn_vars, listening, threads, ringIndex, services, died, pool,
                  posted, session_vars, queue >>

stop_next ==
  /\ closing # None /\ phase[closing] = "gone"
  /\ LET left == {i \in DOMAIN threads : phase[threads[i]] # "gone"}
     IN IF left = {}
        THEN threads' = << >> /\ closing' = None /\ UNCHANGED phase
        ELSE /\ closing' = threads[Min(left)]
             /\ phase' = [phase EXCEPT ![threads[Min(left)]] = "quitting"]
             /\ UNCHANGED threads
  /\ UNCHANGED << conn_vars, listening, ringIndex, services, stopped, died, pool,
                  posted, session_vars, queue >>

(* A slot of the service: the answer is posted to the session.  With a     *)
(* session that is deleted, anything may happen.                           *)
serve ==
  /\ MainFree /\ queue # << >>
  /\ queue' = Tail(queue)
  /\ LET e == Head(queue)
     IN IF e.session \in deleted
        THEN died' \in BOOLEAN /\ UNCHANGED posted
        ELSE /\ UNCHANGED died
             /\ posted' = [posted EXCEPT ![home[e.session]] =
                  Append(@, [kind |-> "answer", session |-> e.session,
                             answer |-> Answer(e.slot, e.vendor)])]
  /\ UNCHANGED << conn_vars, listening, threads, ringIndex, services, stopped,
                  phase, pool, session_vars, closing >>
-----------------------------------------------------------------------------
(* A thread.                                                               *)
Alive(t) == ~died /\ phase[t] \in {"running", "quitting"}
Next_(t, kind) == Alive(t) /\ posted[t] # << >> /\ Head(posted[t]).kind = kind

Pending(s) ==
  \/ \E e \in ToSet(queue) : e.session = s
  \/ \E e \in ToSet(posted[home[s]]) : e.kind = "answer" /\ e.session = s

(* setSession: of a session of the pool, last in first out, or a new one.  *)
setSession(t, s, c) ==
  /\ IF pool[t] # << >> THEN s = Last(pool[t]) ELSE home[s] = None
  /\ pool' = [pool EXCEPT ![t] = IF @ = << >> THEN @ ELSE Front(@)]
  /\ home' = [home EXCEPT ![s] = t]
  /\ conn' = [conn EXCEPT ![s] = c]
  /\ late' = IF home[s] # None /\ Pending(s) THEN late \cup {c} ELSE late

(* Fault: a thread that quits forgets the connection.                      *)
Fault_newConnection(t) ==
  /\ Next_(t, "connection")
  /\ posted' = [posted EXCEPT ![t] = Tail(@)]
  /\ IF phase[t] = "running"
     THEN \E s \in Sessions : setSession(t, s, Head(posted[t]).conn)
     ELSE UNCHANGED << pool, home, conn, late >>
  /\ UNCHANGED << conn_vars, server_vars, phase, deleted, main_vars >>

(* newConnection: a thread that quits closes it.                           *)
newConnection(t) ==
  /\ Next_(t, "connection")
  /\ posted' = [posted EXCEPT ![t] = Tail(@)]
  /\ LET c == Head(posted[t]).conn
     IN IF phase[t] = "running"
        THEN (\E s \in Sessions : setSession(t, s, c)) /\ UNCHANGED link
        ELSE link' = [link EXCEPT ![c] = "closed"]
             /\ UNCHANGED << pool, home, conn, late >>
  /\ UNCHANGED << asked, read, wire, server_vars, phase, deleted, main_vars >>

(* writeResponse, into a connection that is there.                         *)
written(s, answer) ==
  IF conn[s] # None /\ link[conn[s]] = "accepted"
  THEN [wire EXCEPT ![conn[s]] = Append(@, answer)] ELSE wire

writeResponse(t) ==
  /\ Next_(t, "answer")
  /\ posted' = [posted EXCEPT ![t] = Tail(@)]
  /\ wire' = written(Head(posted[t]).session, Head(posted[t]).answer)
  /\ UNCHANGED << link, asked, read, server_vars, phase, pool, session_vars, main_vars >>

HasRequest(s) ==
  /\ home[s] # None /\ Alive(home[s])
  /\ conn[s] # None /\ link[conn[s]] \in {"accepted", "left"}
  /\ read[conn[s]] < Len(asked[conn[s]])
RequestOf(s) == asked[conn[s]][read[conn[s]] + 1]

(* BrisaWebserverSession::onRequest for what the thread answers at once:   *)
(* a page, or 404, which closes the connection.                            *)
onRequest_page(s) ==
  LET r == RequestOf(s)
      service == IF serviceAt(r.uri) = None /\ r.method = "NOTIFY"
                 THEN serviceAt("/") ELSE serviceAt(r.uri)
  IN  /\ HasRequest(s)
      /\ service # "control"
      /\ read' = [read EXCEPT ![conn[s]] = @ + 1]
      /\ wire' = written(s, IF service = None THEN NotFound ELSE Page(service))
      /\ link' = IF service = None THEN [link EXCEPT ![conn[s]] = "closed"] ELSE link
      /\ UNCHANGED << asked, server_vars, thread_vars, session_vars, main_vars >>

(* ... and for the control service: a call for Main, or nothing at all.    *)
onRequest_control(s) ==
  LET r == RequestOf(s)
      call_(slot) == [session |-> s, slot |-> slot, vendor |-> r.vendor, caller |-> conn[s]]
      slots == controlRequest(r)
  IN  /\ HasRequest(s)
      /\ serviceAt(r.uri) = "control"
      /\ read' = [read EXCEPT ![conn[s]] = @ + 1]
      /\ queue' = queue \o [i \in DOMAIN slots |-> call_(slots[i])]
      /\ UNCHANGED << link, asked, wire, server_vars, thread_vars, session_vars, closing >>

(* The timer of the session: it runs from the start of the connection, and *)
(* each request winds it up again.                                         *)
onTimeout(s) ==
  /\ home[s] # None /\ Alive(home[s]) /\ conn[s] # None
  /\ link[conn[s]] \in {"accepted", "left"}
  /\ wire' = written(s, RequestTimeout)
  /\ link' = [link EXCEPT ![conn[s]] = "closed"]
  /\ UNCHANGED << asked, read, server_vars, thread_vars, session_vars, main_vars >>

(* releaseSession: into the pool, or to be deleted.                        *)
Released(s, t, takes) ==
  IF takes
  THEN pool' = [pool EXCEPT ![t] = Append(@, s)] /\ UNCHANGED posted
  ELSE /\ posted' = [posted EXCEPT ![t] =
                       Append(@, [kind |-> "delete", session |-> s])]
       /\ UNCHANGED pool

releaseSession(s, t) == Released(s, t, Len(pool[t]) < PoolSize)

onConnectionDie(s) ==
  /\ home[s] # None /\ Alive(home[s]) /\ conn[s] # None
  /\ link[conn[s]] \in {"left", "closed"}
  /\ conn' = [conn EXCEPT ![s] = None]
  /\ link' = [link EXCEPT ![conn[s]] = "closed"]
  /\ releaseSession(s, home[s])
  /\ UNCHANGED << asked, read, wire, server_vars, phase, home, deleted, late, main_vars >>

(* A deferred delete.  What is posted to the session goes with it; here an *)
(* answer stays to be read, and finds no connection to be written into.    *)
DeferredDelete(t) ==
  /\ Next_(t, "delete")
  /\ deleted' = deleted \cup {Head(posted[t]).session}
  /\ posted' = [posted EXCEPT ![t] = Tail(@)]
  /\ UNCHANGED << conn_vars, server_vars, phase, pool, home, conn, late, main_vars >>

(* The end of run(): the connector goes, and its sessions with their       *)
(* sockets.                                                                *)
run_end(t) ==
  LET own == {s \in Sessions : home[s] = t}
      lost == {conn[s] : s \in own} \ {None}
  IN  /\ ~died /\ phase[t] = "quitting" /\ posted[t] = << >>
      /\ phase' = [phase EXCEPT ![t] = "gone"]
      /\ deleted' = deleted \cup own
      /\ conn' = [s \in Sessions |-> IF s \in own THEN None ELSE conn[s]]
      /\ pool' = [pool EXCEPT ![t] = << >>]
      /\ link' = [c \in Conns |-> IF c \in lost THEN "closed" ELSE link[c]]
      /\ UNCHANGED << asked, read, wire, server_vars, posted, home, late, main_vars >>
-----------------------------------------------------------------------------
MainNext ==
  \/ \E n \in 1..Cardinality(Threads) : setThreadsNumber(n)
  \/ start \/ stop \/ stop_next \/ serve
  \/ \E c \in Conns : incomingConnection(c)
ThreadNext(t) ==
  newConnection(t) \/ writeResponse(t) \/ DeferredDelete(t) \/ run_end(t)
SessionNext(s) ==
  onRequest_page(s) \/ onRequest_control(s) \/ onConnectionDie(s)
ClientNext == \E c \in Conns : Leave(c) \/ (\E r \in Requests[c] : Ask(c, r))

Next ==
  \/ MainNext \/ ClientNext
  \/ \E t \in Threads : ThreadNext(t)
  \/ \E s \in Sessions : SessionNext(s) \/ onTimeout(s)

(* Event loops serve what is posted to them, and stop() goes on.  Nobody   *)
(* has to connect, ask, leave, or call stop(), and the timer is left out.  *)
Fairness ==
  /\ WF_vars(serve) /\ WF_vars(stop_next)
  /\ \A t \in Threads : WF_vars(ThreadNext(t))
  /\ \A s \in Sessions : WF_vars(SessionNext(s))

Spec == Init /\ [][Next]_vars /\ Fairness
-----------------------------------------------------------------------------
(* The variables have their types; in particular a pool holds no more than *)
(* PoolSize sessions, all of its own thread, live and without connection.  *)
TypeOK ==
  /\ link \in [Conns -> {"new", "accepted", "left", "closed"}]
  /\ \A c \in Conns : read[c] <= Len(asked[c]) /\ Len(asked[c]) <= MaxRequests
  /\ ToSet(threads) \subseteq Threads
  /\ phase \in [Threads -> {"new", "running", "quitting", "gone"}]
  /\ conn \in [Sessions -> Conns \cup {None}]
  /\ \A e \in ToSet(queue) : home[e.session] \in Threads /\ e.caller \in Conns
  /\ \A t \in Threads : Len(pool[t]) <= PoolSize

(* What a client reads are the answers to what it has asked, in order, and *)
(* perhaps 408 at the end, unless the session has had a call pending of an *)
(* earlier connection.  (BrisaWebserverSession::respond posts an answer to *)
(* the session, whatever connection it has by then.)                       *)
OwnAnswers ==
  \A c \in Conns \ late : \A i \in DOMAIN wire[c] :
    \/ i <= Len(asked[c]) /\ RightAnswer(wire[c][i], asked[c][i])
    \/ i = Len(wire[c]) /\ link[c] = "closed" /\ wire[c][i] = RequestTimeout

(* A call in Main's queue has a live session, unless its client has gone   *)
(* or the server has been stopped meanwhile; and a client that is being    *)
(* served has one session, or is on its way to one, in a live thread.      *)
(* (releaseSession deletes the sessions that the pool does not take, stop  *)
(* deletes them all.)  A session in the pool of a thread is that thread's, *)
(* is there once, is not deleted and serves nobody.                        *)
SessionsLive ==
  /\ TypeOK
  /\ \A t \in Threads : /\ IsInjective(pool[t])
                         /\ \A s \in ToSet(pool[t]) :
                              home[s] = t /\ conn[s] = None /\ s \notin deleted
  /\ \A e \in ToSet(queue) :
       e.session \in deleted => stopped \/ link[e.caller] \in {"left", "closed"}
  /\ \A c \in Conns : link[c] = "accepted" =>
       LET holders == {s \in Sessions : conn[s] = c}
           carriers == {t \in Threads : \E e \in ToSet(posted[t]) :
                          e.kind = "connection" /\ e.conn = c}
       IN  /\ Cardinality(holders) + Cardinality(carriers) = 1
           /\ holders \cap deleted = {}
           /\ \A t \in carriers \cup {home[s] : s \in holders} :
                phase[t] \in {"running", "quitting"}

(* A client that waits is answered or loses its connection, without the    *)
(* help of a timer, unless its request is one the service ignores.         *)
Waits(c) ==
  /\ link[c] = "accepted" /\ Len(wire[c]) < Len(asked[c])
  /\ ~Ignored(Last(asked[c]))
ClientAnswered ==
  \A c \in Conns :
    Waits(c) ~> (Len(wire[c]) >= Len(asked[c]) \/ link[c] # "accepted" \/ died)
=============================================================================
