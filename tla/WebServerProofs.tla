--------------------------- MODULE WebServerProofs ---------------------------
(***************************************************************************)
(* For any connections, sessions, threads, size of the pool and service:   *)
(* sessions are neither lost, shared nor deleted while somebody needs      *)
(* them, also when the server is stopped; and clients read the answers to  *)
(* what they have asked, those of the service included.                    *)
(***************************************************************************)
EXTENDS WebServer, SequenceLemmas

USE FinitenessAssumption, PoolAssumption, BoundAssumption, NoneAssumption

AllRequests == UNION { Requests[c] : c \in Conns }
Slots == UNION { ToSet(controlRequest(r)) : r \in AllRequests }
Vendors == { r.vendor : r \in AllRequests }
Calls == [session : Sessions, slot : Slots, vendor : Vendors, caller : Conns]
ConnectionEvents == [kind : {"connection"}, conn : Conns]
AnswerEvents ==
  [kind : {"answer"}, session : Sessions,
   answer : { Answer(slot, v) : slot \in Slots, v \in Vendors }]
DeleteEvents == [kind : {"delete"}, session : Sessions]
Events == ConnectionEvents \cup AnswerEvents \cup DeleteEvents

(* The inductive invariant: the types ...                                  *)
ConnTypes ==
  /\ link \in [Conns -> {"new", "accepted", "left", "closed"}]
  /\ asked \in [Conns -> Seq(AllRequests)]
  /\ read \in [Conns -> Nat]
  /\ \A c \in Conns : read[c] <= Len(asked[c]) /\ Len(asked[c]) <= MaxRequests

ServerTypes ==
  /\ threads \in Seq(Threads)
  /\ ringIndex \in Nat
  /\ phase \in [Threads -> {"new", "running", "quitting", "gone"}]
  /\ closing \in Threads \cup {None}
  /\ queue \in Seq(Calls)

SessionTypes ==
  /\ pool \in [Threads -> Seq(Sessions)]
  /\ posted \in [Threads -> Seq(Events)]
  /\ home \in [Sessions -> Threads \cup {None}]
  /\ conn \in [Sessions -> Conns \cup {None}]
  /\ deleted \subseteq Sessions

(* ... threads quit only when the server is stopped, and until then all of *)
(* a listening server run;                                                 *)
Stopping ==
  /\ \A t \in Threads : phase[t] \in {"quitting", "gone"} => stopped
  /\ closing # None => stopped
  /\ listening /\ closing = None =>
       \A i \in 1..Len(threads) : phase[threads[i]] = "running"

(* ... a pool has sessions of its thread that serve nobody, each once, and *)
(* none that is or will be deleted;                                        *)
Doomed(t, s) ==
  \E i \in 1..Len(posted[t]) : posted[t][i].kind = "delete" /\ posted[t][i].session = s
Pooled ==
  /\ \A t \in Threads :
       /\ IsInjective(pool[t]) /\ Len(pool[t]) <= PoolSize
       /\ \A s \in ToSet(pool[t]) : home[s] = t /\ conn[s] = None /\ s \notin deleted
  /\ \A t \in Threads : \A s \in Sessions : Doomed(t, s) =>
       home[s] = t /\ conn[s] = None /\ s \notin ToSet(pool[t])

(* ... a session that serves a client has it for itself, is not deleted,   *)
(* and its thread lives;                                                   *)
Working == {"running", "quitting"}
Serving ==
  /\ \A s \in Sessions : conn[s] # None =>
       /\ home[s] \in Threads /\ phase[home[s]] \in Working
       /\ s \notin deleted
       /\ link[conn[s]] # "new"
  /\ \A s, u \in Sessions : conn[s] = conn[u] /\ conn[s] # None => s = u
  /\ \A s \in deleted : home[s] # None

(* ... a connection that is on its way to a thread is there once, has no   *)
(* session yet, and its thread lives; one that is accepted has a session   *)
(* or is on its way;                                                       *)
Carries(t, i, c) ==
  /\ i \in 1..Len(posted[t])
  /\ posted[t][i].kind = "connection" /\ posted[t][i].conn = c
Carried ==
  \A c \in Conns :
    /\ \A t \in Threads : \A i \in 1..Len(posted[t]) : Carries(t, i, c) =>
         /\ phase[t] \in Working
         /\ link[c] # "new"
         /\ \A s \in Sessions : conn[s] # c
         /\ \A u \in Threads : \A j \in 1..Len(posted[u]) :
              Carries(u, j, c) => t = u /\ i = j
    /\ link[c] = "accepted" =>
         \/ \E s \in Sessions : conn[s] = c
         \/ \E t \in Threads : \E i \in 1..Len(posted[t]) : Carries(t, i, c)

(* ... and a call is for the session its client still has, or its client   *)
(* is gone.                                                                *)
Called ==
  \A i \in 1..Len(queue) :
    /\ home[queue[i].session] \in Threads
    /\ conn[queue[i].session] = queue[i].caller \/ link[queue[i].caller] = "closed"

Types == ConnTypes /\ ServerTypes /\ SessionTypes
IInv == Types /\ Stopping /\ Pooled /\ Serving /\ Carried /\ Called
-----------------------------------------------------------------------------
(* What is posted, event by event.                                         *)
LEMMA PostMore ==
  ASSUME NEW p \in [Threads -> Seq(Events)], NEW t \in Threads, NEW e \in Events,
         NEW q, q = [p EXCEPT ![t] = Append(@, e)]
  PROVE  /\ q \in [Threads -> Seq(Events)]
         /\ \A u \in Threads : Len(p[u]) \in Nat /\ (u # t => q[u] = p[u])
         /\ Len(q[t]) = Len(p[t]) + 1
         /\ \A i \in 1..Len(p[t]) : q[t][i] = p[t][i]
         /\ q[t][Len(p[t]) + 1] = e
  <1>1. \A u \in Threads : p[u] \in Seq(Events) /\ Len(p[u]) \in Nat
    BY LenProperties
  <1>2. q[t] = Append(p[t], e) /\ q[t] \in Seq(Events)
    BY <1>1, AppendToList
  <1>3. QED
    BY <1>1, <1>2, AppendToList

LEMMA PostLess ==
  ASSUME NEW p \in [Threads -> Seq(Events)], NEW t \in Threads, p[t] # << >>,
         NEW q, q = [p EXCEPT ![t] = Tail(@)]
  PROVE  /\ q \in [Threads -> Seq(Events)]
         /\ \A u \in Threads : Len(p[u]) \in Nat /\ (u # t => q[u] = p[u])
         /\ Len(q[t]) = Len(p[t]) - 1
         /\ \A i \in 1..Len(p[t]) - 1 : q[t][i] = p[t][i + 1]
         /\ 1 \in 1..Len(p[t]) /\ Head(p[t]) = p[t][1] /\ p[t][1] \in Events
  <1>1. \A u \in Threads : p[u] \in Seq(Events) /\ Len(p[u]) \in Nat
    BY LenProperties
  <1>2. q[t] = Tail(p[t]) /\ q[t] \in Seq(Events)
    BY <1>1, TailOfSeq
  <1>3. QED
    BY <1>1, <1>2, TailOfSeq

(* An event says what it is.                                               *)
LEMMA EventKinds ==
  ASSUME NEW e \in Events
  PROVE  /\ e.kind = "connection" => e \in ConnectionEvents /\ e.conn \in Conns
         /\ e.kind = "answer" => e \in AnswerEvents /\ e.session \in Sessions
         /\ e.kind = "delete" => e \in DeleteEvents /\ e.session \in Sessions
  BY DEF Events, ConnectionEvents, AnswerEvents, DeleteEvents

(* setThreadsNumber makes threads out of those there are.                  *)
LEMMA SomeThreads ==
  ASSUME NEW list \in Seq(Threads), NEW number \in 1..Cardinality(Threads)
  PROVE  /\ number <= Len(list) => SubSeq(list, 1, number) \in Seq(Threads)
         /\ number > Len(list) =>
              list \o SubSeq(SetToSeq(Threads \ ToSet(list)), 1, number - Len(list))
                \in Seq(Threads)
  <1> DEFINE others == Threads \ ToSet(list)
  <1>1. /\ Len(list) \in Nat /\ Cardinality(Threads) \in Nat
        /\ \A i \in 1..Len(list) : list[i] \in Threads
    BY LenProperties, ElementOfSeq, FS_CardinalityType
  <1>2. number <= Len(list) => SubSeq(list, 1, number) \in Seq(Threads)
    BY <1>1, SubSeqProperties
  <1>3. ASSUME number > Len(list)
        PROVE  list \o SubSeq(SetToSeq(others), 1, number - Len(list)) \in Seq(Threads)
    <2>1. /\ IsFiniteSet(others)
          /\ Cardinality(others) = Cardinality(Threads) - Cardinality(Threads \cap ToSet(list))
          /\ Cardinality(others) \in Nat
      BY FS_Difference, FS_CardinalityType
    <2>2. /\ Threads \cap ToSet(list) = ToSet(list)
          /\ Cardinality(ToSet(list)) <= Len(list)
          /\ Cardinality(ToSet(list)) \in Nat
      BY ToSetOfSeq, SetOfSeqLength, FS_CardinalityType
    <2>3. number - Len(list) <= Cardinality(others)
      <3>1. Cardinality(others) = Cardinality(Threads) - Cardinality(ToSet(list))
        BY <2>1, <2>2
      <3>2. \A a, b, n, l \in Nat : l <= n /\ b <= a => b - n <= a - l
        OBVIOUS
      <3>3. number \in Nat /\ number <= Cardinality(Threads)
        BY <1>1
      <3>4. QED
        BY <1>1, <2>2, <3>1, <3>2, <3>3
    <2>4. PICK more : /\ more = SetToSeq(others)
                      /\ more \in Seq(others)
                      /\ Len(more) = Cardinality(others)
      BY <2>1, SetToSeqOfFinite
    <2>5. SubSeq(more, 1, number - Len(list)) \in Seq(Threads)
      <3>1. \A i \in 1..number - Len(list) : more[i] \in Threads
        BY <1>1, <2>1, <2>3, <2>4, ElementOfSeq
      <3>2. number - Len(list) \in Int
        BY <1>1
      <3>3. QED
        BY <3>1, <3>2, SubSeqProperties
    <2>6. QED
      BY <2>4, <2>5, ConcatProperties
  <1>4. QED
    BY <1>2, <1>3

(* A request is for Main at most once.                                     *)
LEMMA ControlSlots ==
  ASSUME NEW c \in Conns, NEW r \in Requests[c]
  PROVE  /\ controlRequest(r) = << >> \/ \E slot \in Slots : controlRequest(r) = << slot >>
         /\ r \in AllRequests /\ r.vendor \in Vendors
  <1>1. r \in AllRequests /\ r.vendor \in Vendors
    BY DEF AllRequests, Vendors
  <1>2. ASSUME NEW slot, controlRequest(r) = << slot >> PROVE slot \in Slots
    <2>1. slot \in ToSet(controlRequest(r))
      BY <1>2 DEF ToSet
    <2>2. QED
      BY <1>1, <2>1 DEF Slots
  <1>3. controlRequest(r) = << >> \/ \E slot : controlRequest(r) = << slot >>
    BY DEF controlRequest
  <1>4. QED
    BY <1>1, <1>2, <1>3

-----------------------------------------------------------------------------
LEMMA InvInit == Init => IInv
  <1> SUFFICES ASSUME Init PROVE IInv
    OBVIOUS
  <1>1. threads \in Seq(Threads)
    <2>1. (CHOOSE t \in Threads : TRUE) \in Threads
      BY DEF FinitenessAssumption
    <2>2. QED
      BY <2>1 DEF Init
  <1>2. \A S : << >> \in Seq(S) /\ Len(<< >>) = 0
    OBVIOUS
  <1>3. Types
    BY <1>1, <1>2 DEF Init, Types, ConnTypes, ServerTypes, SessionTypes,
       BoundAssumption, PoolAssumption
  <1>4. Stopping
    BY DEF Init, Stopping
  <1>5. Pooled
    <2>1. IsInjective(<< >>) /\ ToSet(<< >>) = {}
      BY DEF IsInjective, ToSet
    <2>2. QED
      BY <2>1 DEF Init, Pooled, Doomed, PoolAssumption
  <1>6. Serving /\ Carried /\ Called
    BY DEF Init, Serving, Carried, Carries, Called, NoneAssumption
  <1>7. QED
    BY <1>3, <1>4, <1>5, <1>6 DEF IInv

LEMMA ConnTypesNext == Types /\ [Next]_vars => ConnTypes'
  <1> SUFFICES ASSUME Types, [Next]_vars PROVE ConnTypes'
    OBVIOUS
  <1> USE DEF Types
  <1>1. \A c \in Conns : asked[c] \in Seq(AllRequests) /\ Len(asked[c]) \in Nat
    BY LenProperties DEF ConnTypes
  <1>2. ASSUME UNCHANGED << asked, read >>,
               \/ UNCHANGED link
               \/ \E c \in Conns, v \in {"left", "accepted", "closed"} :
                    link' = [link EXCEPT ![c] = v]
        PROVE  ConnTypes'
    BY <1>2 DEF ConnTypes
  <1>3. ASSUME NEW c \in Conns, NEW r \in Requests[c], Ask(c, r) PROVE ConnTypes'
    <2>1. r \in AllRequests
      BY DEF AllRequests
    <2>2. /\ asked'[c] = Append(asked[c], r)
          /\ \A d \in Conns \ {c} : asked'[d] = asked[d]
          /\ asked' \in [Conns -> Seq(AllRequests)]
      BY <1>1, <1>3, <2>1, AppendProperties DEF Ask, ConnTypes
    <2>3. /\ Len(asked'[c]) = Len(asked[c]) + 1 /\ Len(asked[c]) < MaxRequests
          /\ read' = read /\ link' = link
      BY <1>1, <1>3, <2>1, <2>2, AppendProperties DEF Ask
    <2>4. ASSUME NEW d \in Conns
          PROVE  read'[d] <= Len(asked'[d]) /\ Len(asked'[d]) <= MaxRequests
      <3>1. /\ read[d] \in Nat /\ Len(asked[d]) \in Nat
            /\ read[d] <= Len(asked[d]) /\ Len(asked[d]) <= MaxRequests
        BY <1>1 DEF ConnTypes
      <3>2. Len(asked'[d]) = Len(asked[d]) \/ (Len(asked'[d]) = Len(asked[d]) + 1 /\ d = c)
        BY <2>2, <2>3
      <3>3. QED
        BY <2>3, <3>1, <3>2 DEF BoundAssumption
    <2>5. QED
      BY <2>2, <2>3, <2>4 DEF ConnTypes
  <1>4. ASSUME NEW s \in Sessions, onRequest_page(s) \/ onRequest_control(s) PROVE ConnTypes'
    <2>1. PICK c \in Conns : c = conn[s]
      BY <1>4 DEF onRequest_page, onRequest_control, HasRequest, SessionTypes
    <2>2. /\ read[c] < Len(asked[c])
          /\ read' = [read EXCEPT ![c] = @ + 1] /\ asked' = asked
          /\ link' = link \/ link' = [link EXCEPT ![c] = "closed"]
      BY <1>4, <2>1 DEF onRequest_page, onRequest_control, HasRequest
    <2>3. ASSUME NEW d \in Conns
          PROVE  /\ read'[d] \in Nat
                 /\ read'[d] <= Len(asked'[d]) /\ Len(asked'[d]) <= MaxRequests
      <3>1. /\ read[d] \in Nat /\ Len(asked[d]) \in Nat
            /\ read[d] <= Len(asked[d]) /\ Len(asked[d]) <= MaxRequests
        BY <1>1 DEF ConnTypes
      <3>2. read'[d] = read[d] \/ (read'[d] = read[d] + 1 /\ d = c)
        BY <2>2 DEF ConnTypes
      <3>3. asked'[d] = asked[d]
        BY <2>2
      <3>4. QED
        BY <2>2, <3>1, <3>2, <3>3
    <2>4. /\ read' \in [Conns -> Nat]
          /\ link' \in [Conns -> {"new", "accepted", "left", "closed"}]
      BY <2>2, <2>3 DEF ConnTypes
    <2>5. QED
      BY <2>2, <2>3, <2>4 DEF ConnTypes
  <1>5. ASSUME NEW t \in Threads, run_end(t) PROVE ConnTypes'
    BY <1>5 DEF ConnTypes, run_end
  <1>6. ASSUME NEW s \in Sessions, onConnectionDie(s) \/ onTimeout(s) PROVE ConnTypes'
    <2>1. conn[s] \in Conns
      BY <1>6 DEF onConnectionDie, onTimeout, SessionTypes
    <2>2. QED
      BY <1>2, <1>6, <2>1 DEF onConnectionDie, onTimeout
  <1>7. ASSUME NEW t \in Threads, newConnection(t) PROVE ConnTypes'
    <2>1. posted[t] \in Seq(Events) /\ posted[t] # << >> /\ Head(posted[t]).kind = "connection"
      BY <1>7 DEF newConnection, Next_, SessionTypes
    <2>2. Head(posted[t]).conn \in Conns
      BY <2>1, TailOfSeq, EventKinds
    <2>3. QED
      BY <1>2, <1>7, <2>2 DEF newConnection
  <1>8. ASSUME NEW c \in Conns, Leave(c) \/ incomingConnection(c) PROVE ConnTypes'
    BY <1>2, <1>8 DEF Leave, incomingConnection
  <1>9. ASSUME NEW t \in Threads, writeResponse(t) \/ DeferredDelete(t) PROVE ConnTypes'
    BY <1>2, <1>9 DEF writeResponse, DeferredDelete, conn_vars
  <1>10. ASSUME NEW n \in 1..Cardinality(Threads), setThreadsNumber(n) PROVE ConnTypes'
    BY <1>2, <1>10 DEF setThreadsNumber, conn_vars
  <1>11. CASE start \/ stop \/ stop_next \/ serve
    BY <1>2, <1>11 DEF start, stop, stop_next, serve, conn_vars
  <1>12. CASE UNCHANGED vars
    BY <1>2, <1>12 DEF vars, conn_vars
  <1>13. QED
    BY <1>3, <1>4, <1>5, <1>6, <1>7, <1>8, <1>9, <1>10, <1>11, <1>12
    DEF Next, MainNext, ThreadNext, SessionNext, ClientNext

(* What a session asks of Main: a call for itself, at most one.            *)
LEMMA RequestPosted ==
  ASSUME Types, NEW s \in Sessions, onRequest_control(s)
  PROVE  /\ conn[s] \in Conns
         /\ \/ queue' = queue
            \/ \E call_ \in Calls : /\ call_.session = s /\ call_.caller = conn[s]
                                    /\ controlRequest(RequestOf(s)) = << call_.slot >>
                                    /\ call_.vendor = RequestOf(s).vendor
                                    /\ queue' = Append(queue, call_)
  <1>1. PICK c \in Conns : c = conn[s]
    BY DEF onRequest_control, HasRequest, SessionTypes, Types
  <1>2. PICK r : r = RequestOf(s)
    OBVIOUS
  <1>3. r \in AllRequests
    <2>1. asked[c] \in Seq(AllRequests) /\ read[c] \in Nat /\ read[c] < Len(asked[c])
      BY <1>1 DEF onRequest_control, HasRequest, ConnTypes, Types
    <2>2. read[c] + 1 \in 1..Len(asked[c])
      BY <2>1, LenProperties
    <2>3. QED
      BY <1>1, <1>2, <2>1, <2>2, ElementOfSeq DEF RequestOf
  <1>4. PICK slots : slots = controlRequest(r)
    OBVIOUS
  <1> DEFINE call_(slot) ==
        [session |-> s, slot |-> slot, vendor |-> r.vendor, caller |-> c]
  <1>5. queue' = queue \o [i \in DOMAIN slots |-> call_(slots[i])]
    BY <1>1, <1>2, <1>4 DEF onRequest_control
  <1>6. slots = << >> \/ \E slot \in Slots : slots = << slot >>
    BY <1>3, <1>4, ControlSlots DEF AllRequests
  <1>7. r.vendor \in Vendors
    BY <1>3 DEF Vendors
  <1>8. queue \in Seq(Calls)
    BY DEF ServerTypes, Types
  <1>9. CASE slots = << >>
    <2>1. [i \in DOMAIN slots |-> call_(slots[i])] = << >>
      BY <1>9
    <2>2. QED
      BY <1>1, <1>5, <1>8, <2>1, ConcatEmptySeq
  <1>10. ASSUME NEW slot \in Slots, slots = << slot >>
         PROVE  /\ call_(slot) \in Calls
                /\ call_(slot).session = s /\ call_(slot).caller = c
                /\ slots = << call_(slot).slot >> /\ call_(slot).vendor = r.vendor
                /\ queue' = Append(queue, call_(slot))
    <2>1. /\ call_(slot) \in Calls /\ call_(slot).session = s /\ call_(slot).caller = c
          /\ call_(slot).slot = slot /\ call_(slot).vendor = r.vendor
      BY <1>1, <1>7 DEF Calls
    <2>2. [i \in DOMAIN slots |-> call_(slots[i])] = << call_(slot) >>
      BY <1>10
    <2> HIDE DEF call_
    <2>3. queue \o << call_(slot) >> = Append(queue, call_(slot))
      BY <1>8, <2>1, AppendIsConcat
    <2>4. QED
      BY <1>5, <1>10, <2>1, <2>2, <2>3
  <1>11. QED
    BY <1>1, <1>2, <1>4, <1>6, <1>9, <1>10

LEMMA ServerTypesNext == Types /\ [Next]_vars => ServerTypes'
  <1> SUFFICES ASSUME Types, [Next]_vars PROVE ServerTypes'
    OBVIOUS
  <1> USE DEF Types
  <1>1. /\ Len(threads) \in Nat
        /\ \A i \in 1..Len(threads) : threads[i] \in Threads
        /\ DOMAIN threads = 1..Len(threads)
    BY LenProperties, ElementOfSeq DEF ServerTypes
  <1>2. ASSUME UNCHANGED << threads, ringIndex, phase, closing, queue >> PROVE ServerTypes'
    BY <1>2 DEF ServerTypes
  <1>3. ASSUME NEW n \in 1..Cardinality(Threads), setThreadsNumber(n) PROVE ServerTypes'
    BY <1>3, SomeThreads DEF setThreadsNumber, ServerTypes, thread_vars, main_vars
  <1>4. CASE start
    BY <1>4 DEF start, ServerTypes, main_vars
  <1>5. ASSUME NEW c \in Conns, incomingConnection(c) PROVE ServerTypes'
    BY <1>5 DEF incomingConnection, ServerTypes, main_vars
  <1>6. CASE stop
    <2>1. threads[1] \in Threads
      BY <1>1, <1>6, EmptySeq DEF stop, ServerTypes
    <2>2. QED
      BY <1>6, <2>1 DEF stop, ServerTypes
  <1>7. CASE stop_next
    <2> DEFINE left == {i \in DOMAIN threads : phase[threads[i]] # "gone"}
    <2>1. ASSUME left # {} PROVE Min(left) \in 1..Len(threads)
      <3>1. left \subseteq Nat /\ left \subseteq 1..Len(threads)
        BY <1>1
      <3> HIDE DEF left
      <3>2. QED
        BY <2>1, <3>1, LeastOfSet
    <2>2. /\ \/ left = {} /\ threads' = << >> /\ closing' = None /\ phase' = phase
             \/ /\ left # {} /\ threads' = threads /\ closing' = threads[Min(left)]
                /\ phase' = [phase EXCEPT ![threads[Min(left)]] = "quitting"]
          /\ ringIndex' = ringIndex /\ queue' = queue
      BY <1>7 DEF stop_next
    <2> HIDE DEF left
    <2>3. << >> \in Seq(Threads)
      OBVIOUS
    <2>4. QED
      BY <1>1, <2>1, <2>2, <2>3 DEF ServerTypes
  <1>8. CASE serve
    <2>1. Tail(queue) \in Seq(Calls)
      BY <1>8, TailOfSeq DEF serve, ServerTypes
    <2>2. QED
      BY <1>8, <2>1 DEF serve, ServerTypes
  <1>9. ASSUME NEW s \in Sessions, onRequest_control(s) PROVE ServerTypes'
    <2>1. queue' \in Seq(Calls)
      <3>1. queue \in Seq(Calls)
        BY DEF ServerTypes
      <3>2. queue' = queue \/ \E call_ \in Calls : queue' = Append(queue, call_)
        BY <1>9, RequestPosted
      <3>3. QED
        BY <3>1, <3>2, AppendToList
    <2>2. QED
      BY <1>9, <2>1 DEF onRequest_control, ServerTypes, server_vars, thread_vars
  <1>10. ASSUME NEW t \in Threads, run_end(t) PROVE ServerTypes'
    BY <1>10 DEF run_end, ServerTypes, server_vars, main_vars
  <1>11. ASSUME NEW c \in Conns, Leave(c) \/ \E r \in Requests[c] : Ask(c, r) PROVE ServerTypes'
    BY <1>2, <1>11 DEF Leave, Ask, server_vars, thread_vars, main_vars
  <1>12. ASSUME NEW t \in Threads,
                newConnection(t) \/ writeResponse(t) \/ DeferredDelete(t)
         PROVE  ServerTypes'
    BY <1>2, <1>12 DEF newConnection, writeResponse, DeferredDelete, server_vars, main_vars
  <1>13. ASSUME NEW s \in Sessions, onRequest_page(s) \/ onConnectionDie(s) \/ onTimeout(s)
         PROVE  ServerTypes'
    BY <1>2, <1>13
    DEF onRequest_page, onConnectionDie, onTimeout, server_vars, thread_vars, main_vars
  <1>14. CASE UNCHANGED vars
    BY <1>2, <1>14 DEF vars, server_vars, thread_vars, main_vars
  <1>15. QED
    BY <1>3, <1>4, <1>5, <1>6, <1>7, <1>8, <1>9, <1>10, <1>11, <1>12, <1>13, <1>14
    DEF Next, MainNext, ThreadNext, SessionNext, ClientNext

-----------------------------------------------------------------------------
(* newConnection: the thread takes a session that serves nobody and is not *)
(* going to be deleted, or closes the connection.                          *)
Takes(t, s, c) ==
  /\ phase[t] = "running" /\ link' = link
  /\ conn[s] = None /\ s \notin deleted /\ home[s] \in {t, None}
  /\ \A u \in Threads : ~Doomed(u, s)
  /\ home' = [home EXCEPT ![s] = t]
  /\ conn' = [conn EXCEPT ![s] = c]
  /\ late' = IF home[s] # None /\ Pending(s) THEN late \cup {c} ELSE late
  /\ pool' \in [Threads -> Seq(Sessions)]
  /\ \A u \in Threads : /\ IsInjective(pool'[u]) /\ Len(pool'[u]) <= PoolSize
                        /\ ToSet(pool'[u]) = ToSet(pool[u]) \ {s}
TurnsAway(c) ==
  link' = [link EXCEPT ![c] = "closed"] /\ UNCHANGED << pool, home, conn, late >>

LEMMA ConnectionTaken ==
  ASSUME Types, Pooled, Serving, NEW t \in Threads, newConnection(t)
  PROVE  \E c \in Conns :
           /\ Carries(t, 1, c) /\ posted[t] # << >>
           /\ posted' = [posted EXCEPT ![t] = Tail(@)]
           /\ phase' = phase /\ deleted' = deleted
           /\ TurnsAway(c) \/ \E s \in Sessions : Takes(t, s, c)
  <1>1. /\ posted[t] \in Seq(Events) /\ posted[t] # << >>
        /\ Head(posted[t]).kind = "connection"
        /\ posted' = [posted EXCEPT ![t] = Tail(@)]
        /\ phase' = phase /\ deleted' = deleted
    BY DEF newConnection, Next_, SessionTypes, Types
  <1>2. PICK c \in Conns : c = Head(posted[t]).conn
    BY <1>1, TailOfSeq, EventKinds
  <1>3. Carries(t, 1, c)
    BY <1>1, <1>2, TailOfSeq DEF Carries
  <1>4. CASE phase[t] = "running"
    <2>1. PICK s \in Sessions : setSession(t, s, c) /\ link' = link
      BY <1>2, <1>4 DEF newConnection
    <2>2. \A u \in Threads : /\ pool[u] \in Seq(Sessions) /\ Len(pool[u]) \in Nat
                             /\ IsInjective(pool[u]) /\ Len(pool[u]) <= PoolSize
                             /\ ToSet(pool[u]) \subseteq Sessions
      BY LenProperties, ToSetOfSeq DEF SessionTypes, Types, Pooled
    <2>3. /\ home' = [home EXCEPT ![s] = t] /\ conn' = [conn EXCEPT ![s] = c]
          /\ late' = IF home[s] # None /\ Pending(s) THEN late \cup {c} ELSE late
      BY <2>1 DEF setSession
    <2>4. CASE pool[t] = << >>
      <3>1. home[s] = None /\ pool' = pool
        BY <2>1, <2>4 DEF setSession, SessionTypes, Types
      <3>2. conn[s] = None /\ s \notin deleted
        BY <3>1 DEF Serving, NoneAssumption
      <3>3. \A u \in Threads : s \notin ToSet(pool[u])
        BY <3>1 DEF Pooled, NoneAssumption
      <3>4. \A u \in Threads : ~Doomed(u, s)
        BY <3>1 DEF Pooled, NoneAssumption
      <3>5. Takes(t, s, c)
        BY <1>4, <2>1, <2>2, <2>3, <3>1, <3>2, <3>3, <3>4 DEF Takes, SessionTypes, Types
      <3>6. QED
        BY <1>1, <1>3, <3>5
    <2>5. CASE pool[t] # << >>
      <3>1. s = Last(pool[t]) /\ pool' = [pool EXCEPT ![t] = Front(@)]
        BY <2>1, <2>5 DEF setSession
      <3>2. /\ s \in ToSet(pool[t])
            /\ Front(pool[t]) \in Seq(Sessions) /\ IsInjective(Front(pool[t]))
            /\ ToSet(Front(pool[t])) = ToSet(pool[t]) \ {s}
        BY <2>2, <2>5, <3>1, FrontOfList
      <3>3. home[s] = t /\ conn[s] = None /\ s \notin deleted
        BY <3>2 DEF Pooled
      <3>4. \A u \in Threads : ~Doomed(u, s)
        BY <3>2, <3>3 DEF Pooled
      <3>5. \A u \in Threads : u # t => s \notin ToSet(pool[u])
        BY <3>3 DEF Pooled
      <3>6. Len(Front(pool[t])) <= PoolSize
        <4>1. Len(pool[t]) \in Nat \ {0} /\ \A i \in 1..Len(pool[t]) : pool[t][i] \in Sessions
          BY <2>2, <2>5, EmptySeq, ElementOfSeq
        <4>2. Len(SubSeq(pool[t], 1, Len(pool[t]) - 1)) <= Len(pool[t])
          BY <4>1, SubSeqProperties
        <4>3. Len(Front(pool[t])) \in Nat
          BY <3>2, LenProperties
        <4>4. QED
          BY <2>2, <4>2, <4>3 DEF Front, PoolAssumption
      <3>7. /\ pool' \in [Threads -> Seq(Sessions)]
            /\ pool'[t] = Front(pool[t])
            /\ \A u \in Threads : u # t => pool'[u] = pool[u]
        BY <3>1, <3>2 DEF SessionTypes, Types
      <3>8. \A u \in Threads : /\ IsInjective(pool'[u]) /\ Len(pool'[u]) <= PoolSize
                               /\ ToSet(pool'[u]) = ToSet(pool[u]) \ {s}
        BY <2>2, <3>2, <3>5, <3>6, <3>7
      <3>9. Takes(t, s, c)
        BY <1>4, <2>1, <2>3, <3>3, <3>4, <3>7, <3>8 DEF Takes
      <3>10. QED
        BY <1>1, <1>3, <3>9
    <2>6. QED
      BY <2>4, <2>5
  <1>5. CASE phase[t] # "running"
    <2>1. TurnsAway(c)
      BY <1>2, <1>5 DEF newConnection, TurnsAway
    <2>2. QED
      BY <1>1, <1>3, <2>1
  <1>6. QED
    BY <1>4, <1>5

(* releaseSession: the session goes into the pool or will be deleted.      *)
LEMMA ConnectionGone ==
  ASSUME Types, Serving, NEW s \in Sessions, onConnectionDie(s)
  PROVE  \E t \in Threads : \E c \in Conns :
           /\ home[s] = t /\ conn[s] = c /\ phase[t] \in Working /\ s \notin deleted
           /\ conn' = [conn EXCEPT ![s] = None]
           /\ link' = [link EXCEPT ![c] = "closed"]
           /\ phase' = phase /\ home' = home /\ deleted' = deleted /\ queue' = queue
           /\ \/ /\ Len(pool[t]) < PoolSize /\ posted' = posted
                 /\ pool' = [pool EXCEPT ![t] = Append(@, s)]
              \/ /\ posted' = [posted EXCEPT ![t] =
                                 Append(@, [kind |-> "delete", session |-> s])]
                 /\ pool' = pool
  <1>1. conn[s] \in Conns /\ home[s] \in Threads /\ phase[home[s]] \in Working /\ s \notin deleted
    BY DEF onConnectionDie, SessionTypes, Types, Serving
  <1>2. QED
    BY <1>1 DEF onConnectionDie, releaseSession, Released, main_vars

(* incomingConnection: to a thread that runs, when there is one.           *)
LEMMA ConnectionAccepted ==
  ASSUME Types, Stopping, NEW c \in Conns, incomingConnection(c)
  PROVE  /\ link[c] = "new"
         /\ UNCHANGED << phase, pool, home, conn, deleted, queue >>
         /\ \/ posted' = posted /\ link' = link
            \/ \E t \in Threads :
                 /\ phase[t] = "running"
                 /\ link' = [link EXCEPT ![c] = "accepted"]
                 /\ posted' = [posted EXCEPT ![t] =
                                 Append(@, [kind |-> "connection", conn |-> c])]
  <1>1. /\ link[c] = "new" /\ listening /\ closing = None
        /\ UNCHANGED << phase, pool, home, conn, deleted, queue >>
    BY DEF incomingConnection, MainFree, session_vars, main_vars
  <1>2. CASE threads = << >>
    BY <1>1, <1>2 DEF incomingConnection
  <1>3. CASE threads # << >>
    <2>1. PICK n : n = Len(threads)
      OBVIOUS
    <2>2. n \in Nat \ {0} /\ ringIndex \in Nat
      BY <1>3, <2>1, EmptySeq DEF ServerTypes, Types
    <2>3. (ringIndex % n) + 1 \in 1..n
      BY <2>2
    <2>4. PICK t : t = NextThread
      OBVIOUS
    <2>5. t \in Threads /\ phase[t] = "running"
      BY <1>1, <2>1, <2>3, <2>4, ElementOfSeq DEF NextThread, Stopping, ServerTypes, Types
    <2>6. /\ link' = [link EXCEPT ![c] = "accepted"]
          /\ posted' = [posted EXCEPT ![t] = Append(@, [kind |-> "connection", conn |-> c])]
      BY <1>3, <2>4 DEF incomingConnection
    <2>7. QED
      BY <1>1, <2>5, <2>6
  <1>4. QED
    BY <1>2, <1>3

(* Main's answer is posted to the thread of the session.                   *)
LEMMA CallServed ==
  ASSUME Types, Called, serve
  PROVE  /\ queue # << >> /\ queue' = Tail(queue)
         /\ UNCHANGED << phase, pool, home, conn, deleted, link >>
         /\ \/ posted' = posted
            \/ \E t \in Threads : \E e \in AnswerEvents :
                 posted' = [posted EXCEPT ![t] = Append(@, e)]
  <1>1. /\ queue \in Seq(Calls) /\ queue # << >> /\ queue' = Tail(queue)
        /\ UNCHANGED << phase, pool, home, conn, deleted, link >>
    BY DEF serve, ServerTypes, Types, conn_vars, session_vars
  <1>2. PICK e \in Calls : e = Head(queue) /\ home[e.session] \in Threads
    BY <1>1, TailOfSeq DEF Called
  <1> DEFINE a == [kind |-> "answer", session |-> e.session,
                   answer |-> Answer(e.slot, e.vendor)]
  <1>3. a \in AnswerEvents
    BY DEF AnswerEvents, Calls
  <1>4. posted' = posted \/ posted' = [posted EXCEPT ![home[e.session]] = Append(@, a)]
    BY <1>2 DEF serve
  <1> HIDE DEF a
  <1>5. QED
    BY <1>1, <1>2, <1>3, <1>4

LEMMA SessionTypesNext ==
  ASSUME Types, Stopping, Pooled, Serving, Called, [Next]_vars
  PROVE  SessionTypes'
  <1>1. ASSUME UNCHANGED << pool, posted, home, conn, deleted >> PROVE SessionTypes'
    BY <1>1 DEF SessionTypes, Types
  <1>2. /\ posted \in [Threads -> Seq(Events)]
        /\ \A t \in Threads : \A e \in Events : Append(posted[t], e) \in Seq(Events)
    BY AppendToList DEF SessionTypes, Types
  <1>3. ASSUME NEW c \in Conns, incomingConnection(c) PROVE SessionTypes'
    <2>1. [kind |-> "connection", conn |-> c] \in Events
      BY DEF Events, ConnectionEvents
    <2>2. /\ UNCHANGED << pool, home, conn, deleted >>
          /\ \/ posted' = posted
             \/ \E t \in Threads : posted' = [posted EXCEPT ![t] =
                  Append(@, [kind |-> "connection", conn |-> c])]
      BY <1>3, ConnectionAccepted
    <2>3. posted' \in [Threads -> Seq(Events)]
      BY ZenonT(30), <1>2, <2>1, <2>2
    <2>4. QED
      BY <2>2, <2>3 DEF SessionTypes, Types
  <1>4. CASE serve
    <2>1. AnswerEvents \subseteq Events
      BY DEF Events
    <2>2. posted' \in [Threads -> Seq(Events)]
      BY ZenonT(30), <1>2, <1>4, <2>1, CallServed
    <2>3. QED
      BY <1>4, <2>2, CallServed DEF SessionTypes, Types
  <1>5. ASSUME NEW t \in Threads, newConnection(t) PROVE SessionTypes'
    <2>1. PICK c \in Conns :
            /\ posted[t] # << >> /\ posted' = [posted EXCEPT ![t] = Tail(@)]
            /\ deleted' = deleted
            /\ TurnsAway(c) \/ \E s \in Sessions : Takes(t, s, c)
      BY <1>5, ConnectionTaken
    <2>2. posted' \in [Threads -> Seq(Events)]
      BY <1>2, <2>1, PostLess
    <2>3. CASE TurnsAway(c)
      BY <2>1, <2>2, <2>3 DEF TurnsAway, SessionTypes, Types
    <2>4. ASSUME NEW s \in Sessions, Takes(t, s, c) PROVE SessionTypes'
      BY <2>1, <2>2, <2>4 DEF Takes, SessionTypes, Types
    <2>5. QED
      BY <2>1, <2>3, <2>4
  <1>6. ASSUME NEW t \in Threads, writeResponse(t) \/ DeferredDelete(t) PROVE SessionTypes'
    <2>1. posted[t] # << >> /\ posted' = [posted EXCEPT ![t] = Tail(@)]
      BY <1>6 DEF writeResponse, DeferredDelete, Next_
    <2>2. /\ posted' \in [Threads -> Seq(Events)]
          /\ posted[t][1] \in Events /\ Head(posted[t]) = posted[t][1]
      BY <1>2, <2>1, PostLess
    <2>3. DeferredDelete(t) => Head(posted[t]).session \in Sessions
      BY <2>2, EventKinds DEF DeferredDelete, Next_
    <2>4. deleted' \subseteq Sessions
      BY <1>6, <2>3 DEF writeResponse, DeferredDelete, session_vars, SessionTypes, Types
    <2>5. QED
      BY <1>6, <2>2, <2>4 DEF writeResponse, DeferredDelete, session_vars, SessionTypes, Types
  <1>7. ASSUME NEW t \in Threads, run_end(t) PROVE SessionTypes'
    <2>1. << >> \in Seq(Sessions)
      OBVIOUS
    <2>2. QED
      BY <1>7, <2>1 DEF run_end, SessionTypes, Types
  <1>8. ASSUME NEW s \in Sessions, onConnectionDie(s) PROVE SessionTypes'
    <2>1. PICK t \in Threads :
            /\ conn' = [conn EXCEPT ![s] = None] /\ home' = home /\ deleted' = deleted
            /\ \/ posted' = posted /\ pool' = [pool EXCEPT ![t] = Append(@, s)]
               \/ /\ posted' = [posted EXCEPT ![t] =
                                  Append(@, [kind |-> "delete", session |-> s])]
                  /\ pool' = pool
      BY <1>8, ConnectionGone
    <2>2. [kind |-> "delete", session |-> s] \in Events
      BY DEF Events, DeleteEvents
    <2>3. posted' \in [Threads -> Seq(Events)]
      BY <1>2, <2>1, <2>2
    <2>4. Append(pool[t], s) \in Seq(Sessions)
      BY AppendToList DEF SessionTypes, Types
    <2>5. QED
      BY <2>1, <2>3, <2>4 DEF SessionTypes, Types
  <1>9. ASSUME NEW c \in Conns, Leave(c) \/ \E r \in Requests[c] : Ask(c, r) PROVE SessionTypes'
    BY <1>1, <1>9 DEF Leave, Ask, thread_vars, session_vars
  <1>10. ASSUME NEW n \in 1..Cardinality(Threads), setThreadsNumber(n) PROVE SessionTypes'
    BY <1>1, <1>10 DEF setThreadsNumber, thread_vars, session_vars
  <1>11. CASE start \/ stop \/ stop_next
    BY <1>1, <1>11 DEF start, stop, stop_next, session_vars
  <1>12. ASSUME NEW s \in Sessions, onRequest_page(s) \/ onRequest_control(s) \/ onTimeout(s)
         PROVE  SessionTypes'
    BY <1>1, <1>12 DEF onRequest_page, onRequest_control, onTimeout, thread_vars, session_vars
  <1>13. CASE UNCHANGED vars
    BY <1>1, <1>13 DEF vars, thread_vars, session_vars
  <1>14. QED
    BY <1>3, <1>4, <1>5, <1>6, <1>7, <1>8, <1>9, <1>10, <1>11, <1>12, <1>13
    DEF Next, MainNext, ThreadNext, SessionNext, ClientNext

(* Where an event that is posted afterwards was before.                    *)
LEMMA PostedThen ==
  ASSUME NEW p \in [Threads -> Seq(Events)], NEW t \in Threads, NEW q
  PROVE  /\ p[t] # << >> /\ q = [p EXCEPT ![t] = Tail(@)] =>
              \A u \in Threads : \A i \in 1..Len(q[u]) :
                \E j \in 1..Len(p[u]) : q[u][i] = p[u][j]
         /\ \A e \in Events : q = [p EXCEPT ![t] = Append(@, e)] =>
              \A u \in Threads : \A i \in 1..Len(q[u]) :
                \/ \E j \in 1..Len(p[u]) : q[u][i] = p[u][j]
                \/ u = t /\ q[u][i] = e
  <1>1. ASSUME p[t] # << >>, q = [p EXCEPT ![t] = Tail(@)],
               NEW u \in Threads, NEW i \in 1..Len(q[u])
        PROVE  \E j \in 1..Len(p[u]) : q[u][i] = p[u][j]
    <2>1. /\ Len(p[t]) \in Nat /\ Len(q[t]) = Len(p[t]) - 1
          /\ \A k \in 1..Len(p[t]) - 1 : q[t][k] = p[t][k + 1]
          /\ u # t => q[u] = p[u]
      BY <1>1, PostLess
    <2>2. CASE u = t
      <3>1. i \in 1..Len(p[t]) - 1 /\ i + 1 \in 1..Len(p[t])
        BY <2>1, <2>2
      <3>2. QED
        BY <2>1, <2>2, <3>1
    <2>3. QED
      BY <2>1, <2>2
  <1>2. ASSUME NEW e \in Events, q = [p EXCEPT ![t] = Append(@, e)],
               NEW u \in Threads, NEW i \in 1..Len(q[u])
        PROVE  \/ \E j \in 1..Len(p[u]) : q[u][i] = p[u][j]
               \/ u = t /\ q[u][i] = e
    <2>1. /\ Len(p[t]) \in Nat /\ Len(q[t]) = Len(p[t]) + 1
          /\ \A k \in 1..Len(p[t]) : q[t][k] = p[t][k]
          /\ q[t][Len(p[t]) + 1] = e
          /\ u # t => q[u] = p[u]
      BY <1>2, PostMore
    <2>2. CASE u = t
      <3>1. i \in 1..Len(p[t]) \/ i = Len(p[t]) + 1
        BY <2>1, <2>2
      <3>2. QED
        BY <2>1, <2>2, <3>1
    <2>3. QED
      BY <2>1, <2>2
  <1>3. QED
    BY <1>1, <1>2

LEMMA DoomedThen ==
  ASSUME posted \in [Threads -> Seq(Events)],
         NEW t \in Threads, NEW u \in Threads, NEW s, Doomed(u, s)'
  PROVE  /\ posted[t] # << >> /\ posted' = [posted EXCEPT ![t] = Tail(@)] => Doomed(u, s)
         /\ \A e \in Events : posted' = [posted EXCEPT ![t] = Append(@, e)] =>
              Doomed(u, s) \/ (u = t /\ e.kind = "delete" /\ e.session = s)
  <1>1. PICK i \in 1..Len(posted'[u]) :
          posted'[u][i].kind = "delete" /\ posted'[u][i].session = s
    BY DEF Doomed
  <1>2. ASSUME NEW j \in 1..Len(posted[u]), posted'[u][i] = posted[u][j]
        PROVE  Doomed(u, s)
    BY <1>1, <1>2 DEF Doomed
  <1>3. ASSUME posted[t] # << >>, posted' = [posted EXCEPT ![t] = Tail(@)]
        PROVE  Doomed(u, s)
    BY <1>2, <1>3, PostedThen
  <1>4. ASSUME NEW e \in Events, posted' = [posted EXCEPT ![t] = Append(@, e)]
        PROVE  Doomed(u, s) \/ (u = t /\ e.kind = "delete" /\ e.session = s)
    BY <1>1, <1>2, <1>4, PostedThen
  <1>5. QED
    BY <1>3, <1>4

LEMMA StoppingNext ==
  ASSUME Types, Stopping, [Next]_vars
  PROVE  Stopping'
  <1>1. ASSUME UNCHANGED << phase, closing, stopped, threads, listening >> PROVE Stopping'
    BY <1>1 DEF Stopping
  <1>2. /\ Len(threads) \in Nat
        /\ \A i \in 1..Len(threads) : threads[i] \in Threads
        /\ DOMAIN threads = 1..Len(threads)
    BY LenProperties, ElementOfSeq DEF ServerTypes, Types
  <1>3. ASSUME NEW n \in 1..Cardinality(Threads), setThreadsNumber(n) PROVE Stopping'
    BY <1>3 DEF setThreadsNumber, MainFree, Stopping, thread_vars, main_vars
  <1>4. CASE start
    <2>1. \A i \in 1..Len(threads) : threads[i] \in ToSet(threads)
      BY <1>2 DEF ToSet
    <2>2. QED
      BY <1>2, <1>4, <2>1 DEF start, Stopping, ServerTypes, Types, main_vars
  <1>5. CASE stop
    <2>1. threads[1] \in Threads
      BY <1>2, <1>5, EmptySeq DEF stop, ServerTypes, Types
    <2>2. QED
      BY <1>5, <2>1 DEF stop, Stopping, NoneAssumption
  <1>6. CASE stop_next
    <2> DEFINE left == {i \in DOMAIN threads : phase[threads[i]] # "gone"}
    <2>1. ASSUME left # {} PROVE threads[Min(left)] \in Threads
      <3>1. left \subseteq Nat /\ left \subseteq 1..Len(threads)
        BY <1>2
      <3> HIDE DEF left
      <3>2. QED
        BY <1>2, <2>1, <3>1, LeastOfSet
    <2>2. /\ \/ left = {} /\ threads' = << >> /\ closing' = None /\ phase' = phase
             \/ /\ left # {} /\ closing' = threads[Min(left)]
                /\ phase' = [phase EXCEPT ![threads[Min(left)]] = "quitting"]
          /\ stopped' = stopped /\ closing # None
      BY <1>6 DEF stop_next
    <2> HIDE DEF left
    <2>3. CASE left = {}
      BY <2>2, <2>3 DEF Stopping
    <2>4. CASE left # {}
      BY <2>1, <2>2, <2>4 DEF Stopping, NoneAssumption
    <2>5. QED
      BY <2>3, <2>4
  <1>7. ASSUME NEW t \in Threads, run_end(t) PROVE Stopping'
    BY <1>2, <1>7 DEF run_end, Stopping, ServerTypes, Types, server_vars, main_vars
  <1>8. ASSUME NEW c \in Conns,
               Leave(c) \/ incomingConnection(c) \/ \E r \in Requests[c] : Ask(c, r)
        PROVE  Stopping'
    BY <1>1, <1>8 DEF Leave, incomingConnection, Ask, server_vars, thread_vars, main_vars
  <1>9. ASSUME NEW t \in Threads,
               newConnection(t) \/ writeResponse(t) \/ DeferredDelete(t)
        PROVE  Stopping'
    BY <1>1, <1>9 DEF newConnection, writeResponse, DeferredDelete, server_vars, main_vars
  <1>10. ASSUME NEW s \in Sessions,
                \/ onRequest_page(s) \/ onRequest_control(s)
                \/ onConnectionDie(s) \/ onTimeout(s)
         PROVE  Stopping'
    BY <1>1, <1>10 DEF onRequest_page, onRequest_control, onConnectionDie, onTimeout,
       server_vars, thread_vars, main_vars
  <1>11. CASE serve \/ UNCHANGED vars
    BY <1>1, <1>11 DEF serve, vars, server_vars, thread_vars, main_vars
  <1>12. QED
    BY <1>3, <1>4, <1>5, <1>6, <1>7, <1>8, <1>9, <1>10, <1>11
    DEF Next, MainNext, ThreadNext, SessionNext, ClientNext

LEMMA PooledNext ==
  ASSUME Types, Stopping, Pooled, Serving, Called, [Next]_vars
  PROVE  Pooled'
  <1>1. ASSUME UNCHANGED << pool, posted, home, conn, deleted >> PROVE Pooled'
    BY <1>1 DEF Pooled, Doomed
  <1>2. /\ posted \in [Threads -> Seq(Events)]
        /\ \A u \in Threads : pool[u] \in Seq(Sessions) /\ ToSet(pool[u]) \subseteq Sessions
    BY ToSetOfSeq DEF SessionTypes, Types
  (* the pools stay and no session is to be deleted that was not before    *)
  <1>3. ASSUME UNCHANGED << pool, home, conn, deleted >>,
               \A u \in Threads : \A s \in Sessions : Doomed(u, s)' => Doomed(u, s)
        PROVE  Pooled'
    BY <1>3 DEF Pooled
  <1>4. ASSUME NEW c \in Conns, incomingConnection(c) PROVE Pooled'
    <2> DEFINE e == [kind |-> "connection", conn |-> c]
    <2>1. e \in Events /\ e.kind # "delete"
      BY DEF Events, ConnectionEvents
    <2>2. /\ UNCHANGED << pool, home, conn, deleted >>
          /\ \/ posted' = posted
             \/ \E t \in Threads : posted' = [posted EXCEPT ![t] = Append(@, e)]
      BY <1>4, ConnectionAccepted
    <2> HIDE DEF e
    <2>3. ASSUME NEW t \in Threads, posted' = [posted EXCEPT ![t] = Append(@, e)],
                 NEW u \in Threads, NEW s \in Sessions, Doomed(u, s)'
          PROVE  Doomed(u, s)
      BY <1>2, <2>1, <2>3, DoomedThen
    <2>4. QED
      BY <1>1, <1>3, <2>2, <2>3
  <1>5. CASE serve
    <2>1. /\ UNCHANGED << pool, home, conn, deleted >>
          /\ \/ posted' = posted
             \/ \E t \in Threads : \E e \in AnswerEvents :
                  posted' = [posted EXCEPT ![t] = Append(@, e)]
      BY <1>5, CallServed
    <2>2. \A e \in AnswerEvents : e \in Events /\ e.kind # "delete"
      BY DEF Events, AnswerEvents
    <2>3. ASSUME NEW t \in Threads, NEW e \in AnswerEvents,
                 posted' = [posted EXCEPT ![t] = Append(@, e)],
                 NEW u \in Threads, NEW s \in Sessions, Doomed(u, s)'
          PROVE  Doomed(u, s)
      BY <1>2, <2>2, <2>3, DoomedThen
    <2>4. QED
      BY <1>1, <1>3, <2>1, <2>3
  <1>6. ASSUME NEW t \in Threads, newConnection(t) PROVE Pooled'
    <2>1. PICK c \in Conns :
            /\ posted[t] # << >> /\ posted' = [posted EXCEPT ![t] = Tail(@)]
            /\ deleted' = deleted
            /\ TurnsAway(c) \/ \E s \in Sessions : Takes(t, s, c)
      BY <1>6, ConnectionTaken
    <2>2. \A u \in Threads : \A s \in Sessions : Doomed(u, s)' => Doomed(u, s)
      BY <1>2, <2>1, DoomedThen
    <2>3. CASE TurnsAway(c)
      BY <1>3, <2>1, <2>2, <2>3 DEF TurnsAway
    <2>4. ASSUME NEW s \in Sessions, Takes(t, s, c) PROVE Pooled'
      <3>1. \A u \in Threads : /\ IsInjective(pool'[u]) /\ Len(pool'[u]) <= PoolSize
                               /\ ToSet(pool'[u]) = ToSet(pool[u]) \ {s}
        BY <2>4 DEF Takes
      <3>2. \A r \in Sessions \ {s} : home'[r] = home[r] /\ conn'[r] = conn[r]
        BY <2>4 DEF Takes, SessionTypes, Types
      <3>3. ASSUME NEW u \in Threads, NEW r \in ToSet(pool'[u])
            PROVE  home'[r] = u /\ conn'[r] = None /\ r \notin deleted'
        <4>1. r \in ToSet(pool[u]) /\ r \in Sessions \ {s}
          BY <1>2, <3>1, <3>3
        <4>2. home[r] = u /\ conn[r] = None /\ r \notin deleted
          BY <4>1 DEF Pooled
        <4>3. QED
          BY <2>1, <3>2, <4>1, <4>2
      <3>4. \A u \in Threads : \A r \in Sessions : Doomed(u, r)' =>
              home'[r] = u /\ conn'[r] = None /\ r \notin ToSet(pool'[u])
        BY <2>2, <2>4, <3>1, <3>2 DEF Pooled, Takes
      <3>5. QED
        BY <3>1, <3>3, <3>4 DEF Pooled
    <2>5. QED
      BY <2>1, <2>3, <2>4
  <1>7. ASSUME NEW t \in Threads, writeResponse(t) \/ DeferredDelete(t) PROVE Pooled'
    <2>1. /\ posted[t] # << >> /\ posted' = [posted EXCEPT ![t] = Tail(@)]
          /\ UNCHANGED << pool, home, conn >>
      BY <1>7 DEF writeResponse, DeferredDelete, Next_, session_vars
    <2>2. \A u \in Threads : \A s \in Sessions : Doomed(u, s)' => Doomed(u, s)
      BY <1>2, <2>1, DoomedThen
    <2>3. CASE writeResponse(t)
      BY <1>3, <2>1, <2>2, <2>3 DEF writeResponse, session_vars
    <2>4. CASE DeferredDelete(t)
      <3>1. /\ 1 \in 1..Len(posted[t]) /\ Head(posted[t]) = posted[t][1]
            /\ posted[t][1] \in Events
        BY <1>2, <2>1, PostLess
      <3>2. PICK s : s = posted[t][1].session
        OBVIOUS
      <3>3. /\ deleted' = deleted \cup {s}
            /\ posted[t][1].kind = "delete"
        BY <2>4, <3>1, <3>2 DEF DeferredDelete, Next_
      <3>4. s \in Sessions /\ Doomed(t, s)
        BY <3>1, <3>2, <3>3, EventKinds DEF Doomed
      <3>5. \A u \in Threads : s \notin ToSet(pool[u])
        BY <3>4 DEF Pooled
      <3>6. QED
        BY <2>1, <2>2, <3>3, <3>5 DEF Pooled
    <2>5. QED
      BY <1>7, <2>3, <2>4
  <1>8. ASSUME NEW s \in Sessions, onConnectionDie(s) PROVE Pooled'
    <2>1. PICK t \in Threads : \E c \in Conns :
            /\ home[s] = t /\ conn[s] = c /\ s \notin deleted
            /\ conn' = [conn EXCEPT ![s] = None] /\ home' = home /\ deleted' = deleted
            /\ \/ /\ Len(pool[t]) < PoolSize /\ posted' = posted
                  /\ pool' = [pool EXCEPT ![t] = Append(@, s)]
               \/ /\ posted' = [posted EXCEPT ![t] =
                                  Append(@, [kind |-> "delete", session |-> s])]
                  /\ pool' = pool
      BY <1>8, ConnectionGone
    <2>2. \A u \in Threads : s \notin ToSet(pool[u]) /\ ~Doomed(u, s)
      BY <2>1 DEF Pooled, NoneAssumption
    <2>3. /\ conn'[s] = None
          /\ \A r \in Sessions : conn[r] = None => conn'[r] = None
      BY <2>1 DEF SessionTypes, Types
    <2>4. CASE posted' = posted /\ Len(pool[t]) < PoolSize
               /\ pool' = [pool EXCEPT ![t] = Append(@, s)]
      <3>1. /\ pool'[t] = Append(pool[t], s)
            /\ \A u \in Threads : u # t => pool'[u] = pool[u]
        BY <2>4 DEF SessionTypes, Types
      <3>2. IsInjective(pool[t]) /\ pool[t] \in Seq(Sessions) /\ s \notin ToSet(pool[t])
        BY <1>2, <2>2 DEF Pooled
      <3>3. /\ Len(Append(pool[t], s)) = Len(pool[t]) + 1 /\ Len(pool[t]) \in Nat
            /\ ToSet(Append(pool[t], s)) = ToSet(pool[t]) \cup {s}
            /\ IsInjective(Append(pool[t], s))
        BY <3>2, AppendToList, LenProperties
      <3>4. /\ IsInjective(pool'[t]) /\ Len(pool'[t]) <= PoolSize
            /\ ToSet(pool'[t]) = ToSet(pool[t]) \cup {s}
        BY <2>4, <3>1, <3>3 DEF PoolAssumption
      <3>5. \A u \in Threads : /\ IsInjective(pool'[u]) /\ Len(pool'[u]) <= PoolSize
        BY <3>1, <3>4 DEF Pooled
      <3>6. ASSUME NEW u \in Threads, NEW r \in ToSet(pool'[u])
            PROVE  home'[r] = u /\ conn'[r] = None /\ r \notin deleted'
        <4>1. r \in ToSet(pool[u]) \/ (r = s /\ u = t)
          BY <3>1, <3>4, <3>6
        <4>2. CASE r \in ToSet(pool[u])
          <5>1. home[r] = u /\ conn[r] = None /\ r \notin deleted /\ r \in Sessions
            BY <1>2, <4>2 DEF Pooled
          <5>2. QED
            BY <2>1, <2>3, <5>1
        <4>3. CASE r = s /\ u = t
          BY <2>1, <2>3, <4>3
        <4>4. QED
          BY <4>1, <4>2, <4>3
      <3>7. ASSUME NEW u \in Threads, NEW r \in Sessions, Doomed(u, r)'
            PROVE  home'[r] = u /\ conn'[r] = None /\ r \notin ToSet(pool'[u])
        <4>1. Doomed(u, r)
          BY <2>4, <3>7 DEF Doomed
        <4>2. home[r] = u /\ conn[r] = None /\ r \notin ToSet(pool[u]) /\ r # s
          BY <2>2, <4>1 DEF Pooled
        <4>3. r \notin ToSet(pool'[u])
          BY <3>1, <3>4, <4>2
        <4>4. QED
          BY <2>1, <2>3, <4>2, <4>3
      <3>8. QED
        BY <3>5, <3>6, <3>7 DEF Pooled
    <2>5. CASE pool' = pool /\ posted' = [posted EXCEPT ![t] =
                                 Append(@, [kind |-> "delete", session |-> s])]
      <3>1. PICK e \in Events : e = [kind |-> "delete", session |-> s]
        BY DEF Events, DeleteEvents
      <3>2. posted' = [posted EXCEPT ![t] = Append(@, e)] /\ e.session = s
        BY <2>5, <3>1
      <3>3. \A u \in Threads : \A r \in Sessions : Doomed(u, r)' =>
              Doomed(u, r) \/ (u = t /\ s = r)
        BY <1>2, <3>2, DoomedThen
      <3>4. \A u \in Threads : \A r \in ToSet(pool[u]) :
              home'[r] = u /\ conn'[r] = None /\ r \notin deleted'
        BY <1>2, <2>1, <2>3 DEF Pooled
      <3>5. \A u \in Threads : \A r \in Sessions : Doomed(u, r)' =>
              home'[r] = u /\ conn'[r] = None /\ r \notin ToSet(pool[u])
        BY <2>1, <2>2, <2>3, <3>3 DEF Pooled
      <3>6. QED
        BY <2>5, <3>4, <3>5 DEF Pooled
    <2>6. QED
      BY <2>1, <2>4, <2>5
  <1>9. ASSUME NEW t \in Threads, run_end(t) PROVE Pooled'
    <2>1. /\ pool' = [pool EXCEPT ![t] = << >>]
          /\ \A s \in Sessions : conn[s] = None => conn'[s] = None
          /\ deleted' = deleted \cup {s \in Sessions : home[s] = t}
          /\ UNCHANGED << posted, home >>
      BY <1>9 DEF run_end
    <2>2. IsInjective(<< >>) /\ ToSet(<< >>) = {} /\ Len(<< >>) = 0
      BY DEF IsInjective, ToSet
    <2>3. ASSUME NEW u \in Threads
          PROVE  /\ IsInjective(pool'[u]) /\ Len(pool'[u]) <= PoolSize
                 /\ ToSet(pool'[u]) \subseteq ToSet(pool[u])
                 /\ \A r \in ToSet(pool'[u]) : home'[r] = u /\ conn'[r] = None /\ r \notin deleted'
      <3>1. CASE u = t
        BY <2>1, <2>2, <3>1 DEF PoolAssumption, SessionTypes, Types
      <3>2. CASE u # t
        BY <1>2, <2>1, <3>2 DEF Pooled, SessionTypes, Types
      <3>3. QED
        BY <3>1, <3>2
    <2>4. \A u \in Threads : \A s \in Sessions : Doomed(u, s)' => Doomed(u, s)
      BY <2>1 DEF Doomed
    <2>5. QED
      BY <2>1, <2>3, <2>4 DEF Pooled
  <1>10. ASSUME NEW c \in Conns, Leave(c) \/ \E r \in Requests[c] : Ask(c, r) PROVE Pooled'
    BY <1>1, <1>10 DEF Leave, Ask, thread_vars, session_vars
  <1>11. ASSUME NEW n \in 1..Cardinality(Threads), setThreadsNumber(n) PROVE Pooled'
    BY <1>1, <1>11 DEF setThreadsNumber, thread_vars, session_vars
  <1>12. CASE start \/ stop \/ stop_next
    BY <1>1, <1>12 DEF start, stop, stop_next, session_vars
  <1>13. ASSUME NEW s \in Sessions, onRequest_page(s) \/ onRequest_control(s) \/ onTimeout(s)
         PROVE  Pooled'
    BY <1>1, <1>13 DEF onRequest_page, onRequest_control, onTimeout, thread_vars, session_vars
  <1>14. CASE UNCHANGED vars
    BY <1>1, <1>14 DEF vars, thread_vars, session_vars
  <1>15. QED
    BY <1>4, <1>5, <1>6, <1>7, <1>8, <1>9, <1>10, <1>11, <1>12, <1>13, <1>14
    DEF Next, MainNext, ThreadNext, SessionNext, ClientNext

LEMMA ServingNext ==
  ASSUME Types, Stopping, Pooled, Serving, Carried, [Next]_vars
  PROVE  Serving'
  <1>1. ASSUME UNCHANGED << home, conn, deleted >>,
               \A t \in Threads : phase[t] \in Working => phase'[t] \in Working,
               \A c \in Conns : link'[c] = "new" => link[c] = "new"
        PROVE  Serving'
    BY <1>1 DEF Serving, SessionTypes, Types
  <1>2. ASSUME UNCHANGED << home, conn, deleted >>, phase' = phase,
               \/ link' = link
               \/ \E c \in Conns, v \in {"left", "accepted", "closed"} :
                    link' = [link EXCEPT ![c] = v]
        PROVE  Serving'
    BY <1>1, <1>2 DEF ConnTypes, Types
  <1>3. CASE start
    BY <1>1, <1>3 DEF start, ServerTypes, Types, Working, conn_vars, session_vars
  <1>4. CASE stop
    BY <1>1, <1>4 DEF stop, ServerTypes, Types, Working, conn_vars, session_vars
  <1>5. CASE stop_next
    <2>1. \/ phase' = phase
          \/ \E t : phase' = [phase EXCEPT ![t] = "quitting"]
      BY <1>5 DEF stop_next
    <2>2. \A t \in Threads : phase[t] \in Working => phase'[t] \in Working
      BY <2>1 DEF ServerTypes, Types, Working
    <2>3. QED
      BY <1>1, <1>5, <2>2 DEF stop_next, conn_vars, session_vars
  <1>6. ASSUME NEW c \in Conns, incomingConnection(c) PROVE Serving'
    <2>1. /\ UNCHANGED << phase, home, conn, deleted >>
          /\ link' = link \/ link' = [link EXCEPT ![c] = "accepted"]
      BY <1>6, ConnectionAccepted
    <2>2. QED
      BY <1>2, <2>1
  <1>7. ASSUME NEW t \in Threads, newConnection(t) PROVE Serving'
    <2>1. PICK c \in Conns :
            /\ Carries(t, 1, c) /\ posted[t] # << >>
            /\ phase' = phase /\ deleted' = deleted
            /\ TurnsAway(c) \/ \E s \in Sessions : Takes(t, s, c)
      BY <1>7, ConnectionTaken
    <2>2. CASE TurnsAway(c)
      BY <1>2, <2>1, <2>2 DEF TurnsAway
    <2>3. ASSUME NEW s \in Sessions, Takes(t, s, c) PROVE Serving'
      <3>1. /\ link[c] # "new" /\ phase[t] \in Working
            /\ \A r \in Sessions : conn[r] # c
        BY <2>1 DEF Carried, Carries
      <3>2. /\ home' = [home EXCEPT ![s] = t] /\ conn' = [conn EXCEPT ![s] = c]
            /\ link' = link /\ s \notin deleted
        BY <2>3 DEF Takes
      <3>3. ASSUME NEW r \in Sessions, conn'[r] # None
            PROVE  /\ home'[r] \in Threads /\ phase'[home'[r]] \in Working
                   /\ r \notin deleted' /\ link'[conn'[r]] # "new"
        BY <2>1, <3>1, <3>2, <3>3 DEF Serving, SessionTypes, Types
      <3>4. \A r, u \in Sessions : conn'[r] = conn'[u] /\ conn'[r] # None => r = u
        BY <3>1, <3>2 DEF Serving, SessionTypes, Types
      <3>5. \A r \in deleted' : home'[r] # None
        BY <2>1, <3>2 DEF Serving, SessionTypes, Types, NoneAssumption
      <3>6. QED
        BY <3>3, <3>4, <3>5 DEF Serving
    <2>4. QED
      BY <2>1, <2>2, <2>3
  <1>8. ASSUME NEW t \in Threads, DeferredDelete(t) PROVE Serving'
    <2>1. /\ posted[t] # << >> /\ posted \in [Threads -> Seq(Events)]
          /\ posted[t] \in Seq(Events)
          /\ UNCHANGED << phase, home, conn, link >>
      BY <1>8 DEF DeferredDelete, Next_, conn_vars, SessionTypes, Types
    <2>2. /\ 1 \in 1..Len(posted[t]) /\ Head(posted[t]) = posted[t][1]
          /\ posted[t][1] \in Events
      BY <2>1, TailOfSeq, ElementOfSeq
    <2>3. PICK s : s = posted[t][1].session
      OBVIOUS
    <2>4. deleted' = deleted \cup {s} /\ posted[t][1].kind = "delete"
      BY <1>8, <2>2, <2>3 DEF DeferredDelete, Next_
    <2>5. s \in Sessions /\ Doomed(t, s)
      BY <2>2, <2>3, <2>4, EventKinds DEF Doomed
    <2>6. home[s] = t /\ conn[s] = None
      BY <2>5 DEF Pooled
    <2>7. QED
      BY <2>1, <2>4, <2>6 DEF Serving, NoneAssumption
  <1>9. ASSUME NEW s \in Sessions, onConnectionDie(s) PROVE Serving'
    <2>1. PICK t \in Threads, c \in Conns :
            /\ conn' = [conn EXCEPT ![s] = None]
            /\ link' = [link EXCEPT ![c] = "closed"]
            /\ phase' = phase /\ home' = home /\ deleted' = deleted
      BY <1>9, ConnectionGone
    <2>2. QED
      BY <2>1 DEF Serving, SessionTypes, ConnTypes, Types
  <1>10. ASSUME NEW t \in Threads, run_end(t) PROVE Serving'
    <2>1. /\ home' = home
          /\ deleted' = deleted \cup {s \in Sessions : home[s] = t}
          /\ \A s \in Sessions : conn'[s] = IF home[s] = t THEN None ELSE conn[s]
          /\ \A u \in Threads \ {t} : phase'[u] = phase[u]
          /\ \A c \in Conns : link'[c] = link[c] \/ link'[c] = "closed"
      BY <1>10 DEF run_end, ServerTypes, Types
    <2>2. ASSUME NEW s \in Sessions, conn'[s] # None
          PROVE  /\ home'[s] \in Threads /\ phase'[home'[s]] \in Working
                 /\ s \notin deleted' /\ link'[conn'[s]] # "new"
      <3>1. home[s] # t /\ conn'[s] = conn[s]
        BY <2>1, <2>2
      <3>2. /\ home[s] \in Threads /\ phase[home[s]] \in Working
            /\ s \notin deleted /\ link[conn[s]] # "new" /\ conn[s] \in Conns
        BY <2>2, <3>1 DEF Serving, SessionTypes, Types
      <3>3. link'[conn[s]] # "new"
        BY <2>1, <3>2
      <3>4. QED
        BY <2>1, <3>1, <3>2, <3>3
    <2>3. \A s, u \in Sessions : conn'[s] = conn'[u] /\ conn'[s] # None => s = u
      BY <2>1 DEF Serving
    <2>4. \A s \in deleted' : home'[s] # None
      BY <2>1 DEF Serving, NoneAssumption
    <2>5. QED
      BY <2>2, <2>3, <2>4 DEF Serving
  <1>11. ASSUME NEW s \in Sessions, onRequest_page(s) \/ onTimeout(s) PROVE Serving'
    <2>1. conn[s] \in Conns
      BY <1>11 DEF onRequest_page, onTimeout, HasRequest, SessionTypes, Types
    <2>2. QED
      BY <1>2, <1>11, <2>1 DEF onRequest_page, onTimeout, thread_vars, session_vars
  <1>12. ASSUME NEW c \in Conns, Leave(c) \/ \E r \in Requests[c] : Ask(c, r) PROVE Serving'
    BY <1>2, <1>12 DEF Leave, Ask, thread_vars, session_vars
  <1>13. ASSUME NEW n \in 1..Cardinality(Threads), setThreadsNumber(n) PROVE Serving'
    BY <1>2, <1>13 DEF setThreadsNumber, conn_vars, thread_vars, session_vars
  <1>14. ASSUME NEW t \in Threads, writeResponse(t) PROVE Serving'
    BY <1>2, <1>14 DEF writeResponse, session_vars
  <1>15. ASSUME NEW s \in Sessions, onRequest_control(s) PROVE Serving'
    BY <1>2, <1>15 DEF onRequest_control, thread_vars, session_vars
  <1>16. CASE serve \/ UNCHANGED vars
    BY <1>2, <1>16 DEF serve, vars, conn_vars, thread_vars, session_vars
  <1>17. QED
    BY <1>3, <1>4, <1>5, <1>6, <1>7, <1>8, <1>9, <1>10, <1>11, <1>12, <1>13,
       <1>14, <1>15, <1>16
    DEF Next, MainNext, ThreadNext, SessionNext, ClientNext

(* A connection that is on its way, before and after.                      *)
LEMMA CarriesOn ==
  ASSUME posted \in [Threads -> Seq(Events)], NEW t \in Threads, posted[t] # << >>,
         posted' = [posted EXCEPT ![t] = Tail(@)],
         NEW u \in Threads, NEW c, NEW i
  PROVE  /\ Carries(u, i, c)' => Carries(u, IF u = t THEN i + 1 ELSE i, c)
         /\ Carries(u, i, c) /\ ~(u = t /\ i = 1) =>
              Carries(u, IF u = t THEN i - 1 ELSE i, c)'
  <1>1. /\ Len(posted[t]) \in Nat /\ Len(posted'[t]) = Len(posted[t]) - 1
        /\ \A k \in 1..Len(posted[t]) - 1 : posted'[t][k] = posted[t][k + 1]
        /\ u # t => posted'[u] = posted[u]
    BY PostLess
  <1>2. CASE u # t
    BY <1>1, <1>2 DEF Carries
  <1>3. CASE u = t
    <2>1. ASSUME Carries(t, i, c)' PROVE Carries(t, i + 1, c)
      <3>1. i \in 1..Len(posted[t]) - 1 /\ i + 1 \in 1..Len(posted[t])
        BY <1>1, <2>1 DEF Carries
      <3>2. QED
        BY <1>1, <2>1, <3>1 DEF Carries
    <2>2. ASSUME Carries(t, i, c), i # 1 PROVE Carries(t, i - 1, c)'
      <3>1. i - 1 \in 1..Len(posted[t]) - 1 /\ (i - 1) + 1 = i
        BY <1>1, <2>2 DEF Carries
      <3>2. posted'[t][i - 1] = posted[t][i]
        BY <1>1, <3>1
      <3>3. QED
        BY <1>1, <2>2, <3>1, <3>2 DEF Carries
    <2>3. QED
      BY <1>3, <2>1, <2>2
  <1>4. QED
    BY <1>2, <1>3

LEMMA CarriesMore ==
  ASSUME posted \in [Threads -> Seq(Events)], NEW t \in Threads, NEW e \in Events,
         posted' = [posted EXCEPT ![t] = Append(@, e)]
  PROVE  /\ \A u \in Threads : \A c, i :
              /\ Carries(u, i, c)' =>
                   \/ Carries(u, i, c)
                   \/ /\ u = t /\ i = Len(posted[t]) + 1
                      /\ e.kind = "connection" /\ e.conn = c
              /\ Carries(u, i, c) => Carries(u, i, c)'
         /\ e.kind = "connection" => \E i : Carries(t, i, e.conn)'
  <1>1. /\ Len(posted[t]) \in Nat /\ Len(posted'[t]) = Len(posted[t]) + 1
        /\ \A k \in 1..Len(posted[t]) : posted'[t][k] = posted[t][k]
        /\ posted'[t][Len(posted[t]) + 1] = e
        /\ \A u \in Threads : u # t => posted'[u] = posted[u]
    BY PostMore
  <1>2. PICK n \in Nat : n = Len(posted[t])
    BY <1>1
  <1>3. n + 1 \in 1..n + 1 /\ \A k \in 1..n + 1 : k \in 1..n \/ k = n + 1
    BY <1>2
  <1>4. \A k \in 1..n : k \in 1..n + 1
    BY <1>2
  <1>5. e.kind = "connection" => \E i : Carries(t, i, e.conn)'
    <2>1. n + 1 \in 1..Len(posted'[t]) /\ posted'[t][n + 1] = e
      BY <1>1, <1>2, <1>3
    <2>2. QED
      BY <2>1 DEF Carries
  <1>6. ASSUME NEW u \in Threads, NEW c, NEW i
        PROVE  /\ Carries(u, i, c)' =>
                    \/ Carries(u, i, c)
                    \/ /\ u = t /\ i = Len(posted[t]) + 1
                       /\ e.kind = "connection" /\ e.conn = c
               /\ Carries(u, i, c) => Carries(u, i, c)'
    <2>1. CASE u # t
      BY <1>1, <2>1 DEF Carries
    <2>2. CASE u = t
      BY <1>1, <1>2, <1>3, <1>4, <2>2 DEF Carries
    <2>3. QED
      BY <2>1, <2>2
  <1>7. QED
    BY <1>5, <1>6

(* Steps that bring no connection: what is on its way was so before, and   *)
(* who is not on the way any more has got a session, or is gone.           *)
LEMMA CarriedKept ==
  ASSUME Types, Carried,
         \A u \in Threads : \A c \in Conns : \A i : Carries(u, i, c)' =>
           /\ \E j : Carries(u, j, c)
           /\ \A v \in Threads : \A j : Carries(v, j, c)' => u = v /\ i = j
           /\ phase'[u] \in Working
           /\ \A s \in Sessions : conn'[s] # c,
         \A c \in Conns : link'[c] = "new" => link[c] = "new",
         \A c \in Conns : link'[c] = "accepted" =>
           /\ link[c] = "accepted"
           /\ \A s \in Sessions : conn[s] = c => conn'[s] = c
           /\ \A u \in Threads : \A i : Carries(u, i, c) =>
                (\E s \in Sessions : conn'[s] = c) \/ \E j : Carries(u, j, c)'
  PROVE  Carried'
  <1>1. \A u, c, i : /\ Carries(u, i, c) => i \in 1..Len(posted[u])
                     /\ Carries(u, i, c)' => i \in 1..Len(posted'[u])
    BY DEF Carries
  <1>2. ASSUME NEW c \in Conns, NEW u \in Threads, NEW i, Carries(u, i, c)'
        PROVE  link'[c] # "new"
    <2>1. PICK j : Carries(u, j, c)
      BY <1>2
    <2>2. link[c] # "new"
      BY <1>1, <2>1 DEF Carried
    <2>3. QED
      BY <2>2
  <1>3. ASSUME NEW c \in Conns, link'[c] = "accepted"
        PROVE  \/ \E s \in Sessions : conn'[s] = c
               \/ \E u \in Threads : \E i \in 1..Len(posted'[u]) : Carries(u, i, c)'
    <2>1. \/ \E s \in Sessions : conn[s] = c
          \/ \E u \in Threads : \E i : Carries(u, i, c)
      BY <1>3 DEF Carried
    <2>2. \/ \E s \in Sessions : conn'[s] = c
          \/ \E u \in Threads : \E i : Carries(u, i, c)'
      BY <1>3, <2>1
    <2>3. QED
      BY <1>1, <2>2
  <1>4. QED
    BY <1>2, <1>3 DEF Carried

(* What holds of the connections on their way.                             *)
LEMMA OnTheWay ==
  ASSUME Carried, NEW u \in Threads, NEW c \in Conns, NEW i, Carries(u, i, c)
  PROVE  /\ i \in 1..Len(posted[u])
         /\ phase[u] \in Working /\ link[c] # "new"
         /\ \A s \in Sessions : conn[s] # c
         /\ \A v \in Threads : \A j : Carries(v, j, c) => u = v /\ i = j
  <1>1. i \in 1..Len(posted[u]) /\ \A v, j : Carries(v, j, c) => j \in 1..Len(posted[v])
    BY DEF Carries
  <1>2. QED
    BY <1>1 DEF Carried

(* ... those that leave what is posted as it is, ...                       *)
LEMMA CarriedStays ==
  ASSUME Types, Carried, posted' = posted,
         \A t \in Threads : phase[t] \in Working /\ posted[t] # << >> => phase'[t] \in Working,
         \A s \in Sessions : conn'[s] = conn[s] \/ conn'[s] = None,
         \A c \in Conns : link'[c] = "new" => link[c] = "new",
         \A c \in Conns : link'[c] = "accepted" =>
           link[c] = "accepted" /\ \A s \in Sessions : conn[s] = c => conn'[s] = c
  PROVE  Carried'
  <1>1. \A u, c, i : Carries(u, i, c)' <=> Carries(u, i, c)
    BY DEF Carries
  <1>2. ASSUME NEW u \in Threads, NEW c \in Conns, NEW i, Carries(u, i, c)'
        PROVE  /\ \E j : Carries(u, j, c)
               /\ \A v \in Threads : \A j : Carries(v, j, c)' => u = v /\ i = j
               /\ phase'[u] \in Working
               /\ \A s \in Sessions : conn'[s] # c
    <2>1. Carries(u, i, c)
      BY <1>1, <1>2
    <2>2. posted[u] # << >>
      <3>1. i \in 1..Len(posted[u])
        BY <2>1, OnTheWay
      <3>2. Len(<< >>) = 0
        OBVIOUS
      <3>3. QED
        BY <3>1, <3>2
    <2>3. QED
      BY <1>1, <2>1, <2>2, OnTheWay DEF NoneAssumption
  <1>3. QED
    BY <1>1, <1>2, CarriedKept

(* ... or post something else, ...                                         *)
LEMMA CarriedPast ==
  ASSUME Types, Carried, NEW t \in Threads, NEW e \in Events, e.kind # "connection",
         posted' = [posted EXCEPT ![t] = Append(@, e)], phase' = phase,
         \A s \in Sessions : conn'[s] = conn[s] \/ conn'[s] = None,
         \A c \in Conns : link'[c] = "new" => link[c] = "new",
         \A c \in Conns : link'[c] = "accepted" =>
           link[c] = "accepted" /\ \A s \in Sessions : conn[s] = c => conn'[s] = c
  PROVE  Carried'
  <1>1. \A u \in Threads : \A c, i : Carries(u, i, c)' <=> Carries(u, i, c)
    BY CarriesMore DEF SessionTypes, Types
  <1>2. \A u \in Threads : \A c \in Conns : \A i : Carries(u, i, c)' =>
          /\ \E j : Carries(u, j, c)
          /\ \A v \in Threads : \A j : Carries(v, j, c)' => u = v /\ i = j
          /\ phase'[u] \in Working
          /\ \A s \in Sessions : conn'[s] # c
    BY <1>1, OnTheWay DEF NoneAssumption
  <1>3. QED
    BY <1>1, <1>2, CarriedKept

(* ... or take what has been posted first.                                 *)
LEMMA CarriedOn ==
  ASSUME Types, Carried, NEW t \in Threads, posted[t] # << >>,
         posted' = [posted EXCEPT ![t] = Tail(@)], phase' = phase,
         \A c \in Conns : link'[c] = "new" => link[c] = "new",
         \A c \in Conns : link'[c] = "accepted" =>
           /\ link[c] = "accepted"
           /\ Carries(t, 1, c) => \E s \in Sessions : conn'[s] = c,
         \A s \in Sessions : \A c \in Conns :
           /\ conn[s] = c => conn'[s] = c
           /\ conn'[s] = c => conn[s] = c \/ Carries(t, 1, c)
  PROVE  Carried'
  <1> DEFINE was(u, i) == IF u = t THEN i + 1 ELSE i
  <1>1. ASSUME NEW u \in Threads, NEW c \in Conns, NEW i
        PROVE  /\ Carries(u, i, c)' => Carries(u, was(u, i), c) /\ i \in 1..Len(posted'[u])
               /\ Carries(u, i, c) /\ ~(u = t /\ i = 1) => \E j : Carries(u, j, c)'
    <2>1. Carries(u, i, c)' => i \in 1..Len(posted'[u])
      BY DEF Carries
    <2>2. posted \in [Threads -> Seq(Events)]
      BY DEF SessionTypes, Types
    <2>3. /\ Carries(u, i, c)' => Carries(u, IF u = t THEN i + 1 ELSE i, c)
          /\ Carries(u, i, c) /\ ~(u = t /\ i = 1) =>
               Carries(u, IF u = t THEN i - 1 ELSE i, c)'
      BY <2>2, CarriesOn
    <2>4. QED
      BY <2>1, <2>3
  <1>2. ASSUME NEW u \in Threads, NEW c \in Conns, NEW i, Carries(u, i, c)'
        PROVE  /\ \E j : Carries(u, j, c)
               /\ \A v \in Threads : \A j : Carries(v, j, c)' => u = v /\ i = j
               /\ phase'[u] \in Working
               /\ \A s \in Sessions : conn'[s] # c
    <2>1. Carries(u, was(u, i), c) /\ i \in Int /\ i >= 1
      BY <1>1, <1>2
    <2>2. ASSUME NEW v \in Threads, NEW j, Carries(v, j, c)' PROVE u = v /\ i = j
      <3>1. Carries(v, was(v, j), c) /\ j \in Int
        BY <1>1, <2>2
      <3>2. u = v /\ was(u, i) = was(v, j)
        BY <2>1, <3>1, OnTheWay
      <3>3. QED
        BY <2>1, <3>1, <3>2
    <2>3. ~Carries(t, 1, c)
      <3>1. SUFFICES ASSUME Carries(t, 1, c) PROVE FALSE
        OBVIOUS
      <3>2. u = t /\ was(u, i) = 1
        BY <2>1, <3>1, OnTheWay
      <3>3. QED
        BY <2>1, <3>2
    <2>4. phase[u] \in Working /\ \A s \in Sessions : conn[s] # c
      BY <2>1, OnTheWay
    <2>5. QED
      BY <2>1, <2>2, <2>3, <2>4
  <1>3. QED
    BY <1>1, <1>2, CarriedKept

LEMMA CalledNext ==
  ASSUME Types, Stopping, Pooled, Serving, Carried, Called, [Next]_vars
  PROVE  Called'
  <1>1. /\ queue \in Seq(Calls) /\ Len(queue) \in Nat
        /\ \A i \in 1..Len(queue) : queue[i].session \in Sessions /\ queue[i].caller \in Conns
    <2>1. queue \in Seq(Calls)
      BY DEF ServerTypes, Types
    <2>2. \A e \in Calls : e.session \in Sessions /\ e.caller \in Conns
      BY DEF Calls
    <2>3. QED
      BY <2>1, <2>2, LenProperties, ElementOfSeq
  <1>2. ASSUME queue' = queue,
               \A s \in Sessions : home[s] \in Threads => home'[s] \in Threads,
               \A c \in Conns : link[c] = "closed" => link'[c] = "closed",
               \A s \in Sessions : \A c \in Conns :
                 conn[s] = c => conn'[s] = c \/ link'[c] = "closed"
        PROVE  Called'
    BY <1>1, <1>2 DEF Called
  <1>3. ASSUME UNCHANGED << queue, home, conn >>,
               \A c \in Conns : link[c] = "closed" => link'[c] = "closed"
        PROVE  Called'
    BY <1>2, <1>3
  <1>4. ASSUME NEW c \in Conns, incomingConnection(c) PROVE Called'
    <2>1. /\ link[c] = "new" /\ UNCHANGED << home, conn, queue >>
          /\ link' = link \/ link' = [link EXCEPT ![c] = "accepted"]
      BY <1>4, ConnectionAccepted
    <2>2. \A d \in Conns : link[d] = "closed" => link'[d] = "closed"
      BY <2>1 DEF ConnTypes, Types
    <2>3. QED
      BY <1>3, <2>1, <2>2
  <1>5. CASE serve
    <2>1. queue # << >> /\ queue' = Tail(queue) /\ UNCHANGED << home, conn, link >>
      BY <1>5, CallServed
    <2>2. /\ Len(queue') = Len(queue) - 1
          /\ \A i \in 1..Len(queue) - 1 : queue'[i] = queue[i + 1]
      BY <1>1, <2>1, TailOfSeq
    <2>3. \A i \in 1..Len(queue') : i \in 1..Len(queue) - 1 /\ i + 1 \in 1..Len(queue)
      BY <1>1, <2>2
    <2>4. QED
      BY <2>1, <2>2, <2>3 DEF Called
  <1>6. ASSUME NEW s \in Sessions, onRequest_control(s) PROVE Called'
    <2>1. UNCHANGED << home, conn, link >> /\ home[s] # None
      BY <1>6 DEF onRequest_control, HasRequest, thread_vars, session_vars
    <2>2. CASE queue' = queue
      BY <1>3, <2>1, <2>2
    <2>3. ASSUME NEW call_ \in Calls, call_.session = s, call_.caller = conn[s],
                 queue' = Append(queue, call_)
          PROVE  Called'
      <3>1. /\ Len(queue') = Len(queue) + 1
            /\ \A i \in 1..Len(queue) : queue'[i] = queue[i]
            /\ queue'[Len(queue) + 1] = call_
        BY <1>1, <2>3, AppendProperties
      <3>2. \A i \in 1..Len(queue') : i \in 1..Len(queue) \/ i = Len(queue) + 1
        BY <1>1, <3>1
      <3>3. home[s] \in Threads
        BY <2>1 DEF SessionTypes, Types
      <3>4. QED
        BY <2>1, <2>3, <3>1, <3>2, <3>3 DEF Called
    <2>4. QED
      BY <1>6, <2>2, <2>3, RequestPosted
  <1>7. ASSUME NEW t \in Threads, newConnection(t) PROVE Called'
    <2>1. PICK c \in Conns : TurnsAway(c) \/ \E s \in Sessions : Takes(t, s, c)
      BY <1>7, ConnectionTaken
    <2>2. queue' = queue
      BY <1>7 DEF newConnection, main_vars
    <2>3. CASE TurnsAway(c)
      BY <1>3, <2>2, <2>3 DEF TurnsAway, ConnTypes, Types
    <2>4. ASSUME NEW s \in Sessions, Takes(t, s, c) PROVE Called'
      <3>1. /\ link' = link /\ conn[s] = None
            /\ home' = [home EXCEPT ![s] = t] /\ conn' = [conn EXCEPT ![s] = c]
        BY <2>4 DEF Takes
      <3>2. \A r \in Sessions : home[r] \in Threads => home'[r] \in Threads
        BY <3>1 DEF SessionTypes, Types
      <3>3. \A r \in Sessions : \A d \in Conns : conn[r] = d => conn'[r] = d
        BY <3>1 DEF SessionTypes, Types, NoneAssumption
      <3>4. QED
        BY <1>2, <2>2, <3>1, <3>2, <3>3
    <2>5. QED
      BY <2>1, <2>3, <2>4
  <1>8. ASSUME NEW s \in Sessions, onConnectionDie(s) PROVE Called'
    <2>1. PICK t \in Threads, c \in Conns :
            /\ conn[s] = c /\ conn' = [conn EXCEPT ![s] = None]
            /\ link' = [link EXCEPT ![c] = "closed"]
            /\ home' = home /\ queue' = queue
      BY <1>8, ConnectionGone
    <2>2. QED
      BY <1>2, <2>1 DEF SessionTypes, ConnTypes, Types
  <1>9. ASSUME NEW t \in Threads, run_end(t) PROVE Called'
    <2>1. /\ home' = home /\ queue' = queue
          /\ \A s \in Sessions : conn'[s] = IF home[s] = t THEN None ELSE conn[s]
          /\ \A c \in Conns : link[c] = "closed" => link'[c] = "closed"
          /\ \A s \in Sessions : \A c \in Conns :
               home[s] = t /\ conn[s] = c => link'[c] = "closed"
      BY <1>9 DEF run_end, main_vars, NoneAssumption
    <2>2. QED
      BY <1>2, <2>1
  <1>10. ASSUME NEW s \in Sessions, onRequest_page(s) \/ onTimeout(s) PROVE Called'
    <2>1. UNCHANGED << queue, home, conn >>
      BY <1>10 DEF onRequest_page, onTimeout, session_vars, main_vars
    <2>2. link' = link \/ link' = [link EXCEPT ![conn[s]] = "closed"]
      BY <1>10 DEF onRequest_page, onTimeout
    <2>3. QED
      BY <1>3, <2>1, <2>2 DEF ConnTypes, Types
  <1>11. ASSUME NEW c \in Conns, Leave(c) \/ \E r \in Requests[c] : Ask(c, r) PROVE Called'
    BY <1>3, <1>11 DEF Leave, Ask, ConnTypes, Types, session_vars, main_vars
  <1>12. ASSUME NEW n \in 1..Cardinality(Threads), setThreadsNumber(n) PROVE Called'
    BY <1>3, <1>12 DEF setThreadsNumber, conn_vars, session_vars, main_vars
  <1>13. ASSUME NEW t \in Threads, writeResponse(t) \/ DeferredDelete(t) PROVE Called'
    BY <1>3, <1>13 DEF writeResponse, DeferredDelete, conn_vars, session_vars, main_vars
  <1>14. CASE start \/ stop \/ stop_next \/ UNCHANGED vars
    BY <1>3, <1>14 DEF start, stop, stop_next, vars, conn_vars, session_vars, main_vars
  <1>15. QED
    BY <1>4, <1>5, <1>6, <1>7, <1>8, <1>9, <1>10, <1>11, <1>12, <1>13, <1>14
    DEF Next, MainNext, ThreadNext, SessionNext, ClientNext

LEMMA CarriedNext ==
  ASSUME Types, Stopping, Pooled, Serving, Carried, Called, [Next]_vars
  PROVE  Carried'
  <1>1. ASSUME UNCHANGED << posted, conn, phase >>,
               \/ link' = link
               \/ \E c \in Conns, v \in {"left", "closed"} : link' = [link EXCEPT ![c] = v]
        PROVE  Carried'
    <2>1. \A c \in Conns : /\ link'[c] = "new" => link[c] = "new"
                           /\ link'[c] = "accepted" => link[c] = "accepted"
      BY <1>1 DEF ConnTypes, Types
    <2>2. QED
      BY <1>1, <2>1, CarriedStays
  <1>2. CASE start \/ stop \/ stop_next
    <2>1. \/ \E v : phase' = [t \in Threads |-> IF t \in v THEN "running" ELSE phase[t]]
          \/ phase' = phase
          \/ \E t : phase' = [phase EXCEPT ![t] = "quitting"]
      BY <1>2 DEF start, stop, stop_next
    <2>2. \A t \in Threads : phase[t] \in Working => phase'[t] \in Working
      BY <2>1 DEF ServerTypes, Types, Working
    <2>3. UNCHANGED << posted, conn, link >>
      BY <1>2 DEF start, stop, stop_next, conn_vars, session_vars
    <2>4. QED
      BY <2>2, <2>3, CarriedStays
  <1>3. ASSUME NEW c \in Conns, incomingConnection(c) PROVE Carried'
    <2>1. link[c] = "new" /\ phase' = phase /\ conn' = conn
      BY <1>3, ConnectionAccepted
    <2>2. CASE posted' = posted /\ link' = link
      BY <1>1, <2>1, <2>2
    <2>3. ASSUME NEW t \in Threads, phase[t] = "running",
                 link' = [link EXCEPT ![c] = "accepted"],
                 posted' = [posted EXCEPT ![t] =
                              Append(@, [kind |-> "connection", conn |-> c])]
          PROVE  Carried'
      <3>1. PICK e \in Events : e = [kind |-> "connection", conn |-> c]
        BY DEF Events, ConnectionEvents
      <3>2. e.kind = "connection" /\ e.conn = c /\ posted' = [posted EXCEPT ![t] = Append(@, e)]
        BY <2>3, <3>1
      <3>3. PICK n : n = Len(posted[t]) + 1
        OBVIOUS
      <3>4. posted \in [Threads -> Seq(Events)]
        BY DEF SessionTypes, Types
      <3>5. \A u \in Threads : \A d, i :
              /\ Carries(u, i, d)' => Carries(u, i, d) \/ (u = t /\ i = n /\ d = c)
              /\ Carries(u, i, d) => Carries(u, i, d)'
        <4>1. posted' = [posted EXCEPT ![t] = Append(@, e)]
          BY <3>2
        <4>2. \A u \in Threads : \A d, i :
                /\ Carries(u, i, d)' =>
                     \/ Carries(u, i, d)
                     \/ /\ u = t /\ i = Len(posted[t]) + 1
                        /\ e.kind = "connection" /\ e.conn = d
                /\ Carries(u, i, d) => Carries(u, i, d)'
          BY <3>4, <4>1, CarriesMore
        <4>3. QED
          BY <3>2, <3>3, <4>2
      <3>6. \E j : Carries(t, j, c)'
        BY <3>2, <3>4, CarriesMore
      <3>7. /\ \A u \in Threads : \A i : ~Carries(u, i, c)
            /\ \A s \in Sessions : conn[s] # c
        BY <2>1, OnTheWay DEF Serving, NoneAssumption
      <3>8. ASSUME NEW u \in Threads, NEW d \in Conns, NEW i, Carries(u, i, d)'
            PROVE  /\ phase'[u] \in Working /\ link'[d] # "new"
                   /\ \A s \in Sessions : conn'[s] # d
                   /\ \A v \in Threads : \A j : Carries(v, j, d)' => u = v /\ i = j
        <4>1. CASE d = c
          <5>1. \A v \in Threads : \A j : Carries(v, j, c)' => v = t /\ j = n
            BY <3>5, <3>7
          <5>2. u = t /\ i = n
            BY <3>8, <4>1, <5>1
          <5>3. link'[c] = "accepted"
            BY <2>3 DEF ConnTypes, Types
          <5>4. QED
            BY <2>1, <2>3, <3>7, <4>1, <5>1, <5>2, <5>3 DEF Working
        <4>2. CASE d # c
          <5>1. Carries(u, i, d) /\ link'[d] = link[d]
            BY <2>3, <3>5, <3>8, <4>2
          <5>2. QED
            BY <2>1, <3>5, <4>2, <5>1, OnTheWay
        <4>3. QED
          BY <4>1, <4>2
      <3>9. ASSUME NEW d \in Conns, link'[d] = "accepted"
            PROVE  \/ \E s \in Sessions : conn'[s] = d
                   \/ \E u \in Threads : \E i : Carries(u, i, d)'
        <4>1. CASE d = c
          BY <3>6, <4>1
        <4>2. CASE d # c
          <5>1. link[d] = "accepted"
            BY <2>3, <3>9, <4>2
          <5>2. \/ \E s \in Sessions : conn[s] = d
                \/ \E u \in Threads : \E i : Carries(u, i, d)
            BY <5>1 DEF Carried
          <5>3. QED
            BY <2>1, <3>5, <5>2
        <4>3. QED
          BY <4>1, <4>2
      <3>10. \A u, d, i : Carries(u, i, d)' => i \in 1..Len(posted'[u])
        BY DEF Carries
      <3>11. QED
        BY <3>8, <3>9, <3>10 DEF Carried
    <2>4. QED
      BY <1>3, <2>2, <2>3, ConnectionAccepted
  <1>4. CASE serve
    <2>1. UNCHANGED << phase, conn, link >>
      BY <1>4, CallServed
    <2>2. CASE posted' = posted
      BY <1>1, <2>1, <2>2
    <2>3. ASSUME NEW t \in Threads, NEW e \in AnswerEvents,
                 posted' = [posted EXCEPT ![t] = Append(@, e)]
          PROVE  Carried'
      <3>1. e \in Events /\ e.kind # "connection"
        BY DEF Events, AnswerEvents
      <3>2. QED
        BY <2>1, <2>3, <3>1, CarriedPast
    <2>4. QED
      BY <1>4, <2>2, <2>3, CallServed
  <1>5. ASSUME NEW t \in Threads, newConnection(t) PROVE Carried'
    <2>1. PICK c \in Conns :
            /\ Carries(t, 1, c) /\ posted[t] # << >>
            /\ posted' = [posted EXCEPT ![t] = Tail(@)]
            /\ phase' = phase
            /\ TurnsAway(c) \/ \E s \in Sessions : Takes(t, s, c)
      BY <1>5, ConnectionTaken
    <2>2. \A d \in Conns : Carries(t, 1, d) => d = c
      BY <2>1 DEF Carries
    <2>3. CASE TurnsAway(c)
      <3>1. conn' = conn /\ link' = [link EXCEPT ![c] = "closed"]
        BY <2>3 DEF TurnsAway
      <3>2. link'[c] = "closed" /\ \A d \in Conns \ {c} : link'[d] = link[d]
        BY <3>1 DEF ConnTypes, Types
      <3>3. QED
        BY <2>1, <2>2, <3>1, <3>2, CarriedOn
    <2>4. ASSUME NEW s \in Sessions, Takes(t, s, c) PROVE Carried'
      <3>1. link' = link /\ conn[s] = None /\ conn' = [conn EXCEPT ![s] = c]
        BY <2>4 DEF Takes
      <3>2. conn'[s] = c /\ \A r \in Sessions \ {s} : conn'[r] = conn[r]
        BY <3>1 DEF SessionTypes, Types
      <3>3. \A r \in Sessions : \A d \in Conns :
              /\ conn[r] = d => conn'[r] = d
              /\ conn'[r] = d => conn[r] = d \/ Carries(t, 1, d)
        BY <2>1, <3>1, <3>2 DEF NoneAssumption
      <3>4. \A d \in Conns : link'[d] = "accepted" =>
              /\ link[d] = "accepted"
              /\ Carries(t, 1, d) => \E r \in Sessions : conn'[r] = d
        BY <2>2, <3>1, <3>2
      <3>5. \A d \in Conns : link'[d] = "new" => link[d] = "new"
        BY <3>1
      <3>6. QED
        BY <2>1, <3>3, <3>4, <3>5, CarriedOn
    <2>5. QED
      BY <2>1, <2>3, <2>4
  <1>6. ASSUME NEW t \in Threads, writeResponse(t) \/ DeferredDelete(t) PROVE Carried'
    <2>1. /\ posted[t] # << >> /\ posted' = [posted EXCEPT ![t] = Tail(@)]
          /\ UNCHANGED << phase, conn, link >> /\ Head(posted[t]).kind # "connection"
      BY <1>6 DEF writeResponse, DeferredDelete, Next_, conn_vars, session_vars
    <2>2. Head(posted[t]) = posted[t][1]
      BY <2>1, TailOfSeq DEF SessionTypes, Types
    <2>3. \A c \in Conns : ~Carries(t, 1, c)
      BY <2>1, <2>2 DEF Carries
    <2>4. QED
      BY <2>1, <2>3, CarriedOn
  <1>7. ASSUME NEW s \in Sessions, onConnectionDie(s) PROVE Carried'
    <2>1. PICK t \in Threads, c \in Conns :
            /\ conn[s] = c /\ phase' = phase
            /\ conn' = [conn EXCEPT ![s] = None]
            /\ link' = [link EXCEPT ![c] = "closed"]
            /\ \/ posted' = posted
               \/ posted' = [posted EXCEPT ![t] =
                               Append(@, [kind |-> "delete", session |-> s])]
      BY <1>7, ConnectionGone
    <2>2. /\ \A r \in Sessions : conn'[r] = conn[r] \/ (r = s /\ conn'[r] = None)
          /\ \A d \in Conns : /\ link'[d] = "new" => link[d] = "new"
                              /\ link'[d] = "accepted" => link[d] = "accepted" /\ d # c
      BY <2>1 DEF SessionTypes, ConnTypes, Types
    <2>3. CASE posted' = posted
      BY <2>1, <2>2, <2>3, CarriedStays
    <2>4. CASE posted' = [posted EXCEPT ![t] = Append(@, [kind |-> "delete", session |-> s])]
      <3>1. PICK e \in Events : e = [kind |-> "delete", session |-> s]
        BY DEF Events, DeleteEvents
      <3>2. posted' = [posted EXCEPT ![t] = Append(@, e)] /\ e.kind # "connection"
        BY <2>4, <3>1
      <3>3. QED
        BY <2>1, <2>2, <3>2, CarriedPast
    <2>5. QED
      BY <2>1, <2>3, <2>4
  <1>8. ASSUME NEW t \in Threads, run_end(t) PROVE Carried'
    <2>1. /\ posted' = posted /\ posted[t] = << >>
          /\ \A s \in Sessions : conn'[s] = IF home[s] = t THEN None ELSE conn[s]
          /\ \A u \in Threads \ {t} : phase'[u] = phase[u]
          /\ \A c \in Conns : /\ link'[c] = link[c] \/ link'[c] = "closed"
                              /\ \A s \in Sessions :
                                   home[s] = t /\ conn[s] = c => link'[c] = "closed"
      BY <1>8 DEF run_end, ServerTypes, Types, NoneAssumption
    <2>2. \A c \in Conns : /\ link'[c] = "new" => link[c] = "new"
                           /\ link'[c] = "accepted" =>
                                link[c] = "accepted" /\ \A s \in Sessions : conn[s] = c => conn'[s] = c
      BY <2>1
    <2>3. QED
      BY <2>1, <2>2, CarriedStays
  <1>9. ASSUME NEW s \in Sessions,
               onRequest_page(s) \/ onRequest_control(s) \/ onTimeout(s)
        PROVE  Carried'
    <2>1. conn[s] \in Conns
      BY <1>9 DEF onRequest_page, onRequest_control, onTimeout, HasRequest, SessionTypes, Types
    <2>2. QED
      BY <1>1, <1>9, <2>1
      DEF onRequest_page, onRequest_control, onTimeout, thread_vars, session_vars
  <1>10. ASSUME NEW c \in Conns, Leave(c) \/ \E r \in Requests[c] : Ask(c, r) PROVE Carried'
    BY <1>1, <1>10 DEF Leave, Ask, thread_vars, session_vars
  <1>11. ASSUME NEW n \in 1..Cardinality(Threads), setThreadsNumber(n) PROVE Carried'
    BY <1>1, <1>11 DEF setThreadsNumber, conn_vars, thread_vars, session_vars
  <1>12. CASE UNCHANGED vars
    BY <1>1, <1>12 DEF vars, conn_vars, thread_vars, session_vars
  <1>13. QED
    BY <1>2, <1>3, <1>4, <1>5, <1>6, <1>7, <1>8, <1>9, <1>10, <1>11, <1>12
    DEF Next, MainNext, ThreadNext, SessionNext, ClientNext

-----------------------------------------------------------------------------
THEOREM Invariance == Spec => []IInv
  <1>1. IInv /\ [Next]_vars => IInv'
    BY ConnTypesNext, ServerTypesNext, SessionTypesNext, StoppingNext, PooledNext,
       ServingNext, CarriedNext, CalledNext DEF IInv, Types
  <1>2. QED
    BY InvInit, <1>1, PTL DEF Spec

LEMMA InvImpliesLive == IInv => SessionsLive
  <1> SUFFICES ASSUME IInv PROVE SessionsLive
    OBVIOUS
  <1> USE DEF IInv, Types
  <1>1. \A e \in ToSet(queue) : \E i \in 1..Len(queue) : e = queue[i] /\ e \in Calls
    BY ToSetOfSeq DEF ServerTypes
  <1>2. TypeOK
    <2>1. ToSet(threads) \subseteq Threads
      BY ToSetOfSeq DEF ServerTypes
    <2>2. \A e \in ToSet(queue) : home[e.session] \in Threads /\ e.caller \in Conns
      BY <1>1 DEF Called, Calls
    <2>3. QED
      BY <2>1, <2>2 DEF TypeOK, ConnTypes, ServerTypes, SessionTypes, Pooled
  <1>3. \A e \in ToSet(queue) :
          e.session \in deleted => stopped \/ link[e.caller] \in {"left", "closed"}
    <2>1. ASSUME NEW e \in ToSet(queue), e.session \in deleted
          PROVE  link[e.caller] = "closed"
      <3>1. /\ e.session \in Sessions /\ e.caller \in Conns
            /\ conn[e.session] = e.caller \/ link[e.caller] = "closed"
        BY <1>1 DEF Called, Calls
      <3>2. conn[e.session] = None
        BY <2>1, <3>1 DEF Serving
      <3>3. QED
        BY <3>1, <3>2 DEF NoneAssumption
    <2>2. QED
      BY <2>1
  <1>4. ASSUME NEW c \in Conns, link[c] = "accepted"
        PROVE  LET holders == {s \in Sessions : conn[s] = c}
                   carriers == {t \in Threads : \E e \in ToSet(posted[t]) :
                                  e.kind = "connection" /\ e.conn = c}
               IN  /\ Cardinality(holders) + Cardinality(carriers) = 1
                   /\ holders \cap deleted = {}
                   /\ \A t \in carriers \cup {home[s] : s \in holders} :
                        phase[t] \in {"running", "quitting"}
    <2> DEFINE holders == {s \in Sessions : conn[s] = c}
               carriers == {t \in Threads : \E e \in ToSet(posted[t]) :
                              e.kind = "connection" /\ e.conn = c}
    <2>1. \A t \in Threads : t \in carriers <=> \E i : Carries(t, i, c)
      <3>1. \A t \in Threads : ToSet(posted[t]) = { posted[t][i] : i \in 1..Len(posted[t]) }
        BY ToSetOfSeq DEF SessionTypes
      <3>2. ASSUME NEW t \in Threads, NEW i, Carries(t, i, c)
            PROVE  posted[t][i] \in ToSet(posted[t])
        BY <3>1, <3>2 DEF Carries
      <3>3. \A t \in Threads : \A e \in ToSet(posted[t]) :
              \E i \in 1..Len(posted[t]) : e = posted[t][i]
        BY <3>1
      <3>4. ASSUME NEW t \in Threads
            PROVE  (\E e \in ToSet(posted[t]) : e.kind = "connection" /\ e.conn = c)
                     <=> \E i : Carries(t, i, c)
        BY <3>2, <3>3 DEF Carries
      <3>5. QED
        BY <3>4
    <2>2. \A t \in carriers : t \in Threads /\ phase[t] \in Working /\ holders = {}
      BY <2>1, OnTheWay
    <2>3. \A t, u \in carriers : t = u
      BY <2>1, OnTheWay
    <2>4. \A s \in holders : home[s] \in Threads /\ phase[home[s]] \in Working /\ s \notin deleted
      BY DEF Serving, NoneAssumption
    <2>5. \A s, u \in holders : s = u
      BY DEF Serving, NoneAssumption
    <2>6. holders # {} \/ carriers # {}
      BY <1>4, <2>1 DEF Carried
    <2> HIDE DEF holders, carriers
    <2>7. Cardinality(holders) + Cardinality(carriers) = 1
      <3>1. /\ Cardinality({}) = 0
            /\ \A x : Cardinality({x}) = 1
        BY FS_EmptySet, FS_Singleton
      <3>2. CASE carriers = {}
        <4>1. PICK s : holders = {s}
          BY <2>5, <2>6, <3>2
        <4>2. Cardinality(holders) = 1 /\ Cardinality(carriers) = 0
          BY <3>1, <3>2, <4>1
        <4>3. QED
          BY <4>2
      <3>3. CASE carriers # {}
        <4>1. PICK t \in carriers : TRUE
          BY <3>3
        <4>2. holders = {} /\ carriers = {t}
          BY <2>2, <2>3, <4>1
        <4>3. Cardinality(holders) = 0 /\ Cardinality(carriers) = 1
          BY <3>1, <4>2
        <4>4. QED
          BY <4>3
      <3>4. QED
        BY <3>2, <3>3
    <2>8. /\ holders \cap deleted = {}
          /\ \A t \in carriers \cup {home[s] : s \in holders} : phase[t] \in {"running", "quitting"}
      BY <2>2, <2>4 DEF Working
    <2>9. QED
      BY <2>7, <2>8 DEF holders, carriers
  <1>5. \A t \in Threads : /\ IsInjective(pool[t])
                           /\ \A s \in ToSet(pool[t]) :
                                home[s] = t /\ conn[s] = None /\ s \notin deleted
    BY DEF Pooled
  <1>6. QED
    BY <1>2, <1>3, <1>4, <1>5 DEF SessionsLive

(* A client that is being served has exactly one session, or is on its way *)
(* to one, that is not deleted and in a thread that lives, also while the  *)
(* server is being stopped; what is pooled is sound; and Main is posted no *)
(* call of a deleted session whose client could still wait for the answer. *)
(* (HttpSessionManager::releaseSession, HttpServer::stop.)                 *)
THEOREM SessionsStayLive == Spec => []SessionsLive
  BY Invariance, InvImpliesLive, PTL

-----------------------------------------------------------------------------
(* The function by which the fold of inserted is defined, on subsets of S. *)
Inserts(f, nodes, S) ==
  f = [s \in SUBSET S |->
         IF s = {} THEN NoArguments
         ELSE inserted(f[s \ {Max(s)}], nodes[Max(s)])]

LEMMA InsertedFold ==
  ASSUME NEW nodes
  PROVE  FoldLeft(inserted, NoArguments, nodes) =
           (CHOOSE f : Inserts(f, nodes, DOMAIN nodes))[DOMAIN nodes]
  BY DEF FoldLeft, MapThenFoldSet, Inserts

LEMMA LastOf ==
  ASSUME NEW k \in Nat, NEW s \in SUBSET (1..k), k \in s
  PROVE  Max(s) = k
  <1>1. \A n \in s : k >= n
    OBVIOUS
  <1>2. Max(s) \in s /\ \A n \in s : Max(s) >= n
    BY <1>1 DEF Max
  <1>3. PICK m \in s : m = Max(s)
    BY <1>2
  <1>4. m >= k /\ k >= m /\ m \in Nat
    BY <1>1, <1>2, <1>3
  <1>5. QED
    BY <1>3, <1>4

LEMMA InsertsUpTo ==
  ASSUME NEW nodes, NEW n \in Nat
  PROVE  \E f : Inserts(f, nodes, 1..n)
  <1> DEFINE T == { k \in Nat : ~ \E f : Inserts(f, nodes, 1..k) }
  <1>1. SUFFICES ASSUME T # {} PROVE FALSE
    OBVIOUS
  <1>2. PICK k \in T : \A j \in T : k <= j
    <2> HIDE DEF T
    <2>1. T \subseteq Nat
      BY DEF T
    <2>2. QED
      BY <1>1, <2>1, LeastOfSet
  <1>3. k # 0
    <2>1. Inserts([s \in SUBSET (1..0) |-> NoArguments], nodes, 1..0)
      <3>1. \A s \in SUBSET (1..0) : s = {}
        OBVIOUS
      <3>2. QED
        BY <3>1 DEF Inserts
    <2>2. QED
      BY <2>1
  <1>4. PICK j \in Nat : j = k - 1 /\ k = j + 1 /\ ~(k <= j)
    BY <1>3
  <1>5. PICK f : Inserts(f, nodes, 1..j)
    BY <1>2, <1>4
  <1> DEFINE g == [s \in SUBSET (1..k) |->
                     IF k \in s THEN inserted(f[s \ {k}], nodes[k]) ELSE f[s]]
  <1>6. Inserts(g, nodes, 1..k)
    <2>1. SUFFICES ASSUME NEW s \in SUBSET (1..k)
                   PROVE  g[s] = IF s = {} THEN NoArguments
                                 ELSE inserted(g[s \ {Max(s)}], nodes[Max(s)])
      BY DEF Inserts
    <2>2. CASE k \in s
      <3>1. Max(s) = k
        BY <2>2, LastOf
      <3>2. s \ {k} \in SUBSET (1..k) /\ k \notin s \ {k}
        OBVIOUS
      <3>3. g[s \ {k}] = f[s \ {k}]
        BY <3>2
      <3>4. QED
        BY <2>2, <3>1, <3>3
    <2>3. CASE k \notin s
      <3>1. s \in SUBSET (1..j)
        BY <1>4, <2>3
      <3>2. f[s] = IF s = {} THEN NoArguments
                   ELSE inserted(f[s \ {Max(s)}], nodes[Max(s)])
        BY <1>5, <3>1 DEF Inserts
      <3>3. PICK t : t = s \ {Max(s)}
        OBVIOUS
      <3>4. t \in SUBSET (1..k) /\ k \notin t
        BY <2>3, <3>3
      <3>5. g[t] = f[t] /\ g[s] = f[s]
        BY <2>3, <3>4
      <3>6. QED
        BY <3>2, <3>3, <3>5
    <2>4. QED
      BY <2>2, <2>3
  <1>7. QED
    BY <1>6

(* The arguments are those that were sent, when their names differ.        *)
LEMMA ArgumentsSent ==
  ASSUME NEW child, NEW S, child.nodes \in Seq(S),
         \A i, j \in DOMAIN child.nodes :
           child.nodes[i].name = child.nodes[j].name => i = j
  PROVE  FoldLeft(inserted, NoArguments, child.nodes) = Sent(child)
  <1> PICK nodes \in Seq(S) : nodes = child.nodes
    OBVIOUS
  <1> PICK n \in Nat : n = Len(nodes)
    BY LenProperties
  <1>1. DOMAIN nodes = 1..n /\ ToSet(nodes) = { nodes[i] : i \in 1..n }
    BY LenProperties, ToSetOfSeq
  <1>2. \A i, j \in 1..n : nodes[i].name = nodes[j].name => i = j
    BY <1>1
  <1>3. PICK f : Inserts(f, nodes, 1..n) /\ FoldLeft(inserted, NoArguments, nodes) = f[1..n]
    <2>1. \E h : Inserts(h, nodes, 1..n)
      BY InsertsUpTo
    <2>2. Inserts(CHOOSE h : Inserts(h, nodes, 1..n), nodes, 1..n)
      BY <2>1
    <2>3. QED
      BY <1>1, <2>2, InsertedFold
  <1> DEFINE names(k) == { nodes[i].name : i \in 1..k }
             at_(m) == CHOOSE i \in 1..n : nodes[i].name = m
             part(k) == [m \in names(k) |-> nodes[at_(m)].value]
             T == { k \in 0..n : f[1..k] # part(k) }
  <1>4. ASSUME NEW i \in 1..n PROVE at_(nodes[i].name) = i
    BY <1>2
  <1>5. T = {}
    <2>1. SUFFICES ASSUME T # {} PROVE FALSE
      OBVIOUS
    <2>2. PICK k \in T : \A j \in T : k <= j
      <3> HIDE DEF T
      <3>1. T \subseteq Nat
        BY DEF T
      <3>2. QED
        BY <2>1, <3>1, LeastOfSet
    <2>3. k \in 0..n /\ f[1..k] # part(k)
      OBVIOUS
    <2>4. k # 0
      <3>1. f[{}] = NoArguments
        BY <1>3 DEF Inserts
      <3>2. 1..0 = {}
        OBVIOUS
      <3>3. names(0) = {}
        BY <3>2
      <3>4. part(0) = << >>
        BY <3>3
      <3> HIDE DEF part
      <3>5. QED
        BY <2>3, <3>1, <3>2, <3>4 DEF NoArguments
    <2>5. PICK j \in Nat : j = k - 1 /\ k = j + 1 /\ ~(k <= j) /\ j \in 0..n /\ k \in 1..n
      BY <2>3, <2>4
    <2>6. f[1..j] = part(j)
      BY <2>2, <2>5
    <2>7. f[1..k] = inserted(part(j), nodes[k])
      <3>1. PICK s : s = 1..k
        OBVIOUS
      <3>2. s \in SUBSET (1..n) /\ s \in SUBSET (1..k) /\ k \in s /\ s # {}
        <4>1. \A i \in 1..k : i \in 1..n
          BY <2>5
        <4>2. k \in 1..k
          BY <2>5
        <4>3. QED
          BY <3>1, <4>1, <4>2
      <3>3. f[s] = inserted(f[s \ {Max(s)}], nodes[Max(s)])
        BY <1>3, <3>2 DEF Inserts
      <3>4. k \in Nat
        BY <2>5
      <3>5. Max(s) = k
        BY <3>2, <3>4, LastOf
      <3>6. s \ {k} = 1..j
        BY <2>5, <3>1
      <3> HIDE DEF part
      <3>7. QED
        BY <2>6, <3>1, <3>3, <3>5, <3>6
    <2>8. inserted(part(j), nodes[k]) = part(k)
      <3>1. names(k) = names(j) \cup {nodes[k].name}
        <4>1. 1..k = (1..j) \cup {k}
          BY <2>5
        <4>2. QED
          BY <4>1
      <3>2. at_(nodes[k].name) = k
        BY <1>4, <2>5
      <3> HIDE DEF names, at_
      <3>3. QED
        BY <3>1, <3>2 DEF inserted
    <2>9. QED
      BY <2>3, <2>7, <2>8
  <1>6. f[1..n] = part(n)
    <2> HIDE DEF part
    <2>1. n \in 0..n
      OBVIOUS
    <2>2. QED
      BY <1>5, <2>1
  <1>7. Sent(child) = part(n)
    <2>1. { node.name : node \in ToSet(nodes) } = names(n)
      BY <1>1
    <2>2. ASSUME NEW m \in names(n)
          PROVE  (CHOOSE node \in ToSet(nodes) : node.name = m) = nodes[at_(m)]
      <3>1. PICK i \in 1..n : m = nodes[i].name
        OBVIOUS
      <3>2. at_(m) = i
        BY <1>4, <3>1
      <3>3. nodes[i] \in ToSet(nodes)
        BY <1>1
      <3>4. \A node \in ToSet(nodes) : node.name = m => node = nodes[i]
        BY <1>1, <1>2, <3>1
      <3> HIDE DEF at_
      <3>5. QED
        BY <3>1, <3>2, <3>3, <3>4
    <2> HIDE DEF names, at_
    <2>3. Sent(child) = [m \in names(n) |->
                           (CHOOSE node \in ToSet(nodes) : node.name = m).value]
      BY <2>1 DEF Sent
    <2>4. QED
      BY <2>2, <2>3
  <1>8. QED
    BY <1>3, <1>6, <1>7

(* A fold over one element.                                                *)
LEMMA PartsOfOne ==
  ASSUME NEW x
  PROVE  /\ DOMAIN << x >> # {}
         /\ \A s \in SUBSET (DOMAIN << x >>) :
              s # {} => s \ {Max(s)} = {} /\ << x >>[Max(s)] = x
  <1>1. DOMAIN << x >> = {1} /\ << x >>[1] = x
    OBVIOUS
  <1>2. Max({1}) = 1
    <2>1. {1} \in SUBSET (1..1) /\ 1 \in {1} /\ 1 \in Nat
      OBVIOUS
    <2>2. QED
      BY <2>1, LastOf
  <1>3. \A s \in SUBSET {1} : s # {} => s = {1}
    OBVIOUS
  <1>4. {1} \ {1} = {}
    OBVIOUS
  <1>5. QED
    BY <1>1, <1>2, <1>3, <1>4

LEMMA ElementFold ==
  ASSUME NEW p, NEW x
  PROVE  FoldLeft(parseElement, p, << x >>) = parseElement(p, x)
  <1> DEFINE F(f) == f = [s \in SUBSET (DOMAIN << x >>) |->
                            IF s = {} THEN p
                            ELSE parseElement(f[s \ {Max(s)}], << x >>[Max(s)])]
             g == [s \in SUBSET (DOMAIN << x >>) |->
                     IF s = {} THEN p ELSE parseElement(p, x)]
  <1>1. FoldLeft(parseElement, p, << x >>) = (CHOOSE f : F(f))[DOMAIN << x >>]
    BY DEF FoldLeft, MapThenFoldSet
  <1>2. F(g)
    <2>1. ASSUME NEW s \in SUBSET (DOMAIN << x >>), s # {}
          PROVE  g[s] = parseElement(g[s \ {Max(s)}], << x >>[Max(s)])
      <3>1. s \ {Max(s)} = {} /\ << x >>[Max(s)] = x
        BY <2>1, PartsOfOne
      <3>2. g[{}] = p
        OBVIOUS
      <3>3. QED
        BY <2>1, <3>1, <3>2
    <2>2. QED
      BY <2>1
  <1>3. PICK f : F(f) /\ FoldLeft(parseElement, p, << x >>) = f[DOMAIN << x >>]
    <2> HIDE DEF F, g
    <2>1. F(CHOOSE f : F(f))
      BY <1>2
    <2>2. QED
      BY <1>1, <2>1
  <1> PICK s : s = DOMAIN << x >>
    OBVIOUS
  <1>4. s # {} /\ s \ {Max(s)} = {} /\ << x >>[Max(s)] = x
    BY PartsOfOne
  <1>5. f[{}] = p /\ f[s] = parseElement(f[s \ {Max(s)}], << x >>[Max(s)])
    BY <1>3, <1>4
  <1>6. QED
    BY <1>3, <1>4, <1>5

LEMMA ChildFold ==
  ASSUME NEW p, NEW x
  PROVE  FoldLeft(parseChild, p, << x >>) = parseChild(p, x)
  <1> DEFINE F(f) == f = [s \in SUBSET (DOMAIN << x >>) |->
                            IF s = {} THEN p
                            ELSE parseChild(f[s \ {Max(s)}], << x >>[Max(s)])]
             g == [s \in SUBSET (DOMAIN << x >>) |->
                     IF s = {} THEN p ELSE parseChild(p, x)]
  <1>1. FoldLeft(parseChild, p, << x >>) = (CHOOSE f : F(f))[DOMAIN << x >>]
    BY DEF FoldLeft, MapThenFoldSet
  <1>2. F(g)
    <2>1. ASSUME NEW s \in SUBSET (DOMAIN << x >>), s # {}
          PROVE  g[s] = parseChild(g[s \ {Max(s)}], << x >>[Max(s)])
      <3>1. s \ {Max(s)} = {} /\ << x >>[Max(s)] = x
        BY <2>1, PartsOfOne
      <3>2. g[{}] = p
        OBVIOUS
      <3>3. QED
        BY <2>1, <3>1, <3>2
    <2>2. QED
      BY <2>1
  <1>3. PICK f : F(f) /\ FoldLeft(parseChild, p, << x >>) = f[DOMAIN << x >>]
    <2> HIDE DEF F, g
    <2>1. F(CHOOSE f : F(f))
      BY <1>2
    <2>2. QED
      BY <1>1, <2>1
  <1> PICK s : s = DOMAIN << x >>
    OBVIOUS
  <1>4. s # {} /\ s \ {Max(s)} = {} /\ << x >>[Max(s)] = x
    BY PartsOfOne
  <1>5. f[{}] = p /\ f[s] = parseChild(f[s \ {Max(s)}], << x >>[Max(s)])
    BY <1>3, <1>4
  <1>6. QED
    BY <1>3, <1>4, <1>5

(* A proper message is read as it was meant.                               *)
LEMMA ProperIsRead ==
  ASSUME NEW c \in Conns, NEW r \in Requests[c], Proper(r.message)
  PROVE  \E child :
           /\ child = r.message.bodies[1][1]
           /\ parseSOAP(r.message) =
                [method |-> child.name, serviceType |-> child.type,
                 args |-> Sent(child), left |-> FALSE]
  <1> PICK m : m = r.message
    OBVIOUS
  <1> PICK body \in ToSet(m.bodies) :
        /\ m.envelope /\ m.bodies = << body >>
        /\ Len(body) = 1
        /\ \A node \in ToSet(body[1].nodes) : node.element
        /\ \A i, j \in DOMAIN body[1].nodes :
             body[1].nodes[i].name = body[1].nodes[j].name => i = j
    BY DEF Proper
  <1>1. body \in Seq(ToSet(body)) /\ \A x \in ToSet(body) : x.nodes \in Seq(ToSet(x.nodes))
    <2>1. \A b \in ToSet(r.message.bodies) :
            /\ b \in Seq(ToSet(b))
            /\ \A x \in ToSet(b) : x.nodes \in Seq(ToSet(x.nodes))
      BY MessageAssumption
    <2>2. QED
      BY <2>1
  <1> PICK child : child = body[1]
    OBVIOUS
  <1>2. body = << child >> /\ child \in ToSet(body) /\ child = m.bodies[1][1]
    <2>1. 1 \in 1..Len(body) /\ DOMAIN body = 1..Len(body)
      BY <1>1, LenProperties
    <2>2. child \in ToSet(body)
      BY <1>1, <2>1, ElementOfSeq
    <2>3. << child >> \in Seq(ToSet(body)) /\ Len(<< child >>) = 1
      BY <2>2
    <2>4. \A i \in 1..Len(body) : body[i] = << child >>[i]
      OBVIOUS
    <2>5. body = << child >>
      BY <1>1, <2>3, <2>4, SameSeq
    <2>6. QED
      BY <2>2, <2>5
  <1>3. child.nodes \in Seq(ToSet(child.nodes))
    BY <1>1, <1>2
  <1>4. FoldLeft(inserted, NoArguments, child.nodes) = Sent(child)
    <2>1. \A i, j \in DOMAIN child.nodes :
            child.nodes[i].name = child.nodes[j].name => i = j
      OBVIOUS
    <2>2. QED
      BY <1>3, <2>1, ArgumentsSent
  <1>5. {i \in DOMAIN child.nodes : ~child.nodes[i].element} = {}
    <2>1. ASSUME NEW i \in DOMAIN child.nodes PROVE child.nodes[i].element
      <3>1. child.nodes[i] \in ToSet(child.nodes)
        BY DEF ToSet
      <3>2. QED
        BY <3>1
    <2>2. QED
      BY <2>1
  <1> PICK p : p = [NothingParsed EXCEPT !.left = FALSE]
    OBVIOUS
  <1>6. p.left = FALSE /\ p.args = NoArguments
    BY DEF NothingParsed
  <1>7. parseChild(p, child) = [method |-> child.name, serviceType |-> child.type,
                                args |-> Sent(child), left |-> FALSE]
    BY <1>4, <1>5, <1>6 DEF parseChild
  <1>8. parseElement(NothingParsed, body) = parseChild(p, child)
    BY <1>2, ChildFold DEF parseElement
  <1>9. parseSOAP(m) = parseElement(NothingParsed, body)
    BY ElementFold DEF parseSOAP
  <1>10. QED
    BY <1>2, <1>7, <1>8, <1>9

LEMMA ActionFound ==
  ASSUME NEW name
  PROVE  getAction(name) = IF Offered(name) THEN << ActionOf(name) >> ELSE << >>
  <1> DEFINE I == { i \in 1..Len(actionList) : actionList[i].name = name }
  <1>1. Len(actionList) \in Nat /\ DOMAIN actionList = 1..Len(actionList)
    BY ActionAssumption, LenProperties
  <1>2. getAction(name) = LET i == IF I # {} THEN Min(I) ELSE 0
                          IN  IF i = 0 THEN << >> ELSE << actionList[i] >>
    BY DEF getAction, SelectInSeq
  <1>3. I # {} <=> Offered(name)
    BY <1>1 DEF Offered
  <1>4. I # {} => Min(I) # 0 /\ actionList[Min(I)] = ActionOf(name)
    <2>1. SUFFICES ASSUME I # {} PROVE Min(I) # 0 /\ actionList[Min(I)] = ActionOf(name)
      OBVIOUS
    <2>2. I \subseteq Nat /\ 0 \notin I
      OBVIOUS
    <2>3. Min(I) \in I
      <3> HIDE DEF I
      <3>1. QED
        BY <2>1, <2>2, LeastOfSet
    <2>4. ActionOf(name) = actionList[Min(I)]
      BY <1>1 DEF ActionOf
    <2>5. QED
      BY <2>2, <2>3, <2>4
  <1> HIDE DEF I
  <1>5. QED
    BY <1>2, <1>3, <1>4

(* What Main answers to a call is an answer to the message.                *)
LEMMA CallSuits ==
  ASSUME NEW c \in Conns, NEW r \in Requests[c], r.uri = "/service/control",
         NEW slot, controlRequest(r) = << slot >>
  PROVE  RightAnswer(Answer(slot, r.vendor), r)
  <1> PICK parsed : parsed = parseSOAP(r.message)
    OBVIOUS
  <1>1. r.method = "POST"
    BY DEF controlRequest
  <1>2. \/ ~isValid(parsed) /\ slot = [invalid |-> TRUE]
        \/ /\ isValid(parsed) /\ parsed.serviceType = serviceType
           /\ slot = [invalid |-> FALSE, method |-> parsed.method, args |-> parsed.args]
    BY DEF controlRequest
  <1>3. Answer(slot, r.vendor)[1] \in {"response", "fault"}
    BY DEF Answer, onInvalidRequest, call, handleActionFailure, Fault, Response
  <1>4. ASSUME Proper(r.message) PROVE Suits(Answer(slot, r.vendor), r.message, r.vendor)
    <2> PICK child :
          /\ child = r.message.bodies[1][1]
          /\ parsed = [method |-> child.name, serviceType |-> child.type,
                       args |-> Sent(child), left |-> FALSE]
      BY <1>4, ProperIsRead
    <2>1. isValid(parsed) <=> ~Unnamed(child)
      <3>1. parsed.method = child.name /\ parsed.serviceType = child.type
        OBVIOUS
      <3>2. QED
        BY <3>1 DEF isValid, Unnamed
    <2>2. CASE Unnamed(child)
      <3>1. Answer(slot, r.vendor) = Fault(UPNP_INVALID_ACTION)
        BY <1>2, <2>1, <2>2 DEF Answer, onInvalidRequest
      <3>2. QED
        BY <2>2, <3>1 DEF Suits
    <2>3. CASE ~Unnamed(child)
      <3>1. Answer(slot, r.vendor) = call(child.name, Sent(child), r.vendor)
        BY <1>2, <2>1, <2>3 DEF Answer
      <3>2. child.type = serviceType
        BY <1>2, <2>1, <2>3
      <3>3. CASE ~Offered(child.name)
        <4>1. call(child.name, Sent(child), r.vendor) = Fault(UPNP_INVALID_ACTION)
          BY <3>3, ActionFound DEF call
        <4>2. QED
          BY <3>1, <3>2, <3>3, <4>1 DEF Suits
      <3>4. CASE Offered(child.name)
        <4> PICK action : action = ActionOf(child.name)
          OBVIOUS
        <4>1. getAction(child.name) = << action >> /\ << action >> # << >>
              /\ << action >>[1] = action
          BY <3>4, ActionFound
        <4>2. call(child.name, Sent(child), r.vendor) =
                IF Refuses(r.vendor.pre) THEN Fault(r.vendor.pre)
                ELSE IF ~actionCall(action, Sent(child), r.vendor)
                     THEN handleActionFailure(r.vendor)
                ELSE IF Refuses(r.vendor.post) THEN Fault(r.vendor.post)
                ELSE Response(child.name, Sent(child))
          BY <4>1 DEF call
        <4>3. actionCall(action, Sent(child), r.vendor) <=> Done(child, r.vendor)
          <5>1. action.name = child.name
            <6> DEFINE I == {i \in DOMAIN actionList : actionList[i].name = child.name}
            <6>1. I # {} /\ I \subseteq Nat
              BY <3>4, ActionAssumption, LenProperties DEF Offered
            <6>2. Min(I) \in I
              <7> HIDE DEF I
              <7>1. QED
                BY <6>1, LeastOfSet
            <6>3. QED
              BY <6>2 DEF ActionOf
          <5>2. QED
            BY <5>1 DEF actionCall, isBound, Done
        <4>4. handleActionFailure(r.vendor) = Fault(FailureCode(r.vendor))
          BY DEF handleActionFailure, FailureCode
        <4>5. QED
          BY <2>3, <3>1, <3>2, <3>4, <4>2, <4>3, <4>4 DEF Suits
      <3>5. QED
        BY <3>3, <3>4
    <2>4. QED
      BY <2>2, <2>3
  <1>5. QED
    BY <1>1, <1>3, <1>4 DEF RightAnswer

-----------------------------------------------------------------------------
(* What the clients are answered.  The table of services is complete when  *)
(* the server listens, and it does before it accepts a connection;         *)
Table == buildWebServerTree(DefaultTable)
Listed ==
  /\ services = IF listening THEN Table ELSE DefaultTable
  /\ \A c \in Conns : link[c] # "new" => listening

(* ... an answer is pending in the thread of its session only;             *)
AllReplies ==
  { RequestTimeout, NotFound } \cup { Page(p) : p \in {"default", "description", "scpd"} }
  \cup { Answer(slot, v) : slot \in Slots, v \in Vendors }
CalledFor(s) == { i \in 1..Len(queue) : queue[i].session = s }
AnsweredFor(t, s) ==
  { i \in 1..Len(posted[t]) : posted[t][i].kind = "answer" /\ posted[t][i].session = s }
ReplyTypes == wire \in [Conns -> Seq(AllReplies)] /\ late \in SUBSET Conns
Homed == \A t \in Threads, s \in Sessions : AnsweredFor(t, s) # {} => home[s] = t

(* ... the client of a connection that is not closed waits for the answer  *)
(* to its last request at most; all others it has read;                    *)
Open == {"accepted", "left"}
Paced(c) ==
  /\ link[c] = "new" => asked[c] = << >>
  /\ link[c] \in Open \cup {"new"} =>
       Len(wire[c]) <= read[c] /\ Len(asked[c]) <= Len(wire[c]) + 1

(* ... a connection without a session has not been read from;              *)
Homeless(c) ==
  link[c] = "new" \/ (link[c] \in Open /\ \A s \in Sessions : conn[s] # c)
Unread(c) == Homeless(c) => read[c] = 0 /\ wire[c] = << >>

(* ... what is pending for the session of a connection is one answer, the  *)
(* one to the last request, which has been read;                           *)
Awaits(c, answer) ==
  /\ read[c] = Len(asked[c]) /\ Len(asked[c]) = Len(wire[c]) + 1
  /\ RightAnswer(answer, asked[c][Len(asked[c])])
Owed(s, t, c) ==
  /\ \A i \in CalledFor(s) : Awaits(c, Answer(queue[i].slot, queue[i].vendor))
  /\ \A i \in AnsweredFor(t, s) : Awaits(c, posted[t][i].answer)
  /\ \A i, j \in CalledFor(s) : i = j
  /\ \A i, j \in AnsweredFor(t, s) : i = j
  /\ CalledFor(s) = {} \/ AnsweredFor(t, s) = {}
Owing ==
  \A s \in Sessions, t \in Threads, c \in Conns \ late :
    conn[s] = c /\ home[s] = t /\ link[c] # "closed" => Owed(s, t, c)

(* ... and what has been read is right.                                    *)
Answered(c) ==
  \A i \in 1..Len(wire[c]) :
    \/ i <= Len(asked[c]) /\ RightAnswer(wire[c][i], asked[c][i])
    \/ i = Len(wire[c]) /\ link[c] = "closed" /\ wire[c][i] = RequestTimeout

Replying ==
  /\ Listed /\ ReplyTypes /\ Homed /\ Owing
  /\ \A c \in Conns : Unread(c) /\ (c \notin late => Paced(c) /\ Answered(c))

-----------------------------------------------------------------------------
LEMMA Longer ==
  ASSUME NEW S, NEW s, s \in Seq(S), NEW e, e \in S, NEW n \in Nat, Len(s) = n,
         NEW q, q = Append(s, e)
  PROVE  /\ q \in Seq(S) /\ Len(q) = n + 1
         /\ \A i \in 1..n : q[i] = s[i]
         /\ q[n + 1] = e
  BY AppendToList

LEMMA TableIs ==
  /\ DOMAIN Table = 1..4
  /\ Table[1] = [path |-> "/", service |-> "default"]
  /\ Table[2] = [path |-> "/device.xml", service |-> "description"]
  /\ Table[3] = [path |-> "/service/control", service |-> "control"]
  /\ Table[4] = [path |-> "/service/scpd", service |-> "scpd"]
  <1> PICK e1 : e1 = [path |-> "/", service |-> "default"]
    OBVIOUS
  <1> PICK e2 : e2 = [path |-> "/device.xml", service |-> "description"]
    OBVIOUS
  <1> PICK e3 : e3 = [path |-> "/service/control", service |-> "control"]
    OBVIOUS
  <1> PICK e4 : e4 = [path |-> "/service/scpd", service |-> "scpd"]
    OBVIOUS
  <1> PICK S : S = {e1, e2, e3, e4}
    OBVIOUS
  <1>1. e1 \in S /\ e2 \in S /\ e3 \in S /\ e4 \in S
    OBVIOUS
  <1>2. << >> \in Seq(S) /\ Len(<< >>) = 0
    OBVIOUS
  <1> PICK t1 : t1 = Append(<< >>, e1)
    OBVIOUS
  <1> PICK t2 : t2 = Append(t1, e2)
    OBVIOUS
  <1> PICK t3 : t3 = Append(t2, e3)
    OBVIOUS
  <1>3. Table = Append(t3, e4)
    BY DEF Table, DefaultTable, buildWebServerTree, buildWebServiceTree, addService
  <1>4. t1 \in Seq(S) /\ Len(t1) = 1 /\ t1[1] = e1
    BY <1>1, <1>2, Longer
  <1>5. t2 \in Seq(S) /\ Len(t2) = 2 /\ t2[1] = e1 /\ t2[2] = e2
    BY <1>1, <1>4, Longer
  <1>6. t3 \in Seq(S) /\ Len(t3) = 3 /\ t3[1] = e1 /\ t3[2] = e2 /\ t3[3] = e3
    BY <1>1, <1>5, Longer
  <1>7. /\ Table \in Seq(S) /\ Len(Table) = 4
        /\ Table[1] = e1 /\ Table[2] = e2 /\ Table[3] = e3 /\ Table[4] = e4
    BY <1>1, <1>3, <1>6, Longer
  <1>8. DOMAIN Table = 1..4
    BY <1>7, LenProperties
  <1>9. QED
    BY <1>7, <1>8

LEMMA Services ==
  ASSUME services = Table, NEW path
  PROVE  serviceAt(path) = IF path = "/" THEN "default"
                           ELSE IF path = "/device.xml" THEN "description"
                           ELSE IF path = "/service/control" THEN "control"
                           ELSE IF path = "/service/scpd" THEN "scpd" ELSE None
  <1> DEFINE matching == {i \in DOMAIN services : services[i].path = path}
  <1>1. DOMAIN services = 1..4
    BY TableIs
  <1>2. matching = {i \in 1..4 : services[i].path = path}
    BY <1>1
  <1>3. /\ services[1].path = "/" /\ services[1].service = "default"
        /\ services[2].path = "/device.xml" /\ services[2].service = "description"
        /\ services[3].path = "/service/control" /\ services[3].service = "control"
        /\ services[4].path = "/service/scpd" /\ services[4].service = "scpd"
    BY TableIs
  <1>4. \A i \in matching : i = 1 \/ i = 2 \/ i = 3 \/ i = 4
    BY <1>2
  <1>5. \A i \in matching : services[i].path = path
    BY <1>2
  <1>6. /\ path = "/" => 1 \in matching
        /\ path = "/device.xml" => 2 \in matching
        /\ path = "/service/control" => 3 \in matching
        /\ path = "/service/scpd" => 4 \in matching
    BY <1>2, <1>3
  <1>7. matching \subseteq Nat
    BY <1>2
  <1>8. serviceAt(path) = IF matching = {} THEN None ELSE services[Min(matching)].service
    BY DEF serviceAt
  <1> HIDE DEF matching
  <1>9. matching # {} => Min(matching) \in matching
    BY <1>7, LeastOfSet
  <1>10. CASE matching = {}
    BY <1>6, <1>8, <1>10
  <1>11. CASE matching # {}
    <2> PICK i \in matching : i = Min(matching)
      BY <1>9, <1>11
    <2>1. serviceAt(path) = services[i].service /\ services[i].path = path
      BY <1>5, <1>8, <1>11
    <2>2. QED
      BY <1>3, <1>4, <2>1
  <1>12. QED
    BY <1>10, <1>11

(* What a thread answers at once is right, and no call.                    *)
LEMMA PageSuits ==
  ASSUME services = Table, NEW r,
         NEW service,
         service = IF serviceAt(r.uri) = None /\ r.method = "NOTIFY"
                   THEN serviceAt("/") ELSE serviceAt(r.uri),
         service # "control",
         NEW answer, answer = IF service = None THEN NotFound ELSE Page(service)
  PROVE  /\ RightAnswer(answer, r)
         /\ answer \in AllReplies
  <1>1. serviceAt("/") = "default"
    BY Services
  <1> PICK uri : uri = r.uri
    OBVIOUS
  <1>2. serviceAt(uri) = IF uri = "/" THEN "default"
                         ELSE IF uri = "/device.xml" THEN "description"
                         ELSE IF uri = "/service/control" THEN "control"
                         ELSE IF uri = "/service/scpd" THEN "scpd" ELSE None
    BY Services
  <1>3. uri # "/service/control"
    BY <1>1, <1>2 DEF NoneAssumption
  <1>4. service \in {"default", "description", "scpd"} \cup {None}
    BY <1>1, <1>2, <1>3
  <1>5. answer \in AllReplies
    BY <1>4 DEF AllReplies
  <1>6. answer = IF uri = "/device.xml" THEN Page("description")
                 ELSE IF uri = "/service/scpd" THEN Page("scpd")
                 ELSE IF uri = "/" \/ r.method = "NOTIFY" THEN Page("default")
                 ELSE NotFound
    BY <1>1, <1>2, <1>3 DEF NoneAssumption
  <1>7. RightAnswer(answer, r)
    BY <1>3, <1>6 DEF RightAnswer
  <1>8. QED
    BY <1>5, <1>7

LEMMA ControlIsAt ==
  ASSUME services = Table, NEW path, serviceAt(path) = "control"
  PROVE  path = "/service/control"
  BY Services DEF NoneAssumption

-----------------------------------------------------------------------------
(* What is pending for a session afterwards was pending before, k events   *)
(* or m calls further back.                                                *)
Passed(t, s, k) ==
  \A i \in AnsweredFor(t, s)' :
    i + k \in AnsweredFor(t, s) /\ posted'[t][i] = posted[t][i + k]
CallsPassed(s, m) ==
  \A i \in CalledFor(s)' : i + m \in CalledFor(s) /\ queue'[i] = queue[i + m]

LEMMA OwedKept ==
  ASSUME NEW s, NEW t, NEW c, Owed(s, t, c),
         asked'[c] = asked[c], read'[c] = read[c], wire'[c] = wire[c],
         NEW k \in Nat, Passed(t, s, k), NEW m \in Nat, CallsPassed(s, m)
  PROVE  Owed(s, t, c)'
  <1>1. \A i \in AnsweredFor(t, s)' :
          /\ i \in Int /\ i + k \in AnsweredFor(t, s) /\ posted'[t][i] = posted[t][i + k]
    BY DEF Passed, AnsweredFor
  <1>2. \A i \in CalledFor(s)' :
          /\ i \in Int /\ i + m \in CalledFor(s) /\ queue'[i] = queue[i + m]
    BY DEF CallsPassed, CalledFor
  <1>3. \A answer : Awaits(c, answer) => Awaits(c, answer)'
    BY DEF Awaits
  <1>4. ASSUME NEW i \in CalledFor(s)'
        PROVE  Awaits(c, Answer(queue[i].slot, queue[i].vendor))'
    <2>1. Awaits(c, Answer(queue[i + m].slot, queue[i + m].vendor))
      BY <1>2, <1>4 DEF Owed
    <2>2. Awaits(c, Answer(queue'[i].slot, queue'[i].vendor))
      BY <1>2, <1>4, <2>1
    <2>3. QED
      BY <2>2 DEF Awaits
  <1>5. ASSUME NEW i \in AnsweredFor(t, s)' PROVE Awaits(c, posted[t][i].answer)'
    <2>1. Awaits(c, posted[t][i + k].answer)
      BY <1>1, <1>5 DEF Owed
    <2>2. Awaits(c, posted'[t][i].answer)
      BY <1>1, <1>5, <2>1
    <2>3. QED
      BY <2>2 DEF Awaits
  <1>6. \A i, j \in CalledFor(s)' : i = j
    <2>1. \A i, j \in CalledFor(s) : i = j
      BY DEF Owed
    <2>2. \A i, j \in CalledFor(s)' : i + m = j + m
      BY <1>2, <2>1
    <2>3. QED
      BY <1>2, <2>2
  <1>7. \A i, j \in AnsweredFor(t, s)' : i = j
    <2>1. \A i, j \in AnsweredFor(t, s) : i = j
      BY DEF Owed
    <2>2. ASSUME NEW i \in AnsweredFor(t, s)', NEW j \in AnsweredFor(t, s)' PROVE i = j
      <3>1. i \in Int /\ j \in Int
        BY <1>1
      <3>2. i + k = j + k
        BY <1>1, <2>1
      <3>3. QED
        BY <3>1, <3>2
    <2>3. QED
      BY <2>2
  <1>8. CalledFor(s)' = {} \/ AnsweredFor(t, s)' = {}
    BY <1>1, <1>2 DEF Owed
  <1>9. QED
    BY <1>4, <1>5, <1>6, <1>7, <1>8 DEF Owed

(* Nothing is pending: nothing is owed.                                    *)
LEMMA NothingOwed ==
  ASSUME NEW s, NEW t, NEW c, AnsweredFor(t, s)' = {}, CalledFor(s)' = {}
  PROVE  Owed(s, t, c)'
  BY DEF Owed

(* Of posting and handling events.                                         *)
PostsElse(u, s) ==
  \/ posted' = posted
  \/ \E e \in Events : /\ ~(e.kind = "answer" /\ e.session = s)
                       /\ posted' = [posted EXCEPT ![u] = Append(@, e)]
  \/ posted[u] # << >> /\ posted' = [posted EXCEPT ![u] = Tail(@)]
LEMMA AnswersKept ==
  ASSUME posted \in [Threads -> Seq(Events)], NEW t \in Threads, NEW s, NEW u \in Threads,
         PostsElse(u, s)
  PROVE  \E k \in Nat : Passed(t, s, k)
  <1>1. Len(posted[t]) \in Nat
    BY LenProperties
  <1>2. \A i \in AnsweredFor(t, s) : i \in Int
    BY DEF AnsweredFor
  <1>3. ASSUME posted'[t] = posted[t] PROVE Passed(t, s, 0)
    <2>1. \A i : i \in AnsweredFor(t, s)' => i \in AnsweredFor(t, s)
      BY <1>3 DEF AnsweredFor
    <2>2. \A i \in AnsweredFor(t, s)' : i + 0 = i
      BY <1>2, <2>1
    <2>3. QED
      BY <1>3, <2>1, <2>2 DEF Passed
  <1>4. ASSUME NEW e \in Events, ~(e.kind = "answer" /\ e.session = s),
               posted' = [posted EXCEPT ![u] = Append(@, e)], u = t
        PROVE  Passed(t, s, 0)
    <2>1. /\ Len(posted'[t]) = Len(posted[t]) + 1
          /\ \A i \in 1..Len(posted[t]) : posted'[t][i] = posted[t][i]
          /\ posted'[t][Len(posted[t]) + 1] = e
      BY <1>4, PostMore
    <2>2. ASSUME NEW i, i \in AnsweredFor(t, s)'
          PROVE  /\ i \in AnsweredFor(t, s) /\ i + 0 = i
                 /\ posted'[t][i] = posted[t][i]
      <3>1. /\ i \in 1..Len(posted'[t])
            /\ posted'[t][i].kind = "answer" /\ posted'[t][i].session = s
        BY <2>2 DEF AnsweredFor
      <3>2. i # Len(posted[t]) + 1
        BY <1>4, <2>1, <3>1
      <3>3. i \in 1..Len(posted[t]) /\ i + 0 = i
        BY <1>1, <2>1, <3>1, <3>2
      <3>4. QED
        BY <2>1, <3>1, <3>3 DEF AnsweredFor
    <2>3. QED
      BY <2>2 DEF Passed
  <1>5. ASSUME posted[u] # << >>, posted' = [posted EXCEPT ![u] = Tail(@)], u = t
        PROVE  Passed(t, s, 1)
    <2>1. /\ Len(posted'[t]) = Len(posted[t]) - 1
          /\ \A i \in 1..Len(posted[t]) - 1 : posted'[t][i] = posted[t][i + 1]
      BY <1>5, PostLess
    <2>2. ASSUME NEW i, i \in AnsweredFor(t, s)'
          PROVE  i + 1 \in AnsweredFor(t, s) /\ posted'[t][i] = posted[t][i + 1]
      <3>1. /\ i \in 1..Len(posted'[t])
            /\ posted'[t][i].kind = "answer" /\ posted'[t][i].session = s
        BY <2>2 DEF AnsweredFor
      <3>2. i \in 1..Len(posted[t]) - 1 /\ i + 1 \in 1..Len(posted[t])
        BY <1>1, <2>1, <3>1
      <3>3. QED
        BY <2>1, <3>1, <3>2 DEF AnsweredFor
    <2>3. QED
      BY <2>2 DEF Passed
  <1>6. /\ u # t => posted'[t] = posted[t]
        /\ posted' = posted => posted'[t] = posted[t]
    BY DEF PostsElse
  <1>7. QED
    BY <1>3, <1>4, <1>5, <1>6 DEF PostsElse

(* Of posting and serving calls.                                           *)
CallsElse(s) ==
  \/ queue' = queue
  \/ \E e \in Calls : e.session # s /\ queue' = Append(queue, e)
  \/ queue # << >> /\ queue' = Tail(queue)
LEMMA CallsKept ==
  ASSUME queue \in Seq(Calls), NEW s,
         CallsElse(s)
  PROVE  \E m \in Nat : CallsPassed(s, m)
  <1>1. Len(queue) \in Nat
    BY LenProperties
  <1>2. \A i \in CalledFor(s) : i \in Int
    BY DEF CalledFor
  <1>3. ASSUME queue' = queue PROVE CallsPassed(s, 0)
    <2>1. \A i : i \in CalledFor(s)' => i \in CalledFor(s)
      BY <1>3 DEF CalledFor
    <2>2. \A i \in CalledFor(s)' : i + 0 = i
      BY <1>2, <2>1
    <2>3. QED
      BY <1>3, <2>1, <2>2 DEF CallsPassed
  <1>4. ASSUME NEW e \in Calls, e.session # s, queue' = Append(queue, e)
        PROVE  CallsPassed(s, 0)
    <2>1. /\ Len(queue') = Len(queue) + 1
          /\ \A i \in 1..Len(queue) : queue'[i] = queue[i]
          /\ queue'[Len(queue) + 1] = e
      BY <1>4, AppendToList
    <2>2. ASSUME NEW i, i \in CalledFor(s)'
          PROVE  i \in CalledFor(s) /\ i + 0 = i /\ queue'[i] = queue[i]
      <3>1. i \in 1..Len(queue') /\ queue'[i].session = s
        BY <2>2 DEF CalledFor
      <3>2. i # Len(queue) + 1
        BY <1>4, <2>1, <3>1
      <3>3. i \in 1..Len(queue) /\ i + 0 = i
        BY <1>1, <2>1, <3>1, <3>2
      <3>4. QED
        BY <2>1, <3>1, <3>3 DEF CalledFor
    <2>3. QED
      BY <2>2 DEF CallsPassed
  <1>5. ASSUME queue # << >>, queue' = Tail(queue) PROVE CallsPassed(s, 1)
    <2>1. /\ Len(queue') = Len(queue) - 1
          /\ \A i \in 1..Len(queue) - 1 : queue'[i] = queue[i + 1]
      BY <1>5, TailOfSeq
    <2>2. ASSUME NEW i, i \in CalledFor(s)'
          PROVE  i + 1 \in CalledFor(s) /\ queue'[i] = queue[i + 1]
      <3>1. i \in 1..Len(queue') /\ queue'[i].session = s
        BY <2>2 DEF CalledFor
      <3>2. i \in 1..Len(queue) - 1 /\ i + 1 \in 1..Len(queue)
        BY <1>1, <2>1, <3>1
      <3>3. QED
        BY <2>1, <3>1, <3>2 DEF CalledFor
    <2>3. QED
      BY <2>2 DEF CallsPassed
  <1>6. QED
    BY <1>3, <1>4, <1>5 DEF CallsElse

(* A connection with which nothing happens but that it is accepted, left   *)
(* or closed.                                                              *)
Moves(c) ==
  \/ link'[c] = link[c] \/ link'[c] = "closed"
  \/ link[c] = "new" /\ link'[c] = "accepted"
  \/ link[c] = "accepted" /\ link'[c] = "left"
LEMMA ConnKept ==
  ASSUME ConnTypes, NEW c \in Conns, Moves(c),
         asked'[c] = asked[c], read'[c] = read[c], wire'[c] = wire[c]
  PROVE  /\ Paced(c) => Paced(c)'
         /\ Answered(c) => Answered(c)'
         /\ Unread(c) /\ (Homeless(c)' => Homeless(c)) => Unread(c)'
  <1>1. Paced(c) => Paced(c)'
    BY DEF Paced, Moves, Open, ConnTypes
  <1>2. ASSUME Answered(c) PROVE Answered(c)'
    <2>1. ASSUME NEW i \in 1..Len(wire[c])
          PROVE  \/ i <= Len(asked'[c]) /\ RightAnswer(wire'[c][i], asked'[c][i])
                 \/ i = Len(wire'[c]) /\ link'[c] = "closed" /\ wire'[c][i] = RequestTimeout
      BY <1>2 DEF Answered, Moves
    <2>2. QED
      BY <2>1 DEF Answered
  <1>3. Unread(c) /\ (Homeless(c)' => Homeless(c)) => Unread(c)'
    BY DEF Unread
  <1>4. QED
    BY <1>1, <1>2, <1>3

LEMMA StillHomed ==
  ASSUME Types, Homed, NEW t \in Threads, NEW s \in Sessions, NEW u \in Threads,
         PostsElse(u, s), AnsweredFor(t, s)' # {}
  PROVE  home[s] = t
  <1>1. PICK k \in Nat : Passed(t, s, k)
    BY AnswersKept DEF SessionTypes, Types
  <1>2. AnsweredFor(t, s) # {}
    BY <1>1 DEF Passed
  <1>3. QED
    BY <1>2 DEF Homed

LEMMA StillOwed ==
  ASSUME Types, Owing, NEW s \in Sessions, NEW t \in Threads, NEW c \in Conns \ late,
         conn[s] = c, home[s] = t, link[c] # "closed",
         asked'[c] = asked[c], read'[c] = read[c], wire'[c] = wire[c],
         NEW u \in Threads, PostsElse(u, s), CallsElse(s)
  PROVE  Owed(s, t, c)'
  <1>1. Owed(s, t, c)
    BY DEF Owing
  <1>2. PICK k \in Nat : Passed(t, s, k)
    BY AnswersKept DEF SessionTypes, Types
  <1>3. PICK m \in Nat : CallsPassed(s, m)
    BY CallsKept DEF ServerTypes, Types
  <1>4. QED
    BY <1>1, <1>2, <1>3, OwedKept

(* A step with which nothing is asked, read, answered or asked of Main,    *)
(* and no connection comes to a session.                                   *)
LEMMA QuietStep ==
  ASSUME Types, Replying, Listed',
         UNCHANGED << asked, read, wire, home, late >>,
         \A c \in Conns : Moves(c) /\ (Homeless(c)' => Homeless(c)),
         \A s \in Sessions : \A c \in Conns : conn'[s] = c => conn[s] = c,
         NEW u \in Threads, \A s \in Sessions : PostsElse(u, s) /\ CallsElse(s)
  PROVE  Replying'
  <1>1. ReplyTypes'
    BY DEF Replying, ReplyTypes
  <1>2. Homed'
    BY StillHomed DEF Replying, Homed
  <1>3. ASSUME NEW c \in Conns
        PROVE  Unread(c)' /\ ((c \notin late)' => Paced(c)' /\ Answered(c)')
    BY ConnKept DEF Replying, Types
  <1>4. ASSUME NEW s \in Sessions, NEW t \in Threads, NEW c \in Conns,
               c \notin late, conn'[s] = c, home'[s] = t, link'[c] # "closed"
        PROVE  Owed(s, t, c)'
    <2>1. conn[s] = c /\ home[s] = t /\ link[c] # "closed" /\ c \in Conns \ late
      BY <1>4 DEF Moves
    <2>2. QED
      BY <2>1, StillOwed DEF Replying
  <1>5. Owing'
    BY <1>4 DEF Owing
  <1>6. QED
    BY <1>1, <1>2, <1>3, <1>5 DEF Replying

(* A step of one connection, with which nothing else happens; then nothing *)
(* or something is pending for its session.                                *)
LEMMA OneConnection ==
  ASSUME Types, Replying, Serving, NEW c \in Conns,
         \A d \in Conns \ {c} :
           /\ link'[d] = link[d] /\ asked'[d] = asked[d]
           /\ read'[d] = read[d] /\ wire'[d] = wire[d],
         link[c] # "new", Moves(c), UNCHANGED << conn, home, late, services, listening >>,
         ReplyTypes',
         Unread(c)', c \notin late => Paced(c)' /\ Answered(c)',
         NEW u \in Threads,
         \A s \in Sessions : conn[s] # c => PostsElse(u, s) /\ CallsElse(s),
         \A s \in Sessions, t \in Threads :
           /\ AnsweredFor(t, s)' # {} => home[s] = t
           /\ c \notin late /\ conn[s] = c /\ home[s] = t /\ link'[c] # "closed"
                => Owed(s, t, c)'
  PROVE  Replying'
  <1>1. Listed'
    BY DEF Replying, Listed, Moves
  <1>2. Homed'
    BY DEF Homed
  <1>3. ASSUME NEW d \in Conns, d # c
        PROVE  Unread(d)' /\ (d \notin late => Paced(d)' /\ Answered(d)')
    <2>1. Homeless(d)' => Homeless(d)
      BY <1>3 DEF Homeless
    <2>2. Moves(d)
      BY <1>3 DEF Moves
    <2>3. QED
      BY <1>3, <2>1, <2>2, ConnKept DEF Replying, Types
  <1>4. ASSUME NEW s \in Sessions, NEW t \in Threads, NEW d \in Conns, d # c,
               d \notin late, conn[s] = d, home[s] = t, link'[d] # "closed"
        PROVE  Owed(s, t, d)'
    <2>1. d \in Conns \ late /\ link[d] # "closed" /\ PostsElse(u, s) /\ CallsElse(s)
      BY <1>4
    <2>2. QED
      BY <1>4, <2>1, StillOwed DEF Replying
  <1>5. Owing'
    BY <1>4 DEF Owing
  <1>6. QED
    BY <1>1, <1>2, <1>3, <1>5 DEF Replying

(* The table of services is the one that start() makes.                    *)
LEMMA ListedNext ==
  ASSUME Types, Stopping, Serving, Called, Pooled, Carried, Listed, [Next]_vars
  PROVE  Listed'
  <1>1. ASSUME UNCHANGED << services, listening >>,
               \A c \in Conns : link'[c] = "new" \/ listening \/ link'[c] = link[c]
        PROVE  Listed'
    BY <1>1 DEF Listed
  <1>2. CASE start
    <2>1. services' = Table /\ listening'
      BY <1>2 DEF start, Table, Listed
    <2>2. QED
      BY <2>1 DEF Listed
  <1>3. ASSUME NEW c \in Conns, NEW v, link[c] # "new" \/ listening,
               UNCHANGED << services, listening >>,
               link' = link \/ link' = [link EXCEPT ![c] = v]
        PROVE  Listed'
    BY <1>1, <1>3 DEF Listed
  <1>4. ASSUME NEW c \in Conns, incomingConnection(c) PROVE Listed'
    <2>1. listening /\ services' = services /\ listening' = listening
      BY <1>4 DEF incomingConnection
    <2>2. QED
      BY <1>1, <2>1
  <1>5. ASSUME NEW c \in Conns, Leave(c) \/ \E r \in Requests[c] : Ask(c, r) PROVE Listed'
    BY <1>3, <1>5 DEF Leave, Ask, server_vars
  <1>6. ASSUME NEW t \in Threads, newConnection(t) PROVE Listed'
    <2>1. PICK c \in Conns :
            /\ Carries(t, 1, c) /\ posted[t] # << >>
            /\ TurnsAway(c) \/ \E s \in Sessions : Takes(t, s, c)
      BY <1>6, ConnectionTaken
    <2>2. link[c] # "new" /\ UNCHANGED << services, listening >>
      BY <1>6, <2>1 DEF Carried, Carries, newConnection, server_vars
    <2>3. link' = link \/ link' = [link EXCEPT ![c] = "closed"]
      BY <2>1 DEF TurnsAway, Takes
    <2>4. QED
      BY <1>3, <2>2, <2>3
  <1>7. ASSUME NEW s \in Sessions,
               onRequest_page(s) \/ onRequest_control(s) \/ onTimeout(s) \/ onConnectionDie(s)
        PROVE  Listed'
    <2>1. PICK c \in Conns : c = conn[s]
      BY <1>7 DEF onRequest_page, onRequest_control, onTimeout, onConnectionDie, HasRequest,
                  SessionTypes, Types
    <2>2. link[c] # "new"
      BY <2>1 DEF Serving, NoneAssumption
    <2>3. /\ UNCHANGED << services, listening >>
          /\ link' = link \/ link' = [link EXCEPT ![c] = "closed"]
      BY <1>7, <2>1
      DEF onRequest_page, onRequest_control, onTimeout, onConnectionDie, server_vars
    <2>4. QED
      BY <1>3, <2>2, <2>3
  <1>8. ASSUME NEW t \in Threads, run_end(t) PROVE Listed'
    <2>1. UNCHANGED << services, listening >>
      BY <1>8 DEF run_end, server_vars
    <2>2. \A c \in Conns : link[c] # "new" => listening
      BY DEF Listed
    <2>3. \A c \in Conns : \A s \in Sessions : conn[s] = c => link[c] # "new"
      BY DEF Serving, NoneAssumption
    <2>4. \A c \in Conns : link'[c] = link[c] \/ \E s \in Sessions : conn[s] = c
      BY <1>8 DEF run_end
    <2>5. QED
      BY <1>1, <2>1, <2>2, <2>3, <2>4
  <1>9. ASSUME NEW n \in 1..Cardinality(Threads), setThreadsNumber(n) PROVE Listed'
    BY <1>3, <1>1, <1>9 DEF setThreadsNumber, conn_vars
  <1>10. CASE stop \/ stop_next \/ serve
    BY <1>1, <1>10 DEF stop, stop_next, serve, conn_vars
  <1>11. ASSUME NEW t \in Threads, writeResponse(t) \/ DeferredDelete(t) PROVE Listed'
    BY <1>1, <1>11 DEF writeResponse, DeferredDelete, conn_vars, server_vars
  <1>12. CASE UNCHANGED vars
    BY <1>1, <1>12 DEF vars, conn_vars, server_vars
  <1>13. QED
    BY <1>2, <1>4, <1>5, <1>6, <1>7, <1>8, <1>9, <1>10, <1>11, <1>12
    DEF Next, MainNext, ThreadNext, SessionNext, ClientNext

(* Nothing is pending but the answer to the last request.                  *)
LEMMA NothingPending ==
  ASSUME Owing, NEW s \in Sessions, NEW t \in Threads, NEW c \in Conns, c \notin late,
         conn[s] = c, home[s] = t, link[c] # "closed",
         ~(read[c] = Len(asked[c]) /\ Len(asked[c]) = Len(wire[c]) + 1)
  PROVE  AnsweredFor(t, s) = {} /\ CalledFor(s) = {}
  <1>1. Owed(s, t, c)
    BY DEF Owing
  <1>2. QED
    BY <1>1 DEF Owed, Awaits

LEMMA AskReplies ==
  ASSUME Types, Replying, Serving, NEW c \in Conns, NEW r \in Requests[c], Ask(c, r)
  PROVE  Replying'
  <1>1. /\ link[c] = "accepted" /\ Len(asked[c]) = Len(wire[c])
        /\ asked' = [asked EXCEPT ![c] = Append(@, r)]
        /\ UNCHANGED << link, read, wire, services, listening, posted, conn, home, late, queue >>
    BY DEF Ask, server_vars, thread_vars, session_vars, main_vars
  <1>2. asked[c] \in Seq(AllRequests) /\ r \in AllRequests /\ Len(asked[c]) \in Nat
    BY LenProperties DEF ConnTypes, Types, AllRequests
  <1>3. /\ \A d \in Conns \ {c} : asked'[d] = asked[d]
        /\ asked'[c] = Append(asked[c], r)
    BY <1>1 DEF ConnTypes, Types
  <1>4. /\ Len(asked'[c]) = Len(asked[c]) + 1
        /\ \A i \in 1..Len(asked[c]) : asked'[c][i] = asked[c][i]
    BY <1>2, <1>3, AppendToList
  <1>5. ReplyTypes'
    BY <1>1 DEF Replying, ReplyTypes
  <1>6. Unread(c)'
    BY <1>1 DEF Unread, Homeless, Replying
  <1>7. ASSUME c \notin late PROVE Paced(c)' /\ Answered(c)'
    <2>1. Paced(c)'
      BY <1>1, <1>2, <1>4, <1>7 DEF Replying, Paced, Open
    <2>2. Answered(c)'
      BY <1>1, <1>2, <1>4, <1>7 DEF Replying, Answered
    <2>3. QED
      BY <2>1, <2>2
  <1>8. ASSUME NEW s \in Sessions, NEW t \in Threads
        PROVE  /\ AnsweredFor(t, s)' # {} => home[s] = t
               /\ c \notin late /\ conn[s] = c /\ home[s] = t /\ link'[c] # "closed"
                    => Owed(s, t, c)'
    <2>1. AnsweredFor(t, s)' = AnsweredFor(t, s) /\ CalledFor(s)' = CalledFor(s)
      BY <1>1 DEF AnsweredFor, CalledFor
    <2>2. Len(asked[c]) # Len(wire[c]) + 1
      BY <1>1, <1>2
    <2>3. c \notin late /\ conn[s] = c /\ home[s] = t =>
            AnsweredFor(t, s) = {} /\ CalledFor(s) = {}
      BY <1>1, <2>2, NothingPending DEF Replying
    <2>4. QED
      BY <2>1, <2>3, NothingOwed DEF Replying, Homed
  <1>9. \A s \in Sessions : \A u \in Threads : PostsElse(u, s) /\ CallsElse(s)
    BY <1>1 DEF PostsElse, CallsElse
  <1>10. PICK u \in Threads : TRUE
    BY DEF FinitenessAssumption
  <1>11. /\ link[c] # "new" /\ Moves(c)
         /\ \A d \in Conns \ {c} :
              /\ link'[d] = link[d] /\ asked'[d] = asked[d]
              /\ read'[d] = read[d] /\ wire'[d] = wire[d]
    BY <1>1, <1>3 DEF Moves
  <1>12. UNCHANGED << conn, home, late, services, listening >>
    BY <1>1
  <1>13. QED
    BY <1>5, <1>6, <1>7, <1>8, <1>9, <1>10, <1>11, <1>12, OneConnection

(* One more answer for a connection, or none.                              *)
LEMMA WireMore ==
  ASSUME ReplyTypes, NEW c \in Conns, NEW a \in AllReplies,
         wire' = wire \/ wire' = [wire EXCEPT ![c] = Append(@, a)]
  PROVE  /\ wire' \in [Conns -> Seq(AllReplies)] /\ Len(wire[c]) \in Nat
         /\ \A d \in Conns \ {c} : wire'[d] = wire[d]
         /\ \/ wire' = wire
            \/ /\ Len(wire'[c]) = Len(wire[c]) + 1
               /\ \A i \in 1..Len(wire[c]) : wire'[c][i] = wire[c][i]
               /\ wire'[c][Len(wire[c]) + 1] = a
  <1>1. wire \in [Conns -> Seq(AllReplies)] /\ Len(wire[c]) \in Nat
    BY LenProperties DEF ReplyTypes
  <1>2. CASE wire' = wire
    BY <1>1, <1>2
  <1>3. CASE wire' = [wire EXCEPT ![c] = Append(@, a)]
    <2>1. /\ Append(wire[c], a) \in Seq(AllReplies)
          /\ Len(Append(wire[c], a)) = Len(wire[c]) + 1
          /\ \A i \in 1..Len(wire[c]) : Append(wire[c], a)[i] = wire[c][i]
          /\ Append(wire[c], a)[Len(wire[c]) + 1] = a
      BY <1>1, AppendToList
    <2>2. wire'[c] = Append(wire[c], a) /\ \A d \in Conns \ {c} : wire'[d] = wire[d]
      BY <1>1, <1>3
    <2>3. wire' \in [Conns -> Seq(AllReplies)]
      BY <1>1, <1>3, <2>1
    <2>4. QED
      BY <1>1, <2>1, <2>2, <2>3
  <1>4. QED
    BY <1>2, <1>3

(* A session that reads a request.                                         *)
LEMMA Reads ==
  ASSUME Types, Serving, Replying, NEW s \in Sessions, HasRequest(s)
  PROVE  \E c \in Conns : \E t \in Threads :
           /\ conn[s] = c /\ home[s] = t /\ link[c] \in Open
           /\ services = Table
           /\ \A u \in Sessions : conn[u] = c => u = s
           /\ read[c] \in Nat /\ Len(asked[c]) \in Nat /\ Len(wire[c]) \in Nat
           /\ read[c] < Len(asked[c]) /\ RequestOf(s) = asked[c][read[c] + 1]
           /\ \E d \in Conns : RequestOf(s) \in Requests[d]
           /\ c \notin late => /\ Len(wire[c]) = read[c] /\ Len(asked[c]) = read[c] + 1
                               /\ AnsweredFor(t, s) = {} /\ CalledFor(s) = {}
  <1>1. PICK c \in Conns : c = conn[s]
    BY DEF HasRequest, SessionTypes, Types
  <1>2. PICK t \in Threads : t = home[s]
    BY DEF HasRequest, SessionTypes, Types
  <1>3. /\ link[c] \in Open /\ read[c] < Len(asked[c])
        /\ RequestOf(s) = asked[c][read[c] + 1]
    BY <1>1 DEF HasRequest, RequestOf, Open
  <1>4. /\ read[c] \in Nat /\ Len(asked[c]) \in Nat /\ Len(wire[c]) \in Nat
        /\ asked[c] \in Seq(AllRequests)
    BY LenProperties DEF ConnTypes, Types, Replying, ReplyTypes
  <1>5. \A u \in Sessions : conn[u] = c => u = s
    BY <1>1 DEF Serving, NoneAssumption
  <1>6. services = Table
    BY <1>3 DEF Replying, Listed, Open
  <1>7. \E d \in Conns : RequestOf(s) \in Requests[d]
    <2>1. read[c] + 1 \in 1..Len(asked[c])
      BY <1>3, <1>4
    <2>2. RequestOf(s) \in AllRequests
      BY <1>3, <1>4, <2>1, ElementOfSeq
    <2>3. QED
      BY <2>2 DEF AllRequests
  <1>8. ASSUME c \notin late
        PROVE  /\ Len(wire[c]) = read[c] /\ Len(asked[c]) = read[c] + 1
               /\ AnsweredFor(t, s) = {} /\ CalledFor(s) = {}
    <2>1. Len(wire[c]) <= read[c] /\ Len(asked[c]) <= Len(wire[c]) + 1
      BY <1>3, <1>8 DEF Replying, Paced
    <2>2. Len(wire[c]) = read[c] /\ Len(asked[c]) = read[c] + 1
      BY <1>3, <1>4, <2>1
    <2>3. read[c] # Len(asked[c]) /\ link[c] # "closed"
      BY <1>3, <1>4 DEF Open
    <2>4. AnsweredFor(t, s) = {} /\ CalledFor(s) = {}
      BY <1>1, <1>2, <1>8, <2>3, NothingPending DEF Replying
    <2>5. QED
      BY <2>2, <2>4
  <1>9. QED
    BY <1>1, <1>2, <1>3, <1>4, <1>5, <1>6, <1>7, <1>8

LEMMA PageReplies ==
  ASSUME Types, Replying, Serving, NEW s \in Sessions, onRequest_page(s)
  PROVE  Replying'
  <1>1. HasRequest(s)
    BY DEF onRequest_page
  <1>2. PICK c \in Conns, t \in Threads :
          /\ conn[s] = c /\ home[s] = t /\ link[c] \in Open
          /\ services = Table
          /\ \A u \in Sessions : conn[u] = c => u = s
          /\ read[c] \in Nat /\ Len(asked[c]) \in Nat /\ Len(wire[c]) \in Nat
          /\ read[c] < Len(asked[c]) /\ RequestOf(s) = asked[c][read[c] + 1]
          /\ c \notin late => /\ Len(wire[c]) = read[c] /\ Len(asked[c]) = read[c] + 1
                              /\ AnsweredFor(t, s) = {} /\ CalledFor(s) = {}
    BY <1>1, Reads
  <1>3. PICK r : r = RequestOf(s)
    OBVIOUS
  <1>4. PICK service : service = IF serviceAt(r.uri) = None /\ r.method = "NOTIFY"
                                 THEN serviceAt("/") ELSE serviceAt(r.uri)
    OBVIOUS
  <1>5. PICK a : a = IF service = None THEN NotFound ELSE Page(service)
    OBVIOUS
  <1>6. /\ service # "control"
        /\ read' = [read EXCEPT ![c] = @ + 1]
        /\ wire' = written(s, a)
        /\ link' = link \/ link' = [link EXCEPT ![c] = "closed"]
        /\ UNCHANGED << asked, services, listening, posted, conn, home, late, queue >>
    BY <1>2, <1>3, <1>4, <1>5
    DEF onRequest_page, server_vars, thread_vars, session_vars, main_vars
  <1>7. RightAnswer(a, asked[c][read[c] + 1]) /\ a \in AllReplies
    BY <1>2, <1>3, <1>4, <1>5, <1>6, PageSuits
  <1>8. /\ wire' = wire \/ wire' = [wire EXCEPT ![c] = Append(@, a)]
    BY <1>2, <1>6 DEF written
  <1>9. /\ wire' \in [Conns -> Seq(AllReplies)]
        /\ \A d \in Conns \ {c} : wire'[d] = wire[d]
        /\ \/ wire' = wire
           \/ /\ Len(wire'[c]) = Len(wire[c]) + 1
              /\ \A i \in 1..Len(wire[c]) : wire'[c][i] = wire[c][i]
              /\ wire'[c][Len(wire[c]) + 1] = a
    BY <1>7, <1>8, WireMore DEF Replying
  <1>10. ReplyTypes'
    BY <1>6, <1>9 DEF Replying, ReplyTypes
  <1>11. /\ read'[c] = read[c] + 1 /\ \A d \in Conns \ {c} : read'[d] = read[d]
         /\ link'[c] \in {link[c], "closed"} /\ \A d \in Conns \ {c} : link'[d] = link[d]
    BY <1>6 DEF ConnTypes, Types
  <1>12. Unread(c)'
    BY <1>2, <1>6, <1>11 DEF Unread, Homeless, Open
  <1>13. ASSUME c \notin late PROVE Paced(c)' /\ Answered(c)'
    <2>1. Paced(c)'
      <3>1. link'[c] # "new"
        BY <1>2, <1>11 DEF Open
      <3>2. Len(wire'[c]) = Len(wire[c]) \/ Len(wire'[c]) = Len(wire[c]) + 1
        BY <1>9
      <3>3. Len(wire'[c]) <= read'[c] /\ Len(asked'[c]) <= Len(wire'[c]) + 1
        BY <1>2, <1>6, <1>11, <1>13, <3>2
      <3>4. QED
        BY <3>1, <3>3 DEF Paced
    <2>2. \A i \in 1..Len(wire[c]) : i <= Len(asked[c]) /\ RightAnswer(wire[c][i], asked[c][i])
      BY <1>2, <1>13 DEF Replying, Answered, Open
    <2>3. ASSUME NEW i \in 1..Len(wire'[c])
          PROVE  i <= Len(asked'[c]) /\ RightAnswer(wire'[c][i], asked'[c][i])
      <3>1. asked'[c] = asked[c]
        BY <1>6
      <3>2. CASE i \in 1..Len(wire[c])
        <4>1. wire'[c][i] = wire[c][i]
          BY <1>9, <3>2
        <4>2. QED
          BY <2>2, <3>1, <3>2, <4>1
      <3>3. CASE i \notin 1..Len(wire[c])
        <4>1. Len(wire'[c]) = Len(wire[c]) + 1 /\ wire'[c][Len(wire[c]) + 1] = a
          BY <1>9, <3>3
        <4>2. i = Len(wire[c]) + 1
          BY <1>2, <3>3, <4>1
        <4>3. i = read[c] + 1 /\ i = Len(asked[c])
          BY <1>2, <1>13, <4>2
        <4>4. wire'[c][i] = a
          BY <4>1, <4>2
        <4>5. RightAnswer(a, asked[c][i])
          BY <1>7, <4>3
        <4>6. QED
          BY <1>2, <3>1, <4>3, <4>4, <4>5
      <3>4. QED
        BY <3>2, <3>3
    <2>4. QED
      BY <2>1, <2>3 DEF Answered
  <1>14. ASSUME NEW u \in Sessions, NEW v \in Threads
         PROVE  /\ AnsweredFor(v, u)' # {} => home[u] = v
                /\ c \notin late /\ conn[u] = c /\ home[u] = v /\ link'[c] # "closed"
                     => Owed(u, v, c)'
    <2>1. AnsweredFor(v, u)' = AnsweredFor(v, u) /\ CalledFor(u)' = CalledFor(u)
      BY <1>6 DEF AnsweredFor, CalledFor
    <2>2. c \notin late /\ conn[u] = c /\ home[u] = v =>
            AnsweredFor(v, u) = {} /\ CalledFor(u) = {}
      BY <1>2
    <2>3. QED
      BY <2>1, <2>2, NothingOwed DEF Replying, Homed
  <1>15. \A u \in Sessions : PostsElse(t, u) /\ CallsElse(u)
    BY <1>6 DEF PostsElse, CallsElse
  <1>16. /\ link[c] # "new" /\ Moves(c)
         /\ \A d \in Conns \ {c} :
              /\ link'[d] = link[d] /\ asked'[d] = asked[d]
              /\ read'[d] = read[d] /\ wire'[d] = wire[d]
    BY <1>2, <1>6, <1>9, <1>11 DEF Moves, Open
  <1>17. UNCHANGED << conn, home, late, services, listening >>
    BY <1>6
  <1>18. QED
    BY <1>10, <1>12, <1>13, <1>14, <1>15, <1>16, <1>17, OneConnection

LEMMA TimeoutReplies ==
  ASSUME Types, Replying, Serving, NEW s \in Sessions, onTimeout(s)
  PROVE  Replying'
  <1>1. PICK c \in Conns : c = conn[s]
    BY DEF onTimeout, SessionTypes, Types
  <1>2. /\ link[c] \in Open
        /\ wire' = written(s, RequestTimeout)
        /\ link' = [link EXCEPT ![c] = "closed"]
        /\ UNCHANGED << asked, read, services, listening, posted, conn, home, late, queue >>
    BY <1>1 DEF onTimeout, Open, server_vars, thread_vars, session_vars, main_vars
  <1>3. wire' = wire \/ wire' = [wire EXCEPT ![c] = Append(@, RequestTimeout)]
    BY <1>1, <1>2 DEF written
  <1>4. RequestTimeout \in AllReplies
    BY DEF AllReplies
  <1>5. /\ wire' \in [Conns -> Seq(AllReplies)] /\ Len(wire[c]) \in Nat
        /\ \A d \in Conns \ {c} : wire'[d] = wire[d]
        /\ \/ wire' = wire
           \/ /\ Len(wire'[c]) = Len(wire[c]) + 1
              /\ \A i \in 1..Len(wire[c]) : wire'[c][i] = wire[c][i]
              /\ wire'[c][Len(wire[c]) + 1] = RequestTimeout
    BY <1>3, <1>4, WireMore DEF Replying
  <1>6. ReplyTypes'
    BY <1>2, <1>5 DEF Replying, ReplyTypes
  <1>7. link'[c] = "closed" /\ \A d \in Conns \ {c} : link'[d] = link[d]
    BY <1>2 DEF ConnTypes, Types
  <1>8. Unread(c)'
    BY <1>7 DEF Unread, Homeless, Open
  <1>9. ASSUME c \notin late PROVE Paced(c)' /\ Answered(c)'
    <2>1. Paced(c)'
      BY <1>7 DEF Paced, Open
    <2>2. \A i \in 1..Len(wire[c]) : i <= Len(asked[c]) /\ RightAnswer(wire[c][i], asked[c][i])
      BY <1>2, <1>9 DEF Replying, Answered, Open
    <2>3. ASSUME NEW i \in 1..Len(wire'[c])
          PROVE  \/ i <= Len(asked'[c]) /\ RightAnswer(wire'[c][i], asked'[c][i])
                 \/ /\ i = Len(wire'[c]) /\ link'[c] = "closed"
                    /\ wire'[c][i] = RequestTimeout
      <3>1. asked'[c] = asked[c]
        BY <1>2
      <3>2. CASE i \in 1..Len(wire[c])
        <4>1. wire'[c][i] = wire[c][i]
          BY <1>5, <3>2
        <4>2. QED
          BY <2>2, <3>1, <3>2, <4>1
      <3>3. CASE i \notin 1..Len(wire[c])
        <4>1. /\ Len(wire'[c]) = Len(wire[c]) + 1
              /\ wire'[c][Len(wire[c]) + 1] = RequestTimeout
          BY <1>5, <3>3
        <4>2. i = Len(wire'[c]) /\ i = Len(wire[c]) + 1
          BY <1>5, <3>3, <4>1
        <4>3. QED
          BY <1>7, <4>1, <4>2
      <3>4. QED
        BY <3>2, <3>3
    <2>4. QED
      BY <2>1, <2>3 DEF Answered
  <1>10. ASSUME NEW u \in Sessions, NEW v \in Threads
         PROVE  /\ AnsweredFor(v, u)' # {} => home[u] = v
                /\ c \notin late /\ conn[u] = c /\ home[u] = v /\ link'[c] # "closed"
                     => Owed(u, v, c)'
    <2>1. AnsweredFor(v, u)' = AnsweredFor(v, u)
      BY <1>2 DEF AnsweredFor
    <2>2. QED
      BY <1>7, <2>1 DEF Replying, Homed
  <1>11. \A u \in Sessions : \A v \in Threads : PostsElse(v, u) /\ CallsElse(u)
    BY <1>2 DEF PostsElse, CallsElse
  <1>12. /\ link[c] # "new" /\ Moves(c)
         /\ \A d \in Conns \ {c} :
              /\ link'[d] = link[d] /\ asked'[d] = asked[d]
              /\ read'[d] = read[d] /\ wire'[d] = wire[d]
    BY <1>2, <1>5, <1>7 DEF Moves, Open
  <1>13. UNCHANGED << conn, home, late, services, listening >>
    BY <1>2
  <1>14. PICK v \in Threads : TRUE
    BY DEF FinitenessAssumption
  <1>15. QED
    BY <1>6, <1>8, <1>9, <1>10, <1>11, <1>12, <1>13, <1>14, OneConnection

LEMMA ControlReplies ==
  ASSUME Types, Replying, Serving, Called, NEW s \in Sessions, onRequest_control(s)
  PROVE  Replying'
  <1>1. HasRequest(s)
    BY DEF onRequest_control
  <1>2. PICK c \in Conns, t \in Threads :
          /\ conn[s] = c /\ home[s] = t /\ link[c] \in Open
          /\ services = Table
          /\ \A u \in Sessions : conn[u] = c => u = s
          /\ read[c] \in Nat /\ Len(asked[c]) \in Nat /\ Len(wire[c]) \in Nat
          /\ read[c] < Len(asked[c]) /\ RequestOf(s) = asked[c][read[c] + 1]
          /\ \E d \in Conns : RequestOf(s) \in Requests[d]
          /\ c \notin late => /\ Len(wire[c]) = read[c] /\ Len(asked[c]) = read[c] + 1
                              /\ AnsweredFor(t, s) = {} /\ CalledFor(s) = {}
    BY <1>1, Reads
  <1>3. PICK d \in Conns : RequestOf(s) \in Requests[d]
    BY <1>2
  <1>4. PICK r \in Requests[d] : r = RequestOf(s)
    BY <1>3
  <1>5. r.uri = "/service/control"
    BY <1>2, <1>4, ControlIsAt DEF onRequest_control
  <1>6. /\ read' = [read EXCEPT ![c] = @ + 1]
        /\ UNCHANGED << link, asked, wire, services, listening, posted, conn, home, late >>
    BY <1>2 DEF onRequest_control, server_vars, thread_vars, session_vars
  <1>7. \/ queue' = queue
        \/ \E e \in Calls : /\ e.session = s /\ queue' = Append(queue, e)
                            /\ RightAnswer(Answer(e.slot, e.vendor), asked[c][read[c] + 1])
    <2>1. \/ queue' = queue
          \/ \E e \in Calls : /\ e.session = s /\ queue' = Append(queue, e)
                              /\ controlRequest(r) = << e.slot >> /\ e.vendor = r.vendor
      BY <1>4, RequestPosted
    <2>2. ASSUME NEW e \in Calls, controlRequest(r) = << e.slot >>, e.vendor = r.vendor
          PROVE  RightAnswer(Answer(e.slot, e.vendor), asked[c][read[c] + 1])
      <3> PICK slot : slot = e.slot
        OBVIOUS
      <3>1. RightAnswer(Answer(slot, r.vendor), r)
        BY <1>5, <2>2, CallSuits
      <3>2. QED
        BY <1>2, <1>4, <2>2, <3>1
    <2>3. QED
      BY <2>1, <2>2
  <1>8. ReplyTypes'
    BY <1>6 DEF Replying, ReplyTypes
  <1>9. read'[c] = read[c] + 1 /\ \A x \in Conns \ {c} : read'[x] = read[x]
    BY <1>6 DEF ConnTypes, Types
  <1>10. Unread(c)'
    BY <1>2, <1>6 DEF Unread, Homeless, Open
  <1>11. ASSUME c \notin late PROVE Paced(c)' /\ Answered(c)'
    <2>1. Paced(c)'
      BY <1>2, <1>6, <1>9, <1>11 DEF Paced, Open
    <2>2. Answered(c)'
      BY <1>6, <1>11 DEF Answered, Replying
    <2>3. QED
      BY <2>1, <2>2
  <1>12. \A u \in Sessions, v \in Threads : AnsweredFor(v, u)' = AnsweredFor(v, u)
    BY <1>6 DEF AnsweredFor
  <1>13. ASSUME c \notin late PROVE Owed(s, t, c)'
    <2>1. AnsweredFor(t, s)' = {}
      BY <1>2, <1>12, <1>13
    <2>2. CASE queue' = queue
      <3>1. CalledFor(s)' = {}
        BY <1>2, <1>13, <2>2 DEF CalledFor
      <3>2. QED
        BY <2>1, <3>1, NothingOwed
    <2>3. ASSUME NEW e \in Calls, queue' = Append(queue, e),
                 RightAnswer(Answer(e.slot, e.vendor), asked[c][read[c] + 1])
          PROVE  Owed(s, t, c)'
      <3>1. queue \in Seq(Calls) /\ Len(queue) \in Nat
        BY LenProperties DEF ServerTypes, Types
      <3>2. /\ Len(queue') = Len(queue) + 1
            /\ \A i \in 1..Len(queue) : queue'[i] = queue[i]
            /\ queue'[Len(queue) + 1] = e
        BY <2>3, <3>1, AppendToList
      <3>3. \A i \in 1..Len(queue) : queue[i].session # s
        BY <1>2, <1>13 DEF CalledFor
      <3>4. \A i \in CalledFor(s)' : i = Len(queue) + 1
        <4>1. ASSUME NEW i \in CalledFor(s)' PROVE i = Len(queue) + 1
          <5>1. i \in 1..Len(queue') /\ queue'[i].session = s
            BY <4>1 DEF CalledFor
          <5>2. i \notin 1..Len(queue)
            BY <3>2, <3>3, <5>1
          <5>3. QED
            BY <3>1, <3>2, <5>1, <5>2
        <4>2. QED
          BY <4>1
      <3>5. Awaits(c, Answer(e.slot, e.vendor))'
        <4>1. read'[c] = Len(asked'[c]) /\ Len(asked'[c]) = Len(wire'[c]) + 1
          BY <1>2, <1>6, <1>9, <1>13
        <4>2. RightAnswer(Answer(e.slot, e.vendor), asked'[c][Len(asked'[c])])
          BY <1>2, <1>6, <1>13, <2>3
        <4>3. QED
          BY <4>1, <4>2 DEF Awaits
      <3>6. \A i \in CalledFor(s)' : Awaits(c, Answer(queue[i].slot, queue[i].vendor))'
        <4>1. ASSUME NEW i \in CalledFor(s)'
              PROVE  Awaits(c, Answer(queue[i].slot, queue[i].vendor))'
          <5>1. queue'[i] = e
            BY <3>2, <3>4, <4>1
          <5>2. QED
            BY <3>5, <5>1 DEF Awaits
        <4>2. QED
          BY <4>1
      <3>7. \A i, j \in CalledFor(s)' : i = j
        BY <3>4
      <3>8. QED
        BY <2>1, <3>6, <3>7 DEF Owed
    <2>4. QED
      BY <1>7, <2>2, <2>3
  <1>14. ASSUME NEW u \in Sessions, NEW v \in Threads
         PROVE  /\ AnsweredFor(v, u)' # {} => home[u] = v
                /\ c \notin late /\ conn[u] = c /\ home[u] = v /\ link'[c] # "closed"
                     => Owed(u, v, c)'
    BY <1>2, <1>12, <1>13 DEF Replying, Homed
  <1>15. \A u \in Sessions : conn[u] # c => PostsElse(t, u) /\ CallsElse(u)
    <2>1. ASSUME NEW u \in Sessions, conn[u] # c PROVE CallsElse(u)
      <3>1. u # s
        BY <1>2, <2>1
      <3>2. QED
        BY <1>7, <3>1 DEF CallsElse
    <2>2. QED
      BY <1>6, <2>1 DEF PostsElse
  <1>16. /\ link[c] # "new" /\ Moves(c)
         /\ \A x \in Conns \ {c} :
              /\ link'[x] = link[x] /\ asked'[x] = asked[x]
              /\ read'[x] = read[x] /\ wire'[x] = wire[x]
    BY <1>2, <1>6, <1>9 DEF Moves, Open
  <1>17. UNCHANGED << conn, home, late, services, listening >>
    BY <1>6
  <1>18. QED
    BY <1>8, <1>10, <1>11, <1>14, <1>15, <1>16, <1>17, OneConnection

LEMMA WriteReplies ==
  ASSUME Types, Replying, Serving, NEW t \in Threads, writeResponse(t)
  PROVE  Replying'
  <1>1. /\ posted \in [Threads -> Seq(Events)] /\ posted[t] # << >>
        /\ posted' = [posted EXCEPT ![t] = Tail(@)]
        /\ Head(posted[t]).kind = "answer"
        /\ UNCHANGED << link, asked, read, services, listening, conn, home, late, queue >>
    BY DEF writeResponse, Next_, SessionTypes, Types, server_vars, session_vars, main_vars
  <1>2. /\ Len(posted[t]) \in Nat
        /\ Len(posted'[t]) = Len(posted[t]) - 1
        /\ \A i \in 1..Len(posted[t]) - 1 : posted'[t][i] = posted[t][i + 1]
        /\ 1 \in 1..Len(posted[t]) /\ Head(posted[t]) = posted[t][1]
        /\ posted[t][1] \in Events
    BY <1>1, PostLess
  <1>3. PICK e \in AnswerEvents : e = posted[t][1]
    BY <1>1, <1>2, EventKinds
  <1>4. PICK s \in Sessions : s = e.session
    BY DEF AnswerEvents
  <1>5. PICK a \in AllReplies : a = e.answer
    BY DEF AnswerEvents, AllReplies
  <1>6. 1 \in AnsweredFor(t, s) /\ home[s] = t
    <2>1. 1 \in AnsweredFor(t, s)
      BY <1>1, <1>2, <1>3, <1>4 DEF AnsweredFor
    <2>2. QED
      BY <2>1 DEF Replying, Homed
  <1>7. wire' = written(s, a)
    BY <1>2, <1>3, <1>4, <1>5 DEF writeResponse
  <1>8. \A u \in Sessions : PostsElse(t, u) /\ CallsElse(u)
    BY <1>1 DEF PostsElse, CallsElse
  <1>9. \A c \in Conns : Moves(c) /\ (Homeless(c)' => Homeless(c))
    BY <1>1 DEF Moves, Homeless
  <1>10. CASE wire' = wire
    <2>1. Listed'
      BY <1>1 DEF Replying, Listed
    <2>2. /\ UNCHANGED << asked, read, wire, home, late >>
          /\ \A u \in Sessions : \A c \in Conns : conn'[u] = c => conn[u] = c
      BY <1>1, <1>10
    <2>3. QED
      BY <1>8, <1>9, <2>1, <2>2, QuietStep
  <1>11. CASE wire' # wire
    <2>1. PICK c \in Conns : conn[s] = c /\ link[c] = "accepted"
                             /\ wire' = [wire EXCEPT ![c] = Append(@, a)]
      BY <1>7, <1>11 DEF written, SessionTypes, Types
    <2>2. /\ wire' \in [Conns -> Seq(AllReplies)] /\ Len(wire[c]) \in Nat
          /\ \A d \in Conns \ {c} : wire'[d] = wire[d]
          /\ Len(wire'[c]) = Len(wire[c]) + 1
          /\ \A i \in 1..Len(wire[c]) : wire'[c][i] = wire[c][i]
          /\ wire'[c][Len(wire[c]) + 1] = a
      BY ZenonT(30), <1>11, <2>1, WireMore DEF Replying
    <2>3. \A u \in Sessions : conn[u] = c => u = s
      BY <2>1 DEF Serving, NoneAssumption
    <2>4. ASSUME c \notin late
          PROVE  /\ read[c] = Len(asked[c]) /\ Len(asked[c]) = Len(wire[c]) + 1
                 /\ RightAnswer(a, asked[c][Len(asked[c])])
                 /\ CalledFor(s) = {} /\ \A i \in AnsweredFor(t, s) : i = 1
      <3>1. Owed(s, t, c)
        BY <1>6, <2>1, <2>4 DEF Replying, Owing
      <3>2. Awaits(c, a)
        BY <1>3, <1>5, <1>6, <3>1 DEF Owed
      <3>3. QED
        BY <1>6, <3>1, <3>2 DEF Owed, Awaits
    <2>5. ReplyTypes'
      BY <1>1, <2>2 DEF Replying, ReplyTypes
    <2>6. Unread(c)'
      BY <1>1, <2>1 DEF Unread, Homeless, Open
    <2>7. ASSUME c \notin late PROVE Paced(c)' /\ Answered(c)'
      <3>1. link'[c] = "accepted" /\ asked'[c] = asked[c] /\ read'[c] = read[c]
        BY <1>1, <2>1
      <3>2. Paced(c)'
        BY <2>2, <2>4, <2>7, <3>1 DEF Paced, Open
      <3>3. \A i \in 1..Len(wire[c]) :
              i <= Len(asked[c]) /\ RightAnswer(wire[c][i], asked[c][i])
        BY <2>1, <2>7 DEF Replying, Answered
      <3>4. ASSUME NEW i \in 1..Len(wire'[c])
            PROVE  i <= Len(asked'[c]) /\ RightAnswer(wire'[c][i], asked'[c][i])
        <4>1. CASE i \in 1..Len(wire[c])
          <5>1. wire'[c][i] = wire[c][i]
            BY <2>2, <4>1
          <5>2. QED
            BY <3>1, <3>3, <4>1, <5>1
        <4>2. CASE i \notin 1..Len(wire[c])
          <5>1. i = Len(wire[c]) + 1
            BY <2>2, <4>2
          <5>2. i = Len(asked[c]) /\ wire'[c][i] = a
            BY <2>2, <2>4, <2>7, <5>1
          <5>3. QED
            BY <2>2, <2>4, <2>7, <3>1, <5>1, <5>2
        <4>3. QED
          BY <4>1, <4>2
      <3>5. Answered(c)'
        BY <3>4 DEF Answered
      <3>6. QED
        BY <3>2, <3>5
    <2>8. ASSUME c \notin late PROVE Owed(s, t, c)'
      <3>1. CalledFor(s)' = {}
        BY <1>1, <2>4, <2>8 DEF CalledFor
      <3>2. ASSUME NEW i \in AnsweredFor(t, s)' PROVE FALSE
        <4>1. /\ i \in 1..Len(posted'[t])
              /\ posted'[t][i].kind = "answer" /\ posted'[t][i].session = s
          BY <3>2 DEF AnsweredFor
        <4>2. i \in 1..Len(posted[t]) - 1 /\ i + 1 \in 1..Len(posted[t])
          BY <1>2, <4>1
        <4>3. i + 1 \in AnsweredFor(t, s)
          BY <1>2, <4>1, <4>2 DEF AnsweredFor
        <4>4. i + 1 = 1
          BY <2>4, <2>8, <4>3
        <4>5. QED
          BY <4>2, <4>4
      <3>3. QED
        BY <3>1, <3>2, NothingOwed
    <2>9. ASSUME NEW u \in Sessions, NEW v \in Threads
          PROVE  /\ AnsweredFor(v, u)' # {} => home[u] = v
                 /\ c \notin late /\ conn[u] = c /\ home[u] = v /\ link'[c] # "closed"
                      => Owed(u, v, c)'
      BY <1>6, <1>8, <2>3, <2>8, StillHomed DEF Replying
    <2>10. /\ link[c] # "new" /\ Moves(c)
           /\ \A d \in Conns \ {c} :
                /\ link'[d] = link[d] /\ asked'[d] = asked[d]
                /\ read'[d] = read[d] /\ wire'[d] = wire[d]
      BY <1>1, <1>9, <2>1, <2>2
    <2>11. UNCHANGED << conn, home, late, services, listening >>
      BY <1>1
    <2>12. QED
      BY <1>8, <2>5, <2>6, <2>7, <2>9, <2>10, <2>11, OneConnection
  <1>12. QED
    BY <1>10, <1>11

LEMMA ServeReplies ==
  ASSUME Types, Replying, Called, serve
  PROVE  Replying'
  <1>1. /\ queue \in Seq(Calls) /\ queue # << >> /\ queue' = Tail(queue)
        /\ UNCHANGED << link, asked, read, wire, services, listening, conn, home, late >>
    BY DEF serve, ServerTypes, Types, conn_vars, session_vars
  <1>2. /\ Len(queue) \in Nat /\ Len(queue') = Len(queue) - 1
        /\ \A i \in 1..Len(queue) - 1 : queue'[i] = queue[i + 1]
        /\ 1 \in 1..Len(queue) /\ Head(queue) = queue[1] /\ queue[1] \in Calls
    BY <1>1, TailOfSeq, LenProperties
  <1>3. PICK e \in Calls : e = queue[1]
    BY <1>2
  <1>4. PICK s \in Sessions : s = e.session
    BY DEF Calls
  <1>5. PICK t \in Threads : t = home[s]
    BY <1>2, <1>3, <1>4 DEF Called
  <1>6. PICK a : a = [kind |-> "answer", session |-> s, answer |-> Answer(e.slot, e.vendor)]
    OBVIOUS
  <1>7. a \in Events
    BY <1>6 DEF Events, AnswerEvents, Calls
  <1>8. Listed'
    BY <1>1 DEF Replying, Listed
  <1>9. \A c \in Conns : Moves(c) /\ (Homeless(c)' => Homeless(c))
    BY <1>1 DEF Moves, Homeless
  <1>10. \A u \in Sessions : CallsElse(u)
    BY <1>1 DEF CallsElse
  <1>11. posted' = posted \/ posted' = [posted EXCEPT ![t] = Append(@, a)]
    BY <1>2, <1>3, <1>4, <1>5, <1>6 DEF serve
  <1>12. CASE posted' = posted
    <2>1. \A u \in Sessions : PostsElse(t, u)
      BY <1>12 DEF PostsElse
    <2>2. /\ UNCHANGED << asked, read, wire, home, late >>
          /\ \A u \in Sessions : \A c \in Conns : conn'[u] = c => conn[u] = c
      BY <1>1
    <2>3. QED
      BY <1>8, <1>9, <1>10, <2>1, <2>2, QuietStep
  <1>13. CASE posted' = [posted EXCEPT ![t] = Append(@, a)]
    <2>1. posted \in [Threads -> Seq(Events)]
      BY DEF SessionTypes, Types
    <2>2. /\ \A v \in Threads : Len(posted[v]) \in Nat /\ (v # t => posted'[v] = posted[v])
          /\ Len(posted'[t]) = Len(posted[t]) + 1
          /\ \A i \in 1..Len(posted[t]) : posted'[t][i] = posted[t][i]
          /\ posted'[t][Len(posted[t]) + 1] = a
      BY <1>7, <1>13, <2>1, PostMore
    <2>3. \A u \in Sessions : u # s => PostsElse(t, u)
      BY <1>6, <1>7, <1>13 DEF PostsElse
    <2>4. ReplyTypes'
      BY <1>1 DEF Replying, ReplyTypes
    <2>5. ASSUME NEW c \in Conns
          PROVE  Unread(c)' /\ ((c \notin late)' => Paced(c)' /\ Answered(c)')
      BY <1>1, <1>9, ConnKept DEF Replying, Types
    <2>6. ASSUME NEW v \in Threads, NEW u \in Sessions, AnsweredFor(v, u)' # {}
          PROVE  home'[u] = v
      <3>1. CASE u # s
        BY <1>1, <2>3, <2>6, <3>1, StillHomed DEF Replying
      <3>2. CASE u = s /\ v # t
        <4>1. AnsweredFor(v, u)' = AnsweredFor(v, u)
          BY <2>2, <3>2 DEF AnsweredFor
        <4>2. QED
          BY <1>1, <2>6, <4>1 DEF Replying, Homed
      <3>3. QED
        BY <1>1, <1>5, <3>1, <3>2
    <2>7. ASSUME NEW c \in Conns, c \notin late, conn[s] = c, link[c] # "closed"
          PROVE  Owed(s, t, c)'
      <3>1. Owed(s, t, c)
        BY <1>5, <2>7 DEF Replying, Owing
      <3>2. 1 \in CalledFor(s)
        BY <1>2, <1>3, <1>4 DEF CalledFor
      <3>3. /\ AnsweredFor(t, s) = {} /\ \A i \in CalledFor(s) : i = 1
            /\ Awaits(c, Answer(e.slot, e.vendor))
        BY <1>3, <3>1, <3>2 DEF Owed
      <3>4. CalledFor(s)' = {}
        <4>1. ASSUME NEW i \in CalledFor(s)' PROVE FALSE
          <5>1. i \in 1..Len(queue') /\ queue'[i].session = s
            BY <4>1 DEF CalledFor
          <5>2. i \in 1..Len(queue) - 1 /\ i + 1 \in 1..Len(queue)
            BY <1>2, <5>1
          <5>3. i + 1 \in CalledFor(s)
            BY <1>2, <5>1, <5>2 DEF CalledFor
          <5>4. i + 1 = 1
            BY <3>3, <5>3
          <5>5. QED
            BY <5>2, <5>4
        <4>2. QED
          BY <4>1
      <3>5. \A i \in AnsweredFor(t, s)' : i = Len(posted[t]) + 1
        <4>1. ASSUME NEW i \in AnsweredFor(t, s)' PROVE i = Len(posted[t]) + 1
          <5>1. /\ i \in 1..Len(posted'[t])
                /\ posted'[t][i].kind = "answer" /\ posted'[t][i].session = s
            BY <4>1 DEF AnsweredFor
          <5>2. i \notin 1..Len(posted[t])
            BY <2>2, <3>3, <5>1 DEF AnsweredFor
          <5>3. QED
            BY <2>2, <5>1, <5>2
        <4>2. QED
          BY <4>1
      <3>6. ASSUME NEW i \in AnsweredFor(t, s)' PROVE Awaits(c, posted[t][i].answer)'
        <4>1. posted'[t][i].answer = Answer(e.slot, e.vendor)
          BY <1>6, <2>2, <3>5, <3>6
        <4>2. Awaits(c, posted'[t][i].answer)
          BY <3>3, <4>1
        <4>3. QED
          BY <1>1, <4>2 DEF Awaits
      <3>7. \A i, j \in AnsweredFor(t, s)' : i = j
        BY <3>5
      <3>8. QED
        BY <3>4, <3>6, <3>7 DEF Owed
    <2>8. ASSUME NEW u \in Sessions, NEW v \in Threads, NEW c \in Conns,
                 c \notin late, conn[u] = c, home[u] = v, link[c] # "closed"
          PROVE  Owed(u, v, c)'
      <3>1. CASE u # s
        <4>1. c \in Conns \ late /\ asked'[c] = asked[c] /\ read'[c] = read[c]
              /\ wire'[c] = wire[c] /\ PostsElse(t, u) /\ CallsElse(u)
          BY <1>1, <1>10, <2>3, <2>8, <3>1
        <4>2. QED
          BY <2>8, <4>1, StillOwed DEF Replying
      <3>2. CASE u = s
        BY <1>5, <2>7, <2>8, <3>2
      <3>3. QED
        BY <3>1, <3>2
    <2>9. Homed'
      BY <2>6 DEF Homed
    <2>10. Owing'
      BY <1>1, <2>8 DEF Owing
    <2>11. QED
      BY <1>8, <2>4, <2>5, <2>9, <2>10 DEF Replying
  <1>14. QED
    BY <1>11, <1>12, <1>13

LEMMA ConnectionReplies ==
  ASSUME Types, Pooled, Serving, Called, Carried, Replying, Listed',
         NEW t \in Threads, newConnection(t)
  PROVE  Replying'
  <1>1. PICK c \in Conns :
          /\ posted[t] # << >> /\ posted' = [posted EXCEPT ![t] = Tail(@)]
          /\ TurnsAway(c) \/ \E s \in Sessions : Takes(t, s, c)
    BY ConnectionTaken
  <1>2. UNCHANGED << asked, read, wire, queue >>
    BY DEF newConnection, main_vars
  <1>3. \A s \in Sessions : PostsElse(t, s) /\ CallsElse(s)
    BY <1>1, <1>2 DEF PostsElse, CallsElse
  <1>4. CASE TurnsAway(c)
    <2>1. /\ UNCHANGED << asked, read, wire, home, late, conn >>
          /\ \A d \in Conns : Moves(d) /\ (Homeless(d)' => Homeless(d))
      BY <1>2, <1>4 DEF TurnsAway, Moves, Homeless, Open, ConnTypes, Types
    <2>2. \A s \in Sessions : \A d \in Conns : conn'[s] = d => conn[s] = d
      BY <2>1
    <2>3. QED
      BY <1>3, <2>1, <2>2, QuietStep
  <1>5. ASSUME NEW s \in Sessions, Takes(t, s, c) PROVE Replying'
    <2>1. /\ link' = link /\ conn[s] = None /\ home[s] \in {t, None}
          /\ home' = [home EXCEPT ![s] = t] /\ conn' = [conn EXCEPT ![s] = c]
          /\ late' = IF home[s] # None /\ Pending(s) THEN late \cup {c} ELSE late
      BY <1>5 DEF Takes
    <2>2. /\ home'[s] = t /\ \A u \in Sessions \ {s} : home'[u] = home[u]
          /\ conn'[s] = c /\ \A u \in Sessions \ {s} : conn'[u] = conn[u]
          /\ late \subseteq late' /\ late' \in SUBSET Conns
      BY <2>1 DEF SessionTypes, Types, Replying, ReplyTypes
    <2>3. ReplyTypes'
      BY <1>2, <2>2 DEF Replying, ReplyTypes
    <2>4. ASSUME NEW v \in Threads, NEW u \in Sessions, AnsweredFor(v, u)' # {}
          PROVE  home'[u] = v
      <3>1. home[u] = v
        BY <1>3, <2>4, StillHomed DEF Replying
      <3>2. QED
        BY <2>1, <2>2, <3>1 DEF NoneAssumption
    <2>5. ASSUME NEW d \in Conns
          PROVE  Unread(d)' /\ (d \notin late' => Paced(d)' /\ Answered(d)')
      <3>1. Homeless(d)' => Homeless(d)
        BY <2>1, <2>2 DEF Homeless, NoneAssumption
      <3>2. Moves(d) /\ asked'[d] = asked[d] /\ read'[d] = read[d] /\ wire'[d] = wire[d]
        BY <1>2, <2>1 DEF Moves
      <3>3. d \notin late' => d \notin late
        BY <2>2
      <3>4. QED
        BY <3>1, <3>2, <3>3, ConnKept DEF Replying, Types
    <2>6. ASSUME c \notin late' PROVE Owed(s, t, c)'
      <3>1. CalledFor(s) = {} /\ AnsweredFor(t, s) = {}
        <4>1. CASE home[s] = None
          <5>1. \A i \in 1..Len(queue) : queue[i].session # s
            BY <4>1 DEF Called, NoneAssumption
          <5>2. AnsweredFor(t, s) = {}
            BY <4>1 DEF Replying, Homed, NoneAssumption
          <5>3. QED
            BY <5>1, <5>2 DEF CalledFor
        <4>2. CASE home[s] # None
          <5>1. ~Pending(s) /\ home[s] = t
            BY <2>1, <2>6, <4>2
          <5>2. /\ ToSet(queue) = { queue[i] : i \in 1..Len(queue) }
                /\ ToSet(posted[t]) = { posted[t][i] : i \in 1..Len(posted[t]) }
            BY ToSetOfSeq DEF ServerTypes, SessionTypes, Types
          <5>3. CalledFor(s) = {}
            BY <5>1, <5>2 DEF Pending, CalledFor
          <5>4. AnsweredFor(t, s) = {}
            BY <5>1, <5>2 DEF Pending, AnsweredFor
          <5>5. QED
            BY <5>3, <5>4
        <4>3. QED
          BY <4>1, <4>2
      <3>2. CalledFor(s)' = {}
        BY <1>2, <3>1 DEF CalledFor
      <3>3. PICK k \in Nat : Passed(t, s, k)
        BY <1>3, AnswersKept DEF SessionTypes, Types
      <3>4. AnsweredFor(t, s)' = {}
        BY <3>1, <3>3 DEF Passed
      <3>5. QED
        BY <3>2, <3>4, NothingOwed
    <2>7. ASSUME NEW u \in Sessions, NEW v \in Threads, NEW d \in Conns, d \notin late',
                 conn'[u] = d, home'[u] = v, link'[d] # "closed"
          PROVE  Owed(u, v, d)'
      <3>1. CASE u = s
        BY <2>2, <2>6, <2>7, <3>1
      <3>2. CASE u # s
        <4>1. /\ d \in Conns \ late /\ conn[u] = d /\ home[u] = v /\ link[d] # "closed"
              /\ asked'[d] = asked[d] /\ read'[d] = read[d] /\ wire'[d] = wire[d]
              /\ PostsElse(t, u) /\ CallsElse(u)
          BY <1>2, <1>3, <2>1, <2>2, <2>7, <3>2
        <4>2. QED
          BY <4>1, StillOwed DEF Replying
      <3>3. QED
        BY <3>1, <3>2
    <2>8. Homed'
      BY <2>4 DEF Homed
    <2>9. Owing'
      BY <2>7 DEF Owing
    <2>10. QED
      BY <2>3, <2>5, <2>8, <2>9 DEF Replying
  <1>6. QED
    BY <1>1, <1>4, <1>5

LEMMA ReplyingInit == Init => Replying
  <1> SUFFICES ASSUME Init PROVE Replying
    OBVIOUS
  <1>1. Listed
    BY DEF Init, Listed
  <1>2. << >> \in Seq(AllReplies) /\ Len(<< >>) = 0
    OBVIOUS
  <1>3. ReplyTypes
    BY <1>2 DEF Init, ReplyTypes
  <1>4. \A s \in Sessions, t \in Threads : AnsweredFor(t, s) = {} /\ conn[s] = None
    BY <1>2 DEF Init, AnsweredFor
  <1>5. Homed
    BY <1>4 DEF Homed
  <1>6. Owing
    BY <1>4 DEF Owing, NoneAssumption
  <1>7. ASSUME NEW c \in Conns PROVE Unread(c) /\ Paced(c) /\ Answered(c)
    <2>1. link[c] = "new" /\ asked[c] = << >> /\ read[c] = 0 /\ wire[c] = << >>
      BY DEF Init
    <2>2. QED
      BY <1>2, <2>1 DEF Unread, Paced, Answered
  <1>8. QED
    BY <1>1, <1>3, <1>5, <1>6, <1>7 DEF Replying

LEMMA ReplyingNext == IInv /\ Replying /\ [Next]_vars => Replying'
  <1> SUFFICES ASSUME IInv, Replying, [Next]_vars PROVE Replying'
    OBVIOUS
  <1> USE DEF IInv
  <1>1. Listed'
    BY ListedNext DEF Replying
  <1>2. PICK t0 \in Threads : TRUE
    BY DEF FinitenessAssumption
  (* Nothing but connections changes, if anything.                         *)
  <1>3. ASSUME UNCHANGED << asked, read, wire, home, late, conn, posted, queue >>,
               \A c \in Conns : \/ link'[c] = link[c]
                                \/ link[c] = "accepted" /\ link'[c] = "left"
        PROVE  Replying'
    <2>1. \A c \in Conns : Moves(c) /\ (Homeless(c)' => Homeless(c))
      BY <1>3 DEF Moves, Homeless, Open
    <2>2. \A s \in Sessions : PostsElse(t0, s) /\ CallsElse(s)
      BY <1>3 DEF PostsElse, CallsElse
    <2>3. \A s \in Sessions : \A c \in Conns : conn'[s] = c => conn[s] = c
      BY <1>3
    <2>4. QED
      BY <1>1, <1>3, <2>1, <2>2, <2>3, QuietStep
  <1>4. ASSUME NEW c \in Conns, incomingConnection(c) PROVE Replying'
    <2>1. /\ link[c] = "new" /\ UNCHANGED << asked, read, wire, home, late, conn, queue >>
          /\ \/ posted' = posted /\ link' = link
             \/ \E t \in Threads :
                  /\ link' = [link EXCEPT ![c] = "accepted"]
                  /\ posted' = [posted EXCEPT ![t] =
                                  Append(@, [kind |-> "connection", conn |-> c])]
      BY <1>4, ConnectionAccepted DEF incomingConnection, session_vars
    <2>2. CASE posted' = posted /\ link' = link
      BY <1>3, <2>1, <2>2
    <2>3. ASSUME NEW t \in Threads, link' = [link EXCEPT ![c] = "accepted"],
                 posted' = [posted EXCEPT ![t] =
                              Append(@, [kind |-> "connection", conn |-> c])]
          PROVE  Replying'
      <3>1. PICK e \in Events : e = [kind |-> "connection", conn |-> c]
        BY DEF Events, ConnectionEvents
      <3>2. \A s \in Sessions : PostsElse(t, s) /\ CallsElse(s)
        BY <2>1, <2>3, <3>1 DEF PostsElse, CallsElse
      <3>3. link'[c] = "accepted" /\ \A d \in Conns \ {c} : link'[d] = link[d]
        BY <2>3 DEF ConnTypes, Types
      <3>4. \A d \in Conns : Moves(d) /\ (Homeless(d)' => Homeless(d))
        BY <2>1, <3>3 DEF Moves, Homeless
      <3>5. \A s \in Sessions : \A d \in Conns : conn'[s] = d => conn[s] = d
        BY <2>1
      <3>6. QED
        BY <1>1, <2>1, <3>2, <3>4, <3>5, QuietStep
    <2>4. QED
      BY <2>1, <2>2, <2>3
  <1>5. ASSUME NEW t \in Threads, DeferredDelete(t) PROVE Replying'
    <2>1. /\ posted[t] # << >> /\ posted' = [posted EXCEPT ![t] = Tail(@)]
          /\ UNCHANGED << link, asked, read, wire, home, late, conn, queue >>
      BY <1>5 DEF DeferredDelete, Next_, conn_vars, main_vars
    <2>2. \A c \in Conns : Moves(c) /\ (Homeless(c)' => Homeless(c))
      BY <2>1 DEF Moves, Homeless
    <2>3. \A s \in Sessions : PostsElse(t, s) /\ CallsElse(s)
      BY <2>1 DEF PostsElse, CallsElse
    <2>4. \A s \in Sessions : \A c \in Conns : conn'[s] = c => conn[s] = c
      BY <2>1
    <2>5. QED
      BY <1>1, <2>1, <2>2, <2>3, <2>4, QuietStep
  <1>6. ASSUME NEW s \in Sessions, onConnectionDie(s) PROVE Replying'
    <2>1. PICK t \in Threads, c \in Conns :
            /\ conn[s] = c
            /\ conn' = [conn EXCEPT ![s] = None]
            /\ link' = [link EXCEPT ![c] = "closed"]
            /\ home' = home /\ queue' = queue
            /\ \/ posted' = posted
               \/ posted' = [posted EXCEPT ![t] =
                               Append(@, [kind |-> "delete", session |-> s])]
      BY <1>6, ConnectionGone
    <2>2. UNCHANGED << asked, read, wire, late >>
      BY <1>6 DEF onConnectionDie
    <2>3. PICK e \in Events : e = [kind |-> "delete", session |-> s]
      BY DEF Events, DeleteEvents
    <2>4. \A u \in Sessions : PostsElse(t, u) /\ CallsElse(u)
      BY <2>1, <2>3 DEF PostsElse, CallsElse
    <2>5. link'[c] = "closed" /\ \A d \in Conns \ {c} : link'[d] = link[d]
      BY <2>1 DEF ConnTypes, Types
    <2>6. conn'[s] = None /\ \A u \in Sessions \ {s} : conn'[u] = conn[u]
      BY <2>1 DEF SessionTypes, Types
    <2>7. \A u \in Sessions : \A d \in Conns : conn'[u] = d => conn[u] = d
      BY <2>6 DEF NoneAssumption
    <2>8. \A d \in Conns : Moves(d) /\ (Homeless(d)' => Homeless(d))
      BY <2>1, <2>5, <2>6 DEF Moves, Homeless, Open
    <2>9. QED
      BY <1>1, <2>1, <2>2, <2>4, <2>7, <2>8, QuietStep
  <1>7. ASSUME NEW t \in Threads, run_end(t) PROVE Replying'
    <2>1. /\ UNCHANGED << asked, read, wire, home, late, posted, queue >>
          /\ \A s \in Sessions : conn'[s] = IF home[s] = t THEN None ELSE conn[s]
          /\ \A c \in Conns : /\ link'[c] = link[c] \/ link'[c] = "closed"
                              /\ \A s \in Sessions :
                                   home[s] = t /\ conn[s] = c => link'[c] = "closed"
      BY <1>7 DEF run_end, main_vars, NoneAssumption
    <2>2. \A c \in Conns : Moves(c) /\ (Homeless(c)' => Homeless(c))
      BY <2>1 DEF Moves, Homeless, Open
    <2>3. \A s \in Sessions : PostsElse(t, s) /\ CallsElse(s)
      BY <2>1 DEF PostsElse, CallsElse
    <2>4. \A s \in Sessions : \A c \in Conns : conn'[s] = c => conn[s] = c
      BY <2>1 DEF NoneAssumption
    <2>5. QED
      BY <1>1, <2>1, <2>2, <2>3, <2>4, QuietStep
  <1>8. ASSUME NEW c \in Conns, Leave(c) PROVE Replying'
    <2>1. link[c] = "accepted" /\ link' = [link EXCEPT ![c] = "left"]
      BY <1>8 DEF Leave
    <2>2. \A d \in Conns : \/ link'[d] = link[d]
                           \/ link[d] = "accepted" /\ link'[d] = "left"
      BY <2>1 DEF ConnTypes, Types
    <2>3. QED
      BY <1>3, <1>8, <2>2 DEF Leave, thread_vars, session_vars, main_vars
  <1>9. ASSUME NEW n \in 1..Cardinality(Threads), setThreadsNumber(n) PROVE Replying'
    BY <1>3, <1>9 DEF setThreadsNumber, conn_vars, thread_vars, session_vars, main_vars
  <1>10. CASE start \/ stop \/ stop_next
    BY <1>3, <1>10 DEF start, stop, stop_next, conn_vars, session_vars, main_vars
  <1>11. CASE UNCHANGED vars
    BY <1>3, <1>11 DEF vars, conn_vars, thread_vars, session_vars, main_vars
  <1>12. ASSUME NEW c \in Conns, NEW r \in Requests[c], Ask(c, r) PROVE Replying'
    BY <1>12, AskReplies
  <1>13. ASSUME NEW s \in Sessions, onRequest_page(s) \/ onRequest_control(s) \/ onTimeout(s)
         PROVE  Replying'
    BY <1>13, PageReplies, ControlReplies, TimeoutReplies
  <1>14. ASSUME NEW t \in Threads, writeResponse(t) \/ newConnection(t) PROVE Replying'
    BY <1>1, <1>14, WriteReplies, ConnectionReplies
  <1>15. CASE serve
    BY <1>15, ServeReplies
  <1>16. QED
    BY <1>4, <1>5, <1>6, <1>7, <1>8, <1>9, <1>10, <1>11, <1>12, <1>13, <1>14, <1>15
    DEF Next, MainNext, ThreadNext, SessionNext, ClientNext

LEMMA ReplyingImpliesOwn == Replying => OwnAnswers
  <1> SUFFICES ASSUME Replying PROVE OwnAnswers
    OBVIOUS
  <1>1. \A c \in Conns : DOMAIN wire[c] = 1..Len(wire[c])
    BY LenProperties DEF Replying, ReplyTypes
  <1>2. QED
    BY <1>1 DEF Replying, Answered, OwnAnswers

(* What a client reads are the answers to what it has asked, in order, but *)
(* for a 408 at the end: a page, or what Main has answered to the call, an *)
(* answer that suits the message; for any connections, sessions, threads,  *)
(* requests and service, also while the server is being stopped.  Excepted *)
(* are the clients of a session for which an older call was pending when   *)
(* they came.  (BrisaWebserverSession::respond, HttpSessionManager,        *)
(* BrisaService::call.)                                                    *)
THEOREM AnswersAreOwn == Spec => []OwnAnswers
  <1>1. Spec => []Replying
    <2>1. IInv /\ Replying /\ [Next]_vars => Replying'
      BY ReplyingNext
    <2>2. QED
      BY Invariance, ReplyingInit, <2>1, PTL DEF Spec
  <1>2. QED
    BY <1>1, ReplyingImpliesOwn, PTL
=============================================================================
