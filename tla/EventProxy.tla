----------------------------- MODULE EventProxy -----------------------------
(***************************************************************************)
(* The subscriptions of a control point: BrisaEventProxy asks a device to  *)
(* subscribe, renew and unsubscribe over the one QHttp of the control      *)
(* point, and BrisaControlPoint::httpResponse hands the SID to the proxy   *)
(* with the request's number.  A proxy is known by its delivery path.      *)
(*                                                                         *)
(* QHttp, which takes requests in turn and numbers them, and the device    *)
(* are external; the device numbers its SIDs.                              *)
(***************************************************************************)
EXTENDS Naturals, SequencesExt, FiniteSetsExt

CONSTANTS
  Services,                \* of the device
  MaxProxies, MaxRequests  \* bounds

VARIABLES
  proxies,       \* of each delivery path: [service, requestId, SID]
  http,          \* the requests that QHttp has not finished
  ids,           \* how many it has numbered
  crashed,
  sids,          \* how many SIDs the device has given
  subscriptions, \* of the device: [sid, path, service]
  given,         \* all subscriptions the device ever had
  unsure         \* proxies that subscribed again, or had an error

device_vars == << sids, subscriptions, given >>
vars == << proxies, http, ids, crashed, device_vars, unsure >>

NoSid == 0
NoRequest == 0

Init ==
  /\ proxies = << >>
  /\ http = << >> /\ ids = 0
  /\ crashed = FALSE
  /\ sids = 0 /\ subscriptions = {} /\ given = {}
  /\ unsure = {}

deliveryPath == Len(proxies)
-----------------------------------------------------------------------------
(* The control point and its application.                                  *)
getSubscriptionProxy(service) ==
  /\ ~crashed /\ deliveryPath < MaxProxies
  /\ proxies' = Append(proxies, [service |-> service, requestId |-> NoRequest, SID |-> NoSid])
  /\ UNCHANGED << http, ids, crashed, device_vars, unsure >>

(* QHttp::request.                                                         *)
Ask(p, kind, sid) ==
  /\ ids < MaxRequests
  /\ ids' = ids + 1
  /\ http' = Append(http, [id |-> ids + 1, kind |-> kind, path |-> p, sid |-> sid,
                           service |-> proxies[p].service, answer |-> << >>])

(* A request whose number the proxy keeps, its last one.                   *)
AskAndKeep(p, kind, sid) ==
  /\ Ask(p, kind, sid)
  /\ proxies' = [proxies EXCEPT ![p].requestId = ids + 1]

subscribe(p) ==
  /\ ~crashed
  /\ AskAndKeep(p, "subscribe", NoSid)
  /\ unsure' = IF proxies[p].requestId = NoRequest THEN unsure ELSE unsure \cup {p}
  /\ UNCHANGED << crashed, device_vars >>

(* Without a SID there is no request to be sent, and it is dereferenced.   *)
renew(p) ==
  /\ ~crashed
  /\ IF proxies[p].SID = NoSid
     THEN crashed' = TRUE /\ UNCHANGED << http, ids, proxies >>
     ELSE AskAndKeep(p, "renew", proxies[p].SID) /\ UNCHANGED crashed
  /\ UNCHANGED << device_vars, unsure >>

(* The number of the request is not kept, nor is the SID cleared.          *)
unsubscribe(p) ==
  /\ ~crashed
  /\ Ask(p, "unsubscribe", proxies[p].SID)
  /\ UNCHANGED << proxies, crashed, device_vars, unsure >>

(* Fault: the answer is for any proxy that still waits for one.            *)
Fault_Requester(id) ==
  LET waiting == {p \in DOMAIN proxies : proxies[p].requestId >= id}
  IN  IF waiting = {} THEN {} ELSE {Min(waiting)}

(* The proxy an answer is for.                                             *)
Requester(id) ==
  LET asking == {p \in DOMAIN proxies : proxies[p].requestId = id}
  IN  IF asking = {} THEN {} ELSE {Min(asking)}

(* requestFinished: an answer with a SID gives it to the proxy.            *)
httpResponse ==
  /\ ~crashed
  /\ http # << >> /\ Head(http).answer # << >>
  /\ LET sid == Head(http).answer[1]
     IN  proxies' = [p \in DOMAIN proxies |->
           IF p \in Requester(Head(http).id) /\ sid # NoSid
           THEN [proxies[p] EXCEPT !.SID = sid] ELSE proxies[p]]
  /\ http' = Tail(http)
  /\ UNCHANGED << ids, crashed, device_vars, unsure >>

(* ... or with an error, whatever the device has done; QHttp then drops    *)
(* what waits behind it.                                                   *)
httpResponse_error ==
  /\ ~crashed
  /\ http # << >>
  /\ http' = << >>
  /\ unsure' = unsure \cup {http[i].path : i \in DOMAIN http}
  /\ UNCHANGED << proxies, ids, crashed, device_vars >>
-----------------------------------------------------------------------------
(* The device serves a request, or refuses it.                             *)
Answered(sid) == http' = [http EXCEPT ![1].answer = << sid >>]

Serve ==
  /\ http # << >> /\ Head(http).answer = << >>
  /\ LET r == Head(http)
         known == {s \in subscriptions : s.sid = r.sid}
         new == [sid |-> sids + 1, path |-> r.path, service |-> r.service]
     IN  \/ /\ r.kind = "subscribe"
            /\ sids' = sids + 1
            /\ subscriptions' = subscriptions \cup {new}
            /\ given' = given \cup {new}
            /\ Answered(sids + 1)
         \/ /\ r.kind = "renew" /\ known # {}
            /\ Answered(r.sid)
            /\ UNCHANGED << sids, subscriptions, given >>
         \/ /\ r.kind = "unsubscribe"
            /\ subscriptions' = subscriptions \ known
            /\ Answered(NoSid)
            /\ UNCHANGED << sids, given >>
         \/ Answered(NoSid) /\ UNCHANGED << sids, subscriptions, given >>
  /\ UNCHANGED << proxies, ids, crashed, unsure >>

Expire(s) ==
  /\ subscriptions' = subscriptions \ {s}
  /\ UNCHANGED << proxies, http, ids, crashed, sids, given, unsure >>

Next ==
  \/ \E service \in Services : getSubscriptionProxy(service)
  \/ \E p \in DOMAIN proxies : subscribe(p) \/ renew(p) \/ unsubscribe(p)
  \/ httpResponse \/ httpResponse_error
  \/ Serve
  \/ \E s \in subscriptions : Expire(s)

Spec == Init /\ [][Next]_vars
-----------------------------------------------------------------------------
(* A proxy has the SID of a subscription that the device has made for that *)
(* proxy and its service, however the answers to several proxies lie       *)
(* between (httpResponse finds them by the number of the request).  And    *)
(* when nothing is under way for a proxy that subscribed once and had no   *)
(* error, it knows the subscription that the device has under its path, so *)
(* that the application can end it: unsubscribe keeps no number, and an    *)
(* answer without a SID changes nothing.                                   *)
OwnSid ==
  /\ \A p \in DOMAIN proxies :
       proxies[p].SID # NoSid =>
         [sid |-> proxies[p].SID, path |-> p, service |-> proxies[p].service] \in given
  /\ \A s \in subscriptions :
       s.path \notin unsure /\ (\A i \in DOMAIN http : http[i].path # s.path) =>
         proxies[s.path].SID = s.sid
=============================================================================
