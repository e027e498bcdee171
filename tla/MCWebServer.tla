----------------------------- MODULE MCWebServer -----------------------------
(* Two connections, at most two threads, a pool of one session, and a    *)
(* service with one action.                                                *)
EXTENDS WebServer

element(name, value) == [element |-> TRUE, name |-> name, value |-> value]
child(name, type, nodes) == [name |-> name, type |-> type, nodes |-> nodes]
one(c) == [envelope |-> TRUE, bodies |-> << << c >> >>]

Kind == [pre |-> Absent, result |-> {"out"}, post |-> 0, failure |-> Absent]

MCActions == << [name |-> "browse", in |-> {"a", "b"}, out |-> {"out"}],
                [name |-> "search", in |-> {"a"}, out |-> {"out"}] >>

post(message, vendor) ==
  [uri |-> "/service/control", method |-> "POST", message |-> message, vendor |-> vendor]
get(uri, method) ==
  [uri |-> uri, method |-> method, message |-> [envelope |-> FALSE, bodies |-> << >>], vendor |-> Kind]

Both == << element("a", 1), element("b", 2) >>
CONSTANTS c1, c2
Call == post(one(child("browse", "type", << element("a", 4) >>)), Kind)
MCRequests ==
  (c1 :> {get("/device.xml", "GET"), get("/nowhere", "GET"), get("/service/control", "GET"),
          get("/service/scpd", "NOTIFY"),
          post(one(child("browse", "", Both)), Kind),
          post(one(child("search", "type", << element("a", 4) >>)), [Kind EXCEPT !.failure = 0]),
          post(one(child("browse", "type", Both)), Kind),
          post([envelope |-> FALSE, bodies |-> << >>], Kind)})
  @@ (c2 :> {Call, get("/1", "NOTIFY")})
=============================================================================
