----------------------------- MODULE ServiceCall -----------------------------
(***************************************************************************)
(* What a service answers to a SOAP message sent to its control URL.  The  *)
(* message is parsed by BrisaActionXmlParser, the action is looked up and  *)
(* surrounded with the hooks of its vendor by BrisaService::call, and      *)
(* BrisaAction::call compares the names of the arguments.                  *)
(*                                                                         *)
(* A message is [envelope, bodies]: whether its root is an Envelope, and   *)
(* the children of each Body.  Such a child is [name, type, nodes], and a  *)
(* node [element, name, value]: what lies between two tags may be a        *)
(* comment.  A service class is known by the methods that have the right   *)
(* prototype, and a vendor by what its hooks return, 0 for success, or     *)
(* Absent, and by the names in the map its actions return.                 *)
(***************************************************************************)
EXTENDS Naturals, SequencesExt

CONSTANTS
  serviceType,   \* of the service
  actionList,    \* its actions, in order: [name, in, out], sets of names
  Methods,       \* the actions that its class has a method for
  Absent         \* a hook that the class does not have

UPNP_INVALID_ACTION == 401
UPNP_ACTION_FAILED == 501

Response(name, args) == << "response", name, args >>
Fault(code) == << "fault", code >>
NoAnswer == << "silence" >>

NoArguments == << >>
-----------------------------------------------------------------------------
(* The parser.                                                             *)
NothingParsed ==
  [method |-> "", serviceType |-> "", args |-> NoArguments, left |-> FALSE]

(* QMap::insert.                                                           *)
inserted(args, node) ==
  [n \in DOMAIN args \cup {node.name} |->
     IF n = node.name THEN node.value ELSE args[n]]

(* Fault: nothing is read after the first argument.                        *)
Fault_parseChild(p, child) ==
  IF p.left THEN p ELSE
  [method |-> child.name, serviceType |-> child.type, left |-> FALSE,
   args |-> FoldLeft(inserted, p.args,
                     SubSeq(child.nodes, 1, Min({1, Len(child.nodes)})))]

(* One child of a Body.  The first node that is not an element leaves      *)
(* parseElement as a whole.                                                *)
parseChild(p, child) ==
  IF p.left THEN p ELSE
  LET others == {i \in DOMAIN child.nodes : ~child.nodes[i].element}
      kept == IF others = {} THEN child.nodes
              ELSE SubSeq(child.nodes, 1, Min(others) - 1)
  IN  [method |-> child.name, serviceType |-> child.type,
       args |-> FoldLeft(inserted, p.args, kept), left |-> others # {}]

parseElement(p, body) ==
  FoldLeft(parseChild, [p EXCEPT !.left = FALSE], body)

(* What parseSOAP leaves in the parser, or nothing when it fails.          *)
parseSOAP(message) ==
  IF message.envelope THEN FoldLeft(parseElement, NothingParsed, message.bodies)
                      ELSE NothingParsed
isValid(parsed) == parsed.method # "" /\ parsed.serviceType # ""
-----------------------------------------------------------------------------
(* bindActionsToServiceMethods: an action is bound to the method of its    *)
(* name, when there is one with the right prototype.                       *)
isBound(action) == action.name \in Methods

(* BrisaAction::call: every argument that came is known, there is a        *)
(* method, and every name it returns is known.                             *)
actionCall(action, args, vendor) ==
  /\ DOMAIN args \subseteq action.in
  /\ isBound(action)
  /\ vendor.result \subseteq action.out

handleActionFailure(vendor) ==
  Fault(IF vendor.failure = Absent THEN UPNP_ACTION_FAILED ELSE vendor.failure)

Refuses(hook) == hook \notin {Absent, 0}

(* BrisaAbstractService::getAction: the first of the name, if any.         *)
getAction(name) ==
  LET i == SelectInSeq(actionList, LAMBDA action : action.name = name)
  IN  IF i = 0 THEN << >> ELSE << actionList[i] >>

(* BrisaService::call.                                                     *)
call(method, args, vendor) ==
  LET action == getAction(method)
  IN  IF action = << >> THEN Fault(UPNP_INVALID_ACTION)
      ELSE IF Refuses(vendor.pre) THEN Fault(vendor.pre)
      ELSE IF ~actionCall(action[1], args, vendor) THEN handleActionFailure(vendor)
      ELSE IF Refuses(vendor.post) THEN Fault(vendor.post)
      ELSE Response(method, args)

onInvalidRequest == Fault(UPNP_INVALID_ACTION)

(* Fault: a message that is not valid gets no answer either.               *)
Fault_controlRequest(request) ==
  LET parsed == parseSOAP(request.message)
  IN  IF request.method # "POST" \/ ~isValid(parsed)
         \/ parsed.serviceType # serviceType THEN << >>
      ELSE << [invalid |-> FALSE, method |-> parsed.method, args |-> parsed.args] >>

(* BrisaControlWebService::onRequest: what Main is to do for a message, if *)
(* anything.  A message that is no POST, or for another type of service,   *)
(* gets no answer.                                                         *)
controlRequest(request) ==
  LET parsed == parseSOAP(request.message)
  IN  IF request.method # "POST" THEN << >>
      ELSE IF ~isValid(parsed) THEN << [invalid |-> TRUE] >>
      ELSE IF parsed.serviceType # serviceType THEN << >>
      ELSE << [invalid |-> FALSE, method |-> parsed.method, args |-> parsed.args] >>

(* What the slot in Main answers.                                          *)
Answer(slot, vendor) ==
  IF slot.invalid THEN onInvalidRequest ELSE call(slot.method, slot.args, vendor)
-----------------------------------------------------------------------------
(* What the answer to a request should be, told from the message and not   *)
(* from the way it is taken apart.  A proper message has one Body with one *)
(* child in it, the arguments of which are elements with different names.  *)
Proper(message) ==
  /\ message.envelope
  /\ \E body \in ToSet(message.bodies) :
       /\ message.bodies = << body >>
       /\ Len(body) = 1
       /\ \A node \in ToSet(body[1].nodes) : node.element
       /\ \A i, j \in DOMAIN body[1].nodes :
            body[1].nodes[i].name = body[1].nodes[j].name => i = j

Sent(child) ==
  [n \in {node.name : node \in ToSet(child.nodes)} |->
     (CHOOSE node \in ToSet(child.nodes) : node.name = n).value]

(* A child without a name, or without the attribute that tells its type.   *)
Unnamed(child) == child.name = "" \/ child.type = ""

(* The first action of a name, and whether it takes what was sent and does *)
(* what it promises.                                                       *)
Offered(name) == \E i \in DOMAIN actionList : actionList[i].name = name
ActionOf(name) == actionList[Min({i \in DOMAIN actionList : actionList[i].name = name})]
Done(child, vendor) ==
  /\ DOMAIN Sent(child) \subseteq ActionOf(child.name).in
  /\ child.name \in Methods
  /\ vendor.result \subseteq ActionOf(child.name).out

FailureCode(vendor) ==
  IF vendor.failure = Absent THEN UPNP_ACTION_FAILED ELSE vendor.failure

(* Whether an answer suits a proper message: a response repeats what was   *)
(* sent, all of it, and comes from an action that is offered, understands  *)
(* the arguments and was not refused by anybody; a fault has the code of   *)
(* who refuses first.                                                      *)
Suits(answer, message, vendor) ==
  LET child == message.bodies[1][1]
      known == ~Unnamed(child) /\ Offered(child.name)
      accepted == known /\ ~Refuses(vendor.pre)
      succeeds == accepted /\ Done(child, vendor)
      confirmed == succeeds /\ ~Refuses(vendor.post)
      code == IF ~known THEN UPNP_INVALID_ACTION
              ELSE IF ~accepted THEN vendor.pre
              ELSE IF ~succeeds THEN FailureCode(vendor) ELSE vendor.post
  IN  /\ Unnamed(child) \/ child.type = serviceType
      /\ answer = IF confirmed THEN Response(child.name, Sent(child)) ELSE Fault(code)
=============================================================================
