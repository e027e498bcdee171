---------------------------- MODULE StateVariable ----------------------------
(***************************************************************************)
(* The state variables of a service: its description file is parsed        *)
(* (BrisaServiceXMLHandler), the defaults are set, its methods set values  *)
(* that BrisaStateVariable checks, and a change is told by a signal, which *)
(* BrisaEventController turns into a multicast datagram.  A control point  *)
(* reads it (BrisaMulticastEventReceiver).                                 *)
(*                                                                         *)
(* A text is a string; what Qt makes of it, as a number or with the marks  *)
(* that the receiver drops, is given by Number and Read.  Datagrams on one *)
(* socket keep their order, and may be lost or come from somebody else.    *)
(***************************************************************************)
EXTENDS Integers, SequencesExt, FiniteSetsExt, TLC

CONSTANTS
  Documents,   \* the description files: sequences of stateVariable elements
  Texts,       \* what a method may set
  Number,      \* [texts -> Int], 0 for what is no number
  Read,        \* [texts -> texts], what the receiver takes it for
  Foreign,     \* the datagrams of others
  SeqMax,      \* 0xFFFFFFFF
  MaxSets, MaxForeign, MaxInFlight   \* bounds

(* Documents are sequences, and nobody else uses a key of the service.     *)
StateVariableConstants ==
  /\ SeqMax \in Nat \ {0}
  /\ \A d \in Documents : d \in Seq(ToSet(d))
  /\ \A m \in Foreign : m.complete => m.key \notin 0..SeqMax - 1

VARIABLES
  parsed,            \* the description file has been parsed
  stateVariableList,
  initialSeq,        \* the next key of the service's multicast messages
  wire,              \* datagrams on their way
  attributes,        \* of the last message that was received
  sets, foreign,     \* how many values have been set, and foreign datagrams seen
  told,              \* of each variable, the value in its last signal
  keys,              \* the last two keys that were used
  missed             \* the last datagram of the service has been lost

history_vars == << told, keys, missed >>
vars == << parsed, stateVariableList, initialSeq, wire, attributes, sets,
           foreign, history_vars >>

Untold == "untold"
NoMessage == << >>

Init ==
  /\ parsed = FALSE
  /\ stateVariableList = << >> /\ initialSeq = 0
  /\ wire = << >> /\ attributes = NoMessage
  /\ sets = 0 /\ foreign = 0
  /\ told = << >> /\ keys = << >> /\ missed = FALSE
-----------------------------------------------------------------------------
(* The parser: a range without both ends drops its variable.  The new      *)
(* variable's value is the number of an enumerator, not the default.       *)
Enumerator == "7"

BrisaStateVariable(element) ==
  [name |-> element.name, dataType |-> element.dataType,
   defaultValue |-> element.defaultValue, allowed |-> element.allowed,
   minimum |-> element.minimum, maximum |-> element.maximum,
   sendEvents |-> element.sendEvents = "yes",
   multicast |-> element.multicast = "yes",
   value |-> Enumerator]

HasRange(element) == element.minimum # "" \/ element.maximum # ""
Kept(element) ==
  HasRange(element) => element.minimum # "" /\ element.maximum # ""

parseService(document) ==
  LET list[n \in 0..Len(document)] ==
        IF n = 0 THEN << >>
        ELSE IF Kept(document[n]) THEN Append(list[n - 1], BrisaStateVariable(document[n]))
        ELSE list[n - 1]
  IN  list[Len(document)]
-----------------------------------------------------------------------------
getDataType(dataType) ==
  CASE dataType \in {"ui1", "ui2", "ui4"} -> "UInt"
    [] dataType \in {"i1", "i2", "i4", "int"} -> "Int"
    [] dataType \in {"r4", "r8", "number", "fixed", "float"} -> "Double"
    [] dataType \in {"string", "bin.base64", "bin.hex", "uri", "uuid"} -> "String"
    [] dataType = "boolean" -> "Bool"
    [] dataType = "date" -> "Date"
    [] dataType \in {"dateTime", "dateTime.tz"} -> "DateTime"
    [] dataType \in {"time", "time.tz"} -> "Time"
    [] dataType = "char" -> "Char"
    [] OTHER -> "Invalid"

(* QVariant::canConvert, of a text.                                        *)
canConvert(type) == type \notin {"Char", "Invalid"}

(* QString::toUInt gives 0 for a negative number.                          *)
converted(type, text) ==
  IF type = "UInt" THEN Max({0, Number[text]}) ELSE Number[text]

InRange(v, type, text) ==
  \/ v.minimum = "" \/ v.maximum = ""
  \/ converted(type, text) \in converted(type, v.minimum) .. converted(type, v.maximum)

validateNewValue(v, text) ==
  LET type == getDataType(v.dataType)
  IN  /\ canConvert(type)
      /\ type = "String" => v.allowed = {} \/ text \in v.allowed
      /\ type = "Bool" => text \in {"0", "1", "true", "false", "yes", "no"}
      /\ type \in {"UInt", "Int", "Double"} => InRange(v, type, text)

(* setAttribute(Value): what is allowed and new is stored.                 *)
Accepts(v, text) == validateNewValue(v, text) /\ v.value # text

(* The text of an attribute, of those that anybody asks for.               *)
getAttribute(v, attr) == v[attr]

(* Fault: the key after the largest one is the largest one.                *)
Fault_getNextMulticastSeq(seq) ==
  IF seq = SeqMax THEN [seq |-> 1, key |-> SeqMax]
  ELSE [seq |-> seq + 1, key |-> seq]

(* The key of a message, and the next one.                                 *)
getNextMulticastSeq(seq) ==
  IF seq = SeqMax THEN [seq |-> 1, key |-> 0]
  ELSE [seq |-> seq + 1, key |-> seq]

BrisaMulticastEventMessage(v, key) ==
  [complete |-> TRUE, name |-> getAttribute(v, "name"),
   value |-> getAttribute(v, "value"), key |-> key]
-----------------------------------------------------------------------------
(* What a service is while values are set: the list, the next key, and the *)
(* datagrams, signals and keys so far.                                     *)
Service ==
  [list |-> stateVariableList, seq |-> initialSeq, wire |-> wire,
   told |-> told, keys |-> keys]

lastTwo(s) == SubSeq(s, Max({1, Len(s) - 1}), Len(s))

(* BrisaEventController::variableChanged: connected to the variables that  *)
(* send events.  The subscribers are in EventController.                   *)
variableChanged(service, i) ==
  LET v == service.list[i]
      next == getNextMulticastSeq(service.seq)
      heard == [service EXCEPT !.told[i] = getAttribute(v, "value")]
  IN  IF ~v.multicast THEN heard
      ELSE [heard EXCEPT !.seq = next.seq,
              !.keys = lastTwo(Append(@, next.key)),
              !.wire = Append(@, BrisaMulticastEventMessage(v, next.key))]

setAttribute(service, i, text) ==
  LET stored == [service EXCEPT !.list[i].value = text]
  IN  IF ~Accepts(service.list[i], text) THEN service
      ELSE IF service.list[i].sendEvents THEN variableChanged(stored, i)
      ELSE stored

setDefaultValues(service) ==
  LET set[n \in 0..Len(service.list)] ==
        IF n = 0 THEN service
        ELSE LET s == set[n - 1]
             IN  setAttribute(s, n, getAttribute(s.list[n], "defaultValue"))
  IN  set[Len(service.list)]

Become(service) ==
  /\ stateVariableList' = service.list
  /\ initialSeq' = service.seq
  /\ wire' = service.wire
  /\ told' = service.told
  /\ keys' = service.keys
  /\ missed' = (missed /\ service.wire = wire)

(* The web services of the device are built: the event controller is       *)
(* connected before the defaults are set.                                  *)
parseDescriptionFile(document) ==
  LET list == parseService(document)
  IN  /\ ~parsed
      /\ parsed' = TRUE
      /\ Become(setDefaultValues(
           [Service EXCEPT !.list = list, !.told = [i \in DOMAIN list |-> Untold]]))
      /\ UNCHANGED << attributes, sets, foreign >>

(* getVariable: the first of the name.                                     *)
getVariable(name) ==
  LET named == {i \in DOMAIN stateVariableList : getAttribute(stateVariableList[i], "name") = name}
  IN  IF named = {} THEN {} ELSE {Min(named)}

(* A method of the service sets a variable it looks up.                    *)
SetValue(name, text) ==
  /\ parsed /\ sets < MaxSets /\ Len(wire) < MaxInFlight
  /\ \E i \in getVariable(name) : Become(setAttribute(Service, i, text))
  /\ sets' = sets + 1
  /\ UNCHANGED << parsed, attributes, foreign >>
-----------------------------------------------------------------------------
(* BrisaMulticastEventReceiver: a message without a body, or one with a    *)
(* length that is not the body's, changes nothing.                         *)
formatMessage(message) ==
  IF message.complete
  THEN [name |-> message.name, value |-> Read[message.value], key |-> message.key]
  ELSE attributes

read ==
  /\ wire # << >>
  /\ attributes' = formatMessage(Head(wire))
  /\ wire' = Tail(wire)
  /\ UNCHANGED << parsed, stateVariableList, initialSeq, sets, foreign, history_vars >>

LastOwn(i) == i = Max({j \in DOMAIN wire : wire[j] \notin Foreign} \cup {0})

Lose ==
  /\ wire # << >>
  /\ \E i \in DOMAIN wire :
       /\ wire' = RemoveAt(wire, i)
       /\ missed' = (missed \/ LastOwn(i))
  /\ UNCHANGED << parsed, stateVariableList, initialSeq, attributes, sets, foreign,
                  told, keys >>

Others(message) ==
  /\ foreign < MaxForeign
  /\ foreign' = foreign + 1
  /\ wire' = Append(wire, message)
  /\ UNCHANGED << parsed, stateVariableList, initialSeq, attributes, sets, history_vars >>

Names == UNION {{d[i].name : i \in DOMAIN d} : d \in Documents}

Next ==
  \/ \E d \in Documents : parseDescriptionFile(d)
  \/ \E name \in Names, text \in Texts : SetValue(name, text)
  \/ read
  \/ Lose
  \/ \E message \in Foreign : Others(message)

Spec == Init /\ [][Next]_vars
-----------------------------------------------------------------------------
(* The listeners know the value that a variable has, once they have been   *)
(* told one (setAttribute).                                                *)
ToldCurrent ==
  \A i \in DOMAIN stateVariableList :
    told[i] # Untold => told[i] = stateVariableList[i].value

(* A variable has the value it was made with or one that its description   *)
(* allows (validateNewValue).                                              *)
Allowed(v) ==
  \/ v.value = Enumerator
  \/ /\ v.dataType = "string" /\ v.allowed # {} => v.value \in v.allowed
     /\ v.dataType = "i4" /\ v.minimum # "" =>
          Number[v.value] \in Number[v.minimum] .. Number[v.maximum]

(* Whatever variable a multicast message is about, its key follows the one *)
(* before it, up to the largest and from 0 again (getNextMulticastSeq, the *)
(* pointer that the variables of a service share).                         *)
KeysFollow == Len(keys) = 2 => keys[2] = (keys[1] + 1) % SeqMax

(* When the last datagram of the service was not lost and nothing is on    *)
(* its way, the control point knows the value of the variable that changed *)
(* last; save for the texts in which the receiver drops something, and     *)
(* when what it received last came from somebody else.                     *)
ReceiverCurrent ==
  keys # << >> /\ wire = << >> /\ ~missed
      /\ (\A m \in Foreign : m.complete => m.key # attributes.key) =>
    \E v \in ToSet(stateVariableList) :
      v.name = attributes.name /\ (v.value = attributes.value \/ Read[v.value] # v.value)

(* What is told of a variable is right, in order, and allowed: the signals *)
(* of setAttribute, the datagrams of the event controller and what the     *)
(* receiver makes of them.                                                 *)
EventsTell ==
  /\ ToldCurrent /\ KeysFollow /\ ReceiverCurrent
  /\ \A i \in DOMAIN stateVariableList : Allowed(stateVariableList[i])
=============================================================================
