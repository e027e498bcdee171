----------------------------- MODULE Description -----------------------------
(***************************************************************************)
(* What a device says of itself, and what a control point makes of it.     *)
(*                                                                         *)
(*   - a vendor builds a BrisaDevice and starts it: its description is     *)
(*     written (BrisaDeviceXMLHandler) and its pages are served;           *)
(*   - a control point that has been told its location gets the            *)
(*     description, reads it (BrisaDeviceXMLHandlerCP) and gets the        *)
(*     description of each service, waiting for it in an event loop of its *)
(*     own (BrisaServiceFetcher), in which it may be told another location;*)
(*   - it calls actions of the services it has read                        *)
(*     (BrisaControlPointService), whose answers come in any order, and    *)
(*     loads the icons of the devices.                                     *)
(*                                                                         *)
(* A text is a sequence of tokens, << >> the empty one.  A document is the *)
(* sequence of its elements as they begin, each with its depth.            *)
(***************************************************************************)
EXTENDS Naturals, FiniteSets, SequencesExt

CONSTANTS
  Built,         \* the attributes the vendor constructs a device with
  Settings,      \* what it may set later, << attribute, text >>
  Offered,       \* the services it may add
  Icons,         \* the icons it may add
  Embedded,      \* the devices it may embed, [attrs, services]
  Scpd,          \* what the file of a type of service describes: the actions
                 \* of the service, each with the set of its out arguments
  urlBase,       \* of the device
  Tokens,        \* what texts are made of
  Digits,        \* the tokens that are numbers
  MaxSettings,   \* bound: operations on the device before it starts
  MaxGets,       \* bound: locations the control point is told
  MaxCalls       \* bound: calls of actions, and of downloadIcons

(* The elements with a text, in the order they are written.                *)
DeviceTags ==
  << "deviceType", "friendlyName", "manufacturer", "manufacturerURL",
     "modelDescription", "modelName", "modelNumber", "modelURL", "serialNumber",
     "UDN", "UPC" >>
IconTags == << "mimetype", "width", "height", "depth", "url" >>
ServiceTags == << "serviceType", "serviceId", "SCPDURL", "controlURL", "eventSubURL" >>

(* Devices, icons and services have all their attributes; the application  *)
(* tells locations on the device's own server; after its second ":", the   *)
(* address of this server has the digits of a port.                        *)
Text == Seq(Tokens)
Attributes == ToSet(DeviceTags) \cup {"presentationURL", "major", "minor"}
IconTexts == [ToSet(IconTags) -> Text]
ServiceTexts == [ToSet(ServiceTags) -> Text]
OnServer(location) ==
  /\ Len(location) > Len(urlBase) /\ location[Len(urlBase) + 1] = "/"
  /\ \A i \in DOMAIN urlBase : location[i] = urlBase[i]
ServerAddress(base) ==
  \E first, second \in DOMAIN base :
    /\ first < second /\ base[first] = ":" /\ base[second] = ":"
    /\ \A i \in DOMAIN base :
         /\ base[i] # "/"
         /\ i < second => i = first \/ base[i] # ":"
         /\ i > second => base[i] \in Digits
DescriptionConstants ==
  /\ Built \in [Attributes -> Text]
  /\ \A x \in Settings : x[2] \in Text /\ (x[1] = "location" => OnServer(x[2]))
  /\ Offered \subseteq ServiceTexts /\ Icons \subseteq IconTexts
  /\ \A d \in Embedded : d.attrs \in [Attributes -> Text] /\ d.services \in Seq(ServiceTexts)
  /\ urlBase \in Text /\ ServerAddress(urlBase) /\ ":" \notin Digits
  /\ {"1", "0", "/", ".xml"} \subseteq Tokens
ASSUME DescriptionAssumption == DescriptionConstants

VARIABLES
  (* the device *)
  device,        \* its attributes, lists, fileAddress and location
  settings,      \* how many operations it has seen
  deviceState,   \* "new", "running", "stopped"
  shown,         \* the device as it was when it started
  pages,         \* what its web server serves: << [path, page] >>
  (* the control point *)
  gets,          \* the locations it is getting
  locationsTold, \* how many it has been told
  readings,      \* the descriptions it is reading, the innermost loop last
  found,         \* the devices it has told the application
  calls,         \* the calls that have no answer yet
  called,        \* how many calls have been made, of downloadIcons, too
  results,       \* what the application has been told of its calls
  nullCall       \* "no", or the call it followed a null pointer for:
                 \* "alone", "overlapped" by another call of the service

device_vars == << device, settings, deviceState, shown, pages >>
call_vars == << calls, called, results, nullCall >>
description_vars == << device_vars, gets, locationsTold, readings, found, call_vars >>

-----------------------------------------------------------------------------
(* The device.                                                             *)

withoutSpaces(name) ==
  FlattenSeq([i \in DOMAIN name |-> IF name[i] = " " THEN << >> ELSE << name[i] >>])
FileOf(name) == withoutSpaces(name) \o << ".xml" >>

(* The two ways to construct one.                                          *)
EmptyDevice ==
  [attrs |-> [t \in DOMAIN Built |-> << >>], fileAddress |-> << >>,
   location |-> << >>, icons |-> << >>, services |-> << >>, devices |-> << >>]
BrisaDevice(attributes) ==
  [EmptyDevice EXCEPT
     !.attrs = [attributes EXCEPT !["major"] = << "1" >>, !["minor"] = << "0" >>],
     !.fileAddress = FileOf(attributes["friendlyName"]),
     !.location = urlBase \o << "/" >> \o FileOf(attributes["friendlyName"])]

DescriptionInit ==
  /\ device \in {EmptyDevice, BrisaDevice(Built)}
  /\ settings = 0 /\ deviceState = "new" /\ shown = device
  /\ pages = << >> /\ gets = << >> /\ locationsTold = 0 /\ readings = << >>
  /\ found = << >> /\ calls = << >> /\ called = 0 /\ results = << >>
  /\ nullCall = "no"

Operation(new) ==
  /\ deviceState # "stopped" /\ settings < MaxSettings
  /\ device' = new
  /\ settings' = settings + 1
  /\ UNCHANGED << deviceState, shown, pages, gets, locationsTold, readings, found, call_vars >>

setAttribute(key, v) ==
  Operation(CASE key = "location" -> [device EXCEPT !.location = v]
              [] key = "friendlyName" ->
                   [device EXCEPT !.attrs[key] = withoutSpaces(v),
                                  !.fileAddress = FileOf(v)]
              [] OTHER -> [device EXCEPT !.attrs[key] = v])

(* A service has its "/" before the address of its description.            *)
BrisaAbstractService(s) ==
  [s EXCEPT !["SCPDURL"] = IF @ # << >> /\ Head(@) = "/" THEN @ ELSE << "/" >> \o @]

addService(s) == Operation([device EXCEPT !.services = Append(@, BrisaAbstractService(s))])
addIcon(i) == Operation([device EXCEPT !.icons = Append(@, i)])
addEmbeddedDevice(d) ==
  Operation([device EXCEPT !.devices =
               Append(@, [BrisaDevice(d.attrs) EXCEPT !.services = d.services])])

(* What is written.                                                        *)
Element(depth, tag, text) == [depth |-> depth, tag |-> tag, text |-> text]
TextsOf(depth, tags, values) ==
  [i \in DOMAIN tags |-> Element(depth, tags[i], values[tags[i]])]
Record(depth, tag, tags, values) ==
  << Element(depth, tag, << >>) >> \o TextsOf(depth + 1, tags, values)
ListOf(depth, tag, elements) ==
  << Element(depth, tag, << >>) >> \o FlattenSeq(elements)

iconList(d, depth) ==
  ListOf(depth, "iconList",
         [i \in DOMAIN d.icons |-> Record(depth + 1, "icon", IconTags, d.icons[i])])
serviceList(d, depth) ==
  ListOf(depth, "serviceList",
         [i \in DOMAIN d.services |->
            Record(depth + 1, "service", ServiceTags, d.services[i])])

(* A device, with those in its deviceList, which have none of their own.   *)
deviceElements(d, depth, embedded) ==
  Record(depth, "device", DeviceTags, d.attrs)
    \o iconList(d, depth + 1)
    \o serviceList(d, depth + 1)
    \o ListOf(depth + 1, "deviceList", embedded)
    \o << Element(depth + 1, "presentationURL", d.attrs["presentationURL"]) >>
writeDevice(d, depth) ==
  deviceElements(d, depth,
                 [i \in DOMAIN d.devices |-> deviceElements(d.devices[i], depth + 2, << >>)])

xmlGenerator(d) ==
  << Element(0, "root", << >>) >>
    \o Record(1, "specVersion", << "major", "minor" >>, d.attrs)
    \o << Element(1, "URLBase", urlBase) >>
    \o writeDevice(d, 1)

(* Where it is served, with the pages of each service under its id and the *)
(* last section of its address.                                            *)
lastSection(url) ==
  LET slashes == {i \in DOMAIN url : url[i] = "/"}
  IN  IF slashes = {} THEN url ELSE SubSeq(url, Max(slashes) + 1, Len(url))
Page(path, kind, content) == [path |-> path, kind |-> kind, content |-> content]
buildWebServiceTree(s) ==
  LET under(url) == << "/" >> \o s["serviceId"] \o << "/" >> \o lastSection(url)
  IN  << Page(under(s["controlURL"]), "control", s["serviceType"]),
         Page(under(s["eventSubURL"]), "event", s["serviceType"]),
         Page(under(s["SCPDURL"]), "scpd", s["serviceType"]) >>
buildWebServerTree(d) ==
  << Page(<< "/" >>, "default", << >>),
     Page(<< "/" >> \o d.fileAddress, "description", xmlGenerator(d)) >>
    \o FlattenSeq([i \in DOMAIN d.services |-> buildWebServiceTree(d.services[i])])

start ==
  /\ deviceState = "new"
  /\ deviceState' = "running"
  /\ shown' = device
  /\ pages' = buildWebServerTree(device)
  /\ UNCHANGED << device, settings, gets, locationsTold, readings, found, call_vars >>

stop ==
  /\ deviceState = "running"
  /\ deviceState' = "stopped"
  /\ pages' = << >>
  /\ UNCHANGED << device, settings, shown, gets, locationsTold, readings, found, call_vars >>

(* What a request for a path is answered with: the first page of the path. *)
Nothing == Page(<< >>, "nothing", << >>)
served(path) ==
  LET matching == {k \in DOMAIN pages : pages[k].path = path}
  IN  IF matching = {} THEN Nothing ELSE pages[Min(matching)]

-----------------------------------------------------------------------------
(* The control point: reading a device.                                    *)

(* The numbers of a set in their order (SetToSortSeq of the library is     *)
(* beyond the prover).                                                     *)
inOrder(numbers) ==
  [n \in 1..Cardinality(numbers) |->
     CHOOSE i \in numbers : Cardinality({j \in numbers : j < i}) = n - 1]

(* elementsByTagName: the elements below the i-th with the tag.            *)
elementsByTagName(doc, i, tag) ==
  LET below == {j \in (i + 1)..Len(doc) :
                  /\ doc[j].tag = tag
                  /\ \A k \in (i + 1)..j : doc[k].depth > doc[i].depth}
  IN  inOrder(below)
textAt(doc, i, tag) ==
  LET found_tags == elementsByTagName(doc, i, tag)
  IN  IF found_tags = << >> THEN << >> ELSE doc[found_tags[1]].text
Fault_itemsOf(doc, i, list, item) == elementsByTagName(doc, i, item)
itemsOf(doc, i, list, item) ==
  LET lists == elementsByTagName(doc, i, list)
  IN  IF lists = << >> THEN << >> ELSE elementsByTagName(doc, lists[1], item)

RemovePath(location) ==
  LET slashes == {i \in DOMAIN location : location[i] = "/"}
  IN  IF slashes = {} THEN location ELSE SubSeq(location, 1, Min(slashes) - 1)
PathOf(location) == SubSeq(location, Len(RemovePath(location)) + 1, Len(location))

(* The base is cut after the digits of its port.                           *)
cutPort(base) ==
  LET colons == inOrder({i \in DOMAIN base : base[i] = ":"})
      end == CHOOSE n \in colons[2]..Len(base) :
               /\ \A i \in (colons[2] + 1)..n : base[i] \in Digits
               /\ n = Len(base) \/ base[n + 1] \notin Digits
  IN  IF Len(colons) < 2 THEN base ELSE SubSeq(base, 1, end)

ReadTags ==
  << "UDN", "friendlyName", "deviceType", "manufacturer", "manufacturerURL",
     "modelNumber", "modelURL", "serialNumber" >>

(* What is read before any service is fetched.  Of a document without      *)
(* version nothing is; the model's name is read from the manufacturer's    *)
(* element, and the fields of every icon from the first icon.              *)
parseDevice(doc, base) ==
  LET unread == [base |-> base, attrs |-> << >>, services |-> << >>, todo |-> << >>,
                 icons |-> << >>, fetched |-> FALSE]
      at == IF doc = << >> THEN 0 ELSE elementsByTagName(doc, 1, "device")[1]
      fields(i, tags) == [t \in ToSet(tags) |-> textAt(doc, i, t)]
      icons == itemsOf(doc, at, "iconList", "icon")
      services == itemsOf(doc, at, "serviceList", "service")
  IN  IF doc = << >> \/ textAt(doc, 1, "major") = << >> \/ textAt(doc, 1, "minor") = << >>
      THEN unread
      ELSE [unread EXCEPT
              !.base = IF services = << >> THEN base ELSE cutPort(base),
              !.attrs = [t \in ToSet(ReadTags) \cup {"modelName"} |->
                           textAt(doc, at, IF t = "modelName" THEN "manufacturer" ELSE t)],
              !.todo = [i \in DOMAIN services |->
                          BrisaAbstractService(fields(services[i], ServiceTags))],
              !.icons = [i \in DOMAIN icons |-> fields(icons[1], IconTags)]]

(* A new reading waits for its first service, or is over at once.          *)
Continue(stack, reading) ==
  IF reading.todo # << >>
  THEN /\ readings' = Append(stack, [reading EXCEPT !.fetched = FALSE])
       /\ UNCHANGED found
  ELSE /\ readings' = stack
       /\ found' = Append(found, [base |-> reading.base, attrs |-> reading.attrs,
                                  services |-> reading.services, icons |-> reading.icons,
                                  connected |-> 0, awaited |-> << >>, downloaded |-> 0,
                                  ready |-> 0])

deviceFound ==
  /\ deviceState = "running" /\ locationsTold < MaxGets /\ nullCall = "no"
  /\ locationsTold' = locationsTold + 1
  /\ gets' = Append(gets, device.location)
  /\ UNCHANGED << device_vars, readings, found, call_vars >>

(* A reply holds the page, or nothing when the network failed; no device   *)
(* is told when there is no room for its file.                             *)
replyFinished(i) ==
  /\ nullCall = "no"
  /\ gets' = RemoveAt(gets, i)
  /\ \/ UNCHANGED << readings, found >>
     \/ \E lost \in BOOLEAN :
          LET page == served(PathOf(gets[i]))
              doc == IF lost \/ page.kind # "description" THEN << >> ELSE page.content
          IN  Continue(readings, parseDevice(doc, RemovePath(gets[i])))
  /\ UNCHANGED << device_vars, locationsTold, call_vars >>

(* downloadFinished: the service that reading i waits for takes its        *)
(* actions from the file; without room for it the service is dropped.      *)
downloadFinished(i) ==
  LET reading == readings[i]
      s == Head(reading.todo)
      Done(services) ==
        readings' = [readings EXCEPT ![i].todo = Tail(@), ![i].fetched = TRUE,
                                     ![i].services = services]
  IN  /\ ~reading.fetched /\ nullCall = "no"
      /\ \/ Done(reading.services)
         \/ \E lost \in BOOLEAN :
              LET page == served(s["SCPDURL"])
                  actions == IF lost \/ page.kind # "scpd" THEN << >> ELSE Scpd[page.content]
              IN  Done(Append(reading.services, [s |-> s, actions |-> actions, lastMethod |-> ""]))
      /\ UNCHANGED << device_vars, gets, locationsTold, found, call_vars >>

(* The innermost event loop ends when its download has.                    *)
fetch_return ==
  /\ readings # << >> /\ Last(readings).fetched /\ nullCall = "no"
  /\ Continue(Front(readings), Last(readings))
  /\ UNCHANGED << device_vars, gets, locationsTold, call_vars >>

-----------------------------------------------------------------------------
(* The control point: calling actions.                                     *)

(* The first service with an id or a type, if any; and an attribute, which *)
(* is empty when nothing was read for it.                                  *)
getServiceBy(f, tag, text) ==
  {k \in DOMAIN f.services :
     /\ f.services[k].s[tag] = text
     /\ \A j \in 1..(k - 1) : f.services[j].s[tag] # text}
getAttribute(f, key) == IF key \in DOMAIN f.attrs THEN f.attrs[key] ELSE << >>

Fault_call(d, k, method) ==
  /\ called < MaxCalls /\ nullCall = "no"
  /\ called' = called + 1
  /\ calls' = Append(calls, [device |-> d, service |-> k, method |-> method,
                             alone |-> calls = << >>])
  /\ UNCHANGED << device_vars, gets, locationsTold, readings, found, results, nullCall >>
call(d, k, method) ==
  /\ called < MaxCalls /\ nullCall = "no"
  /\ called' = called + 1
  /\ found' = [found EXCEPT ![d].services[k].lastMethod = method]
  /\ LET Same(i) == calls[i].device = d /\ calls[i].service = k
     IN  calls' = Append([i \in DOMAIN calls |-> [calls[i] EXCEPT !.alone = @ /\ ~Same(i)]],
                         [device |-> d, service |-> k, method |-> method,
                          alone |-> ~\E i \in DOMAIN calls : Same(i)])
  /\ UNCHANGED << device_vars, gets, locationsTold, readings, results, nullCall >>

(* What the device answers: its out arguments, by their names.             *)
Answer(s, method) ==
  LET page == served(s["controlURL"])
  IN  IF page.kind = "control" /\ method \in DOMAIN Scpd[page.content]
      THEN [fault |-> FALSE, method |-> method, out |-> Scpd[page.content][method]]
      ELSE [fault |-> TRUE, method |-> method, out |-> {}]

(* An answer is taken for that of the method last called, whose arguments  *)
(* are looked up in it; an argument it does not hold reads as "".          *)
getResponse(i) ==
  LET c == calls[i]
      service == found[c.device].services[c.service]
      reported == service.lastMethod
      Result(answer, out) ==
        [called |-> c.method, reported |-> reported, fault |-> answer.fault,
         out |-> out, alone |-> c.alone]
  IN  /\ nullCall = "no"
      /\ calls' = RemoveAt(calls, i)
      /\ \E answer \in {Answer(service.s, c.method),
                        [fault |-> TRUE, method |-> c.method, out |-> {}]} :
           \/ /\ answer.fault
              /\ results' = Append(results, Result(answer, << >>))
              /\ UNCHANGED nullCall
           \/ /\ ~answer.fault /\ reported \in DOMAIN service.actions
              /\ results' = Append(results,
                   Result(answer, [a \in service.actions[reported] |->
                                     IF a \in answer.out THEN << answer.method, a >> ELSE << >>]))
              /\ UNCHANGED nullCall
           \/ /\ ~answer.fault /\ reported \notin DOMAIN service.actions
              /\ nullCall' = IF c.alone THEN "alone" ELSE "overlapped"
              /\ UNCHANGED results
      /\ UNCHANGED << device_vars, gets, locationsTold, readings, found, called >>

(* Every icon is asked for, and connected to the device once more.         *)
downloadIcons(d) ==
  /\ called < MaxCalls /\ nullCall = "no"
  /\ called' = called + 1
  /\ found' = [found EXCEPT ![d].downloaded = 0, ![d].connected = @ + 1,
                            ![d].awaited = @ \o [i \in DOMAIN found[d].icons |-> i]]
  /\ UNCHANGED << device_vars, gets, locationsTold, readings, calls, results, nullCall >>

(* The answer for an icon is counted once for every connection; with the   *)
(* count of the icons the application is told that they are there.         *)
iconDownloaded(d, i) ==
  LET f == found[d]
      count == f.downloaded + f.connected
      full == Len(f.icons) \in (f.downloaded + 1)..count
  IN  /\ nullCall = "no"
      /\ found' = [found EXCEPT ![d].awaited = RemoveAt(@, i), ![d].downloaded = count,
                                ![d].ready = IF full THEN @ + 1 ELSE @]
      /\ UNCHANGED << device_vars, gets, locationsTold, readings, call_vars >>

Methods == UNION {DOMAIN Scpd[type] : type \in DOMAIN Scpd}

DescriptionNext ==
  \/ \E x \in Settings : setAttribute(x[1], x[2])
  \/ \E s \in Offered : addService(s)
  \/ \E i \in Icons : addIcon(i)
  \/ \E d \in Embedded : addEmbeddedDevice(d)
  \/ start \/ stop \/ deviceFound
  \/ \E i \in DOMAIN gets : replyFinished(i)
  \/ \E i \in DOMAIN readings : downloadFinished(i)
  \/ fetch_return
  \/ \E d \in DOMAIN found, tag \in {"serviceId", "serviceType"}, s \in Offered :
       \E k \in getServiceBy(found[d], tag, s[tag]), m \in Methods : call(d, k, m)
  \/ \E d \in DOMAIN found :
       downloadIcons(d) \/ \E i \in DOMAIN found[d].awaited : iconDownloaded(d, i)
  \/ \E i \in DOMAIN calls : getResponse(i)

DescriptionSpec == DescriptionInit /\ [][DescriptionNext]_description_vars

-----------------------------------------------------------------------------
(* Properties.                                                             *)

(* No service of the device is asked for at an address of another's.       *)
Distinct ==
  \A i, j \in DOMAIN shown.services :
    i # j => \A page \in ToSet(buildWebServiceTree(shown.services[j])) :
               page.path \notin {shown.services[i]["SCPDURL"], shown.services[i]["controlURL"]}

(* The services of a device that was found are some of those it told, in   *)
(* their order, each with the actions of its own file or none.             *)
ServicesTold(services) ==
  \E kept \in SUBSET DOMAIN shown.services :
    LET told_ones == inOrder(kept)
    IN  /\ Len(services) = Len(told_ones)
        /\ \A k \in DOMAIN services :
             LET s == shown.services[told_ones[k]]
             IN  /\ services[k].s = s
                 /\ Distinct => services[k].actions \in {<< >>, Scpd[s["serviceType"]]}

(* When the application has asked for the icons once, it is told once that *)
(* they are there, as soon as the last is (each further time connects      *)
(* every icon again, brisacontrolpointdevice.cpp:318, and tells too soon). *)
IconsReady(f) ==
  f.connected = 1 /\ f.icons # << >> => f.ready = IF f.awaited = << >> THEN 1 ELSE 0

(* DescriptionRead: whatever else the control point is told, gets or fails *)
(* to get meanwhile, of a device whose description it has read it holds    *)
(* the device's own attributes, not those of an embedded one, the address  *)
(* its pages are served at, its services in their order (but those it had  *)
(* no room for), each with the addresses the device told and the actions   *)
(* of that service alone, and as many icons as the device has.  The name   *)
(* of the model is left out: parseDevice reads another element for it      *)
(* (brisadevicexmlhandlercp.cpp:67), and for every icon the first (:125).  *)
(* The icons it has asked for are told as IconsReady says.                 *)
DescriptionRead ==
  \A n \in DOMAIN found :
    LET f == found[n]
    IN  f.attrs # << >> =>
          /\ \A t \in ToSet(ReadTags) : getAttribute(f, t) = shown.attrs[t]
          /\ IconsReady(f)
          /\ f.base = urlBase
          /\ ServicesTold(f.services)
          /\ Len(f.icons) = Len(shown.icons)

(* AnswersOwn: when the application is told the result of a call, and no   *)
(* other call of the service was outstanding at the time, the result names *)
(* the action that was called and every argument in it comes from the      *)
(* answer to it; and it takes a service whose description could not be     *)
(* got, which is kept with no action (brisadevicexmlhandlercp.h:200), for  *)
(* the control point to follow a null pointer.  lastMethod is one per      *)
(* service (brisacontrolpointservice.cpp:80): of two calls outstanding the *)
(* first answer is reported as the second's.                               *)
AnswersOwn ==
  /\ \A n \in DOMAIN results :
       LET r == results[n]
       IN  r.alone =>
             /\ r.reported = r.called
             /\ Distinct => \A a \in DOMAIN r.out : r.out[a] = << r.called, a >>
  /\ Distinct /\ nullCall = "alone" =>
       \E n \in DOMAIN found : \E k \in DOMAIN found[n].services :
         found[n].services[k].actions = << >>
=============================================================================
