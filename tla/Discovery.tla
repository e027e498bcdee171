------------------------------ MODULE Discovery ------------------------------
(***************************************************************************)
(* How an application learns of a device: a BrisaDevice announces itself   *)
(* and answers searches over UDP (BrisaSSDPServer), a BrisaControlPoint    *)
(* listens (BrisaSSDPClient), searches (BrisaMSearchClientCP), downloads   *)
(* the description at every sign of the device, and reports devices that   *)
(* have been found or are gone.  The application is the control point of   *)
(* the documentation, which keeps a list of them.                          *)
(*                                                                         *)
(* A USN is a sequence: << udn >> or << udn, type >>; what else may stand  *)
(* in its place does not start with the UDN of anybody.  Datagrams on one  *)
(* socket keep their order, and may be lost.                               *)
(***************************************************************************)
EXTENDS Naturals, SequencesExt

CONSTANTS
  udn, deviceType,      \* of the root device
  embeddedDeviceList,   \* of [udn, type]
  serviceList,          \* of types
  Targets,              \* what the control point may be made to look for
  Ghost,                \* the UDN of a device without description
  MaxStarts, MaxSearches, MaxGets, MaxLost   \* bounds

ASSUME BoundAssumption ==
  /\ MaxStarts \in Nat /\ MaxSearches \in Nat /\ MaxGets \in Nat /\ MaxLost \in Nat

(* Nobody is called like a device without description; the lists are lists.*)
DiscoveryConstants ==
  /\ Ghost # udn
  /\ embeddedDeviceList \in Seq(ToSet(embeddedDeviceList))
  /\ serviceList \in Seq(ToSet(serviceList))
ASSUME ConstantsAssumption == DiscoveryConstants

VARIABLES
  phase,      \* of the device: "new", "running", "stopped", "crashed"
  starts,     \* how often it has been started
  cp,         \* "off", "on"
  type,       \* what the control point looks for
  searches,   \* searches on their way to the device, and how many were sent
  sent,
  multicast,  \* announcements on their way to the control point
  unicast,    \* answers to its searches on their way
  gets,       \* downloads: how many are "asked", have a "page", or an "error"
  devices,    \* the UDNs in the application's list
  lost,       \* how many datagrams and downloads have failed
  heard,      \* the control point has been there since the device's start
  late        \* a byebye has overtaken a description

device_vars == << phase, starts >>
history_vars == << heard, late >>
discovery_vars ==
  << device_vars, cp, type, searches, sent, multicast, unicast, gets, devices, lost,
     history_vars >>

RootDevice == "upnp:rootdevice"
All == "ssdp:all"
Udns == {udn} \cup {d.udn : d \in ToSet(embeddedDeviceList)}
EmbeddedTypes == {d.type : d \in ToSet(embeddedDeviceList)}

DiscoveryInit ==
  /\ phase = "new" /\ starts = 0
  /\ cp = "off"
  /\ type \in Targets
  /\ searches = << >> /\ sent = 0
  /\ multicast = << >> /\ unicast = << >>
  /\ gets = [asked |-> 0, page |-> 0, error |-> 0]
  /\ devices = {}
  /\ lost = 0
  /\ heard = FALSE /\ late = FALSE
-----------------------------------------------------------------------------
(* What the device says.                                                   *)
Twice(seq) == FlattenSeq([i \in DOMAIN seq |-> << seq[i], seq[i] >>])

(* The names it goes by: [usn, nt].                                        *)
RootNames == << [usn |-> << udn, RootDevice >>, nt |-> RootDevice],
                [usn |-> << udn >>, nt |-> udn],
                [usn |-> << udn, deviceType >>, nt |-> deviceType] >>
EmbeddedNames ==
  FlattenSeq([i \in DOMAIN embeddedDeviceList |->
    LET d == embeddedDeviceList[i]
    IN  << [usn |-> << d.udn >>, nt |-> d.udn],
           [usn |-> << d.udn, d.type >>, nt |-> d.type] >>])
ServiceNames ==
  [i \in DOMAIN serviceList |->
    [usn |-> << udn, serviceList[i] >>, nt |-> serviceList[i]]]
Names == RootNames \o EmbeddedNames \o ServiceNames

(* The messages: what the control point reads of them.                     *)
UPNP_ALIVE_MESSAGE(name) == [nts |-> "alive", usn |-> name.usn]
UPNP_BYEBYE_MESSAGE(name) == [nts |-> "byebye", usn |-> name.usn]
UPNP_MSEARCH_RESPONSE(st, usn) == [st |-> st, usn |-> usn]
UPNP_MSEARCH_DISCOVER(st) == st

(* BrisaDevice::doNotify and doByeBye, and those of BrisaSSDPServer, which *)
(* writes every datagram twice.                                            *)
doNotify == Twice([i \in DOMAIN Names |-> UPNP_ALIVE_MESSAGE(Names[i])])

(* Fault: farewells are sent once.                                         *)
Fault_doByeBye == [i \in DOMAIN Names |-> UPNP_BYEBYE_MESSAGE(Names[i])]
doByeBye == Twice([i \in DOMAIN Names |-> UPNP_BYEBYE_MESSAGE(Names[i])])

(* BrisaSSDPServer::respondMSearch.                                        *)
respond(st, usn) == UPNP_MSEARCH_RESPONSE(st, usn)

(* respondMSearchAll, where the type of the device and the services have   *)
(* their arguments the wrong way round.                                    *)
respondMSearchAll ==
  << respond(RootDevice, << udn, RootDevice >>),
     respond(udn, << udn >>),
     respond(<< udn, deviceType >>, << deviceType >>) >>
  \o FlattenSeq([i \in DOMAIN embeddedDeviceList |->
       LET d == embeddedDeviceList[i]
       IN  << respond(d.udn, << d.udn >>),
              respond(<< d.udn, d.type >>, << d.type >>) >>])
  \o [i \in DOMAIN serviceList |->
       respond(<< udn, serviceList[i] >>, << serviceList[i] >>)]

OfRoot == << respond(RootDevice, << udn, RootDevice >>) >>
OfEmbedded(Suits(_)) ==
  LET suiting == SelectSeq(embeddedDeviceList, Suits)
  IN  [i \in DOMAIN suiting |-> respond(suiting[i].udn, << suiting[i].udn >>)]

(* Fault: the answer for the type of a device is the wrong way round, too. *)
Fault_respondMSearch(st) ==
  CASE st = All -> respondMSearchAll
    [] st = RootDevice -> OfRoot
    [] st \in Udns -> (IF st = udn THEN OfRoot ELSE << >>)
    [] OTHER -> IF st = deviceType
                THEN << respond(<< udn, st >>, << st >>) >> ELSE << >>

(* BrisaDevice::respondMSearch.                                            *)
respondMSearch(st) ==
  LET services == SelectSeq(serviceList, LAMBDA s : s = st)
  IN  CASE st = All -> respondMSearchAll
        [] st = RootDevice -> OfRoot
        [] st \in Udns ->
             (IF st = udn THEN OfRoot ELSE << >>)
             \o OfEmbedded(LAMBDA d : d.udn = st)
        [] st \in {deviceType} \cup EmbeddedTypes ->
             (IF st = deviceType THEN OfRoot ELSE << >>)
             \o OfEmbedded(LAMBDA d : d.type = st)
        [] OTHER -> [i \in DOMAIN services |->
                       respond(<< udn, services[i] >>, << services[i] >>)]
-----------------------------------------------------------------------------
(* The device.                                                             *)

Heard(datagrams) == IF cp = "on" THEN datagrams ELSE << >>

(* BrisaSSDPServer::start: its socket is open while the device runs.       *)
ssdp_start == phase' = "running"

(* BrisaDevice::start.                                                     *)
start ==
  /\ phase \in {"new", "stopped"} /\ starts < MaxStarts
  /\ ssdp_start
  /\ starts' = starts + 1
  /\ multicast' = multicast \o Heard(doNotify)
  /\ heard' = (cp = "on")
  /\ UNCHANGED << cp, type, searches, sent, unicast, gets, devices, lost, late >>

(* BrisaSSDPServer::stop: what has come for its socket is not read.        *)
ssdp_stop == searches' = << >>

(* BrisaDevice::stop.                                                      *)
stop ==
  /\ phase = "running"
  /\ phase' = "stopped"
  /\ multicast' = multicast \o Heard(doByeBye)
  /\ ssdp_stop
  /\ UNCHANGED << starts, cp, type, sent, unicast, gets, devices, lost, history_vars >>

(* BrisaSSDPServer::msearchReceived.                                       *)
msearchReceived ==
  /\ phase = "running" /\ searches # << >>
  /\ searches' = Tail(searches)
  /\ unicast' = unicast \o Heard(respondMSearch(Head(searches)))
  /\ UNCHANGED << device_vars, cp, type, sent, multicast, gets, devices, lost, history_vars >>

(* The web server answers a download.  Once the device has been stopped it *)
(* listens without a thread, even when it is started again, and the first  *)
(* connection divides by zero.                                             *)
Serves == phase = "running" /\ starts = 1
answered(result) == [gets EXCEPT !.asked = @ - 1, ![result] = @ + 1]

incomingConnection ==
  /\ gets.asked > 0
  /\ phase' = IF Serves THEN phase ELSE "crashed"
  /\ gets' = answered(IF Serves THEN "page" ELSE "error")
  /\ UNCHANGED << starts, cp, type, searches, sent, multicast, unicast, devices,
                  lost, history_vars >>
-----------------------------------------------------------------------------
(* The control point.                                                      *)

(* The sockets of the SSDP client and of the search are open while the     *)
(* control point runs.                                                     *)
msearch_start == cp' = "on"
cp_start ==
  /\ cp = "off"
  /\ msearch_start
  /\ UNCHANGED << device_vars, type, searches, sent, multicast, unicast, gets,
                  devices, lost, history_vars >>

(* BrisaSSDPClient::stop and BrisaMSearchClientCP::stop close their        *)
(* sockets; downloads go on.                                               *)
ssdpClient_stop == multicast' = << >>
msearch_stop == unicast' = << >>
cp_stop ==
  /\ cp = "on"
  /\ cp' = "off"
  /\ ssdpClient_stop /\ msearch_stop
  /\ heard' = FALSE
  /\ UNCHANGED << device_vars, type, searches, sent, gets, devices, lost, late >>

(* discover, by the application or by the timer.                           *)
discover ==
  /\ cp = "on" /\ sent < MaxSearches
  /\ sent' = sent + 1
  /\ searches' = IF phase = "running" THEN Append(searches, UPNP_MSEARCH_DISCOVER(type)) ELSE searches
  /\ UNCHANGED << device_vars, cp, type, multicast, unicast, gets, devices, lost, history_vars >>

(* deviceFound(usn, location): a download, at most MaxGets at a time.      *)
Outstanding == gets.asked + gets.page + gets.error
deviceFound ==
  /\ Outstanding < MaxGets
  /\ gets' = [gets EXCEPT !.asked = @ + 1]

(* onRemovedDevice of the application, which is given a USN.               *)
onRemovedDevice(usn) ==
  devices' = IF Len(usn) = 1 THEN devices \ {usn[1]} ELSE devices

(* BrisaSSDPClient::notifyReceived.                                        *)
notifyReceived ==
  /\ multicast # << >>
  /\ multicast' = Tail(multicast)
  /\ \/ Head(multicast).nts = "alive" /\ deviceFound /\ UNCHANGED << devices, late >>
     \/ /\ Head(multicast).nts = "byebye"
        /\ onRemovedDevice(Head(multicast).usn)
        /\ late' = (late \/ gets.page > 0)
        /\ UNCHANGED gets
  /\ UNCHANGED << device_vars, cp, type, searches, sent, unicast, lost, heard >>

(* BrisaMSearchClientCP::datagramReceived: an answer counts when its USN   *)
(* starts with "uuid:".                                                    *)
datagramReceived ==
  /\ unicast # << >>
  /\ unicast' = Tail(unicast)
  /\ IF Head(unicast).usn[1] \in Udns THEN deviceFound ELSE UNCHANGED gets
  /\ UNCHANGED << device_vars, cp, type, searches, sent, multicast, devices, lost,
                  history_vars >>

(* replyFinished, and onNewDevice of the application.  A download that has *)
(* failed makes a device, too.                                             *)
replyFinished(result) ==
  /\ gets[result] > 0
  /\ gets' = [gets EXCEPT ![result] = @ - 1]
  /\ devices' = devices \cup {IF result = "page" THEN udn ELSE Ghost}
  /\ UNCHANGED << device_vars, cp, type, searches, sent, multicast, unicast, lost, history_vars >>
-----------------------------------------------------------------------------
(* The network: a datagram is lost, or a connection is.                    *)
Lose(channel) == channel # << >> /\ lost < MaxLost /\ lost' = lost + 1

LoseDatagram ==
  \/ /\ Lose(multicast) /\ multicast' = Tail(multicast)
     /\ UNCHANGED << searches, unicast >>
  \/ /\ Lose(unicast) /\ unicast' = Tail(unicast)
     /\ UNCHANGED << searches, multicast >>
  \/ /\ Lose(searches) /\ searches' = Tail(searches)
     /\ UNCHANGED << multicast, unicast >>

LoseConnection ==
  /\ gets.asked > 0 /\ lost < MaxLost
  /\ lost' = lost + 1
  /\ gets' = answered("error")

Network ==
  /\ \/ LoseDatagram /\ UNCHANGED gets
     \/ LoseConnection /\ UNCHANGED << searches, multicast, unicast >>
  /\ UNCHANGED << device_vars, cp, type, sent, devices, history_vars >>
-----------------------------------------------------------------------------
ControlPointNext == notifyReceived \/ datagramReceived
Finish == \E result \in {"page", "error"} : replyFinished(result)

DiscoveryNext ==
  \/ start \/ stop \/ msearchReceived \/ incomingConnection
  \/ cp_start \/ cp_stop \/ discover \/ notifyReceived \/ datagramReceived
  \/ Finish \/ Network

(* Event loops read what there is to read, and a download ends.  Nobody    *)
(* has to start, stop or search.                                           *)
Fairness ==
  /\ WF_discovery_vars(msearchReceived) /\ WF_discovery_vars(incomingConnection)
  /\ WF_discovery_vars(notifyReceived) /\ WF_discovery_vars(datagramReceived)
  /\ WF_discovery_vars(Finish)

DiscoverySpec == DiscoveryInit /\ [][DiscoveryNext]_discovery_vars /\ Fairness
-----------------------------------------------------------------------------
(* When all is quiet, a control point that has been there since the device *)
(* was started knows whether it is there, even if a datagram was lost: it  *)
(* has the device in its list while it runs, and not when it has stopped.  *)
(* Excused are the device that has been started again, which cannot be     *)
(* asked for its description, and a description that the byebye overtook.  *)
(* (BrisaSSDPServer::doNotify and doByeBye write everything twice.)        *)
Quiet ==
  /\ searches = << >> /\ multicast = << >> /\ unicast = << >>
  /\ Outstanding = 0
ViewRight ==
  Quiet /\ cp = "on" /\ heard /\ lost <= 1 /\ ~late =>
    /\ phase = "running" /\ starts = 1 => udn \in devices
    /\ phase = "stopped" \/ (phase = "crashed" /\ starts = 1) => udn \notin devices

(* Who looks for a device by its UDN, its type, for a root device or for   *)
(* everything finds it, unless it stops, the control point stops, or       *)
(* something is lost.  (BrisaDevice::respondMSearch; whoever looks for a   *)
(* service does not.)                                                      *)
NamesDevice == type \in {All, RootDevice, deviceType} \cup EmbeddedTypes \cup Udns
SearchFinds ==
  (searches # << >> /\ NamesDevice /\ starts = 1 /\ lost = 0)
    ~> (\/ udn \in devices \/ lost > 0 \/ cp = "off" \/ phase # "running")
=============================================================================
