------------------------------ MODULE Deliveries ------------------------------
(***************************************************************************)
(* Three parts of the libraries by which something is delivered and which  *)
(* share no state, each on an instance of its own: the variables of a      *)
(* service and their events (StateVariable), the subscriptions of a        *)
(* control point (EventProxy) and files that are served (WebFile).  A      *)
(* behaviour is one of one part, the others stand still: their states add  *)
(* up and do not multiply.                                                 *)
(***************************************************************************)
EXTENDS Integers, Sequences

(* Each part has constants of its own, explained in its module.            *)
CONSTANTS
  (* StateVariable *)
  Documents, Texts, Number, Read, Foreign, SeqMax, MaxSets, MaxForeign, MaxInFlight,
  (* EventProxy *)
  Services, MaxProxies, MaxRequests,
  (* WebFile *)
  Sizes, Ranges, Empty, Garbage, NoRange, Missing, MaxWrites

VARIABLES
  delivery,
  parsed, stateVariableList, initialSeq, wire, attributes, sets, foreign, told, keys,
  missed,
  proxies, http, ids, crashed, sids, subscriptions, given, unsure,
  file, writes, phase, request, response, answer, steady

SV == INSTANCE StateVariable
EP == INSTANCE EventProxy
WF == INSTANCE WebFile

ASSUME VariableAssumption == SV!StateVariableConstants
ASSUME FileAssumption == WF!FileConstants

sv_vars == << parsed, stateVariableList, initialSeq, wire, attributes, sets, foreign,
              told, keys, missed >>
ep_vars == << proxies, http, ids, crashed, sids, subscriptions, given, unsure >>
wf_vars == << file, writes, phase, request, response, answer, steady >>
deliveries_vars == << delivery, sv_vars, ep_vars, wf_vars >>

-----------------------------------------------------------------------------
DeliveriesInit ==
  /\ delivery \in {"variables", "proxies", "files"}
  /\ SV!Init /\ EP!Init /\ WF!Init
  (* of a part that stands still one initial state is enough *)
  /\ delivery # "files" => file = Missing

(* A step of one part.                                                     *)
VariablesNext ==
  /\ delivery = "variables" /\ SV!Next
  /\ UNCHANGED << delivery, ep_vars, wf_vars >>
ProxiesNext ==
  /\ delivery = "proxies" /\ EP!Next
  /\ UNCHANGED << delivery, sv_vars, wf_vars >>
FilesNext ==
  /\ delivery = "files" /\ WF!Next
  /\ UNCHANGED << delivery, sv_vars, ep_vars >>

DeliveriesNext == VariablesNext \/ ProxiesNext \/ FilesNext

DeliveriesSpec == DeliveriesInit /\ [][DeliveriesNext]_deliveries_vars

-----------------------------------------------------------------------------
(* The properties, each stated and explained in the module of its part.    *)

(* What is multicast of a variable, by whom, and with which key.           *)
EventsTell == delivery = "variables" => SV!EventsTell
(* Which subscription a proxy of a control point renews and ends.          *)
OwnSid == delivery = "proxies" => EP!OwnSid
(* Which range of a file the head of an answer tells, and what is sent.    *)
HeadRight == delivery = "files" => WF!HeadRight
(* Which bytes would be sent if ranges were kept to, as a comment says.    *)
RangeSent == delivery = "files" => WF!RangeSent
=============================================================================
