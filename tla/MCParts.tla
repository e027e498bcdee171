------------------------------- MODULE MCParts -------------------------------
(***************************************************************************)
(* The parts of Deliveries and of Data, and Description, each on a small   *)
(* instance.  A behaviour is one of Deliveries, of Data or of Description, *)
(* while the others stand still.                                           *)
(***************************************************************************)
EXTENDS Deliveries, Data, Description, TLC

CONSTANTS home, films, old, film, short, text   \* paths

-----------------------------------------------------------------------------
(* home holds films, which holds old, a film and a text; old holds a film. *)
MCParent ==
  home :> None @@ films :> home @@ old :> films @@ film :> films @@ short :> old
    @@ text :> films
MCPaths == DOMAIN MCParent
MCDirs == {home, films, old}
MCVideos == {film, short}
MCShared == {films, old, film}
line(key, value) == [key |-> key, value |-> value]
left == [fileSize |-> 7, audioBitrate |-> -1, audioRate |-> 5, audioChannels |-> 0]
ends(lines) == [ended |-> TRUE, lines |-> lines, left |-> left]
MCRuns == {
  [ended |-> FALSE, lines |-> << >>, left |-> left],
  ends(<< >>),
  ends(<< line("width", 4), line("audioRate", 1), line("length", << 3725, 5 >>),
          line("audioEnc", 0), line("noise", 0) >>),
  ends(<< line("width", 4), line("height", 3), line("audioEnc", 0), line("audioRate", 2),
          line("audioChannels", 2), line("audioRate", 9), line("length", << 59 >>) >>),
  ends(<< line("length", << 59 >>), line("audioEnc", 0), line("audioBitrate", Unreadable),
          line("audioRate", 2) >>),
  ends(<< line("width", 4), line("height", 3), line("audioEnc", 0),
          line("length", << Unreadable, 5 >>), line("audioRate", Unreadable) >>),
  ends(<< line("length", << 59, Unreadable >>) >>),
  ends(<< line("length", << Unreadable, 5 >>) >>)}
MCSize == film :> 3 @@ short :> 12

-----------------------------------------------------------------------------
(* Directories inside one another, and two of one name.                    *)
at(dir, name) == [dir |-> dir, name |-> name]
MCFiles == {at(<< "a" >>, "x"), at(<< "a", "b" >>, "x"), at(<< "a", "b", "c" >>, "x"),
            at(<< "c", "b", "d" >>, "x")}
MCKinds == << "AudioRoot", "VideoRoots" >>
MCUninitialised == {-1, 1}

-----------------------------------------------------------------------------
(* Services with the "/" of their address or without, which may be added   *)
(* twice, and an embedded device with a service.                           *)
service(type, id, scpd) ==
  [serviceType |-> << type >>, serviceId |-> << id >>, SCPDURL |-> scpd,
   controlURL |-> << "/", id, "/", "control" >>, eventSubURL |-> << "/", id, "/", "event" >>]
Switch == service("Switch", "S1", << "/", "S1", "/", "scpd" >>)
MCBuilt == [t \in Attributes |-> IF t = "friendlyName" THEN << "My", " ", "Box" >>
                                                     ELSE << "own", t >>]
MCOffered == {Switch, service("Dimmer", "S2", << "S2", "/", "scpd" >>)}
Inner == [attrs |-> [t \in Attributes |-> << "inner", t >>], services |-> << Switch >>]
MCEmbedded == {Inner}
Icon == [mimetype |-> << "png" >>, width |-> << "8" >>, height |-> << "8" >>,
         depth |-> << "1" >>, url |-> << "/", "icon" >>]
MCIcons == {Icon}
MCUrlBase == << "http", ":", "//host", ":", "80" >>
MCSettings == {
  << "friendlyName", << "New", " ", "Box" >> >>,
  << "location", MCUrlBase \o << "/", "New", "Box", ".xml" >> >>,
  << "UDN", << "other" >> >>}
MCTokens ==
  Attributes \cup
    {"/", ":", "1", "0", ".xml", " ", "My", "New", "Box", "own", "inner", "Switch", "Dimmer",
     "S1", "S2", "other", "scpd", "control", "event", "png", "8", "icon", "http",
     "//host", "80"}
MCScpd ==
  << "Switch" >> :> [get |-> {"status", "target"}, set |-> {}]
    @@ << "Dimmer" >> :> [get |-> {"status"}]

-----------------------------------------------------------------------------
(* Two processes; a section and a parameter have a "." in their names, and *)
(* one key is that of two names.                                           *)
MCSections == {<< "a" >>, << "a", ".", "b" >>}
MCParameters == {<< "b" >>, << "b", ".", "b" >>}
MCStored == {<< "a", ".", "b" >> :> "0"}

-----------------------------------------------------------------------------
(* A service of up to four variables: with a default or not, ranged or     *)
(* not, one name told twice.                                               *)
variable(name, type, default, events, multicast) ==
  [name |-> name, dataType |-> type, defaultValue |-> default, allowed |-> {},
   minimum |-> "", maximum |-> "", sendEvents |-> events, multicast |-> multicast]
ranged(v, min, max) == [v EXCEPT !.minimum = min, !.maximum = max]
MCDocuments == {
  << variable("a", "string", "", "yes", "yes"),
     ranged(variable("b", "i4", "1", "yes", "yes"), "0", "2") >>,
  << [variable("a", "string", "", "yes", "no") EXCEPT !.allowed = {"x", "1"}],
     ranged(variable("c", "ui4", "", "no", "yes"), "0", ""),
     variable("b", "boolean", "1", "no", "yes"),
     variable("a", "string", "", "yes", "yes") >>,
  << variable("a", "char", "x", "yes", "yes"),
     ranged(variable("b", "ui2", "5", "yes", "yes"), "1", "2") >>}
MCTexts == {"x", "1", "5", "-1", "a:e"}
AllTexts == MCTexts \cup {"", "0", "2", "7"}
MCNumber ==
  [t \in AllTexts |-> CASE t = "1" -> 1 [] t = "2" -> 2 [] t = "5" -> 5 [] t = "7" -> 7
                        [] t = "-1" -> -1 [] OTHER -> 0]
MCRead == [t \in AllTexts |-> IF t = "a:e" THEN "a" ELSE t]
MCForeign == {[complete |-> FALSE, name |-> "a", value |-> "x", key |-> 0],
              [complete |-> TRUE, name |-> "f", value |-> "x", key |-> 9]}

-----------------------------------------------------------------------------
(* A file of at most three bytes, whose size changes once.                 *)
Limits == 0..3 \cup {Empty, Garbage}
MCRanges ==
  [first : Limits, dash : {TRUE}, last : Limits]
    \cup [first : Limits, dash : {FALSE}, last : {Empty}]

-----------------------------------------------------------------------------
VARIABLE moving   \* "deliveries", "data" or "description"

(* Of what stands still one part, or one device, is enough.                *)
Init ==
  /\ moving \in {"deliveries", "data", "description"}
  /\ DeliveriesInit /\ DataInit /\ DescriptionInit
  /\ moving # "deliveries" => delivery = "proxies"
  /\ moving # "data" => part = "library"
  /\ moving # "description" => device.location # << >>

Next ==
  /\ UNCHANGED moving
  /\ \/ /\ moving = "deliveries" /\ DeliveriesNext
        /\ UNCHANGED << data_vars, description_vars >>
     \/ /\ moving = "data" /\ DataNext
        /\ UNCHANGED << deliveries_vars, description_vars >>
     \/ /\ moving = "description" /\ DescriptionNext
        /\ UNCHANGED << deliveries_vars, data_vars >>

Spec == Init /\ [][Next]_<< moving, deliveries_vars, data_vars, description_vars >>
=============================================================================
