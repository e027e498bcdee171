-------------------------- MODULE ContentDirectory --------------------------
(***************************************************************************)
(* What a television sees of the shared directories: the Browse action of  *)
(* ContentDirectoryService, with the objects of DIDL and what MediaInfo    *)
(* reads from mplayer.  The files are on a disk that others write to.      *)
(*                                                                         *)
(* A path stands for its base64 too, which is what an id of an object is;  *)
(* the id of the whole is Root.  A run of mplayer on a film is             *)
(* [ended, lines, left]: whether it was started and ended in time, the     *)
(* lines [key, value] that it has printed, and what happened to be in the  *)
(* memory of the numbers that it should be asked for.                      *)
(***************************************************************************)
EXTENDS Integers, SequencesExt, FiniteSetsExt

CONSTANTS
  Paths, Parent,     \* Parent[p]: the directory that p is in, or None
  Dirs, Videos,      \* of the paths; the others are of no interest to anyone
  Shared,            \* the paths that addPath is called with
  Root, None,
  Runs,              \* of mplayer on a film
  Unreadable,        \* digits that are no int
  Size,              \* of a film
  IntMax,            \* the greatest int, 2147483647 in the code
  MaxChanges         \* bound: how often files come and go

(* The paths are finitely many, and what is in something is in a directory;*)
(* lines about the sound hold a number, that about the length its seconds  *)
(* and perhaps a fraction.                                                 *)
Audio == {"audioBitrate", "audioRate", "audioChannels"}
ContentDirectoryConstants ==
  /\ IsFiniteSet(Paths) /\ Shared \subseteq Paths
  /\ None \notin Paths /\ Root \notin Paths
  /\ \A p \in Paths : Parent[p] = None \/ Parent[p] \in Paths \cap Dirs
  /\ IntMax \in Nat /\ Size \in [Videos -> Nat]
  /\ Unreadable \notin Int
  /\ \A run \in Runs :
       /\ run.ended \in BOOLEAN
       /\ run.lines \in Seq(ToSet(run.lines))
       /\ \A line \in ToSet(run.lines) :
            /\ line.key \in Audio => line.value \in Nat \cup {Unreadable}
            /\ line.key = "length" =>
                 line.value \in Seq(Nat \cup {Unreadable}) /\ Len(line.value) > 0
                   /\ line.value # None

VARIABLES
  present,      \* the paths that exist
  changes,      \* how often that has changed
  m_rootPaths,
  reply         \* the last one: [asked, objects, numberReturned]

vars == << present, changes, m_rootPaths, reply >>

NoReply == << >>

Init ==
  /\ present = Paths
  /\ changes = 0
  /\ m_rootPaths = << >>
  /\ reply = NoReply
-----------------------------------------------------------------------------
(* MediaInfo::fillMediaInfo: lines about the sound count when the decoder  *)
(* has been opened; with a number that is no int the reading ends.         *)
NoInfo == [width |-> None, height |-> None, length |-> None, audioEnc |-> FALSE,
           audioBitrate |-> -1, audioRate |-> -1, audioChannels |-> -1, ok |-> TRUE]

toInt(digits) == IF digits = Unreadable THEN 0 ELSE digits

lineRead(info, line) ==
  IF ~info.ok THEN info
  ELSE IF line.key = "audioEnc" THEN [info EXCEPT !.audioEnc = TRUE]
  ELSE IF line.key \in {"width", "height", "length"} THEN [info EXCEPT ![line.key] = line.value]
  ELSE IF line.key \in Audio /\ info.audioEnc
       THEN [info EXCEPT ![line.key] = toInt(line.value), !.ok = (line.value # Unreadable)]
  ELSE info

linesRead(lines) ==
  LET read[n \in 0..Len(lines)] ==
        IF n = 0 THEN NoInfo ELSE lineRead(read[n - 1], lines[n])
  IN  read[Len(lines)]

(* The length counts when its last part is an int.                         *)
Fraction(lens) == IF Len(lens) > 1 THEN toInt(lens[2]) ELSE 0
Duration(lens) ==
  IF lens[IF Len(lens) > 1 THEN 2 ELSE 1] = Unreadable THEN None
  ELSE LET secs == toInt(lens[1])
       IN  << secs \div 3600, (secs \div 60) % 60, secs % 60, Fraction(lens) >>

(* What is known of a film: without an end of mplayer, what was in the     *)
(* memory before.                                                          *)
fillMediaInfo(run, size) ==
  LET info == linesRead(run.lines)
      known(x) == IF run.ended THEN info[x] ELSE run.left[x]
      read == run.ended /\ info.ok
  IN  [fileSize |-> IF run.ended THEN size ELSE run.left.fileSize,
       audioBitrate |-> known("audioBitrate"), audioRate |-> known("audioRate"),
       audioChannels |-> known("audioChannels"),
       resolution |-> IF ~read \/ None \in {info.width, info.height} THEN None
                      ELSE << info.width, info.height >>,
       duration |-> IF ~read \/ info.length = None THEN None ELSE Duration(info.length)]
-----------------------------------------------------------------------------
isDir(p) == p \in present /\ p \in Dirs
isFile(p) == p \in present /\ p \notin Dirs
entries(dir) == {p \in present : Parent[p] = dir}

(* addPath: a directory that is there, once.                               *)
addPath(path) ==
  /\ reply = NoReply
  /\ isDir(path) /\ path \notin ToSet(m_rootPaths)
  /\ m_rootPaths' = Append(m_rootPaths, path)
  /\ UNCHANGED << present, changes, reply >>

(* The elements of DIDL; QDir::count counts "." and ".." too.              *)
DidlObject(class, id, parentId, childCount, res) ==
  [class |-> class, id |-> id, parentID |-> parentId, childCount |-> childCount, res |-> res]

(* A qint64 that is given for an int.                                      *)
asInt(n) ==
  LET rest == n % (2 * IntMax + 2)
  IN  IF rest <= IntMax THEN rest ELSE rest - (2 * IntMax + 2)

(* Of a film the texts are told that are known, and the numbers that are   *)
(* not negative.                                                           *)
Resource(path, info) ==
  LET told == [info EXCEPT !.fileSize = asInt(@)]
      known == {x \in {"resolution", "duration"} : told[x] # None}
                 \cup {x \in Audio \cup {"fileSize"} : told[x] >= 0}
  IN  [x \in {"url"} \cup known |-> IF x = "url" THEN << "get", path >> ELSE told[x]]

Container(path, parentId) ==
  DidlObject("container", path, parentId, Cardinality(entries(path)) + 2, None)
VideoItem(path, parentId, runs) ==
  DidlObject("videoItem", path, parentId, None,
             Resource(path, fillMediaInfo(runs[path], Size[path])))

(* Fault: an object keeps the parent that it was made with.                *)
Fault_fillContainer(container, children, runs) ==
  {Container(p, Parent[p]) : p \in {q \in children : isDir(q)}}
  \cup {VideoItem(p, Parent[p], runs) : p \in {q \in children : isFile(q) /\ q \in Videos}}

(* fillContainer: addChild makes the container the parent of its children, *)
(* whatever they were made with.                                           *)
fillContainer(container, children, runs) ==
  {Container(p, container) : p \in {q \in children : isDir(q)}}
  \cup {VideoItem(p, container, runs) : p \in {q \in children : isFile(q) /\ q \in Videos}}

(* The objects told of an id, with or without BrowseDirectChildren; none   *)
(* of what does not exist, or of the children of a file.                   *)
childrenOf(id, browseChildren) ==
  CASE id = Root -> ToSet(m_rootPaths)
    [] id # Root /\ id \notin present -> {}
    [] id # Root /\ id \in present /\ ~browseChildren -> {id}
    [] OTHER -> IF isDir(id) THEN entries(id) ELSE {}
containerOf(id, browseChildren) ==
  IF id = Root \/ browseChildren THEN id ELSE Parent[id]
objectsOf(id, browseChildren, runs) ==
  fillContainer(containerOf(id, browseChildren), childrenOf(id, browseChildren), runs)

(* browse: mplayer runs on every film; no part of the children can be asked*)
(* for.  Who asks about the whole itself is told of its children, which are*)
(* one by an assertion; a build with assertions may end here when several  *)
(* paths are shared.                                                       *)
browse(id, browseChildren, runs) ==
  /\ LET objects == objectsOf(id, browseChildren, runs)
     IN  reply' = [asked |-> id, browseChildren |-> browseChildren, runs |-> runs,
                   objects |-> objects, numberReturned |-> Cardinality(objects)]
  /\ UNCHANGED << present, changes, m_rootPaths >>

(* A search finds nothing.                                                 *)
search(id) ==
  /\ reply' = [asked |-> id, browseChildren |-> TRUE, runs |-> << >>,
               objects |-> {}, numberReturned |-> 0]
  /\ UNCHANGED << present, changes, m_rootPaths >>

(* Files come and go.                                                      *)
Come(p) ==
  /\ changes < MaxChanges
  /\ p \notin present /\ Parent[p] \in present \cup {None}
  /\ present' = present \cup {p}
  /\ changes' = changes + 1
  /\ UNCHANGED << m_rootPaths, reply >>

Go(p) ==
  /\ changes < MaxChanges
  /\ p \in present /\ entries(p) = {} /\ Parent[p] # None
  /\ present' = present \ {p}
  /\ changes' = changes + 1
  /\ UNCHANGED << m_rootPaths, reply >>

Next ==
  \/ \E p \in Shared : addPath(p)
  \/ \E id \in Paths \cup {Root}, flag \in BOOLEAN :
       \E runs \in [childrenOf(id, flag) \cap Videos -> Runs] : browse(id, flag, runs)
  \/ \E id \in Paths \cup {Root} : search(id)
  \/ \E p \in Paths : Come(p) \/ Go(p)

Spec == Init /\ [][Next]_vars
-----------------------------------------------------------------------------
(* What should be seen, told from the disk.                                *)
Interesting(p) == p \in Dirs \cup Videos

(* Going up n directories.                                                 *)
Outer(q) == IF q = None THEN None ELSE Parent[q]
Up(p, n) ==
  LET up[k \in 0..n] == IF k = 0 THEN p ELSE Outer(up[k - 1])
  IN  up[n]
IsShared(p) ==
  \E n \in 0 .. Cardinality(Paths) : Up(p, n) \in ToSet(m_rootPaths)

(* What a client comes to from the root, listing what it is told of.       *)
AnyRuns == [p \in Videos |-> CHOOSE run \in Runs : TRUE]
Listed(ids) ==
  ids \cup UNION {{o.id : o \in objectsOf(id, TRUE, AnyRuns)} : id \in ids}
Reached ==
  LET ids[n \in 0..Cardinality(Paths) + 1] ==
        IF n = 0 THEN {Root} ELSE Listed(ids[n - 1])
  IN  ids[Cardinality(Paths) + 1]

(* What the sound of a film is, told from all lines at once: of the last   *)
(* line about it behind the opening of the decoder, unless one before has  *)
(* a number that is no int.                                                *)
Opened(lines, i) == \E j \in DOMAIN lines : j < i /\ lines[j].key = "audioEnc"
Refused(lines, i) ==
  lines[i].key \in Audio /\ lines[i].value = Unreadable /\ Opened(lines, i)
TellsRate(lines, i) ==
  /\ lines[i].key = "audioRate" /\ Opened(lines, i)
  /\ ~ \E k \in DOMAIN lines : k < i /\ Refused(lines, k)
IsRate(rate, lines) ==
  \E i \in DOMAIN lines :
    /\ TellsRate(lines, i) /\ rate = toInt(lines[i].value)
    /\ \A k \in DOMAIN lines : i < k => ~TellsRate(lines, k)
SoundRight(res, lines) ==
  IF "audioRate" \in DOMAIN res THEN IsRate(res.audioRate, lines)
  ELSE \A i \in DOMAIN lines : ~TellsRate(lines, i)
IsLength(duration, lens) ==
  /\ toInt(lens[1]) = 3600 * duration[1] + 60 * duration[2] + duration[3]
  /\ duration[2] < 60 /\ duration[3] < 60
  /\ duration[4] = Fraction(lens)
LengthRight(res, lines) ==
  "duration" \in DOMAIN res =>
    \E i \in DOMAIN lines : lines[i].key = "length" /\ IsLength(res.duration, lines[i].value)
SizeRight(res, size) ==
  size <= IntMax => "fileSize" \in DOMAIN res /\ res.fileSize = size
FilmRight(res, run, size) ==
  IF run.ended THEN SoundRight(res, run.lines) /\ LengthRight(res, run.lines) /\ SizeRight(res, size)
  ELSE {"duration", "resolution"} \cap DOMAIN res = {}

(* The two parts of BrowseRight.                                           *)
ListedRight == Reached = {Root} \cup {p \in present : Interesting(p) /\ IsShared(p)}
ReplyRight ==
  reply # NoReply =>
    /\ \/ reply.numberReturned <= 1 \/ reply.browseChildren
       \/ reply.asked = Root /\ Len(m_rootPaths) > 1
    /\ \A o \in reply.objects :
         /\ IF reply.browseChildren THEN o.parentID = reply.asked
            ELSE reply.asked # Root => o.id = reply.asked /\ o.parentID = Parent[o.id]
         /\ o.class = "videoItem" => FilmRight(o.res, reply.runs[o.id], Size[o.id])

(* Listing from the root, a television comes to the directories and films  *)
(* under the shared paths, and to nothing else; the children of an id name *)
(* it as their parent, so that it can go back the way it came; an object   *)
(* is told as one, save the whole of several shared paths, and says the    *)
(* same of itself as where it is listed, save the parent of a shared path, *)
(* which is not shared.  Where mplayer has ended, the length and sound of a*)
(* film are what it printed, as far as it was read, and the size is the    *)
(* film's own, if it is an int; where it has not, no length is told        *)
(* (browse, fillContainer, addChild, fillMediaInfo).                       *)
BrowseRight == ListedRight /\ ReplyRight
=============================================================================
