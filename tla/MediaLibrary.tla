----------------------------- MODULE MediaLibrary -----------------------------
(***************************************************************************)
(* The media server that comes with the libraries (qt-brisa-mediaserver):  *)
(* its window adds files, whose directories become a tree of containers    *)
(* that a control point browses and searches.                              *)
(*                                                                         *)
(* A file is in a directory [dir, name]: dir is the sequence of the names  *)
(* on its path.  A container is known by the last of them alone, and is a  *)
(* place in the memory of the program; the two roots are the first places. *)
(***************************************************************************)
EXTENDS Integers, SequencesExt, FiniteSetsExt

CONSTANTS
  Files,          \* the files a user may choose
  Kinds,          \* << "AudioRoot", "VideoRoots" >>, the names of the roots
  Uninitialised,  \* what a member that nobody has set may read as
  MaxFiles        \* bound: files added

(* No path has one name twice, or that of a root: the search for a         *)
(* container by its name would find another one.  And none is in "/":      *)
(* createContainer would have nothing on its stack, and the program end.   *)

VARIABLES
  memory,     \* the containers: [id, parentId, containers, items]
  updateID,   \* SystemUpdateID, a state variable
  listed,     \* the files the window shows, for either root
  pages,      \* the files the web server serves
  answer      \* the last one to a control point

vars == << memory, updateID, listed, pages, answer >>

Roots == DOMAIN Kinds
Nowhere == 0
NoAnswer == << >>

Container(id) == [id |-> id, parentId |-> "", containers |-> << >>, items |-> << >>]

Init ==
  /\ memory = [r \in Roots |-> Container(Kinds[r])]
  /\ updateID = 0
  /\ listed = [r \in Roots |-> << >>]
  /\ pages = << >>
  /\ answer = NoAnswer
-----------------------------------------------------------------------------
(* The first container of the name, from c down, or Nowhere.               *)
getContainerById(m, id, c) ==
  LET hit[d \in DOMAIN m] ==
        LET hits == SelectSeq(m[d].containers, LAMBDA e : hit[e] # Nowhere)
        IN  IF m[d].id = id THEN d
            ELSE IF hits = << >> THEN Nowhere ELSE hit[Head(hits)]
  IN  hit[c]

addContainer(m, parent, c) ==
  IF c \in ToSet(m[parent].containers) THEN m
  ELSE [m EXCEPT ![parent].containers = Append(@, c), ![c].parentId = m[parent].id]

(* Fault: the container that is there already is not taken for the parent. *)
Fault_createContainer(m, dir, root) ==
  LET known == {i \in DOMAIN dir : getContainerById(m, dir[i], root) # Nowhere}
      deepest == Max(known \cup {0})
      made == [i \in 1 .. Len(dir) - deepest |-> Container(dir[deepest + i])]
      linked == addContainer(m \o made, root, Len(m) + 1)
  IN  FoldLeftDomain(LAMBDA acc, i : addContainer(acc, Len(m) + i, Len(m) + i + 1),
                     linked, Tail(made))

(* From the last name of the path up to one that has a container, new ones *)
(* are made; the topmost is added to the root, the others each to the one  *)
(* above.  So a container that was there is then in the root too.          *)
createContainer(m, dir, root) ==
  LET known == {i \in DOMAIN dir : getContainerById(m, dir[i], root) # Nowhere}
      deepest == Max(known \cup {0})
      made == [i \in 1 .. Len(dir) - deepest |-> Container(dir[deepest + i])]
      stack == (IF deepest = 0 THEN << >> ELSE << getContainerById(m, dir[deepest], root) >>)
                 \o [i \in DOMAIN made |-> Len(m) + i]
  IN  FoldLeftDomain(LAMBDA acc, i : addContainer(acc, stack[i], stack[i + 1]),
                     addContainer(m \o made, root, stack[1]), Tail(stack))

addItem(m, c, item) ==
  [m EXCEPT ![c].items = Append(@, [item EXCEPT !.parentId = m[c].id])]

(* AudioItem's constructor drops all it is given.                          *)
AudioItem(file) == [id |-> << >>, parentId |-> ""]
VideoItem(file) == [id |-> Append(file.dir, file.name), parentId |-> ""]
NewItem(root, file) ==
  IF Kinds[root] = "AudioRoot" THEN AudioItem(file) ELSE VideoItem(file)

(* The directory: into the container of the file's own directory, which is *)
(* made when there is none of its name.                                    *)
addFile(root, file) ==
  LET parent == getContainerById(memory, Last(file.dir), root)
      grown == createContainer(memory, file.dir, root)
  IN  /\ memory' = IF parent # Nowhere THEN addItem(memory, parent, NewItem(root, file))
                   ELSE addItem(grown, Len(grown), NewItem(root, file))
      /\ updateID' = updateID + 1

(* The server has a page for it.                                           *)
addMediaFile(root, file) ==
  /\ addFile(root, file)
  /\ pages' = Append(pages, file)

(* The user chooses some files, which are added one by one; the window is  *)
(* told of each.                                                           *)
addFiles(root) ==
  /\ Len(pages) < MaxFiles
  /\ \E f \in Files :
       /\ addMediaFile(root, f)
       /\ listed' = [listed EXCEPT ![root] = Append(@, f)]
  /\ UNCHANGED answer
-----------------------------------------------------------------------------
(* What the element of an object says, and the elements in the text of a   *)
(* container: its own, and none of what is in it.                          *)
toDidlElement(c) ==
  [id |-> memory[c].id, parentID |-> memory[c].parentId, class |-> "object.container"]
toString(c) == {toDidlElement(c)}

(* Without children the count is a member that is never set.               *)
getChildCount(c) ==
  IF memory[c].containers # << >> \/ memory[c].items # << >>
  THEN {Len(memory[c].containers) + Len(memory[c].items)}
  ELSE Uninitialised

Ids == ToSet(Kinds) \cup UNION {ToSet(f.dir) : f \in Files}
VideoRoot == SelectInSeq(Kinds, LAMBDA k : k = "VideoRoots")

browse(id) ==
  LET c == getContainerById(memory, id, VideoRoot)
  IN  /\ \E n \in IF c = Nowhere THEN {0} ELSE getChildCount(c) :
           answer' = [asked |-> id, numberReturned |-> n, updateID |-> updateID,
                      result |-> IF c = Nowhere THEN {} ELSE toString(c)]
      /\ UNCHANGED << memory, updateID, listed, pages >>

getsystemupdateid ==
  /\ answer' = [asked |-> "", updateID |-> updateID, result |-> {}]
  /\ UNCHANGED << memory, updateID, listed, pages >>

search(id) ==
  /\ answer' = [asked |-> id,
                result |-> UNION {toString(c) :
                             c \in {getContainerById(memory, id, r) : r \in Roots} \ {Nowhere}}]
  /\ UNCHANGED << memory, updateID, listed, pages >>

Next ==
  \/ \E r \in Roots : addFiles(r)
  \/ \E id \in Ids : browse(id) \/ search(id)
  \/ getsystemupdateid

Spec == Init /\ [][Next]_vars
-----------------------------------------------------------------------------
Holders(c) == {p \in DOMAIN memory : c \in ToSet(memory[p].containers)}
Under(root) ==
  FoldLeftDomain(LAMBDA s, i : s \cup UNION {ToSet(memory[c].containers) : c \in s},
                 {root}, memory)

(* The files of a root are in the container named like their directory,    *)
(* each as often as it was added.                                          *)
AtHome(root) ==
  \A f \in ToSet(listed[root]) :
    LET c == getContainerById(memory, Last(f.dir), root)
    IN  /\ c # Nowhere
        /\ Len(memory[c].items) =
             Len(SelectSeq(listed[root], LAMBDA g : Last(g.dir) = Last(f.dir)))

(* A container but a root is in one that has the name before its own on    *)
(* the path of a file, or in the root when it is the first there; none is  *)
(* there twice or under itself, and it names one that it is in as parent.  *)
Placed(root) ==
  LET tree == Under(root)
      ids == [c \in tree |-> memory[c].id]
      Follows(f, c, p) ==
        \E i \in DOMAIN f.dir :
          /\ f.dir[i] = memory[c].id
          /\ IF i = 1 THEN p = root ELSE f.dir[i - 1] = memory[p].id
  IN  /\ IsInjective(ids)
      /\ Holders(root) = {}
      /\ \A c \in tree \ {root} :
           /\ \E p \in Holders(c), f \in ToSet(listed[root]) : Follows(f, c, p)
           /\ memory[c].parentId \in {memory[p].id : p \in Holders(c)}

(* LibraryRight: in whatever order files are added, also of directories    *)
(* inside one another or of one name, no container and no file is lost, no *)
(* container is made twice, each is under the one that its path says, and  *)
(* the trees of sounds and of films share none; and as long as             *)
(* SystemUpdateID is that of an answer to browse, the number of children   *)
(* in it is the number there is, if there is any (addAudioFile,            *)
(* addVideoFile, createContainer, getContainerById, browse).               *)
LibraryRight ==
  /\ \A r \in Roots : AtHome(r) /\ Placed(r)
  /\ UNION {Under(r) : r \in Roots} = DOMAIN memory
  /\ \A r, q \in Roots : r # q => Under(r) \cap Under(q) = {}
  /\ "updateID" \in DOMAIN answer /\ answer.updateID = updateID /\ answer.result # {} =>
       LET c == getContainerById(memory, answer.asked, VideoRoot)
           n == Len(memory[c].containers) + Len(memory[c].items)
       IN  n # 0 => answer.numberReturned = n
=============================================================================
