---------------------------- MODULE Configuration ----------------------------
(***************************************************************************)
(* BrisaConfigurationManager: parameters of sections, held by a process    *)
(* and, with direct access, read from and written to a file at each call.  *)
(* Several processes may have a manager of the same file.  A file is       *)
(* written anew: it is empty from its opening until it is closed, and      *)
(* stays so if the process dies meanwhile.                                 *)
(*                                                                         *)
(* A name is a sequence of tokens, and so is the key that is made of a     *)
(* section, a "." and a parameter.                                         *)
(***************************************************************************)
EXTENDS Naturals, SequencesExt, Functions

CONSTANTS
  Processes,
  Sections, Parameters,  \* names
  Values,                \* what parameters are set to, without ""
  Stored,                \* what the file may hold at first
  MaxSets                \* bound: how often that is done

(* Names are sequences.                                                    *)
ConfigurationConstants ==
  /\ \A s \in Sections : s \in Seq(ToSet(s))
  /\ \A n \in Parameters : n \in Seq(ToSet(n))

VARIABLES
  state,      \* of each manager: [keys -> values]
  access,     \* whether it has direct access
  saving,     \* whether it has opened the file to write it
  file,
  items_read, \* the last answer of items() with direct access, while no
              \* parameter has been set since and the managers are clean
  sets,       \* how often a parameter has been set or a section removed
  (* the history *)
  truth,      \* of each section and parameter, what it was last set to with
              \* direct access, "" when nothing or removed
  fresh,      \* the managers that hold what the file does
  clean       \* none has written the file that did not, none has written it
              \* while another did, none has died in doing so

history_vars == << truth, fresh, clean >>
vars == << state, access, saving, file, items_read, sets, history_vars >>

NoParameters == << >>
value(s, key) == IF key \in DOMAIN s THEN s[key] ELSE ""
keyOf(section, parameter) == section \o << "." >> \o parameter
(* split(".").value(n): the n-th part of a key, from 0.                    *)
part(key, n) ==
  LET dots == {i \in DOMAIN key : key[i] = "."}
      From(i) == {j \in dots : Cardinality({d \in dots : d < j}) = i}
      first == IF n = 0 THEN 1 ELSE (CHOOSE j \in From(n - 1) : TRUE) + 1
      last == IF From(n) = {} THEN Len(key) ELSE (CHOOSE j \in From(n) : TRUE) - 1
  IN  SubSeq(key, first, last)

(* A manager begins with no parameter, whatever the file holds.            *)
Init ==
  /\ file \in Stored
  /\ state = [p \in Processes |-> NoParameters]
  /\ access = [p \in Processes |-> FALSE]
  /\ saving = [p \in Processes |-> FALSE]
  /\ items_read = << >> /\ sets = 0
  /\ truth = [x \in Sections \X Parameters |-> value(file, keyOf(x[1], x[2]))]
  /\ fresh = IF file = NoParameters THEN Processes ELSE {}
  /\ clean = TRUE

Quiet == \A p \in Processes : ~saving[p]
(* A process makes one call at a time.                                     *)
Idle(p) == ~saving[p]

setDirectAccess(p, a) ==
  /\ Idle(p) /\ access[p] # a
  /\ access' = [access EXCEPT ![p] = a]
  /\ UNCHANGED << state, saving, file, items_read, sets, history_vars >>

(* update: what was in memory goes, for what is in the file.               *)
Fault_reread(p) ==
  /\ state' = [state EXCEPT ![p] = [k \in DOMAIN file \cup DOMAIN @ |->
                                 IF k \in DOMAIN file THEN file[k] ELSE @[k]]]
  /\ fresh' = fresh \cup {p}
reread(p) ==
  /\ state' = [state EXCEPT ![p] = file]
  /\ fresh' = fresh \cup {p}
update(p) ==
  /\ Idle(p) /\ reread(p)
  /\ UNCHANGED << access, saving, file, items_read, sets, truth, clean >>

(* save: the file is opened, and emptied, and written when it is closed.   *)
save_open(p) ==
  /\ saving' = [saving EXCEPT ![p] = TRUE]
  /\ file' = NoParameters
  /\ clean' = (clean /\ p \in fresh /\ Quiet)
save(p) ==
  /\ Idle(p) /\ save_open(p)
  /\ UNCHANGED << state, access, items_read, sets, truth, fresh >>
save_close(p) ==
  /\ saving[p]
  /\ saving' = [saving EXCEPT ![p] = FALSE]
  /\ file' = state[p]
  /\ fresh' = {p}
  /\ UNCHANGED << state, access, items_read, sets, truth, clean >>

(* What a call changes is written at once with direct access, and else     *)
(* stays in memory; no call reads the file before it changes something.    *)
Change(p, new, newTruth) ==
  /\ Idle(p) /\ sets < MaxSets
  /\ sets' = sets + 1
  /\ state' = [state EXCEPT ![p] = new]
  /\ IF access[p]
     THEN truth' = newTruth /\ save_open(p) /\ UNCHANGED fresh
     ELSE fresh' = fresh \ {p} /\ UNCHANGED << saving, file, truth, clean >>
  /\ items_read' = << >>
  /\ UNCHANGED access

Without(s, keys) == Restrict(s, DOMAIN s \ keys)

(* setParameter: "" removes what is there.                                 *)
Put(s, key, v) ==
  IF v = "" /\ key \in DOMAIN s THEN Without(s, {key})
  ELSE [k \in DOMAIN s \cup {key} |-> IF k = key THEN v ELSE s[k]]
setParameter(p, section, parameter, v) ==
  Change(p, Put(state[p], keyOf(section, parameter), v),
         [truth EXCEPT ![<< section, parameter >>] = v])

(* removeSection: the keys whose first part it is.                         *)
Keys(s, section) == {k \in DOMAIN s : part(k, 0) = section}
removeSection(p, section) ==
  Change(p, Without(state[p], Keys(state[p], section)),
         [x \in Sections \X Parameters |-> IF x[1] = section THEN "" ELSE truth[x]])

(* items: the second parts of its keys; of two with the same one counts.   *)
items(s, section) ==
  {r \in [{part(k, 1) : k \in Keys(s, section)} -> Range(s)] :
     \A n \in DOMAIN r : \E k \in Keys(s, section) : part(k, 1) = n /\ r[n] = s[k]}
readItems(p, section) ==
  /\ Idle(p)
  /\ IF access[p] THEN reread(p) ELSE UNCHANGED << state, fresh >>
  /\ \E r \in items(state'[p], section) :
       items_read' = IF access[p] /\ clean /\ Quiet
                     THEN [section |-> section, items |-> r, keys |-> DOMAIN state'[p]]
                     ELSE << >>
  /\ UNCHANGED << access, saving, file, sets, truth, clean >>

(* The process dies, and another one starts.                               *)
Die(p) ==
  /\ state' = [state EXCEPT ![p] = NoParameters]
  /\ access' = [access EXCEPT ![p] = FALSE]
  /\ saving' = [saving EXCEPT ![p] = FALSE]
  /\ fresh' = fresh \ {p}
  /\ clean' = (clean /\ ~saving[p])
  /\ UNCHANGED << file, items_read, sets, truth >>

Next ==
  \E p \in Processes :
    \/ \E a \in BOOLEAN : setDirectAccess(p, a)
    \/ update(p) \/ save(p) \/ save_close(p) \/ Die(p)
    \/ \E s \in Sections, n \in Parameters, v \in Values \cup {""} : setParameter(p, s, n, v)
    \/ \E s \in Sections : removeSection(p, s) \/ readItems(p, s)

Spec == Init /\ [][Next]_vars

-----------------------------------------------------------------------------
(* Properties.                                                             *)

Dotted(name) == "." \in ToSet(name)
OwnKey(section, parameter) ==
  \A s \in Sections, n \in Parameters :
    keyOf(s, n) = keyOf(section, parameter) => s = section /\ n = parameter

(* ConfigKept: as long as each manager that wrote the file held what was   *)
(* in it, and had it for itself until it closed it, the file holds of each *)
(* parameter what any process last set it to, and items() of a section     *)
(* answers just that for it.  Neither setParameter nor the constructor     *)
(* reads the file first (brisaconfig.cpp:47, :95), so that the managers    *)
(* the property leaves out lose what others have set.  Names with a "."    *)
(* are left out too: their keys are split at the wrong place (:141, :154), *)
(* may be those of other names, and a section is removed with those it is a*)
(* prefix of.                                                              *)
ConfigKept ==
  /\ clean /\ Quiet =>
       \A s \in Sections, n \in Parameters :
         ~Dotted(s) /\ OwnKey(s, n) => value(file, keyOf(s, n)) = truth[<< s, n >>]
  /\ items_read # << >> =>
       \A n \in Parameters :
         LET s == items_read.section
             alone == \A k \in items_read.keys :
                        part(k, 0) = s /\ part(k, 1) = n => k = keyOf(s, n)
         IN  ~Dotted(s) /\ ~Dotted(n) /\ alone =>
               value(items_read.items, n) = truth[<< s, n >>]
=============================================================================
