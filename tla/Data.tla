--------------------------------- MODULE Data ---------------------------------
(***************************************************************************)
(* Four parts that hold data and share no state, each on an instance of    *)
(* its own: the content directory (ContentDirectory), the one of the older *)
(* media server (MediaLibrary), the configuration (Configuration) and the  *)
(* beginning and the end of the program (MainProgram).  A behaviour is one *)
(* of one part, the others stand still: their states add up and do not     *)
(* multiply.                                                               *)
(***************************************************************************)
EXTENDS Integers, Sequences

(* Each part has constants of its own, explained in its module.            *)
CONSTANTS
  (* ContentDirectory *)
  Paths, Parent, Dirs, Videos, Shared, Root, None, Runs, Unreadable, Size, IntMax,
  MaxChanges,
  (* MediaLibrary *)
  Files, Kinds, Uninitialised, MaxFiles,
  (* Configuration *)
  Processes, Sections, Parameters, Values, Stored, MaxSaves,
  (* MainProgram *)
  Ports, PipeSize

VARIABLES
  part,
  present, changes, m_rootPaths, reply,
  memory, updateID, listed, ml_pages, ml_answer,
  state, access, saving, cf_file, items_read, cf_sets, truth, fresh, clean,
  stage, port, taken, listening, running, said, notif, caught, bytes, child, asked,
  misled, preceded

CD == INSTANCE ContentDirectory
ML == INSTANCE MediaLibrary WITH pages <- ml_pages, answer <- ml_answer
CF == INSTANCE Configuration WITH file <- cf_file, sets <- cf_sets, MaxSets <- MaxSaves
MP == INSTANCE MainProgram

ASSUME DirectoryAssumption == CD!ContentDirectoryConstants
ASSUME ConfigurationAssumption == CF!ConfigurationConstants
ASSUME PipeAssumption == PipeSize \in Nat \ {0}

cf_vars == << state, access, saving, cf_file, items_read, cf_sets, truth, fresh, clean >>
cd_vars == << present, changes, m_rootPaths, reply >>
ml_vars == << memory, updateID, listed, ml_pages, ml_answer >>
mp_vars == << stage, port, taken, listening, running, said, notif, caught, bytes, child,
              asked, misled, preceded >>
data_vars == << part, cd_vars, ml_vars, cf_vars, mp_vars >>

-----------------------------------------------------------------------------
DataInit ==
  /\ part \in {"directory", "library", "configuration", "program"}
  /\ CD!Init /\ ML!Init /\ CF!Init /\ MP!Init
  (* of a part that stands still one initial state is enough *)
  /\ part # "program" => taken = {}

(* A step of one part.                                                     *)
DirectoryNext ==
  /\ part = "directory" /\ CD!Next
  /\ UNCHANGED << part, ml_vars, cf_vars, mp_vars >>
LibraryNext ==
  /\ part = "library" /\ ML!Next
  /\ UNCHANGED << part, cd_vars, cf_vars, mp_vars >>
ConfigurationNext ==
  /\ part = "configuration" /\ CF!Next
  /\ UNCHANGED << part, cd_vars, ml_vars, mp_vars >>
ProgramNext ==
  /\ part = "program" /\ MP!Next
  /\ UNCHANGED << part, cd_vars, ml_vars, cf_vars >>

DataNext ==
  \/ DirectoryNext \/ LibraryNext \/ ConfigurationNext \/ ProgramNext

DataSpec == DataInit /\ [][DataNext]_data_vars

-----------------------------------------------------------------------------
(* The properties, each stated and explained in the module of its part.    *)

(* What a client sees of the shared directories, and of its films.         *)
BrowseRight == part = "directory" => CD!BrowseRight
(* What the older media server has of the files that were added.           *)
LibraryRight == part = "library" => ML!LibraryRight
(* What a file of parameters holds after several processes wrote it.       *)
ConfigKept == part = "configuration" => CF!ConfigKept
(* What a signal does to the program and to its device.                    *)
EndsWell == part = "program" => MP!EndsWell
=============================================================================
