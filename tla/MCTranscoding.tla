--------------------------- MODULE MCTranscoding ---------------------------
(***************************************************************************)
(* The ring, the child processes and the transcoder, each on a small       *)
(* instance.  A behaviour is one of one of them, while the others stand    *)
(* still as they begin, where nothing fair is enabled.                     *)
(*                                                                         *)
(* The ring has memory of four bytes.  Two objects, the thread they live   *)
(* in and a second thread that can only be interrupted, have two pids, so  *)
(* that pids are handed out again.  The transcoder has a reserve of one    *)
(* byte, a ring of two, a socket buffer of three and a pipe of two: each   *)
(* can be full while the next has room, and the other way round.           *)
(***************************************************************************)
EXTENDS RingBuffer, PipeProcess, MencoderTranscoder

VARIABLE moving   \* "ring", "pipe" or "transcoder"

transcoding_vars == << moving, ring_vars, pipe_vars, vars >>

(* Of a ring that stands still one memory is enough.                       *)
TranscodingInit ==
  /\ moving \in {"ring", "pipe", "transcoder"}
  /\ RingInit /\ PipeInit /\ Init
  /\ moving # "ring" => data = [j \in Slots |-> CHOOSE b \in Byte : TRUE]

TranscodingNext ==
  /\ UNCHANGED moving
  /\ \/ moving = "ring" /\ RingNext /\ UNCHANGED << pipe_vars, vars >>
     \/ moving = "pipe" /\ PipeNext /\ UNCHANGED << ring_vars, vars >>
     \/ moving = "transcoder" /\ Next /\ UNCHANGED << ring_vars, pipe_vars >>

TranscodingSpec ==
  /\ TranscodingInit /\ [][TranscodingNext]_transcoding_vars
  /\ PipeFairness /\ Fairness
=============================================================================
