------------------------- MODULE MencoderTranscoder -------------------------
(***************************************************************************)
(* The way of a transcoded film (src/src/MencoderTranscoder.cpp): a child  *)
(* process writes it to a pipe, onStdoutActivate moves it to the ring of   *)
(* the PipeProcess, process() moves it on to the write buffer of the       *)
(* client's socket, in portions that the two thresholds govern.            *)
(*                                                                         *)
(* The ring is the bounded queue that RingBuffer.tla implements, and the   *)
(* birth and death of the child are one step each; PipeProcess.tla has     *)
(* their detail.  A byte is a pair: the run of the child that wrote it and *)
(* its number.  The socket stays connected: what readFromRing makes of a   *)
(* client that has left is left out.                                       *)
(***************************************************************************)
EXTENDS Naturals, Sequences, FiniteSets

CONSTANTS
  MinThreshold, MaxThreshold,
  RingSize,      \* round_buffer_size(MaxThreshold)
  PipeRoom,      \* the bytes a pipe of the kernel holds
  MaxRuns,       \* bound: runs of the child
  MaxBytes       \* bound: bytes one run writes

(* Q_ASSERT(minThreshold < maxThreshold) in the constructor.               *)
ASSUME ThresholdAssumption ==
  /\ MinThreshold \in Nat /\ MaxThreshold \in Nat
  /\ MinThreshold < MaxThreshold
ASSUME RingAssumption == RingSize \in 1..MaxThreshold
ASSUME BoundAssumption == {PipeRoom, MaxRuns, MaxBytes} \subseteq Nat \ {0}

VARIABLES
  m_state,     \* "Stopped" or "Transcoding"
  running,     \* m_mencoder.isRunning()
  terminated,  \* the present run was terminated, its child sent a SIGTERM
  finishes,    \* finished() signals in the death pipe
  run,         \* runs started so far
  wrote,       \* everything the children have written
  pipe, ring, sock,  \* bytes on their way, oldest first
  received,    \* what the client has got
  destroyed    \* the transcoder has been deleted

process_vars == << running, terminated, finishes, run, wrote >>
vars == << m_state, running, terminated, finishes, run, wrote, pipe, ring, sock,
           received, destroyed >>

Init ==
  /\ m_state = "Stopped"
  /\ running = FALSE /\ terminated = FALSE /\ finishes = 0 /\ run = 0
  /\ wrote = << >> /\ pipe = << >> /\ ring = << >> /\ sock = << >>
  /\ received = << >>
  /\ destroyed = FALSE
-----------------------------------------------------------------------------
Least(a, b) == IF a < b THEN a ELSE b
Front(s, n) == SubSeq(s, 1, n)
Rest(s, n)  == SubSeq(s, n + 1, Len(s))

(* Fault: the reserve is sent while the child lives.                       *)
Fault_Portion_reserve(can_rd) ==
  IF \/ can_rd = 0 \/ Len(sock) >= MaxThreshold
     \/ can_rd <= MinThreshold /\ running
  THEN 0
  ELSE Least(MaxThreshold - Len(sock), can_rd)

(* How many of can_rd bytes process() moves to the socket: none if there   *)
(* are none, if the socket is full, or if the child lives and may add to   *)
(* the reserve; otherwise all above the reserve, or else the reserve.      *)
Portion(can_rd) ==
  LET written == Len(sock)
  IN  IF \/ can_rd = 0
         \/ written >= MaxThreshold
         \/ can_rd <= MinThreshold /\ running
      THEN 0
      ELSE Least(MaxThreshold - written,
                 IF can_rd <= MinThreshold THEN can_rd
                                           ELSE can_rd - MinThreshold)

(* Fault: the ring forgets what the pipe has just added.                   *)
Fault_process(bytes) ==
  LET n == Portion(Len(bytes))
  IN  /\ sock' = sock \o Front(bytes, n)
      /\ ring' = Rest(ring, n)

process(bytes) ==
  LET n == Portion(Len(bytes))
  IN  /\ sock' = sock \o Front(bytes, n)
      /\ ring' = Rest(bytes, n)

(* The child starts and started() puts the transcoder to work.  The ring   *)
(* keeps what an earlier run has left in it.                               *)
startTranscoding ==
  /\ ~destroyed
  /\ m_state = "Stopped"
  /\ ~running
  /\ run < MaxRuns
  /\ running' = TRUE /\ terminated' = FALSE
  /\ run' = run + 1
  /\ m_state' = "Transcoding"
  /\ UNCHANGED << finishes, wrote, pipe, ring, sock, received, destroyed >>

terminateTranscoding ==
  /\ ~destroyed
  /\ m_state = "Transcoding"
  /\ terminated' = TRUE
  /\ m_state' = "Stopped"
  /\ UNCHANGED << running, finishes, run, wrote, pipe, ring, sock, received,
                  destroyed >>

(* Fault: process() only when bytes came in.                               *)
Fault_onStdout_idle ==
  /\ ~destroyed
  /\ pipe # << >> /\ Len(ring) < RingSize
  /\ LET n == Least(RingSize - Len(ring), Len(pipe))
     IN  /\ pipe' = Rest(pipe, n)
         /\ process(ring \o Front(pipe, n))
  /\ UNCHANGED << m_state, process_vars, received, destroyed >>

(* onStdoutActivate, then onStdout: the notifier is active as long as the  *)
(* pipe holds something, also while the ring is full.                      *)
onStdout ==
  /\ ~destroyed
  /\ pipe # << >>
  /\ LET n == Least(RingSize - Len(ring), Len(pipe))
     IN  /\ pipe' = Rest(pipe, n)
         /\ process(ring \o Front(pipe, n))
  /\ UNCHANGED << m_state, process_vars, received, destroyed >>

(* Fault: the state is left alone.                                         *)
Fault_onFinished ==
  /\ ~destroyed
  /\ finishes > 0
  /\ finishes' = finishes - 1
  /\ process(ring)
  /\ UNCHANGED << m_state, running, terminated, run, wrote, pipe, received,
                  destroyed >>

onFinished ==
  /\ ~destroyed
  /\ finishes > 0
  /\ finishes' = finishes - 1
  /\ m_state' = "Stopped"
  /\ process(ring)
  /\ UNCHANGED << running, terminated, run, wrote, pipe, received, destroyed >>

(* The destructor terminates a running child, as terminateTranscoding does.*)
destructor ==
  /\ ~destroyed
  /\ destroyed' = TRUE
  /\ terminated' = (terminated \/ (running /\ m_state = "Transcoding"))
  /\ m_state' = IF running THEN "Stopped" ELSE m_state
  /\ UNCHANGED << running, finishes, run, wrote, pipe, ring, sock, received >>

-----------------------------------------------------------------------------
Written(r) == Cardinality({ i \in 1..Len(wrote) : wrote[i][1] = r })

(* The child finds room in its pipe.  It was given a non-blocking one, and *)
(* is taken to try again when the pipe is full.                            *)
ChildWrites ==
  /\ running /\ ~destroyed
  /\ Len(pipe) < PipeRoom
  /\ Written(run) < MaxBytes
  /\ LET b == << run, Written(run) + 1 >>
     IN  /\ pipe' = Append(pipe, b)
         /\ wrote' = Append(wrote, b)
  /\ UNCHANGED << m_state, running, terminated, finishes, run, ring, sock,
                  received, destroyed >>

ChildEnds ==
  /\ running /\ ~destroyed
  /\ running' = FALSE
  /\ finishes' = finishes + 1
  /\ UNCHANGED << m_state, terminated, run, wrote, pipe, ring, sock, received,
                  destroyed >>

ClientReads(n) ==
  /\ n <= Len(sock)
  /\ received' = received \o Front(sock, n)
  /\ sock' = Rest(sock, n)
  /\ UNCHANGED << m_state, process_vars, pipe, ring, destroyed >>

Next ==
  \/ startTranscoding
  \/ terminateTranscoding
  \/ onStdout
  \/ onFinished
  \/ destructor
  \/ ChildWrites
  \/ ChildEnds
  \/ \E n \in 1..MaxThreshold : ClientReads(n)

Spec == Init /\ [][Next]_vars

(* The event loop serves both notifiers and the client reads on.           *)
Fairness ==
  /\ WF_vars(onStdout)
  /\ WF_vars(onFinished)
  /\ WF_vars(\E n \in 1..MaxThreshold : ClientReads(n))
FairSpec == Spec /\ Fairness
-----------------------------------------------------------------------------
Bytes == (1..MaxRuns) \X (1..MaxBytes)

TypeOK ==
  /\ m_state \in {"Stopped", "Transcoding"}
  /\ {running, terminated, destroyed} \subseteq BOOLEAN
  /\ finishes \in Nat /\ run \in 0..MaxRuns
  /\ \A s \in {wrote, pipe, ring, sock, received} : s \in Seq(Bytes)
  /\ Len(pipe) <= PipeRoom /\ Len(ring) <= RingSize

(* What a child has written is received, or on its way, once and in order, *)
(* also across restarts and after the child's death.                       *)
NothingLost == received \o (sock \o (ring \o pipe)) = wrote

(* "Socket is already full": the transcoder never buffers more for the     *)
(* client than the upper threshold.                                        *)
SocketBounded == Len(sock) <= MaxThreshold

(* While the child lives the reserve of the ring is never sent.            *)
KeepsReserve ==
  [][running /\ onStdout /\ Len(sock') > Len(sock)
       => Len(ring') >= MinThreshold]_vars

(* A transcoder that says Transcoding has a child or will hear of its end. *)
TranscodingEnds == m_state = "Transcoding" => running \/ finishes > 0

(* The child is never held up for good by a pipe nobody empties.  The      *)
(* notifier keeps firing with a full ring and process() runs each time; and*)
(* a child writes so many bytes and no more.                               *)
PipeDrains == pipe # << >> ~> pipe = << >> \/ destroyed

(* "Not enough data if process is still alive" (process): when the process *)
(* has died by itself, the rest is sent as well.                           *)
TailSent ==
  (~running /\ ~terminated /\ ring # << >>)
    ~> (ring = << >> \/ running \/ terminated \/ destroyed)
=============================================================================
