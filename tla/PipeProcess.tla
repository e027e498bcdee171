----------------------------- MODULE PipeProcess -----------------------------
(***************************************************************************)
(* The life of child processes in src/src/PipeProcess.cpp: PipeProcess     *)
(* objects fork children, SIGCHLD reports their deaths, and one mutex,     *)
(* taken by ordinary calls and by the signal handler alike, protects the   *)
(* registry of pids.                                                       *)
(*                                                                         *)
(* Every object lives in thread Main.  A call on an object takes the steps *)
(*   block SIGCHLD ; lock ; body ; restore the mask ; unlock               *)
(* in that order (sigchild_lock, sigchild_unlock).  The kernel may deliver *)
(* a pending SIGCHLD to any thread that has it unblocked; the handler runs *)
(* on top of whatever that thread was doing.                               *)
(*                                                                         *)
(* The bytes the children write are in MencoderTranscoder.tla.             *)
(***************************************************************************)
EXTENDS Naturals

CONSTANTS
  Objects,     \* the PipeProcess objects
  Threads,     \* the threads of the program
  Main,        \* the thread the objects live in
  Pids,        \* the process ids the kernel hands out, and hands out again
  MaxStarts,   \* bound: successful starts of one object
  NoObject,    \* "no object" in the registry
  NoThread     \* "nobody holds the mutex"

NoPid == 0     \* m_pid of an object without a child

ASSUME MainAssumption == Main \in Threads /\ NoThread \notin Threads
ASSUME ObjectAssumption == NoObject \notin Objects
ASSUME PidsAssumption == Pids \subseteq Nat \ {0}
ASSUME StartsAssumption == MaxStarts \in Nat

VARIABLES
  m_pid,         \* per object
  m_exitStatus,  \* per object: the run (first, second ...) whose status it holds
  deathBytes,    \* per object: bytes unread in m_deathPipes
  alive,         \* per object: not destroyed yet
  pids,          \* s_mng.pids
  mutex,         \* s_mng.mutex: the thread that holds it
  blocked,       \* per thread: SIGCHLD is in its signal mask
  savedMask,     \* s_mng.mask: was SIGCHLD blocked before sigchild_lock?
  pc, call, this,\* Main: where its present call is, which call, on which object
  handler,       \* per thread: where sigchld_handler is, if it runs there
  reaped,        \* per thread: the pid its handler got from waitpid
  pending,       \* SIGCHLD is pending for the process
  child,         \* per pid: what the kernel knows of it
  childRun,      \* per pid: the object and the run it was forked for
  started,       \* per object: times started() was emitted
  finished,      \* per object: times finished() was emitted
  reported       \* per object: the run the last finished() told the status of

kernel == << child, childRun >>
counts == << started, finished, reported >>
pipe_vars ==
  << m_pid, m_exitStatus, deathBytes, alive, pids, mutex, blocked, savedMask, pc, call,
     this, handler, reaped, pending, child, childRun, started, finished, reported >>

PipeInit ==
  /\ m_pid = [o \in Objects |-> NoPid]
  /\ m_exitStatus = [o \in Objects |-> 0]
  /\ deathBytes = [o \in Objects |-> 0]
  /\ alive = [o \in Objects |-> TRUE]
  /\ pids = [p \in Pids |-> NoObject]
  /\ mutex = NoThread
  /\ blocked = [t \in Threads |-> FALSE]
  /\ savedMask = FALSE
  /\ pc = "idle" /\ call = "none" /\ this = NoObject
  /\ handler = [t \in Threads |-> "none"]
  /\ reaped = [t \in Threads |-> NoPid]
  /\ pending = FALSE
  /\ child = [p \in Pids |-> "free"]
  /\ childRun = [p \in Pids |-> << NoObject, 0 >>]
  /\ started = [o \in Objects |-> 0]
  /\ finished = [o \in Objects |-> 0]
  /\ reported = [o \in Objects |-> 0]

-----------------------------------------------------------------------------
(* Main runs its own code: no handler sits on top of it.                   *)
MainRuns == handler[Main] = "none"

(* start(), kill(), isRunning() or the destructor is called on o, and      *)
(* sigchild_lock blocks SIGCHLD.                                           *)
Call(o, op) ==
  /\ MainRuns
  /\ pc = "idle"
  /\ alive[o]
  /\ op = "start" => started[o] < MaxStarts
  /\ call' = op /\ this' = o
  /\ savedMask' = blocked[Main]
  /\ blocked' = [blocked EXCEPT ![Main] = TRUE]
  /\ pc' = "lock"
  /\ UNCHANGED << m_pid, m_exitStatus, deathBytes, alive, pids, mutex, handler,
                  reaped, pending, kernel, counts >>

(* The second half of sigchild_lock.                                       *)
Lock ==
  /\ MainRuns
  /\ pc = "lock"
  /\ mutex = NoThread
  /\ mutex' = Main
  /\ pc' = "body"
  /\ UNCHANGED << m_pid, m_exitStatus, deathBytes, alive, pids, blocked,
                  savedMask, call, this, handler, reaped, pending, kernel,
                  counts >>

InBody(op) == MainRuns /\ pc = "body" /\ call = op /\ pc' = "unmask"

(* start() forks: the child is registered and started() emitted.           *)
Fork(p) ==
  /\ InBody("start")
  /\ m_pid[this] = NoPid
  /\ child[p] = "free"
  /\ child' = [child EXCEPT ![p] = "running"]
  /\ childRun' = [childRun EXCEPT ![p] = << this, started[this] + 1 >>]
  /\ m_pid' = [m_pid EXCEPT ![this] = p]
  /\ pids' = [pids EXCEPT ![p] = this]
  /\ started' = [started EXCEPT ![this] = @ + 1]
  /\ UNCHANGED << m_exitStatus, deathBytes, alive, mutex, blocked, savedMask,
                  call, this, handler, reaped, pending, finished, reported >>

(* The calls that change nothing here: start() while a child lives or when *)
(* mmap, pipe or fork fails, kill() (a signal the child may or may not     *)
(* heed), isRunning().                                                     *)
OtherBody ==
  /\ \/ InBody("start")
     \/ InBody("kill")
     \/ InBody("isRunning")
  /\ UNCHANGED << m_pid, m_exitStatus, deathBytes, alive, pids, mutex, blocked,
                  savedMask, call, this, handler, reaped, pending, kernel,
                  counts >>

(* Fault: the destructor leaves its living child registered.               *)
Fault_Destroy ==
  /\ InBody("destroy")
  /\ alive' = [alive EXCEPT ![this] = FALSE]
  /\ m_pid' = [m_pid EXCEPT ![this] = NoPid]
  /\ deathBytes' = [deathBytes EXCEPT ![this] = 0]
  /\ UNCHANGED << m_exitStatus, pids, mutex, blocked, savedMask, call, this,
                  handler, reaped, pending, kernel, counts >>

(* The destructor forgets a living child and closes the pipes.             *)
Destroy ==
  /\ InBody("destroy")
  /\ alive' = [alive EXCEPT ![this] = FALSE]
  /\ pids' = IF m_pid[this] # NoPid
             THEN [pids EXCEPT ![m_pid[this]] = NoObject]
             ELSE pids
  /\ m_pid' = [m_pid EXCEPT ![this] = NoPid]
  /\ deathBytes' = [deathBytes EXCEPT ![this] = 0]
  /\ UNCHANGED << m_exitStatus, mutex, blocked, savedMask, call, this, handler,
                  reaped, pending, kernel, counts >>

(* sigchild_unlock restores the mask first ...                             *)
Unmask ==
  /\ MainRuns
  /\ pc = "unmask"
  /\ blocked' = [blocked EXCEPT ![Main] = savedMask]
  /\ pc' = "unlock"
  /\ UNCHANGED << m_pid, m_exitStatus, deathBytes, alive, pids, mutex,
                  savedMask, call, this, handler, reaped, pending, kernel,
                  counts >>

(* Fault: an early return leaves the mutex locked.                         *)
Fault_Unlock ==
  /\ MainRuns
  /\ pc = "unlock"
  /\ pc' = "idle" /\ call' = "none" /\ this' = NoObject
  /\ UNCHANGED << m_pid, m_exitStatus, deathBytes, alive, pids, mutex, blocked,
                  savedMask, handler, reaped, pending, kernel, counts >>

(* ... and unlocks the mutex after that.                                   *)
Unlock ==
  /\ MainRuns
  /\ pc = "unlock"
  /\ mutex' = NoThread
  /\ pc' = "idle" /\ call' = "none" /\ this' = NoObject
  /\ UNCHANGED << m_pid, m_exitStatus, deathBytes, alive, pids, blocked,
                  savedMask, handler, reaped, pending, kernel, counts >>

(* onChildDeathActivate: the event loop of Main finds a byte in the death  *)
(* pipe and finished() tells whatever status the object holds now.         *)
DeathActivate(o) ==
  /\ MainRuns
  /\ pc = "idle"
  /\ alive[o]
  /\ deathBytes[o] > 0
  /\ deathBytes' = [deathBytes EXCEPT ![o] = @ - 1]
  /\ finished' = [finished EXCEPT ![o] = @ + 1]
  /\ reported' = [reported EXCEPT ![o] = m_exitStatus[o]]
  /\ UNCHANGED << m_pid, m_exitStatus, alive, pids, mutex, blocked, savedMask,
                  pc, call, this, handler, reaped, pending, kernel, started >>

-----------------------------------------------------------------------------
(* A child exits, is killed or crashes; SIGCHLDs do not queue.             *)
ChildDies(p) ==
  /\ child[p] = "running"
  /\ child' = [child EXCEPT ![p] = "zombie"]
  /\ pending' = TRUE
  /\ UNCHANGED << m_pid, m_exitStatus, deathBytes, alive, pids, mutex, blocked,
                  savedMask, pc, call, this, handler, reaped, childRun, counts >>

(* The kernel interrupts t; SIGCHLD stays blocked while its handler runs.  *)
Deliver(t) ==
  /\ pending
  /\ ~blocked[t]
  /\ handler[t] = "none"
  /\ pending' = FALSE
  /\ blocked' = [blocked EXCEPT ![t] = TRUE]
  /\ handler' = [handler EXCEPT ![t] = "lock"]
  /\ UNCHANGED << m_pid, m_exitStatus, deathBytes, alive, pids, mutex,
                  savedMask, pc, call, this, reaped, kernel, counts >>

(* Fault: the handler does not take the mutex.                             *)
Fault_HandlerLock(t) ==
  /\ handler[t] = "lock"
  /\ handler' = [handler EXCEPT ![t] = "wait"]
  /\ UNCHANGED << m_pid, m_exitStatus, deathBytes, alive, pids, mutex, blocked,
                  savedMask, pc, call, this, reaped, pending, kernel, counts >>

HandlerLock(t) ==
  /\ handler[t] = "lock"
  /\ mutex = NoThread
  /\ mutex' = t
  /\ handler' = [handler EXCEPT ![t] = "wait"]
  /\ UNCHANGED << m_pid, m_exitStatus, deathBytes, alive, pids, blocked,
                  savedMask, pc, call, this, reaped, pending, kernel, counts >>

(* waitpid(-1, WNOHANG) finds a dead child and frees its pid.              *)
Waitpid(t, p) ==
  /\ handler[t] = "wait"
  /\ child[p] = "zombie"
  /\ child' = [child EXCEPT ![p] = "free"]
  /\ reaped' = [reaped EXCEPT ![t] = p]
  /\ handler' = [handler EXCEPT ![t] = "died"]
  /\ UNCHANGED << m_pid, m_exitStatus, deathBytes, alive, pids, mutex, blocked,
                  savedMask, pc, call, this, pending, childRun, counts >>

(* Faults: m_pid, the status or the death pipe forgotten.                  *)
Fault_childDied_pid(o, p) ==
  /\ pids' = [pids EXCEPT ![p] = NoObject]
  /\ m_exitStatus' = [m_exitStatus EXCEPT ![o] = childRun[p][2]]
  /\ deathBytes' = [deathBytes EXCEPT ![o] = @ + 1]
  /\ UNCHANGED m_pid
Fault_childDied_status(o, p) ==
  /\ m_pid' = [m_pid EXCEPT ![o] = NoPid]
  /\ pids' = [pids EXCEPT ![p] = NoObject]
  /\ deathBytes' = [deathBytes EXCEPT ![o] = @ + 1]
  /\ UNCHANGED m_exitStatus
Fault_childDied_byte(o, p) ==
  /\ m_pid' = [m_pid EXCEPT ![o] = NoPid]
  /\ pids' = [pids EXCEPT ![p] = NoObject]
  /\ m_exitStatus' = [m_exitStatus EXCEPT ![o] = childRun[p][2]]
  /\ UNCHANGED deathBytes

(* __childDied of object o, for its child p.                               *)
childDied(o, p) ==
  /\ m_pid' = [m_pid EXCEPT ![o] = NoPid]
  /\ pids' = [pids EXCEPT ![p] = NoObject]
  /\ m_exitStatus' = [m_exitStatus EXCEPT ![o] = childRun[p][2]]
  /\ deathBytes' = [deathBytes EXCEPT ![o] = @ + 1]

(* The object of that child, if one is registered, learns of its death.    *)
ChildDied(t) ==
  /\ handler[t] = "died"
  /\ LET p == reaped[t]
     IN  IF pids[p] = NoObject
         THEN UNCHANGED << m_pid, m_exitStatus, deathBytes, pids >>
         ELSE childDied(pids[p], p)
  /\ reaped' = [reaped EXCEPT ![t] = NoPid]
  /\ handler' = [handler EXCEPT ![t] = "wait"]
  /\ UNCHANGED << alive, mutex, blocked, savedMask, pc, call, this, pending,
                  kernel, counts >>

(* Fault: one waitpid per signal, as if every death had its own.           *)
Fault_HandlerReturn(t) ==
  /\ handler[t] = "wait"
  /\ mutex' = NoThread
  /\ handler' = [handler EXCEPT ![t] = "none"]
  /\ blocked' = [blocked EXCEPT ![t] = FALSE]
  /\ UNCHANGED << m_pid, m_exitStatus, deathBytes, alive, pids, savedMask, pc,
                  call, this, reaped, pending, kernel, counts >>

(* waitpid answers -1 only when the program has no child left.  While some *)
(* child lives and none is dead it answers 0, no object has pid 0, and the *)
(* loop goes round again: the handler stays at "wait".                     *)
HandlerReturn(t) ==
  /\ handler[t] = "wait"
  /\ \A p \in Pids : child[p] = "free"
  /\ mutex' = NoThread
  /\ handler' = [handler EXCEPT ![t] = "none"]
  /\ blocked' = [blocked EXCEPT ![t] = FALSE]
  /\ UNCHANGED << m_pid, m_exitStatus, deathBytes, alive, pids, savedMask, pc,
                  call, this, reaped, pending, kernel, counts >>

-----------------------------------------------------------------------------
Calls == {"start", "kill", "isRunning", "destroy"}

MainStep ==
  \/ Lock
  \/ \E p \in Pids : Fork(p)
  \/ OtherBody
  \/ Destroy
  \/ Unmask
  \/ Unlock

HandlerStep(t) ==
  \/ HandlerLock(t)
  \/ \E p \in Pids : Waitpid(t, p)
  \/ ChildDied(t)
  \/ HandlerReturn(t)

PipeNext ==
  \/ \E o \in Objects, op \in Calls : Call(o, op)
  \/ MainStep
  \/ \E o \in Objects : DeathActivate(o)
  \/ \E p \in Pids : ChildDies(p)
  \/ \E t \in Threads : Deliver(t)
  \/ \E t \in Threads : HandlerStep(t)

PipeSpec == PipeInit /\ [][PipeNext]_pipe_vars

(* A thread that can run does run, the event loop of Main serves its       *)
(* notifiers, and a deliverable signal is delivered.  The mutex is one of  *)
(* a library that wakes its waiters: whoever finds it free again and again *)
(* gets it.  Nobody promises that a child exits or that a call is made.    *)
PipeFairness ==
  /\ WF_pipe_vars(MainStep)
  /\ \A o \in Objects : WF_pipe_vars(DeathActivate(o))
  /\ WF_pipe_vars(\E t \in Threads : Deliver(t))
  /\ SF_pipe_vars(Lock)
  /\ \A t \in Threads : WF_pipe_vars(HandlerStep(t)) /\ SF_pipe_vars(HandlerLock(t))
PipeFairSpec == PipeSpec /\ PipeFairness
-----------------------------------------------------------------------------
PipeTypeOK ==
  /\ m_pid \in [Objects -> Pids \cup {NoPid}]
  /\ m_exitStatus \in [Objects -> Nat]
  /\ deathBytes \in [Objects -> Nat]
  /\ alive \in [Objects -> BOOLEAN]
  /\ pids \in [Pids -> Objects \cup {NoObject}]
  /\ mutex \in Threads \cup {NoThread}
  /\ blocked \in [Threads -> BOOLEAN]
  /\ savedMask \in BOOLEAN
  /\ pc \in {"idle", "lock", "body", "unmask", "unlock"}
  /\ call \in Calls \cup {"none"}
  /\ this \in Objects \cup {NoObject}
  /\ pc # "idle" => this \in Objects
  /\ handler \in [Threads -> {"none", "lock", "wait", "died"}]
  /\ reaped \in [Threads -> Pids \cup {NoPid}]
  /\ \A t \in Threads : handler[t] = "died" => reaped[t] \in Pids
  /\ pending \in BOOLEAN
  /\ child \in [Pids -> {"free", "running", "zombie"}]
  /\ childRun \in [Pids -> (Objects \cup {NoObject}) \X Nat]
  /\ started \in [Objects -> Nat]
  /\ finished \in [Objects -> Nat]
  /\ reported \in [Objects -> Nat]

(* Main is between locking and unlocking the mutex in a call.              *)
CallInside == pc \in {"body", "unmask", "unlock"}
HandlerInside(t) == handler[t] \in {"wait", "died"}

(* The registry is touched by one party at a time: a call of Main excludes *)
(* every handler, also one that runs on top of Main, and handlers exclude  *)
(* each other.                                                             *)
OneInside ==
  /\ CallInside => \A t \in Threads : ~HandlerInside(t)
  /\ \A t, u \in Threads : HandlerInside(t) /\ HandlerInside(u) => t = u

(* Q_ASSERT in __registerChild and __unregisterChild: an object and its    *)
(* pid point at each other, and a pid the kernel may hand out again is not *)
(* registered any more unless a handler is about to remove it.             *)
RegistryTight ==
  /\ \A o \in Objects, p \in Pids : m_pid[o] = p <=> pids[p] = o
  /\ \A p \in Pids :
       child[p] = "free" /\ pids[p] # NoObject =>
         \E t \in Threads : handler[t] = "died" /\ reaped[t] = p

(* kill() never signals a stranger: whenever a call may read m_pid, that   *)
(* pid is still held by the kernel for a child this object forked.         *)
KillHitsOwnChild ==
  pc = "body" /\ m_pid[this] # NoPid =>
    /\ child[m_pid[this]] # "free"
    /\ childRun[m_pid[this]][1] = this

(* Every start is answered by one finish, never by none or two, and never  *)
(* before its start ("to guarantee order of started/finished calls"): what *)
(* was started has finished, lives, or waits in the death pipe.            *)
StartFinishBalance ==
  \A o \in Objects :
    alive[o] => started[o] = finished[o] + deathBytes[o]
                             + (IF m_pid[o] # NoPid THEN 1 ELSE 0)

(* m_exitStatus is overwritten when an object is restarted before its      *)
(* finish was delivered; still the n-th finished() never reports a run     *)
(* older than the n-th, nor one that has not been started.                 *)
ReportsNoOlderRun ==
  [][\A o \in Objects : finished'[o] # finished[o] =>
       reported'[o] \in finished'[o]..started[o]]_pipe_vars

(* The handler runs on top of the thread that holds the mutex it wants:    *)
(* Main was interrupted between the two halves of sigchild_unlock.         *)
SelfDeadlock == handler[Main] = "lock" /\ mutex = Main

(* A handler waits inside the mutex for the last child to die.             *)
HeldUp ==
  \E t \in Threads :
    /\ handler[t] = "wait"
    /\ \E p \in Pids : child[p] = "running"

(* A dead child is always collected, even though SIGCHLDs coalesce and any *)
(* thread may get them, unless Main has deadlocked with itself.            *)
DeadChildCollected ==
  \A p \in Pids :
    child[p] = "zombie" ~> child[p] # "zombie" \/ SelfDeadlock

(* A call on an object returns, unless Main has deadlocked with itself or  *)
(* the handler keeps the mutex while some child, of any object, lives.     *)
CallReturns == pc # "idle" ~> pc = "idle" \/ SelfDeadlock \/ HeldUp

(* "the SIGCHLD handler, which writes a single byte to the dead child pipe *)
(* every time a child dies" (comment in init_child_sigaction), for a child *)
(* whose object is not destroyed.                                          *)
ByteForEveryDeath ==
  \A p \in Pids :
    child[p] = "zombie" /\ pids[p] # NoObject ~> pids[p] = NoObject
=============================================================================
