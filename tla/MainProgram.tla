----------------------------- MODULE MainProgram -----------------------------
(***************************************************************************)
(* The life of the program (main in src/src/TvHolic.cpp): the device is    *)
(* built with a port that nobody listens on, SIGTERM and SIGINT are turned *)
(* into bytes of a pipe, the device is started, and the event loop ends    *)
(* when there is a byte in the pipe, which nobody reads.  A signal may     *)
(* come at any moment, also to a child that the program has forked and     *)
(* that still runs the program's own handlers, with the program's pipe,    *)
(* until it executes something else (PipeProcess::start).                  *)
(***************************************************************************)
EXTENDS Naturals, Sequences

CONSTANTS
  Ports,      \* that getPort chooses from
  PipeSize    \* bytes that fit into the pipe

VARIABLES
  stage,      \* of main: "new", "built", "connected", "sigterm", "sigint",
              \* "loop", "quit", "stopped", "gone", or "killed"
  port,       \* of the device, or 0
  taken,      \* the ports that other programs listen on
  listening,  \* the web server does
  running,    \* BrisaDevice.running
  said,       \* what has been announced: "alive", "byebye"
  notif,      \* s_sig.notif is there
  caught,     \* the signals with a handler
  bytes,      \* in the pipe
  child,      \* "none", "forked", "executed"
  asked,      \* the program has caught a signal
  misled,     \* its child has, before it executed anything
  preceded    \* the device's port was taken when it started to listen

server_vars == << port, listening, running, said, preceded >>
signal_vars == << notif, caught >>
vars == << stage, taken, server_vars, signal_vars, bytes, child, asked, misled >>

Signals == {"SIGTERM", "SIGINT"}
Alive == stage \notin {"gone", "killed"}

Init ==
  /\ stage = "new" /\ port = 0 /\ taken \in SUBSET Ports
  /\ listening = FALSE /\ running = FALSE /\ said = << >>
  /\ notif = FALSE /\ caught = {} /\ bytes = 0
  /\ child = "none"
  /\ asked = FALSE /\ misled = FALSE /\ preceded = FALSE

(* The constructor of the device chooses ports until nobody answers there  *)
(* in time.                                                                *)
isPortOpen(p, inTime) == p \in taken /\ inTime
getPort ==
  /\ stage = "new"
  /\ stage' = "built"
  /\ \E p \in Ports, inTime \in BOOLEAN : ~isPortOpen(p, inTime) /\ port' = p
  /\ UNCHANGED << taken, listening, running, said, preceded, signal_vars, bytes, child,
                  asked, misled >>

(* initSIGTERM: first the pipe and its notifier, then the handlers.        *)
Step(from, to) ==
  /\ stage = from /\ stage' = to
  /\ UNCHANGED << taken, server_vars, bytes, child, asked, misled >>
(* Fault: the handlers are there before the notifier.                      *)
Fault_initSIGTERM_connect == Step("built", "connected") /\ UNCHANGED signal_vars
initSIGTERM_connect ==
  Step("built", "connected") /\ notif' = TRUE /\ UNCHANGED caught
initSIGTERM_sigaction ==
  /\ \/ Step("connected", "sigterm") /\ caught' = caught \cup {"SIGTERM"}
     \/ Step("sigterm", "sigint") /\ caught' = caught \cup {"SIGINT"}
  /\ UNCHANGED notif

(* tvHolic.start: whether the server listens is not looked at.             *)
start ==
  /\ stage = "sigint"
  /\ stage' = "loop"
  /\ listening' = (port \notin taken)
  /\ preceded' = (port \in taken)
  /\ running' = TRUE
  /\ said' = Append(said, "alive")
  /\ UNCHANGED << port, taken, signal_vars, bytes, child, asked, misled >>

(* app.exec returns.                                                       *)
quit ==
  /\ bytes > 0
  /\ Step("loop", "quit")
  /\ UNCHANGED signal_vars

(* The destructors of TvHolic and of BrisaDevice stop what runs; the       *)
(* second deletes the web server, too, which listens until then.           *)
stop ==
  /\ running' = FALSE
  /\ said' = IF running THEN Append(said, "byebye") ELSE said
destroy ==
  /\ \/ stage = "quit" /\ stage' = "stopped" /\ UNCHANGED listening
     \/ stage = "stopped" /\ stage' = "gone" /\ listening' = FALSE
  /\ stop
  /\ UNCHANGED << port, preceded, taken, signal_vars, bytes, child, asked, misled >>

(* sig_handler, in the program or in a child that is a copy of it.         *)
sig_handler ==
  bytes' = IF notif /\ bytes < PipeSize THEN bytes + 1 ELSE bytes

Signal(s) ==
  /\ Alive
  /\ IF s \in caught
     THEN sig_handler /\ asked' = TRUE /\ UNCHANGED stage
     ELSE stage' = "killed" /\ UNCHANGED << bytes, asked >>
  /\ UNCHANGED << taken, server_vars, signal_vars, child, misled >>

-----------------------------------------------------------------------------
(* The child, PipeProcess::start and kill.                                 *)
ChildStep(new) ==
  /\ child' = new
  /\ UNCHANGED << stage, taken, server_vars, signal_vars, asked >>

fork == stage = "loop" /\ child = "none" /\ ChildStep("forked") /\ UNCHANGED << bytes, misled >>
execv == child = "forked" /\ ChildStep("executed") /\ UNCHANGED << bytes, misled >>
ChildDies == child = "executed" /\ ChildStep("none") /\ UNCHANGED << bytes, misled >>

(* SIGTERM for the child, from kill(), or SIGINT, from the terminal.       *)
(* Before it has executed anything it does not end.                        *)
SignalChild(s) ==
  /\ child = "forked" /\ s \in caught
  /\ s = "SIGTERM" => stage = "loop"
  /\ sig_handler
  /\ misled' = TRUE
  /\ ChildStep(child)

(* Somebody else listens on a port, or no longer.                          *)
Others(p) ==
  /\ ~(listening /\ p = port)
  /\ taken' = IF p \in taken THEN taken \ {p} ELSE taken \cup {p}
  /\ UNCHANGED << stage, server_vars, signal_vars, bytes, child, asked, misled >>

Next ==
  \/ getPort \/ initSIGTERM_connect \/ initSIGTERM_sigaction \/ start \/ quit \/ destroy
  \/ \E s \in Signals : Signal(s) \/ SignalChild(s)
  \/ fork \/ execv \/ ChildDies
  \/ \E p \in Ports : Others(p)

Spec == Init /\ [][Next]_vars

-----------------------------------------------------------------------------
(* EndsWell: a signal that the program has caught, however early and       *)
(* however many follow it, leaves a byte for the event loop; the loop ends *)
(* for no other reason (but a child that was signalled before it had       *)
(* executed its program: its handler writes into the pipe of its parent);  *)
(* a device that was announced is never killed unheard, and says farewell  *)
(* once before the program is gone; and it is announced with a server      *)
(* behind it, unless its port was taken between getPort and start.         *)
(* (TvHolic.cpp:34 sig_handler, :53 initSIGTERM, :98 the destructor.)      *)
EndsWell ==
  /\ asked => bytes > 0
  /\ stage \in {"quit", "stopped", "gone"} => asked \/ misled
  /\ stage = "killed" => said = << >>
  /\ stage \in {"stopped", "gone"} => said = << "alive", "byebye" >>
  /\ running => listening \/ preceded
=============================================================================
