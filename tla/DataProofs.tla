----------------------------- MODULE DataProofs -----------------------------
(***************************************************************************)
(* Proofs about parts that hold data: the content directory, the           *)
(* configuration and the main program.  Each is proved for the             *)
(* specification of its own module; the last section carries the results   *)
(* over to Data, whose steps are steps of one part.                        *)
(***************************************************************************)
EXTENDS Data, Discovery, SequenceLemmas

(* What a sequence of one has when one more is appended.                   *)
LEMMA AppendElements ==
  ASSUME NEW S, NEW s \in Seq(S), NEW b \in S, Len(s) = 1
  PROVE  /\ Append(s, b) \in Seq(S) /\ Len(Append(s, b)) = 2
         /\ Append(s, b)[1] = s[1] /\ Append(s, b)[2] = b
  <1>1. Append(s, b) \in Seq(S)
    BY AppendProperties
  <1>2. Len(Append(s, b)) = Len(s) + 1
    BY AppendProperties
  <1>3. Append(s, b)[Len(s) + 1] = b
    BY AppendProperties
  <1>4. \A i \in 1..Len(s) : Append(s, b)[i] = s[i]
    BY SMTT(30), AppendProperties
  <1>5. QED
    BY <1>1, <1>2, <1>3, <1>4

LEMMA AppendToOne ==
  ASSUME NEW S, NEW a \in S, NEW b \in S
  PROVE  Append(<< a >>, b) = << a, b >>
  <1> DEFINE one == << a >>
             two == Append(one, b)
  <1>1. one \in Seq(S) /\ Len(one) = 1 /\ one[1] = a
    OBVIOUS
  <1> HIDE DEF one
  <1>2. two \in Seq(S) /\ Len(two) = 2 /\ two[1] = a /\ two[2] = b
    BY <1>1, AppendElements
  <1> HIDE DEF two
  <1>3. two = << a, b >>
    BY <1>2
  <1>4. QED
    BY <1>3 DEF one, two
(* The program these children belong to (MainProgram): its signals, its    *)
(* device, and the child that still runs the program's handlers.           *)

(* What has been announced, and which signals are caught, at each stage.   *)
StageKnown ==
  /\ stage \in {"new", "built", "connected", "sigterm", "sigint", "killed"} =>
       said = << >> /\ ~running
  /\ stage \in {"loop", "quit"} => said = << "alive" >> /\ running
  /\ stage \in {"stopped", "gone"} => said = << "alive", "byebye" >> /\ ~running
  /\ caught \subseteq MP!Signals
  /\ stage = "sigterm" => "SIGTERM" \in caught
  /\ stage \in {"sigint", "loop", "quit", "stopped", "gone"} => caught = MP!Signals
  /\ stage \in {"new", "built", "connected", "sigterm", "sigint", "loop", "quit",
                "stopped", "gone", "killed"}

(* Who writes into the pipe: no handler is there before the notifier, and  *)
(* a byte comes from a handler.                                            *)
PipeKnown ==
  /\ bytes \in Nat
  /\ stage \in {"connected", "sigterm"} \/ caught # {} => notif
  /\ asked => bytes > 0
  /\ bytes > 0 => asked \/ misled
  /\ stage \in {"quit", "stopped", "gone"} => asked \/ misled
  /\ running => listening \/ preceded

LEMMA StageNext == StageKnown /\ [MP!Next]_(MP!vars) => StageKnown'
  <1> SUFFICES ASSUME StageKnown, [MP!Next]_(MP!vars) PROVE StageKnown'
    OBVIOUS
  <1> USE DEF StageKnown, MP!Signals
  <1>1. CASE MP!getPort
    BY <1>1 DEF MP!getPort, MP!signal_vars
  <1>2. CASE MP!initSIGTERM_connect
    BY <1>2 DEF MP!initSIGTERM_connect, MP!Step, MP!server_vars
  <1>3. CASE MP!initSIGTERM_sigaction
    <2>1. CASE MP!Step("connected", "sigterm") /\ caught' = caught \cup {"SIGTERM"}
      BY <1>3, <2>1 DEF MP!initSIGTERM_sigaction, MP!Step, MP!server_vars
    <2>2. CASE MP!Step("sigterm", "sigint") /\ caught' = caught \cup {"SIGINT"}
      BY <1>3, <2>2 DEF MP!initSIGTERM_sigaction, MP!Step, MP!server_vars
    <2>3. QED
      BY <1>3, <2>1, <2>2 DEF MP!initSIGTERM_sigaction
  <1>4. CASE MP!start
    BY <1>4 DEF MP!start, MP!signal_vars
  <1>5. CASE MP!quit
    BY <1>5 DEF MP!quit, MP!Step, MP!server_vars, MP!signal_vars
  <1>6. CASE MP!destroy
    <2>1. Append(<< "alive" >>, "byebye") = << "alive", "byebye" >>
      <3>1. "alive" \in {"alive", "byebye"} /\ "byebye" \in {"alive", "byebye"}
        OBVIOUS
      <3>2. QED
        BY <3>1, AppendToOne, Zenon
    <2>2. QED
      BY <1>6, <2>1 DEF MP!destroy, MP!stop, MP!signal_vars
  <1>7. ASSUME NEW s \in MP!Signals, MP!Signal(s) PROVE StageKnown'
    BY <1>7 DEF MP!Signal, MP!Alive, MP!server_vars, MP!signal_vars
  <1>8. ASSUME NEW s \in MP!Signals, MP!SignalChild(s) PROVE StageKnown'
    BY <1>8 DEF MP!SignalChild, MP!ChildStep, MP!server_vars, MP!signal_vars
  <1>9. CASE MP!fork \/ MP!execv \/ MP!ChildDies
    <2>1. UNCHANGED << stage, MP!server_vars, MP!signal_vars >>
      BY <1>9 DEF MP!fork, MP!execv, MP!ChildDies, MP!ChildStep
    <2>2. QED
      BY <2>1 DEF MP!server_vars, MP!signal_vars
  <1>10. ASSUME NEW p \in Ports, MP!Others(p) PROVE StageKnown'
    BY <1>10 DEF MP!Others, MP!server_vars, MP!signal_vars
  <1>11. CASE UNCHANGED MP!vars
    BY <1>11 DEF MP!vars, MP!server_vars, MP!signal_vars
  <1>12. QED
    BY <1>1, <1>2, <1>3, <1>4, <1>5, <1>6, <1>7, <1>8, <1>9, <1>10, <1>11
       DEF MP!Next

LEMMA PipeNext ==
  ASSUME PipeSize \in Nat \ {0}
  PROVE  StageKnown /\ PipeKnown /\ [MP!Next]_(MP!vars) => PipeKnown'
  <1> SUFFICES ASSUME StageKnown, PipeKnown, [MP!Next]_(MP!vars) PROVE PipeKnown'
    OBVIOUS
  <1> USE DEF PipeKnown
  <1>a. ASSUME NEW s \in caught, MP!sig_handler
        PROVE  bytes' \in Nat /\ bytes' > 0
    BY <1>a DEF MP!sig_handler
  <1>1. CASE MP!getPort
    BY <1>1 DEF MP!getPort, MP!signal_vars, StageKnown
  <1>2. CASE MP!initSIGTERM_connect
    BY <1>2 DEF MP!initSIGTERM_connect, MP!Step, MP!server_vars
  <1>3. CASE MP!initSIGTERM_sigaction
    <2>1. CASE MP!Step("connected", "sigterm") /\ caught' = caught \cup {"SIGTERM"}
      BY <1>3, <2>1 DEF MP!initSIGTERM_sigaction, MP!Step, MP!server_vars
    <2>2. CASE MP!Step("sigterm", "sigint") /\ caught' = caught \cup {"SIGINT"}
      BY <1>3, <2>2 DEF MP!initSIGTERM_sigaction, MP!Step, MP!server_vars
    <2>3. QED
      BY <1>3, <2>1, <2>2 DEF MP!initSIGTERM_sigaction
  <1>4. CASE MP!start
    BY <1>4 DEF MP!start, MP!signal_vars
  <1>5. CASE MP!quit
    BY <1>5 DEF MP!quit, MP!Step, MP!server_vars, MP!signal_vars
  <1>6. CASE MP!destroy
    BY <1>6 DEF MP!destroy, MP!stop, MP!signal_vars
  <1>7. ASSUME NEW s \in MP!Signals, MP!Signal(s) PROVE PipeKnown'
    BY <1>7, <1>a DEF MP!Signal, MP!Alive, MP!server_vars, MP!signal_vars
  <1>8. ASSUME NEW s \in MP!Signals, MP!SignalChild(s) PROVE PipeKnown'
    BY <1>8, <1>a DEF MP!SignalChild, MP!ChildStep, MP!server_vars, MP!signal_vars
  <1>9. CASE MP!fork \/ MP!execv \/ MP!ChildDies
    BY <1>9 DEF MP!fork, MP!execv, MP!ChildDies, MP!ChildStep, MP!server_vars,
                MP!signal_vars
  <1>10. ASSUME NEW p \in Ports, MP!Others(p) PROVE PipeKnown'
    BY <1>10 DEF MP!Others, MP!server_vars, MP!signal_vars
  <1>11. CASE UNCHANGED MP!vars
    BY <1>11 DEF MP!vars, MP!server_vars, MP!signal_vars
  <1>12. QED
    BY <1>1, <1>2, <1>3, <1>4, <1>5, <1>6, <1>7, <1>8, <1>9, <1>10, <1>11
       DEF MP!Next

(* A caught signal leaves a byte for the loop, which ends for nothing else *)
(* but a child's handler; no announced device is killed unheard; and it is *)
(* announced with a server behind it unless its port was taken before: for *)
(* all ports, and every size of the pipe.                                  *)
THEOREM StagesEndWell ==
  ASSUME PipeSize \in Nat \ {0}
  PROVE  MP!Spec => []MP!EndsWell
  <1>1. MP!Init => StageKnown /\ PipeKnown
    BY DEF MP!Init, StageKnown, PipeKnown
  <1>2. StageKnown /\ PipeKnown => MP!EndsWell
    BY DEF StageKnown, PipeKnown, MP!EndsWell
  <1>3. QED
    BY <1>1, <1>2, StageNext, PipeNext, PTL DEF MP!Spec

-----------------------------------------------------------------------------
(* The configuration that processes share in a file (Configuration).       *)

(* The tokens of a key.                                                    *)
LEMMA KeyIsSeq ==
  ASSUME NEW S, "." \in S, NEW s \in Seq(S), NEW n \in Seq(S)
  PROVE  /\ CF!keyOf(s, n) \in Seq(S)
         /\ Len(CF!keyOf(s, n)) = Len(s) + 1 + Len(n)
         /\ DOMAIN CF!keyOf(s, n) = 1..Len(s) + 1 + Len(n)
         /\ \A i \in 1..Len(s) : CF!keyOf(s, n)[i] = s[i]
         /\ CF!keyOf(s, n)[Len(s) + 1] = "."
         /\ \A i \in 1..Len(n) : CF!keyOf(s, n)[Len(s) + 1 + i] = n[i]
  BY DEF CF!keyOf

(* What the key of a section without a "." is split into.                  *)
LEMMA KeyParts ==
  ASSUME CF!ConfigurationConstants, NEW s \in Sections, ~CF!Dotted(s),
         NEW n \in Parameters
  PROVE  /\ CF!part(CF!keyOf(s, n), 0) = s
         /\ ~CF!Dotted(n) => CF!part(CF!keyOf(s, n), 1) = n
  <1> DEFINE S == ToSet(s) \cup ToSet(n) \cup {"."}
             key == CF!keyOf(s, n)
             dots == {i \in DOMAIN key : key[i] = "."}
             From(i) == {j \in dots : Cardinality({d \in dots : d < j}) = i}
  <1>1. s \in Seq(S) /\ n \in Seq(S) /\ << "." >> \in Seq(S)
    <2>1. s \in Seq(ToSet(s)) /\ n \in Seq(ToSet(n))
      BY DEF CF!ConfigurationConstants, CF!ToSet, ToSet
    <2>2. QED
      BY <2>1, SeqMonotonic
  <1>2. PICK m \in Nat, k \in Nat : m = Len(s) /\ k = Len(n)
    BY <1>1, LenProperties
  <1>3. /\ key \in Seq(S) /\ Len(key) = m + 1 + k /\ DOMAIN key = 1..m + 1 + k
        /\ \A i \in 1..m : key[i] = s[i]
        /\ key[m + 1] = "."
        /\ \A i \in 1..k : key[m + 1 + i] = n[i]
    <2>1. "." \in S
      OBVIOUS
    <2>2. PICK w : w = key
      OBVIOUS
    <2> HIDE DEF S
    <2>3. w = CF!keyOf(s, n)
      BY <2>2
    <2> HIDE DEF key
    <2>4. /\ w \in Seq(S) /\ Len(w) = m + 1 + k /\ DOMAIN w = 1..m + 1 + k
          /\ \A i \in 1..m : w[i] = s[i]
          /\ w[m + 1] = "."
          /\ \A i \in 1..k : w[m + 1 + i] = n[i]
      <3>1. /\ CF!keyOf(s, n) \in Seq(S)
            /\ Len(CF!keyOf(s, n)) = Len(s) + 1 + Len(n)
            /\ DOMAIN CF!keyOf(s, n) = 1..Len(s) + 1 + Len(n)
        BY <1>1, <2>1, KeyIsSeq
      <3>2. /\ \A i \in 1..Len(s) : CF!keyOf(s, n)[i] = s[i]
            /\ CF!keyOf(s, n)[Len(s) + 1] = "."
        BY <1>1, <2>1, KeyIsSeq
      <3>3. \A i \in 1..Len(n) : CF!keyOf(s, n)[Len(s) + 1 + i] = n[i]
        BY <1>1, <2>1, KeyIsSeq
      <3>4. QED
        BY <1>2, <2>3, <3>1, <3>2, <3>3, Zenon
    <2>5. QED
      BY <2>2, <2>4
  <1>4. \A i \in 1..m : s[i] # "."
    BY <1>1, <1>2 DEF CF!Dotted, CF!ToSet
  <1> HIDE DEF key
  <1>5. dots \subseteq m + 1 .. m + 1 + k /\ m + 1 \in dots
    <2>1. ASSUME NEW i \in dots PROVE i \in m + 1 .. m + 1 + k
      <3>1. i \in 1..m + 1 + k /\ key[i] = "."
        BY <1>3
      <3>2. i \notin 1..m
        BY <1>3, <1>4, <3>1
      <3>3. QED
        BY <1>2, <3>1, <3>2
    <2>2. QED
      BY <1>2, <1>3, <2>1
  <1>6. IsFiniteSet(dots)
    <2>1. IsFiniteSet(m + 1 .. m + 1 + k)
      BY FS_Interval, <1>2
    <2> HIDE DEF dots
    <2>2. QED
      BY <1>5, <2>1, FS_Subset
  <1>7. From(0) = {m + 1}
    <2>1. ASSUME NEW j \in dots
          PROVE  Cardinality({d \in dots : d < j}) = 0 <=> j = m + 1
      <3> DEFINE D == {d \in dots : d < j}
      <3>1. IsFiniteSet(D)
        <4>1. D \subseteq dots
          OBVIOUS
        <4> HIDE DEF D, dots
        <4>2. QED
          BY <1>6, <4>1, FS_Subset
      <3>2. D = {} <=> j = m + 1
        <4> HIDE DEF dots
        <4>1. j \in m + 1 .. m + 1 + k
          BY <1>5
        <4>2. j # m + 1 => m + 1 \in D
          BY <1>2, <1>5, <4>1
        <4>3. ASSUME NEW d \in dots PROVE ~(d < m + 1)
          <5>1. d \in m + 1 .. m + 1 + k
            BY <1>5
          <5>2. QED
            BY <1>2, <5>1
        <4>4. QED
          BY <4>2, <4>3 DEF D
      <3> HIDE DEF D
      <3>3. Cardinality(D) = 0 <=> D = {}
        BY <3>1, FS_EmptySet
      <3>4. QED
        BY <3>2, <3>3 DEF D
    <2> HIDE DEF dots
    <2>2. QED
      BY <1>5, <2>1
  <1>8. (CHOOSE j \in From(0) : TRUE) = m + 1
    <2> HIDE DEF From
    <2>1. QED
      BY <1>7
  <1>9. CF!part(key, 0) = SubSeq(key, 1, m)
    <2>1. CF!part(key, 0) =
            SubSeq(key, 1, IF From(0) = {} THEN Len(key) ELSE (CHOOSE j \in From(0) : TRUE) - 1)
      BY DEF CF!part, CF!Cardinality, Cardinality
    <2> HIDE DEF From
    <2>2. (m + 1) - 1 = m
      BY <1>2
    <2>3. QED
      BY <1>7, <1>8, <2>1, <2>2
  <1>10. SubSeq(key, 1, m) = s
    <2> DEFINE u == SubSeq(key, 0 + 1, 0 + m)
    <2>1. u \in Seq(S) /\ Len(u) = m /\ \A i \in 1..m : u[i] = key[0 + i]
      <3>1. 0 + m <= Len(key)
        BY <1>2, <1>3
      <3>2. QED
        BY <1>2, <1>3, <3>1, PartOfSeq
    <2>2. u = SubSeq(key, 1, m)
      BY <1>2
    <2> HIDE DEF u
    <2>3. \A i \in 1..m : u[i] = s[i]
      BY <1>2, <1>3, <2>1
    <2>4. u = s
      BY <1>1, <1>2, <2>1, <2>3, SameSeq
    <2>5. QED
      BY <2>2, <2>4
  <1>11. ASSUME ~CF!Dotted(n) PROVE CF!part(key, 1) = n
    <2>1. \A i \in 1..k : n[i] # "."
      BY <1>1, <1>2, <1>11 DEF CF!Dotted, CF!ToSet
    <2>2. dots = {m + 1}
      <3>1. ASSUME NEW i \in dots PROVE i = m + 1
        <4>1. i \in m + 1 .. m + 1 + k /\ key[i] = "."
          BY <1>5
        <4>2. SUFFICES ASSUME i # m + 1 PROVE FALSE
          OBVIOUS
        <4>3. PICK j \in Nat : j = i - (m + 1)
          BY <1>2, <4>1
        <4>4. j \in 1..k /\ m + 1 + j = i
          BY <1>2, <4>1, <4>2, <4>3
        <4>5. QED
          BY <1>3, <2>1, <4>1, <4>4
      <3> HIDE DEF dots
      <3>2. QED
        BY <1>5, <3>1
    <2>3. From(1) = {}
      <3>1. Cardinality({}) = 0
        BY FS_EmptySet
      <3>2. {d \in dots : d < m + 1} = {}
        <4> HIDE DEF dots
        <4>1. QED
          BY <1>2, <2>2
      <3>3. \A j \in dots : Cardinality({d \in dots : d < j}) = 0
        <4> HIDE DEF dots
        <4>1. QED
          BY <2>2, <3>1, <3>2
      <3> HIDE DEF dots
      <3>4. QED
        BY <3>3
    <2>4. CF!part(key, 1) =
            SubSeq(key, (CHOOSE j \in From(1 - 1) : TRUE) + 1,
                   IF From(1) = {} THEN Len(key) ELSE (CHOOSE j \in From(1) : TRUE) - 1)
      BY DEF CF!part, CF!Cardinality, Cardinality
    <2>5. From(1 - 1) = From(0)
      OBVIOUS
    <2> HIDE DEF From
    <2>6. CF!part(key, 1) = SubSeq(key, (m + 1) + 1, (m + 1) + k)
      <3>1. Len(key) = (m + 1) + k
        BY <1>3
      <3>2. QED
        BY <1>8, <2>3, <2>4, <2>5, <3>1
    <2> DEFINE u == SubSeq(key, (m + 1) + 1, (m + 1) + k)
    <2>7. u \in Seq(S) /\ Len(u) = k /\ \A i \in 1..k : u[i] = key[m + 1 + i]
      <3>1. (m + 1) + k <= Len(key) /\ m + 1 \in Nat
        BY <1>2, <1>3
      <3>2. QED
        BY <1>2, <1>3, <3>1, PartOfSeq
    <2> HIDE DEF u
    <2>8. u = n
      BY <1>1, <1>2, <1>3, <2>7, SameSeq
    <2>9. QED
      BY <2>6, <2>8 DEF u
  <1>12. QED
    BY <1>9, <1>10, <1>11 DEF key

(* A key of names without a "." is of no other names.                      *)
LEMMA UndottedKey ==
  ASSUME CF!ConfigurationConstants, NEW s \in Sections, NEW n \in Parameters,
         ~CF!Dotted(s), ~CF!Dotted(n)
  PROVE  CF!OwnKey(s, n)
  <1>1. SUFFICES ASSUME NEW t \in Sections, NEW o \in Parameters,
                        CF!keyOf(t, o) = CF!keyOf(s, n)
                 PROVE  t = s /\ o = n
    BY DEF CF!OwnKey
  <1> DEFINE S == ToSet(s) \cup ToSet(n) \cup ToSet(t) \cup ToSet(o) \cup {"."}
  <1>2. "." \in S /\ s \in Seq(S) /\ n \in Seq(S) /\ t \in Seq(S) /\ o \in Seq(S)
    <2>1. /\ s \in Seq(ToSet(s)) /\ n \in Seq(ToSet(n))
          /\ t \in Seq(ToSet(t)) /\ o \in Seq(ToSet(o))
      BY DEF CF!ConfigurationConstants, CF!ToSet, ToSet
    <2>2. QED
      BY <2>1, SeqMonotonic
  <1>3. \A i \in DOMAIN s : s[i] # "."
    BY <1>2 DEF CF!Dotted, CF!ToSet
  <1>4. \A i \in DOMAIN n : n[i] # "."
    BY <1>2 DEF CF!Dotted, CF!ToSet
  <1> HIDE DEF S
  <1>5. PICK m \in Nat, k \in Nat, p \in Nat, q \in Nat :
          m = Len(s) /\ k = Len(n) /\ p = Len(t) /\ q = Len(o)
    BY <1>2, LenProperties
  <1>6. DOMAIN s = 1..m /\ DOMAIN n = 1..k
    BY <1>2, <1>5, LenProperties
  <1>7. PICK key : key = CF!keyOf(s, n)
    OBVIOUS
  <1>8. /\ Len(key) = m + 1 + k
        /\ \A i \in 1..m : key[i] = s[i]
        /\ \A i \in 1..k : key[m + 1 + i] = n[i]
    <2>1. /\ "." \in S /\ s \in Seq(S) /\ n \in Seq(S)
          /\ m \in Nat /\ k \in Nat /\ m = Len(s) /\ k = Len(n)
      BY <1>2, <1>5
    <2>2. QED
      <3>1. /\ Len(CF!keyOf(s, n)) = Len(s) + 1 + Len(n)
            /\ \A i \in 1..Len(s) : CF!keyOf(s, n)[i] = s[i]
        BY <1>2, KeyIsSeq
      <3>2. CF!keyOf(s, n)[Len(s) + 1] = "."
        BY <1>2, KeyIsSeq
      <3>3. \A i \in 1..Len(n) : CF!keyOf(s, n)[Len(s) + 1 + i] = n[i]
        BY <1>2, KeyIsSeq
      <3>4. QED
        BY <1>7, <2>1, <3>1, <3>2, <3>3, Zenon
  <1>9. /\ Len(key) = p + 1 + q
        /\ \A i \in 1..p : key[i] = t[i]
        /\ key[p + 1] = "."
        /\ \A i \in 1..q : key[p + 1 + i] = o[i]
    <2>1. key = CF!keyOf(t, o)
      BY <1>1, <1>7
    <2>2. /\ "." \in S /\ t \in Seq(S) /\ o \in Seq(S)
          /\ p \in Nat /\ q \in Nat /\ p = Len(t) /\ q = Len(o)
      BY <1>2, <1>5
    <2>3. QED
      <3>1. /\ Len(CF!keyOf(t, o)) = Len(t) + 1 + Len(o)
            /\ \A i \in 1..Len(t) : CF!keyOf(t, o)[i] = t[i]
        BY <1>2, KeyIsSeq
      <3>2. CF!keyOf(t, o)[Len(t) + 1] = "."
        BY <1>2, KeyIsSeq
      <3>3. \A i \in 1..Len(o) : CF!keyOf(t, o)[Len(t) + 1 + i] = o[i]
        BY <1>2, KeyIsSeq
      <3>4. QED
        BY <2>1, <2>2, <3>1, <3>2, <3>3, Zenon
  <1>10. p = m
    <2>1. ~(p < m)
      <3>1. SUFFICES ASSUME p < m PROVE FALSE
        OBVIOUS
      <3>2. p + 1 \in 1..m
        BY <1>5, <3>1
      <3>3. QED
        BY <1>3, <1>6, <1>8, <1>9, <3>2
    <2>2. ~(m < p)
      <3>1. SUFFICES ASSUME m < p PROVE FALSE
        OBVIOUS
      <3>2. PICK j \in Nat : j = p - m
        BY <1>5, <3>1
      <3>3. j \in 1..k /\ m + 1 + j = p + 1
        BY <1>5, <1>8, <1>9, <3>1, <3>2
      <3>4. PICK x : x = m + 1 + j
        OBVIOUS
      <3>5. key[x] = n[j] /\ n[j] # "."
        BY <1>4, <1>6, <1>8, <3>3, <3>4
      <3>6. key[x] = "."
        BY <1>9, <3>3, <3>4
      <3>7. QED
        BY <3>5, <3>6
    <2>3. QED
      BY <1>5, <2>1, <2>2
  <1>11. q = k
    BY <1>5, <1>8, <1>9, <1>10
  <1>12. t = s
    BY <1>2, <1>5, <1>8, <1>9, <1>10, SameSeq
  <1>13. o = n
    <2>1. \A i \in 1..k : o[i] = n[i]
      BY <1>8, <1>9, <1>10, <1>11
    <2>2. QED
      BY <1>2, <1>5, <1>11, <2>1, SameSeq
  <1>14. QED
    BY <1>12, <1>13

(* What is put, and what is taken away.                                    *)
LEMMA ValuePut ==
  ASSUME NEW s, NEW key, NEW v, NEW k
  PROVE  CF!value(CF!Put(s, key, v), k) = IF k = key THEN v ELSE CF!value(s, k)
  <1>1. CASE v = "" /\ key \in DOMAIN s
    <2>1. CF!Put(s, key, v) = [x \in DOMAIN s \ {key} |-> s[x]]
      BY <1>1 DEF CF!Put, CF!Without, CF!Restrict
    <2>2. QED
      BY <1>1, <2>1 DEF CF!value
  <1>2. CASE ~(v = "" /\ key \in DOMAIN s)
    <2>1. CF!Put(s, key, v) = [x \in DOMAIN s \cup {key} |-> IF x = key THEN v ELSE s[x]]
      BY <1>2 DEF CF!Put
    <2>2. QED
      BY <2>1 DEF CF!value
  <1>3. QED
    BY <1>1, <1>2

LEMMA ValueWithout ==
  ASSUME NEW s, NEW keys, NEW k
  PROVE  CF!value(CF!Without(s, keys), k) = IF k \in keys THEN "" ELSE CF!value(s, k)
  <1>1. CF!Without(s, keys) = [x \in DOMAIN s \ keys |-> s[x]]
    BY DEF CF!Without, CF!Restrict
  <1>2. QED
    BY <1>1 DEF CF!value

(* What a file holds is what was set, of names that the property is about. *)
Told(s, n) == s \in Sections /\ n \in Parameters /\ ~CF!Dotted(s) /\ CF!OwnKey(s, n)
Holds(f, t) == \A s, n : Told(s, n) => CF!value(f, CF!keyOf(s, n)) = t[<< s, n >>]

(* An answer of items is right for the keys there were.                    *)
Alone(s, n, keys) ==
  \A k \in keys : CF!part(k, 0) = s /\ CF!part(k, 1) = n => k = CF!keyOf(s, n)
ItemsRight ==
  items_read # << >> =>
    \A n \in Parameters :
      ~CF!Dotted(items_read.section) /\ ~CF!Dotted(n)
          /\ Alone(items_read.section, n, items_read.keys) =>
        CF!value(items_read.items, n) = truth[<< items_read.section, n >>]

CFTypes ==
  /\ DOMAIN truth = Sections \X Parameters
  /\ DOMAIN state = Processes
  /\ saving \in [Processes -> BOOLEAN]
  /\ fresh \subseteq Processes
  /\ clean \in BOOLEAN

(* Between calls the file holds what was set, and so do the managers that  *)
(* have read or written it last; while one is writing, there is but one,   *)
(* and it is the manager that holds it.                                    *)
FileHolds ==
  clean /\ CF!Quiet => Holds(cf_file, truth) /\ \A p \in fresh : state[p] = cf_file
WriterHolds ==
  clean => \A p \in Processes : saving[p] =>
             Holds(state[p], truth) /\ \A q \in Processes : saving[q] => q = p

FileRight == CFTypes /\ FileHolds /\ WriterHolds
CFInv == FileRight /\ ItemsRight

LEMMA HoldsPut ==
  ASSUME NEW f, NEW section \in Sections, NEW parameter \in Parameters, NEW v,
         CFTypes, Holds(f, truth)
  PROVE  Holds(CF!Put(f, CF!keyOf(section, parameter), v),
               [truth EXCEPT ![<< section, parameter >>] = v])
  <1> DEFINE new == CF!Put(f, CF!keyOf(section, parameter), v)
             t == [truth EXCEPT ![<< section, parameter >>] = v]
  <1>1. SUFFICES ASSUME NEW s, NEW n, Told(s, n)
                 PROVE  CF!value(new, CF!keyOf(s, n)) = t[<< s, n >>]
    BY DEF Holds
  <1>2. s \in Sections /\ n \in Parameters /\ << s, n >> \in DOMAIN truth
    BY <1>1 DEF Told, CFTypes
  <1>3. CF!value(new, CF!keyOf(s, n))
          = IF CF!keyOf(s, n) = CF!keyOf(section, parameter) THEN v
            ELSE CF!value(f, CF!keyOf(s, n))
    BY ValuePut
  <1>4. CF!value(f, CF!keyOf(s, n)) = truth[<< s, n >>]
    BY <1>1 DEF Holds
  <1>5. CF!keyOf(section, parameter) = CF!keyOf(s, n) => section = s /\ parameter = n
    BY <1>1 DEF Told, CF!OwnKey
  <1>6. t[<< s, n >>] = IF << s, n >> = << section, parameter >> THEN v
                        ELSE truth[<< s, n >>]
    BY <1>2
  <1>7. << s, n >> = << section, parameter >> <=> s = section /\ n = parameter
    OBVIOUS
  <1> HIDE DEF new, t
  <1>8. CASE s = section /\ n = parameter
    BY <1>3, <1>6, <1>7, <1>8
  <1>9. CASE ~(s = section /\ n = parameter)
    BY <1>3, <1>4, <1>5, <1>6, <1>7, <1>9
  <1>10. QED
    BY <1>8, <1>9

LEMMA HoldsWithout ==
  ASSUME CF!ConfigurationConstants,
         NEW f, NEW section \in Sections, CFTypes, Holds(f, truth)
  PROVE  Holds(CF!Without(f, CF!Keys(f, section)),
               [x \in Sections \X Parameters |-> IF x[1] = section THEN "" ELSE truth[x]])
  <1> DEFINE keys == CF!Keys(f, section)
             new == CF!Without(f, keys)
             t == [x \in Sections \X Parameters |-> IF x[1] = section THEN "" ELSE truth[x]]
  <1>0. \A k : CF!value(new, k) = IF k \in keys THEN "" ELSE CF!value(f, k)
    <2> HIDE DEF keys
    <2>1. new = [x \in DOMAIN f \ keys |-> f[x]]
      BY DEF CF!Without, CF!Restrict
    <2>2. QED
      BY <2>1 DEF CF!value
  <1>1. ASSUME NEW s, NEW n, Told(s, n)
        PROVE  CF!value(new, CF!keyOf(s, n)) = t[<< s, n >>]
    <2>1. s \in Sections /\ n \in Parameters /\ ~CF!Dotted(s)
      BY <1>1 DEF Told
    <2>2. t[<< s, n >>] = IF s = section THEN "" ELSE truth[<< s, n >>]
      BY <2>1
    <2> DEFINE key == CF!keyOf(s, n)
    <2>3. CF!part(key, 0) = s
      BY <2>1, KeyParts
    <2>4. CF!value(f, key) = truth[<< s, n >>]
      BY <1>1 DEF Holds
    <2> HIDE DEF key, t
    <2>5. key \in keys <=> key \in DOMAIN f /\ s = section
      BY <2>3 DEF CF!Keys
    <2>6. key \notin DOMAIN f => CF!value(f, key) = ""
      BY DEF CF!value
    <2> HIDE DEF keys, new
    <2>7. CF!value(new, key) = IF key \in keys THEN "" ELSE CF!value(f, key)
      BY <1>0
    <2>8. CF!value(new, key) = t[<< s, n >>]
      BY <2>2, <2>4, <2>5, <2>6, <2>7
    <2>9. QED
      BY <2>8 DEF key
  <1> HIDE DEF new, t
  <1>2. Holds(new, t)
    BY <1>1 DEF Holds
  <1>3. QED
    BY <1>2 DEF new, t, keys

(* What items answers, of names without a "." in a file that holds what    *)
(* was set: that.                                                          *)
LEMMA ItemsTell ==
  ASSUME CF!ConfigurationConstants, NEW f, Holds(f, truth),
         NEW section \in Sections, NEW n \in Parameters,
         NEW r \in CF!items(f, section),
         ~CF!Dotted(section), ~CF!Dotted(n), Alone(section, n, DOMAIN f)
  PROVE  CF!value(r, n) = truth[<< section, n >>]
  <1>1. PICK key : key = CF!keyOf(section, n)
    OBVIOUS
  <1>2. CF!part(key, 0) = section /\ CF!part(key, 1) = n
    BY <1>1, KeyParts
  <1>3. CF!value(f, key) = truth[<< section, n >>]
    <2>1. Told(section, n)
      BY UndottedKey DEF Told
    <2>2. QED
      BY <1>1, <2>1 DEF Holds
  <1>4. \A k \in CF!Keys(f, section) : CF!part(k, 1) = n => k = key
    BY <1>1 DEF CF!Keys, Alone
  <1>5. /\ DOMAIN r = {CF!part(k, 1) : k \in CF!Keys(f, section)}
        /\ \A m \in DOMAIN r :
             \E k \in CF!Keys(f, section) : CF!part(k, 1) = m /\ r[m] = f[k]
    BY DEF CF!items
  <1>6. CASE key \in DOMAIN f
    <2>1. key \in CF!Keys(f, section)
      BY <1>2, <1>6 DEF CF!Keys
    <2>2. n \in DOMAIN r
      BY <1>2, <1>5, <2>1
    <2>3. r[n] = f[key]
      BY <1>4, <1>5, <2>2
    <2>4. QED
      BY <1>3, <1>6, <2>2, <2>3 DEF CF!value
  <1>7. CASE key \notin DOMAIN f
    <2>1. n \notin DOMAIN r
      BY <1>4, <1>5, <1>7 DEF CF!Keys
    <2>2. QED
      BY <1>3, <1>7, <2>1 DEF CF!value
  <1>8. QED
    BY <1>6, <1>7

(* A manager reads the file anew.                                          *)
LEMMA RereadRight ==
  ASSUME FileRight, NEW p \in Processes, ~saving[p], CF!reread(p),
         UNCHANGED << saving, cf_file, truth, clean >>
  PROVE  FileRight'
  <1>1. CFTypes'
    BY DEF FileRight, CFTypes, CF!reread
  <1>2. state'[p] = cf_file /\ \A q \in Processes \ {p} : state'[q] = state[q]
    BY DEF FileRight, CFTypes, CF!reread
  <1>3. FileHolds'
    <2>1. CF!Quiet' <=> CF!Quiet
      BY DEF CF!Quiet
    <2>2. SUFFICES ASSUME clean', CF!Quiet'
                   PROVE  Holds(cf_file', truth') /\ \A q \in fresh' : state'[q] = cf_file'
      BY DEF FileHolds
    <2>3. Holds(cf_file, truth) /\ \A q \in fresh : state[q] = cf_file
      BY <2>1, <2>2 DEF FileRight, FileHolds
    <2>4. Holds(cf_file', truth')
      BY <2>3
    <2>5. \A q \in fresh' : state'[q] = cf_file'
      BY <1>2, <2>3 DEF CF!reread, FileRight, CFTypes
    <2>6. QED
      BY <2>4, <2>5
  <1>4. WriterHolds'
    <2>1. SUFFICES ASSUME clean', NEW q \in Processes, saving'[q]
                   PROVE  Holds(state'[q], truth') /\ \A o \in Processes : saving'[o] => o = q
      BY DEF WriterHolds
    <2>2. state'[q] = state[q] /\ truth' = truth
      BY <1>2, <2>1
    <2>3. Holds(state[q], truth) /\ \A o \in Processes : saving[o] => o = q
      BY <2>1 DEF FileRight, WriterHolds
    <2>4. QED
      BY <2>2, <2>3
  <1>5. QED
    BY <1>1, <1>3, <1>4 DEF FileRight

(* One opens it to write what it holds.                                    *)
LEMMA OpeningRight ==
  ASSUME FileRight, NEW p \in Processes, CF!save_open(p), fresh' = fresh,
         DOMAIN state' = Processes, DOMAIN truth' = Sections \X Parameters,
         Holds(state[p], truth) => Holds(state'[p], truth')
  PROVE  FileRight'
  <1>1. CFTypes'
    BY DEF FileRight, CFTypes, CF!save_open
  <1>2. saving'[p] /\ \A q \in Processes \ {p} : saving'[q] = saving[q]
    BY DEF FileRight, CFTypes, CF!save_open
  <1>3. FileHolds'
    BY <1>2 DEF FileHolds, CF!Quiet
  <1>4. WriterHolds'
    <2>1. SUFFICES ASSUME clean', NEW q \in Processes, saving'[q]
                   PROVE  Holds(state'[q], truth') /\ \A o \in Processes : saving'[o] => o = q
      BY DEF WriterHolds
    <2>2. clean /\ p \in fresh /\ CF!Quiet
      BY <2>1 DEF CF!save_open
    <2>3. \A o \in Processes : saving'[o] => o = p
      BY <1>2, <2>2 DEF CF!Quiet
    <2>4. state[p] = cf_file /\ Holds(cf_file, truth)
      BY <2>2 DEF FileRight, FileHolds
    <2>5. Holds(state'[p], truth')
      BY <2>4
    <2>6. q = p
      BY <2>1, <2>3
    <2>7. QED
      BY <2>3, <2>5, <2>6
  <1>5. QED
    BY <1>1, <1>3, <1>4 DEF FileRight

(* It has written it.                                                      *)
LEMMA ClosingRight ==
  ASSUME FileRight, NEW p \in Processes, CF!save_close(p)
  PROVE  FileRight'
  <1>1. /\ saving[p] /\ cf_file' = state[p] /\ fresh' = {p}
        /\ state' = state /\ truth' = truth /\ clean' = clean
    BY DEF CF!save_close
  <1>2. CFTypes'
    BY <1>1 DEF FileRight, CFTypes, CF!save_close
  <1>3. ~saving'[p] /\ \A q \in Processes \ {p} : saving'[q] = saving[q]
    BY DEF FileRight, CFTypes, CF!save_close
  <1>4. clean => Holds(state[p], truth) /\ \A q \in Processes : saving[q] => q = p
    BY <1>1 DEF FileRight, WriterHolds
  <1>5. FileHolds'
    <2>1. clean => Holds(cf_file', truth')
      BY <1>1, <1>4
    <2>2. \A q \in fresh' : state'[q] = cf_file'
      BY <1>1
    <2>3. QED
      BY <1>1, <2>1, <2>2 DEF FileHolds
  <1>6. WriterHolds'
    <2>1. clean => \A q \in Processes : ~saving'[q]
      BY <1>3, <1>4
    <2>2. QED
      BY <1>1, <2>1 DEF WriterHolds
  <1>7. QED
    BY <1>2, <1>5, <1>6 DEF FileRight

(* It is no longer one of those that hold what the file does.              *)
LEMMA PartingRight ==
  ASSUME FileRight, NEW p \in Processes, NEW new,
         state' = [state EXCEPT ![p] = new], fresh' = fresh \ {p},
         saving' \in [Processes -> BOOLEAN], ~saving'[p],
         \A q \in Processes \ {p} : saving'[q] = saving[q],
         clean' \in BOOLEAN, clean' => clean /\ ~saving[p],
         UNCHANGED << cf_file, truth >>
  PROVE  FileRight'
  <1>1. CFTypes'
    BY DEF FileRight, CFTypes
  <1>2. \A q \in Processes \ {p} : state'[q] = state[q]
    BY DEF FileRight, CFTypes
  <1>3. FileHolds'
    <2>1. SUFFICES ASSUME clean', CF!Quiet'
                   PROVE  Holds(cf_file', truth') /\ \A q \in fresh' : state'[q] = cf_file'
      BY DEF FileHolds
    <2>2. CF!Quiet' <=> \A q \in Processes : ~saving'[q]
      BY DEF CF!Quiet
    <2>3. CF!Quiet
      BY <2>1, <2>2 DEF CF!Quiet
    <2>4. Holds(cf_file, truth) /\ \A q \in fresh : state[q] = cf_file
      BY <2>1, <2>3 DEF FileRight, FileHolds
    <2>5. Holds(cf_file', truth')
      BY <2>4
    <2>6. \A q \in fresh' : state'[q] = cf_file'
      BY <1>2, <2>4 DEF FileRight, CFTypes
    <2>7. QED
      BY <2>5, <2>6
  <1>4. WriterHolds'
    <2>1. SUFFICES ASSUME clean', NEW q \in Processes, saving'[q]
                   PROVE  Holds(state'[q], truth') /\ \A o \in Processes : saving'[o] => o = q
      BY DEF WriterHolds
    <2>2. q # p /\ saving[q]
      BY <2>1
    <2>3. Holds(state[q], truth) /\ \A o \in Processes : saving[o] => o = q
      BY <2>1, <2>2 DEF FileRight, WriterHolds
    <2>4. state'[q] = state[q] /\ truth' = truth
      BY <1>2, <2>2
    <2>5. Holds(state'[q], truth')
      BY <2>3, <2>4
    <2>6. \A o \in Processes : saving'[o] => o = q
      BY <2>2, <2>3
    <2>7. QED
      BY <2>5, <2>6
  <1>5. QED
    BY <1>1, <1>3, <1>4 DEF FileRight

(* A call that changes what a manager holds.                               *)
LEMMA ChangeRight ==
  ASSUME CFInv, NEW p \in Processes, NEW new, NEW newTruth,
         DOMAIN newTruth = Sections \X Parameters,
         Holds(state[p], truth) => Holds(new, newTruth),
         CF!Change(p, new, newTruth)
  PROVE  CFInv'
  <1>1. ItemsRight'
    BY DEF CF!Change, ItemsRight
  <1>2. ~saving[p] /\ state' = [state EXCEPT ![p] = new]
    BY DEF CF!Change, CF!Idle
  <1>3. DOMAIN state' = Processes /\ state'[p] = new
    BY <1>2 DEF CFInv, FileRight, CFTypes
  <1>4. CASE access[p]
    <2>1. truth' = newTruth /\ CF!save_open(p) /\ fresh' = fresh
      BY <1>4 DEF CF!Change
    <2>2. DOMAIN truth' = Sections \X Parameters
      BY <2>1
    <2>3. Holds(state[p], truth) => Holds(state'[p], truth')
      BY <1>3, <2>1
    <2>4. FileRight'
      BY <1>3, <2>1, <2>2, <2>3, OpeningRight DEF CFInv
    <2>5. QED
      BY <1>1, <2>4 DEF CFInv
  <1>5. CASE ~access[p]
    <2>1. fresh' = fresh \ {p} /\ UNCHANGED << saving, cf_file, truth, clean >>
      BY <1>5 DEF CF!Change
    <2>2. FileRight'
      <3>1. saving' \in [Processes -> BOOLEAN] /\ clean' \in BOOLEAN
        BY <2>1 DEF CFInv, FileRight, CFTypes
      <3>2. ~saving'[p] /\ \A q \in Processes \ {p} : saving'[q] = saving[q]
        BY <1>2, <2>1
      <3>3. (clean' => clean /\ ~saving[p]) /\ UNCHANGED << cf_file, truth >>
        BY <1>2, <2>1
      <3>4. QED
        BY <1>2, <2>1, <3>1, <3>2, <3>3, PartingRight DEF CFInv
    <2>3. QED
      BY <1>1, <2>2 DEF CFInv
  <1>6. QED
    BY <1>4, <1>5

LEMMA ReadingRight ==
  ASSUME CF!ConfigurationConstants, CFInv, NEW p \in Processes,
         NEW section \in Sections, CF!readItems(p, section)
  PROVE  CFInv'
  <1>1. ~saving[p] /\ UNCHANGED << saving, cf_file, truth, clean >>
    BY DEF CF!readItems, CF!Idle
  <1>2. FileRight'
    <2>1. CASE access[p]
      <3>1. CF!reread(p)
        BY <2>1 DEF CF!readItems
      <3>2. QED
        BY <1>1, <3>1, RereadRight DEF CFInv
    <2>2. CASE ~access[p]
      <3>1. UNCHANGED << state, fresh >>
        BY <2>2 DEF CF!readItems
      <3>2. QED
        BY <1>1, <3>1 DEF CFInv, FileRight, CFTypes, FileHolds, WriterHolds, CF!Quiet
    <2>3. QED
      BY <2>1, <2>2
  <1>3. ItemsRight'
    <2>1. PICK r \in CF!items(state'[p], section) :
            items_read' = IF access[p] /\ clean /\ CF!Quiet
                          THEN [section |-> section, items |-> r, keys |-> DOMAIN state'[p]]
                          ELSE << >>
      BY DEF CF!readItems
    <2>2. CASE access[p] /\ clean /\ CF!Quiet
      <3>1. state'[p] = cf_file
        BY <2>2 DEF CF!readItems, CF!reread, CFInv, FileRight, CFTypes
      <3>2. /\ items_read'.section = section /\ items_read'.items = r
            /\ items_read'.keys = DOMAIN cf_file
        BY <2>1, <2>2, <3>1
      <3>3. Holds(cf_file, truth)
        BY <2>2 DEF CFInv, FileRight, FileHolds
      <3>4. r \in CF!items(cf_file, section)
        BY <2>1, <3>1
      <3>5. SUFFICES ASSUME NEW n \in Parameters, ~CF!Dotted(section), ~CF!Dotted(n),
                            Alone(section, n, DOMAIN cf_file)
                     PROVE  CF!value(r, n) = truth'[<< section, n >>]
        BY <3>2 DEF ItemsRight
      <3>6. CF!value(r, n) = truth[<< section, n >>]
        BY <3>3, <3>4, <3>5, ItemsTell
      <3>7. QED
        BY <1>1, <3>6
    <2>3. CASE ~(access[p] /\ clean /\ CF!Quiet)
      BY <2>1, <2>3 DEF ItemsRight
    <2>4. QED
      BY <2>2, <2>3
  <1>4. QED
    BY <1>2, <1>3 DEF CFInv

LEMMA ConfigurationStep ==
  ASSUME CF!ConfigurationConstants, CFInv, [CF!Next]_CF!vars
  PROVE  CFInv'
  <1> USE DEF CFInv
  <1>1. ASSUME UNCHANGED << state, saving, cf_file, items_read, truth, fresh, clean >>
        PROVE  CFInv'
    BY <1>1 DEF FileRight, CFTypes, FileHolds, WriterHolds, ItemsRight, CF!Quiet
  <1>2. ASSUME NEW p \in Processes, NEW a \in BOOLEAN, CF!setDirectAccess(p, a)
        PROVE  CFInv'
    BY <1>1, <1>2 DEF CF!setDirectAccess, CF!history_vars
  <1>3. ASSUME UNCHANGED << items_read, truth >>
        PROVE  ItemsRight'
    BY <1>3 DEF ItemsRight
  <1>4. ASSUME NEW p \in Processes, CF!update(p)
        PROVE  CFInv'
    <2>1. /\ ~saving[p] /\ CF!reread(p)
          /\ UNCHANGED << saving, cf_file, truth, clean >> /\ UNCHANGED items_read
      BY <1>4 DEF CF!update, CF!Idle
    <2>2. QED
      BY <1>3, <2>1, RereadRight
  <1>5. ASSUME NEW p \in Processes, CF!save(p)
        PROVE  CFInv'
    <2>1. CF!save_open(p) /\ UNCHANGED << state, items_read, truth, fresh >>
      BY <1>5 DEF CF!save
    <2>2. /\ DOMAIN state' = Processes /\ DOMAIN truth' = Sections \X Parameters
          /\ fresh' = fresh
      BY <2>1 DEF FileRight, CFTypes
    <2>3. Holds(state[p], truth) => Holds(state'[p], truth')
      BY <2>1
    <2>4. QED
      BY <1>3, <2>1, <2>2, <2>3, OpeningRight
  <1>6. ASSUME NEW p \in Processes, CF!save_close(p)
        PROVE  CFInv'
    BY <1>3, <1>6, ClosingRight DEF CF!save_close
  <1>7. ASSUME NEW p \in Processes, CF!Die(p)
        PROVE  CFInv'
    <2>1. /\ state' = [state EXCEPT ![p] = CF!NoParameters] /\ fresh' = fresh \ {p}
          /\ UNCHANGED << cf_file, truth >> /\ UNCHANGED << items_read, truth >>
          /\ clean' = (clean /\ ~saving[p])
      BY <1>7 DEF CF!Die
    <2>2. /\ saving' \in [Processes -> BOOLEAN] /\ ~saving'[p]
          /\ \A q \in Processes \ {p} : saving'[q] = saving[q]
      BY <1>7 DEF CF!Die, FileRight, CFTypes
    <2>3. FileRight'
      BY <2>1, <2>2, PartingRight
    <2>4. QED
      BY <1>3, <2>1, <2>3
  <1>8. ASSUME NEW p \in Processes, NEW s \in Sections, NEW n \in Parameters,
               NEW v, CF!setParameter(p, s, n, v)
        PROVE  CFInv'
    <2> DEFINE new == CF!Put(state[p], CF!keyOf(s, n), v)
               newTruth == [truth EXCEPT ![<< s, n >>] = v]
    <2>1. CF!Change(p, new, newTruth)
      BY <1>8 DEF CF!setParameter
    <2>2. DOMAIN newTruth = Sections \X Parameters
      BY DEF FileRight, CFTypes
    <2>3. ASSUME Holds(state[p], truth) PROVE Holds(new, newTruth)
      BY <2>3, HoldsPut DEF FileRight
    <2> HIDE DEF new, newTruth
    <2>4. QED
      BY <2>1, <2>2, <2>3, ChangeRight
  <1>9. ASSUME NEW p \in Processes, NEW s \in Sections, CF!removeSection(p, s)
        PROVE  CFInv'
    <2> DEFINE new == CF!Without(state[p], CF!Keys(state[p], s))
               newTruth == [x \in Sections \X Parameters |->
                              IF x[1] = s THEN "" ELSE truth[x]]
    <2>1. CF!Change(p, new, newTruth)
      BY <1>9 DEF CF!removeSection
    <2>2. DOMAIN newTruth = Sections \X Parameters
      OBVIOUS
    <2>3. ASSUME Holds(state[p], truth) PROVE Holds(new, newTruth)
      BY <2>3, HoldsWithout DEF FileRight
    <2> HIDE DEF new, newTruth
    <2>4. QED
      BY <2>1, <2>2, <2>3, ChangeRight
  <1>10. ASSUME NEW p \in Processes, NEW s \in Sections, CF!readItems(p, s)
         PROVE  CFInv'
    BY <1>10, ReadingRight
  <1>11. CASE UNCHANGED CF!vars
    BY <1>1, <1>11 DEF CF!vars, CF!history_vars
  <1>12. QED
    BY <1>2, <1>4, <1>5, <1>6, <1>7, <1>8, <1>9, <1>10, <1>11 DEF CF!Next

(* As long as the managers that write the file are clean, it holds of each *)
(* parameter what was set last, and items answers that: for all processes, *)
(* sections and parameters, whatever the names, and whatever the file held *)
(* at first.                                                               *)
THEOREM FileKeepsParameters ==
  ASSUME CF!ConfigurationConstants
  PROVE  CF!Spec => []CF!ConfigKept
  <1>1. CF!Init => CFInv
    <2>1. SUFFICES ASSUME CF!Init PROVE CFInv
      OBVIOUS
    <2>2. CFTypes
      BY <2>1 DEF CF!Init, CFTypes
    <2>3. Holds(cf_file, truth)
      BY <2>1 DEF CF!Init, Holds, Told
    <2>4. \A p \in fresh : state[p] = cf_file
      BY <2>1 DEF CF!Init
    <2>5. \A p \in Processes : ~saving[p]
      BY <2>1 DEF CF!Init
    <2>6. ItemsRight
      BY <2>1 DEF CF!Init, ItemsRight
    <2>7. QED
      BY <2>2, <2>3, <2>4, <2>5, <2>6 DEF CFInv, FileRight, FileHolds, WriterHolds
  <1>2. CFInv => CF!ConfigKept
    <2>1. SUFFICES ASSUME CFInv PROVE CF!ConfigKept
      OBVIOUS
    <2>2. ASSUME clean, CF!Quiet, NEW s \in Sections, NEW n \in Parameters,
                 ~CF!Dotted(s), CF!OwnKey(s, n)
          PROVE  CF!value(cf_file, CF!keyOf(s, n)) = truth[<< s, n >>]
      BY <2>1, <2>2 DEF CFInv, FileRight, FileHolds, Holds, Told
    <2>3. ItemsRight
      BY <2>1 DEF CFInv
    <2>4. QED
      BY <2>2, <2>3 DEF CF!ConfigKept, ItemsRight, Alone
  <1>3. QED
    BY <1>1, <1>2, ConfigurationStep, PTL DEF CF!Spec

-----------------------------------------------------------------------------
(* The content directory (ContentDirectory).                               *)

(* What a film's information is after the first n lines.                   *)
RateRight(rate, lines, n) ==
  IF \E i \in 1..n : CD!TellsRate(lines, i)
  THEN \E i \in 1..n : /\ CD!TellsRate(lines, i) /\ rate = CD!toInt(lines[i].value)
                       /\ \A k \in 1..n : i < k => ~CD!TellsRate(lines, k)
  ELSE rate = -1
InfoRight(info, lines, n) ==
  /\ DOMAIN info = DOMAIN CD!NoInfo
  /\ info.audioEnc \in BOOLEAN /\ info.ok \in BOOLEAN
  /\ info.audioEnc <=> \E j \in 1..n : lines[j].key = "audioEnc"
  /\ info.ok <=> \A k \in 1..n : ~CD!Refused(lines, k)
  /\ RateRight(info.audioRate, lines, n)
  /\ info.length # None =>
       \E i \in 1..n : lines[i].key = "length" /\ lines[i].value = info.length

(* Lines about the sound hold numbers.                                     *)
Numbered(lines, n) ==
  /\ DOMAIN lines = 1..n
  /\ \A k \in 1..n : lines[k].key \in CD!Audio => lines[k].value \in Nat \cup {Unreadable}

LEMMA NothingRead ==
  ASSUME NEW lines
  PROVE  InfoRight(CD!NoInfo, lines, 0)
  <1>1. 1..0 = {}
    OBVIOUS
  <1>2. QED
    BY <1>1 DEF InfoRight, RateRight, CD!NoInfo

(* What the next line is, told from what is known of those before it.      *)
LEMMA NextLine ==
  ASSUME NEW info, NEW lines, NEW n \in Nat, InfoRight(info, lines, n),
         NEW m, m = n + 1, NEW N \in Nat, m <= N, DOMAIN lines = 1..N
  PROVE  /\ CD!Opened(lines, m) <=> info.audioEnc
         /\ CD!Refused(lines, m) <=> /\ lines[m].key \in CD!Audio /\ info.audioEnc
                                     /\ lines[m].value = Unreadable
         /\ CD!TellsRate(lines, m) <=> /\ lines[m].key = "audioRate"
                                       /\ info.audioEnc /\ info.ok
         /\ ~info.ok => info.audioEnc
  <1>1. \A i \in 1..N : i < m <=> i \in 1..n
    OBVIOUS
  <1>2. \A i \in 1..n : i \in 1..N
    OBVIOUS
  <1>3. CD!Opened(lines, m) <=> info.audioEnc
    BY <1>1, <1>2 DEF InfoRight, CD!Opened
  <1>4. (~ \E k \in DOMAIN lines : k < m /\ CD!Refused(lines, k)) <=> info.ok
    BY <1>1, <1>2 DEF InfoRight
  <1>5. ~info.ok => info.audioEnc
    <2>1. SUFFICES ASSUME ~info.ok PROVE \E j \in 1..n : lines[j].key = "audioEnc"
      BY DEF InfoRight
    <2>2. PICK k \in 1..n : CD!Refused(lines, k)
      BY <2>1 DEF InfoRight
    <2>3. PICK j \in 1..N : j < k /\ lines[j].key = "audioEnc"
      BY <2>2 DEF CD!Refused, CD!Opened
    <2>4. j \in 1..n
      BY <2>3
    <2>5. QED
      BY <2>3, <2>4
  <1>6. QED
    BY <1>3, <1>4, <1>5 DEF CD!Refused, CD!TellsRate

(* The rate after one line more.                                           *)
LEMMA NextRate ==
  ASSUME NEW lines, NEW n \in Nat, NEW m, m = n + 1, NEW old, NEW rate,
         RateRight(old, lines, n),
         rate = IF CD!TellsRate(lines, m) THEN CD!toInt(lines[m].value) ELSE old
  PROVE  RateRight(rate, lines, m)
  <1>1. /\ \A i \in 1..m : i \in 1..n \/ i = m
        /\ \A i \in 1..n : i \in 1..m /\ i < m /\ ~(m < i)
        /\ m \in 1..m /\ ~(m < m)
    OBVIOUS
  <1>2. CASE CD!TellsRate(lines, m)
    BY <1>1, <1>2 DEF RateRight
  <1>3. CASE ~CD!TellsRate(lines, m)
    <2>1. rate = old
      BY <1>3
    <2>2. CASE \E i \in 1..n : CD!TellsRate(lines, i)
      <3>1. PICK i \in 1..n : /\ CD!TellsRate(lines, i) /\ rate = CD!toInt(lines[i].value)
                              /\ \A k \in 1..n : i < k => ~CD!TellsRate(lines, k)
        BY <2>1, <2>2 DEF RateRight
      <3>2. i \in 1..m /\ \A k \in 1..m : i < k => ~CD!TellsRate(lines, k)
        BY <1>1, <1>3, <3>1
      <3>3. QED
        BY <3>1, <3>2 DEF RateRight
    <2>3. CASE ~ \E i \in 1..n : CD!TellsRate(lines, i)
      <3>1. ~ \E i \in 1..m : CD!TellsRate(lines, i)
        BY <1>1, <1>3, <2>3
      <3>2. rate = -1
        BY <2>1, <2>3 DEF RateRight
      <3>3. QED
        BY <3>1, <3>2 DEF RateRight
    <2>4. QED
      BY <2>2, <2>3
  <1>4. QED
    BY <1>2, <1>3

(* One line more.                                                          *)
LEMMA LineIsRead ==
  ASSUME NEW info, NEW lines, NEW n \in Nat, InfoRight(info, lines, n),
         NEW m, m = n + 1, NEW N \in Nat, m <= N, DOMAIN lines = 1..N,
         NEW line, line = lines[m], NEW r, r = CD!lineRead(info, line)
  PROVE  InfoRight(r, lines, m)
  <1>1. /\ \A i \in 1..m : i \in 1..n \/ i = m
        /\ \A i \in 1..n : i \in 1..m
        /\ m \in 1..m
    OBVIOUS
  <1>2. DOMAIN info = {"width", "height", "length", "audioEnc", "audioBitrate",
                       "audioRate", "audioChannels", "ok"}
    BY DEF InfoRight, CD!NoInfo
  <1>3. /\ CD!Refused(lines, m) <=> /\ line.key \in CD!Audio /\ info.audioEnc
                                    /\ line.value = Unreadable
        /\ CD!TellsRate(lines, m) <=> line.key = "audioRate" /\ info.audioEnc /\ info.ok
        /\ ~info.ok => info.audioEnc
    BY NextLine
  <1>4. /\ info.audioEnc \in BOOLEAN /\ info.ok \in BOOLEAN
        /\ info.audioEnc <=> \E j \in 1..n : lines[j].key = "audioEnc"
        /\ info.ok <=> \A k \in 1..n : ~CD!Refused(lines, k)
        /\ RateRight(info.audioRate, lines, n)
        /\ info.length # None =>
             \E i \in 1..n : lines[i].key = "length" /\ lines[i].value = info.length
    BY DEF InfoRight
  <1>5. SUFFICES
          /\ DOMAIN r = DOMAIN info /\ r.audioEnc \in BOOLEAN /\ r.ok \in BOOLEAN
          /\ r.audioEnc <=> info.audioEnc \/ line.key = "audioEnc"
          /\ r.ok <=> info.ok /\ ~CD!Refused(lines, m)
          /\ r.audioRate = IF CD!TellsRate(lines, m) THEN CD!toInt(line.value)
                           ELSE info.audioRate
          /\ r.length = info.length \/ (line.key = "length" /\ r.length = line.value)
    <2>1. RateRight(r.audioRate, lines, m)
      BY <1>4, <1>5, NextRate
    <2>2. r.audioEnc <=> \E j \in 1..m : lines[j].key = "audioEnc"
      BY <1>1, <1>4, <1>5
    <2>3. r.ok <=> \A k \in 1..m : ~CD!Refused(lines, k)
      BY <1>1, <1>4, <1>5
    <2>4. r.length # None =>
            \E i \in 1..m : lines[i].key = "length" /\ lines[i].value = r.length
      BY <1>1, <1>4, <1>5
    <2>5. DOMAIN r = DOMAIN CD!NoInfo
      BY <1>5 DEF InfoRight
    <2>6. QED
      BY <1>5, <2>1, <2>2, <2>3, <2>4, <2>5 DEF InfoRight
  <1>6. CASE ~info.ok
    <2>1. r = info
      BY <1>6 DEF CD!lineRead
    <2>2. QED
      BY <1>3, <1>4, <1>6, <2>1
  <1>7. CASE info.ok /\ line.key = "audioEnc"
    <2>1. r = [info EXCEPT !.audioEnc = TRUE]
      BY <1>7 DEF CD!lineRead
    <2>2. DOMAIN r = DOMAIN info /\ r.audioEnc = TRUE /\ r.ok = info.ok
          /\ r.audioRate = info.audioRate /\ r.length = info.length
      BY <1>2, <2>1
    <2>3. QED
      BY <1>3, <1>4, <1>7, <2>2 DEF CD!Audio
  <1>8. CASE info.ok /\ line.key \in {"width", "height", "length"}
    <2>1. r = [info EXCEPT ![line.key] = line.value]
      BY <1>8 DEF CD!lineRead
    <2>2. DOMAIN r = DOMAIN info /\ r.audioEnc = info.audioEnc /\ r.ok = info.ok
          /\ r.audioRate = info.audioRate
          /\ r.length = IF line.key = "length" THEN line.value ELSE info.length
      BY <1>2, <1>8, <2>1
    <2>3. QED
      BY <1>3, <1>4, <1>8, <2>2 DEF CD!Audio
  <1>9. CASE info.ok /\ line.key \in CD!Audio /\ info.audioEnc
    <2>1. PICK v, good : v = CD!toInt(line.value) /\ good = (line.value # Unreadable)
      OBVIOUS
    <2>2. r = [info EXCEPT ![line.key] = v, !.ok = good]
      BY <1>9, <2>1 DEF CD!lineRead, CD!Audio
    <2>3. line.key \in {"audioBitrate", "audioRate", "audioChannels"}
      BY <1>9 DEF CD!Audio
    <2>4. DOMAIN r = DOMAIN info /\ r.audioEnc = info.audioEnc /\ r.ok = good
          /\ r.audioRate = (IF line.key = "audioRate" THEN v ELSE info.audioRate)
          /\ r.length = info.length
      BY <1>2, <2>2, <2>3
    <2>5. QED
      BY <1>3, <1>4, <1>9, <2>1, <2>3, <2>4
  <1>10. CASE /\ info.ok /\ line.key # "audioEnc" /\ ~(line.key \in CD!Audio /\ info.audioEnc)
              /\ line.key \notin {"width", "height", "length"}
    <2>1. r = info
      BY <1>10 DEF CD!lineRead
    <2>2. QED
      BY <1>3, <1>4, <1>10, <2>1 DEF CD!Audio
  <1>11. QED
    BY <1>4, <1>6, <1>7, <1>8, <1>9, <1>10

(* What the information is after each of n lines.                          *)
Reads(f, lines, n) ==
  f = [k \in 0..n |-> IF k = 0 THEN CD!NoInfo ELSE CD!lineRead(f[k - 1], lines[k])]

LEMMA ReadsUpTo ==
  ASSUME NEW lines, NEW n \in Nat, Numbered(lines, n)
  PROVE  \E f : Reads(f, lines, n)
  <1> DEFINE V == Int \cup {None} \cup BOOLEAN \cup {lines[k].value : k \in 1..n}
             X == [DOMAIN CD!NoInfo -> V]
             h == [k \in Nat |-> [x \in X |->
                     IF k \in 1..n THEN CD!lineRead(x, lines[k]) ELSE x]]
  <1>1. PICK a \in X : a = CD!NoInfo
    <2>1. PICK b : b = [y \in DOMAIN CD!NoInfo |->
                          CASE y = "audioEnc" -> FALSE [] y = "ok" -> TRUE
                            [] y \in CD!Audio -> -1 [] OTHER -> None]
      OBVIOUS
    <2>2. b \in X
      <3>1. None \in V /\ -1 \in V /\ TRUE \in V /\ FALSE \in V
        OBVIOUS
      <3> HIDE DEF V
      <3>2. QED
        BY <2>1, <3>1
    <2>3. b = CD!NoInfo
      BY <2>1 DEF CD!NoInfo, CD!Audio
    <2>4. QED
      BY <2>2, <2>3
  <1>2. ASSUME NEW k \in 1..n, NEW x \in X PROVE CD!lineRead(x, lines[k]) \in X
    <2>1. PICK line : line = lines[k] /\ line.value \in V
      OBVIOUS
    <2>2. PICK v, good : v = CD!toInt(line.value) /\ good = (line.value # Unreadable)
      OBVIOUS
    <2>3. TRUE \in V /\ good \in V
      <3>1. good \in BOOLEAN
        BY <2>2
      <3>2. QED
        BY <3>1
    <2>4. line.key \in CD!Audio => v \in V
      <3>1. line.key \in CD!Audio => line.value \in Nat \cup {Unreadable}
        BY <2>1 DEF Numbered
      <3>2. line.key \in CD!Audio => v \in Int
        BY <2>2, <3>1 DEF CD!toInt
      <3>3. QED
        BY <3>2
    <2>5. \A key \in DOMAIN CD!NoInfo, w \in V : \A y \in X : [y EXCEPT ![key] = w] \in X
      <3> HIDE DEF V
      <3>1. QED
        OBVIOUS
    <2>6. {"audioEnc", "ok", "width", "height", "length"} \cup CD!Audio \subseteq DOMAIN CD!NoInfo
      BY DEF CD!NoInfo, CD!Audio
    <2> HIDE DEF X, V
    <2>7. CASE line.key \in CD!Audio
      <3>1. PICK y : y = [x EXCEPT ![line.key] = v]
        OBVIOUS
      <3>2. y \in X
        BY <2>4, <2>5, <2>6, <2>7, <3>1
      <3>3. [y EXCEPT !.ok = good] \in X
        BY <2>3, <2>5, <2>6, <3>2
      <3>4. [x EXCEPT ![line.key] = v, !.ok = good] = [y EXCEPT !.ok = good]
        BY <3>1
      <3>5. CD!lineRead(x, line) \in {x, [x EXCEPT ![line.key] = v, !.ok = good]}
        BY <2>2, <2>7 DEF CD!lineRead, CD!Audio
      <3>6. QED
        BY <2>1, <3>3, <3>4, <3>5
    <2>8. CASE line.key \notin CD!Audio
      <3>1. CD!lineRead(x, line) \in {x, [x EXCEPT !.audioEnc = TRUE]}
              \cup {[x EXCEPT ![key] = line.value] : key \in {"width", "height", "length"}}
        BY <2>8 DEF CD!lineRead
      <3>2. line.value \in V /\ TRUE \in V
        BY <2>1, <2>3
      <3>3. [x EXCEPT !.audioEnc = TRUE] \in X
        BY <2>5, <2>6, <3>2
      <3>4. \A key \in {"width", "height", "length"} : [x EXCEPT ![key] = line.value] \in X
        BY <2>5, <2>6, <3>2
      <3>5. CD!lineRead(x, line) \in X
        BY <3>1, <3>3, <3>4
      <3>6. QED
        BY <2>1, <3>5
    <2>9. QED
      BY <2>7, <2>8
  <1> HIDE DEF X
  <1>3. h \in [Nat -> [X -> X]]
    BY <1>2
  <1>4. \A k \in 1..n, x \in X : h[k][x] = CD!lineRead(x, lines[k])
    OBVIOUS
  <1> HIDE DEF h
  <1>5. PICK f \in [0..n -> X] : f[0] = CD!NoInfo /\ \A k \in 1..n : f[k] = h[k][f[k - 1]]
    <2>1. \E f : Iterates(f, X, a, h, n)
      BY <1>3, IterationUpTo
    <2>2. QED
      BY <1>1, <2>1 DEF Iterates
  <1>6. ASSUME NEW k \in 0..n
        PROVE  f[k] = IF k = 0 THEN CD!NoInfo ELSE CD!lineRead(f[k - 1], lines[k])
    <2>1. CASE k = 0
      BY <1>5, <2>1
    <2>2. CASE k # 0
      <3>1. k \in 1..n /\ k - 1 \in 0..n
        BY <2>2
      <3>2. f[k - 1] \in X
        BY <3>1
      <3>3. QED
        BY <1>4, <1>5, <2>2, <3>1, <3>2
    <2>3. QED
      BY <2>1, <2>2
  <1>7. Reads(f, lines, n)
    <2>1. f = [k \in 0..n |-> f[k]]
      OBVIOUS
    <2>2. QED
      BY <1>6, <2>1 DEF Reads
  <1>8. QED
    BY <1>7

(* What mplayer printed of a film is what is known of it.                  *)
LEMMA FilmIsRead ==
  ASSUME CD!ContentDirectoryConstants, NEW run \in Runs, run.ended,
         NEW lines, lines = run.lines, NEW size
  PROVE  \E info, n :
           /\ n \in Nat /\ Numbered(lines, n) /\ InfoRight(info, lines, n)
           /\ CD!fillMediaInfo(run, size).fileSize = size
           /\ CD!fillMediaInfo(run, size).audioRate = info.audioRate
           /\ CD!fillMediaInfo(run, size).duration =
                IF ~info.ok \/ info.length = None THEN None ELSE CD!Duration(info.length)
  <1>1. PICK n \in Nat : n = Len(lines) /\ Numbered(lines, n)
    <2>1. lines \in Seq(CD!ToSet(lines))
      BY DEF CD!ContentDirectoryConstants
    <2>2. PICK n \in Nat : n = Len(lines) /\ DOMAIN lines = 1..n
      BY <2>1, LenProperties
    <2>3. \A k \in 1..n : lines[k] \in CD!ToSet(lines)
      BY <2>2 DEF CD!ToSet
    <2>4. \A k \in 1..n : lines[k].key \in CD!Audio => lines[k].value \in Nat \cup {Unreadable}
      BY <2>3 DEF CD!ContentDirectoryConstants
    <2>5. QED
      BY <2>2, <2>4 DEF Numbered
  <1>2. DOMAIN lines = 1..n
    BY <1>1 DEF Numbered
  <1>3. PICK f : Reads(f, lines, n) /\ f = CHOOSE g : Reads(g, lines, n)
    <2>1. \E g : Reads(g, lines, n)
      BY <1>1, ReadsUpTo
    <2>2. QED
      BY <2>1
  <1>4. PICK info : info = f[n]
    OBVIOUS
  <1>5. /\ CD!fillMediaInfo(run, size).fileSize = size
        /\ CD!fillMediaInfo(run, size).audioRate = info.audioRate
        /\ CD!fillMediaInfo(run, size).duration =
             IF ~info.ok \/ info.length = None THEN None ELSE CD!Duration(info.length)
    <2>1. info = CD!linesRead(lines)
      BY <1>1, <1>3, <1>4 DEF CD!linesRead, Reads
    <2>2. QED
      BY <2>1 DEF CD!fillMediaInfo
  <1> DEFINE T == {k \in 0..n : ~InfoRight(f[k], lines, k)}
  <1>6. T = {}
    <2>1. SUFFICES ASSUME T # {} PROVE FALSE
      OBVIOUS
    <2>2. PICK k \in T : \A j \in T : k <= j
      <3> HIDE DEF T
      <3>1. T \subseteq Nat
        BY DEF T
      <3>2. QED
        BY <2>1, <3>1, LeastOfSet
    <2>3. f[k] = IF k = 0 THEN CD!NoInfo ELSE CD!lineRead(f[k - 1], lines[k])
      <3>1. k \in 0..n
        OBVIOUS
      <3>2. QED
        BY <1>3, <3>1 DEF Reads
    <2>4. k # 0
      <3>1. k = 0 => InfoRight(f[k], lines, k)
        BY <2>3, NothingRead
      <3>2. QED
        BY <3>1
    <2>5. PICK m \in Nat : m = k - 1 /\ k = m + 1 /\ m \in 0..n /\ ~(k <= m)
      BY <2>4
    <2>6. PICK old, line, new : old = f[m] /\ line = lines[k] /\ new = f[k]
      OBVIOUS
    <2>7. new = CD!lineRead(old, line) /\ k <= n
      BY <2>3, <2>4, <2>5, <2>6
    <2>8. InfoRight(old, lines, m)
      BY <2>2, <2>5, <2>6
    <2>9. InfoRight(new, lines, k)
      BY <1>2, <2>5, <2>6, <2>7, <2>8, LineIsRead
    <2>10. QED
      BY <2>6, <2>9
  <1>7. InfoRight(info, lines, n)
    BY <1>1, <1>4, <1>6
  <1>8. QED
    BY <1>1, <1>5, <1>7

(* Going up from p, n times.                                               *)
Climbs(f, p, n) == f = [k \in 0..n |-> IF k = 0 THEN p ELSE CD!Outer(f[k - 1])]

LEMMA ClimbsUpTo ==
  ASSUME CD!ContentDirectoryConstants, NEW p \in Paths, NEW n \in Nat
  PROVE  \E f : Climbs(f, p, n)
  <1> DEFINE X == Paths \cup {None}
             step == [q \in X |-> CD!Outer(q)]
             h == [k \in Nat |-> step]
  <1>1. step \in [X -> X]
    BY DEF CD!ContentDirectoryConstants, CD!Outer
  <1>2. \A q \in X : step[q] = CD!Outer(q)
    OBVIOUS
  <1> HIDE DEF step
  <1>3. h \in [Nat -> [X -> X]] /\ \A k \in Nat : h[k] = step
    BY <1>1
  <1>4. p \in X
    OBVIOUS
  <1> HIDE DEF X, h
  <1>5. PICK f : Iterates(f, X, p, h, n)
    BY <1>3, <1>4, IterationUpTo
  <1>6. ASSUME NEW k \in 0..n PROVE f[k] = IF k = 0 THEN p ELSE CD!Outer(f[k - 1])
    <2>1. CASE k = 0
      BY <1>5, <2>1 DEF Iterates
    <2>2. CASE k # 0
      <3>1. k \in 1..n /\ k - 1 \in 0..n /\ k \in Nat
        BY <2>2
      <3>2. f[k - 1] \in X /\ f[k] = h[k][f[k - 1]]
        BY <1>5, <3>1 DEF Iterates
      <3>3. QED
        BY <1>2, <1>3, <2>2, <3>1, <3>2
    <2>3. QED
      BY <2>1, <2>2
  <1>7. f = [k \in 0..n |-> f[k]]
    BY <1>5 DEF Iterates
  <1>8. Climbs(f, p, n)
    BY <1>6, <1>7 DEF Climbs
  <1>9. QED
    BY <1>8

(* There is one way up.                                                    *)
LEMMA OneWayUp ==
  ASSUME NEW p, NEW n \in Nat, NEW f, Climbs(f, p, n), NEW g, Climbs(g, p, n)
  PROVE  f = g
  <1> DEFINE T == {k \in 0..n : f[k] # g[k]}
  <1>1. T = {}
    <2>1. SUFFICES ASSUME T # {} PROVE FALSE
      OBVIOUS
    <2>2. PICK k \in T : \A j \in T : k <= j
      <3> HIDE DEF T
      <3>1. T \subseteq Nat
        BY DEF T
      <3>2. QED
        BY <2>1, <3>1, LeastOfSet
    <2>3. /\ f[k] = IF k = 0 THEN p ELSE CD!Outer(f[k - 1])
          /\ g[k] = IF k = 0 THEN p ELSE CD!Outer(g[k - 1])
      <3>1. k \in 0..n
        OBVIOUS
      <3>2. QED
        BY <3>1 DEF Climbs
    <2>4. k # 0
      BY <2>3
    <2>5. k - 1 \in 0..n /\ ~(k <= k - 1)
      BY <2>4
    <2>6. f[k - 1] = g[k - 1]
      BY <2>2, <2>5
    <2>7. QED
      BY <2>3, <2>6
  <1>2. f = [k \in 0..n |-> f[k]] /\ g = [k \in 0..n |-> g[k]]
    BY DEF Climbs
  <1>3. \A k \in 0..n : f[k] = g[k]
    BY <1>1
  <1>4. QED
    BY <1>2, <1>3

LEMMA UpIsClimbed ==
  ASSUME NEW p, NEW n \in Nat, NEW f, Climbs(f, p, n)
  PROVE  CD!Up(p, n) = f[n]
  <1>1. PICK g : Climbs(g, p, n) /\ g = CHOOSE e : Climbs(e, p, n)
    OBVIOUS
  <1>2. CD!Up(p, n) = g[n]
    BY <1>1 DEF CD!Up, Climbs
  <1>3. f = g
    BY <1>1, OneWayUp
  <1>4. QED
    BY <1>2, <1>3

(* From what is in q one gets where one gets from q, in one step more.     *)
LEMMA UpFromInside ==
  ASSUME CD!ContentDirectoryConstants, NEW p \in Paths, NEW q \in Paths, Parent[p] = q,
         NEW n \in Nat
  PROVE  CD!Up(p, n + 1) = CD!Up(q, n)
  <1>1. PICK f : Climbs(f, q, n)
    BY ClimbsUpTo
  <1>2. PICK m \in Nat : m = n + 1
    OBVIOUS
  <1>3. PICK g : g = [k \in 0..m |-> IF k = 0 THEN p ELSE f[k - 1]]
    OBVIOUS
  <1>4. CD!Outer(p) = q
    BY DEF CD!Outer, CD!ContentDirectoryConstants
  <1>5. f[0] = q /\ \A k \in 1..n : f[k] = CD!Outer(f[k - 1])
    <2>1. 0 \in 0..n /\ \A k \in 1..n : k \in 0..n /\ k # 0
      OBVIOUS
    <2>2. QED
      BY <1>1, <2>1 DEF Climbs
  <1>6. ASSUME NEW k \in 0..m PROVE g[k] = IF k = 0 THEN p ELSE CD!Outer(g[k - 1])
    <2>1. CASE k = 0
      BY <1>3, <2>1
    <2>2. CASE k = 1
      <3>1. g[1] = f[0] /\ g[0] = p
        BY <1>2, <1>3
      <3>2. QED
        BY <1>4, <1>5, <2>2, <3>1
    <2>3. CASE k # 0 /\ k # 1
      <3>1. PICK j \in 1..n : j = k - 1
        BY <1>2, <2>3
      <3>2. j \in 0..m /\ j # 0 /\ k # 0
        BY <1>2, <2>3
      <3>3. g[k] = f[j] /\ g[j] = f[j - 1]
        BY <1>3, <3>1, <3>2
      <3>4. QED
        BY <1>5, <3>1, <3>2, <3>3
    <2>4. QED
      BY <2>1, <2>2, <2>3
  <1>7. Climbs(g, p, m)
    <2>1. g = [k \in 0..m |-> g[k]]
      BY <1>3
    <2>2. QED
      BY <1>6, <2>1 DEF Climbs
  <1>8. CD!Up(p, m) = g[m]
    BY <1>7, UpIsClimbed
  <1>9. CD!Up(q, n) = f[n]
    BY <1>1, UpIsClimbed
  <1>10. g[m] = f[n]
    BY <1>2, <1>3
  <1>11. QED
    BY <1>2, <1>8, <1>9, <1>10

LEMMA UpAtOnce ==
  ASSUME NEW p
  PROVE  CD!Up(p, 0) = p
  <1>1. PICK f : f = [k \in 0..0 |-> IF k = 0 THEN p ELSE CD!Outer(p)]
    OBVIOUS
  <1>2. Climbs(f, p, 0) /\ f[0] = p
    BY <1>1 DEF Climbs
  <1>3. QED
    BY <1>2, UpIsClimbed

LEMMA UpFromNothing ==
  ASSUME CD!ContentDirectoryConstants, NEW p \in Paths, Parent[p] = None, NEW n \in Nat
  PROVE  CD!Up(p, n + 1) = None
  <1>1. PICK m \in Nat : m = n + 1
    OBVIOUS
  <1>2. PICK f : f = [k \in 0..m |-> IF k = 0 THEN p ELSE None]
    OBVIOUS
  <1>3. CD!Outer(p) = None /\ CD!Outer(None) = None
    BY DEF CD!Outer, CD!ContentDirectoryConstants
  <1>4. ASSUME NEW k \in 0..m PROVE f[k] = IF k = 0 THEN p ELSE CD!Outer(f[k - 1])
    <2>1. CASE k = 0
      BY <1>2, <2>1
    <2>2. CASE k # 0
      <3>1. PICK j \in 0..m : j = k - 1
        BY <2>2
      <3>2. f[j] = p \/ f[j] = None
        BY <1>2
      <3>3. QED
        BY <1>2, <1>3, <2>2, <3>1, <3>2
    <2>3. QED
      BY <2>1, <2>2
  <1>5. Climbs(f, p, m)
    <2>1. f = [k \in 0..m |-> f[k]]
      BY <1>2
    <2>2. QED
      BY <1>4, <2>1 DEF Climbs
  <1>6. CD!Up(p, m) = f[m]
    BY <1>5, UpIsClimbed
  <1>7. f[m] = None
    BY <1>1, <1>2
  <1>8. QED
    BY <1>1, <1>6, <1>7

(* What is there is in something that is there, and directories are shared.*)
TreeInv ==
  /\ present \subseteq Paths
  /\ \A p \in present : Parent[p] # None => Parent[p] \in present
  /\ m_rootPaths \in Seq(Paths \cap Dirs)

LEMMA RootsAreDirs ==
  ASSUME TreeInv
  PROVE  CD!ToSet(m_rootPaths) \subseteq Paths \cap Dirs
  <1>1. PICK S : S = Paths \cap Dirs
    OBVIOUS
  <1>2. m_rootPaths \in Seq(S)
    BY <1>1 DEF TreeInv
  <1>3. \A i \in DOMAIN m_rootPaths : m_rootPaths[i] \in S
    BY <1>2, ElementOfSeq, LenProperties
  <1>4. QED
    BY <1>1, <1>3 DEF CD!ToSet

(* What one is told of when listing an id.                                 *)
Children(id) == {o.id : o \in CD!objectsOf(id, TRUE, CD!AnyRuns)}

LEMMA FilledWith ==
  ASSUME NEW container, NEW children, NEW runs
  PROVE  {o.id : o \in CD!fillContainer(container, children, runs)} =
           {q \in children : q \in present /\ CD!Interesting(q)}
  <1> DEFINE dirs == {q \in children : CD!isDir(q)}
             films == {q \in children : CD!isFile(q) /\ q \in Videos}
             objects == CD!fillContainer(container, children, runs)
  <1>1. objects = {CD!Container(p, container) : p \in dirs}
                    \cup {CD!VideoItem(p, container, runs) : p \in films}
    BY DEF CD!fillContainer
  <1>2. /\ \A p \in dirs : CD!Container(p, container).id = p
        /\ \A p \in films : CD!VideoItem(p, container, runs).id = p
    BY DEF CD!Container, CD!VideoItem, CD!DidlObject
  <1>3. \A q : q \in dirs \cup films <=>
          q \in children /\ q \in present /\ CD!Interesting(q)
    BY DEF CD!isDir, CD!isFile, CD!Interesting
  <1> HIDE DEF dirs, films, objects
  <1>4. {o.id : o \in objects} = dirs \cup films
    BY <1>1, <1>2
  <1>5. QED
    BY <1>3, <1>4 DEF objects

LEMMA ChildrenOfRoot ==
  ASSUME TreeInv
  PROVE  Children(Root) = {q \in CD!ToSet(m_rootPaths) : q \in present}
  <1>1. PICK C : C = CD!ToSet(m_rootPaths)
    OBVIOUS
  <1>2. CD!objectsOf(Root, TRUE, CD!AnyRuns) = CD!fillContainer(Root, C, CD!AnyRuns)
    BY <1>1 DEF CD!objectsOf, CD!childrenOf, CD!containerOf
  <1>3. Children(Root) = {q \in C : q \in present /\ CD!Interesting(q)}
    BY <1>2, FilledWith DEF Children
  <1>4. \A q \in C : CD!Interesting(q)
    BY <1>1, RootsAreDirs DEF CD!Interesting
  <1>5. QED
    BY <1>1, <1>3, <1>4

LEMMA ChildrenOfPath ==
  ASSUME CD!ContentDirectoryConstants, TreeInv, NEW id \in Paths
  PROVE  Children(id) =
           IF CD!isDir(id) THEN {q \in present : Parent[q] = id /\ CD!Interesting(q)} ELSE {}
  <1>1. id # Root
    BY DEF CD!ContentDirectoryConstants
  <1>2. CASE CD!isDir(id)
    <2>1. CD!objectsOf(id, TRUE, CD!AnyRuns) = CD!fillContainer(id, CD!entries(id), CD!AnyRuns)
      BY <1>1, <1>2 DEF CD!objectsOf, CD!childrenOf, CD!containerOf, CD!isDir
    <2>2. Children(id) = {q \in CD!entries(id) : q \in present /\ CD!Interesting(q)}
      BY <2>1, FilledWith DEF Children
    <2>3. QED
      BY <1>2, <2>2 DEF CD!entries
  <1>3. CASE ~CD!isDir(id)
    <2>1. CD!objectsOf(id, TRUE, CD!AnyRuns) = {}
      <3>1. CD!childrenOf(id, TRUE) = {}
        BY <1>1, <1>3 DEF CD!childrenOf, CD!isDir
      <3>2. QED
        BY <3>1 DEF CD!objectsOf, CD!fillContainer
    <2>2. QED
      BY <1>3, <2>1 DEF Children
  <1>4. QED
    BY <1>2, <1>3

(* What is to be seen and less than k steps below a shared directory.      *)
Near(k) ==
  {p \in present :
     CD!Interesting(p) /\ \E n \in Nat : n < k /\ CD!Up(p, n) \in CD!ToSet(m_rootPaths)}

LEMMA ListingFromNear ==
  ASSUME CD!ContentDirectoryConstants, TreeInv, NEW k \in Nat,
         NEW ids, ids = {Root} \cup Near(k)
  PROVE  CD!Listed(ids) = {Root} \cup Near(k + 1)
  <1>1. CD!Listed(ids) = ids \cup UNION {Children(id) : id \in ids}
    BY DEF CD!Listed, Children
  <1>2. Near(k) \subseteq present /\ Near(k + 1) \subseteq present /\ present \subseteq Paths
    BY DEF Near, TreeInv
  <1>3. Near(k) \subseteq Near(k + 1)
    BY DEF Near
  <1>4. ASSUME NEW id \in ids, NEW p \in Children(id) PROVE p \in Near(k + 1)
    <2>1. CASE id = Root
      <3>1. p \in CD!ToSet(m_rootPaths) /\ p \in present
        BY <1>4, <2>1, ChildrenOfRoot
      <3>2. CD!Interesting(p)
        BY <3>1, RootsAreDirs DEF CD!Interesting
      <3>3. CD!Up(p, 0) \in CD!ToSet(m_rootPaths) /\ 0 < k + 1
        BY <3>1, UpAtOnce
      <3>4. QED
        BY <3>1, <3>2, <3>3 DEF Near
    <2>2. CASE id # Root
      <3>1. id \in Near(k) /\ id \in Paths
        BY <1>2, <2>2
      <3>2. p \in present /\ Parent[p] = id /\ CD!Interesting(p)
        BY <1>4, <3>1, ChildrenOfPath
      <3>3. PICK n \in Nat : n < k /\ CD!Up(id, n) \in CD!ToSet(m_rootPaths)
        BY <3>1 DEF Near
      <3>4. CD!Up(p, n + 1) = CD!Up(id, n)
        <4>1. p \in Paths
          BY <1>2, <3>2
        <4>2. QED
          BY <3>1, <3>2, <4>1, UpFromInside
      <3>5. n + 1 \in Nat /\ n + 1 < k + 1
        BY <3>3
      <3>6. QED
        BY <3>2, <3>3, <3>4, <3>5 DEF Near
    <2>3. QED
      BY <2>1, <2>2
  <1>5. ASSUME NEW p \in Near(k + 1) PROVE \E id \in ids : p \in Children(id)
    <2>1. PICK n \in Nat : n < k + 1 /\ CD!Up(p, n) \in CD!ToSet(m_rootPaths)
      BY DEF Near
    <2>2. p \in present /\ p \in Paths /\ CD!Interesting(p)
      BY <1>2 DEF Near
    <2>3. CASE n = 0
      <3>1. p \in CD!ToSet(m_rootPaths)
        BY <2>1, <2>3, UpAtOnce
      <3>2. p \in Children(Root)
        BY <2>2, <3>1, ChildrenOfRoot
      <3>3. QED
        BY <3>2
    <2>4. CASE n # 0
      <3>1. PICK m \in Nat : n = m + 1 /\ m < k
        <4>1. n - 1 \in Nat /\ n = (n - 1) + 1 /\ n - 1 < k
          BY <2>1, <2>4
        <4>2. QED
          BY <4>1
      <3>2. CD!Up(p, m + 1) \in CD!ToSet(m_rootPaths)
        BY <2>1, <3>1
      <3>3. Parent[p] # None
        <4>1. SUFFICES ASSUME Parent[p] = None PROVE FALSE
          OBVIOUS
        <4>2. CD!Up(p, m + 1) = None
          BY <2>2, <4>1, UpFromNothing
        <4>3. None \in Paths
          BY <3>2, <4>2, RootsAreDirs
        <4>4. QED
          BY <4>3 DEF CD!ContentDirectoryConstants
      <3>4. PICK q : q = Parent[p] /\ q \in Paths /\ q \in Dirs /\ q \in present
        BY <2>2, <3>3 DEF CD!ContentDirectoryConstants, TreeInv
      <3>5. CD!Up(q, m) \in CD!ToSet(m_rootPaths)
        <4>1. CD!Up(p, m + 1) = CD!Up(q, m)
          BY <2>2, <3>4, UpFromInside
        <4>2. QED
          BY <3>2, <4>1
      <3>6. q \in Near(k)
        BY <3>1, <3>4, <3>5 DEF Near, CD!Interesting
      <3>7. p \in Children(q)
        <4>1. CD!isDir(q)
          BY <3>4 DEF CD!isDir
        <4>2. p \in {x \in present : Parent[x] = q /\ CD!Interesting(x)}
          BY <2>2, <3>4
        <4>3. QED
          BY <3>4, <4>1, <4>2, ChildrenOfPath
      <3>8. QED
        BY <3>6, <3>7
    <2>5. QED
      BY <2>3, <2>4
  <1>6. CD!Listed(ids) \subseteq {Root} \cup Near(k + 1)
    <2>1. ASSUME NEW p \in CD!Listed(ids) PROVE p \in {Root} \cup Near(k + 1)
      <3>1. CASE p \in ids
        BY <1>3, <3>1
      <3>2. CASE p \in UNION {Children(id) : id \in ids}
        <4>1. PICK id \in ids : p \in Children(id)
          BY Zenon, <3>2
        <4>2. QED
          BY <1>4, <4>1
      <3>3. QED
        BY Zenon, <1>1, <2>1, <3>1, <3>2
    <2>2. QED
      BY Zenon, <2>1
  <1>7. {Root} \cup Near(k + 1) \subseteq CD!Listed(ids)
    <2>1. Near(k + 1) \subseteq UNION {Children(id) : id \in ids}
      BY Zenon, <1>5
    <2>2. Root \in ids
      OBVIOUS
    <2>3. QED
      BY Zenon, <1>1, <2>1, <2>2
  <1>8. QED
    BY Zenon, <1>6, <1>7

(* What is reached in n listings.                                          *)
Reaches(f, n) == f = [k \in 0..n |-> IF k = 0 THEN {Root} ELSE CD!Listed(f[k - 1])]

LEMMA ReachesUpTo ==
  ASSUME CD!ContentDirectoryConstants, TreeInv, NEW n \in Nat
  PROVE  \E f : Reaches(f, n)
  <1> DEFINE g == [k \in 0..n |-> {Root} \cup Near(k)]
  <1>1. \A k \in 0..n : g[k] = {Root} \cup Near(k)
    OBVIOUS
  <1>2. Near(0) = {}
    BY DEF Near
  <1>3. ASSUME NEW k \in 0..n
        PROVE  g[k] = IF k = 0 THEN {Root} ELSE CD!Listed(g[k - 1])
    <2> HIDE DEF g
    <2>1. CASE k = 0
      BY <1>1, <1>2, <2>1
    <2>2. CASE k # 0
      <3>1. PICK j \in Nat : k = j + 1 /\ j = k - 1 /\ j \in 0..n
        BY <2>2
      <3>2. PICK ids : ids = g[j]
        OBVIOUS
      <3>3. ids = {Root} \cup Near(j)
        BY <1>1, <3>1, <3>2
      <3>4. CD!Listed(ids) = {Root} \cup Near(j + 1)
        BY <3>3, ListingFromNear
      <3>5. QED
        BY <1>1, <2>2, <3>1, <3>2, <3>4
    <2>3. QED
      BY <2>1, <2>2
  <1>4. Reaches(g, n)
    <2>1. g = [k \in 0..n |-> g[k]]
      OBVIOUS
    <2> HIDE DEF g
    <2>2. QED
      BY <1>3, <2>1 DEF Reaches
  <1>5. QED
    BY <1>4

LEMMA ReachedIsNear ==
  ASSUME CD!ContentDirectoryConstants, TreeInv, NEW n \in Nat, NEW f, Reaches(f, n)
  PROVE  f[n] = {Root} \cup Near(n)
  <1> DEFINE T == {k \in 0..n : f[k] # {Root} \cup Near(k)}
  <1>1. T = {}
    <2>1. SUFFICES ASSUME T # {} PROVE FALSE
      OBVIOUS
    <2>2. PICK k \in T : \A j \in T : k <= j
      <3> HIDE DEF T
      <3>1. T \subseteq Nat
        BY DEF T
      <3>2. QED
        BY <2>1, <3>1, LeastOfSet
    <2>3. f[k] = IF k = 0 THEN {Root} ELSE CD!Listed(f[k - 1])
      <3>1. k \in 0..n
        OBVIOUS
      <3>2. QED
        BY <3>1 DEF Reaches
    <2>4. k # 0
      <3>1. Near(0) = {}
        BY DEF Near
      <3>2. k = 0 => f[k] = {Root} \cup Near(k)
        BY <2>3, <3>1
      <3>3. QED
        BY <3>2
    <2>5. PICK j \in Nat : k = j + 1 /\ j = k - 1 /\ j \in 0..n /\ ~(k <= j)
      BY <2>4
    <2>6. PICK ids : ids = f[j]
      OBVIOUS
    <2>7. ids = {Root} \cup Near(j)
      BY <2>2, <2>5, <2>6
    <2>8. CD!Listed(ids) = {Root} \cup Near(j + 1)
      BY <2>7, ListingFromNear
    <2>9. f[k] = {Root} \cup Near(k)
      BY <2>3, <2>4, <2>5, <2>6, <2>8
    <2>10. QED
      BY <2>9
  <1>2. n \in 0..n
    OBVIOUS
  <1> HIDE DEF T
  <1>3. n \notin T
    BY <1>1
  <1>4. QED
    BY <1>2, <1>3 DEF T

(* What FiniteSets says is the same inside the instance.                   *)
LEMMA CountedAlike ==
  ASSUME NEW S
  PROVE  CD!IsFiniteSet(S) = IsFiniteSet(S) /\ CD!Cardinality(S) = Cardinality(S)
  <1>1. CD!IsFiniteSet(S) = IsFiniteSet(S)
    BY Zenon DEF CD!IsFiniteSet, IsFiniteSet
  <1>2. CD!Cardinality(S) = Cardinality(S)
    BY DEF CD!Cardinality, Cardinality
  <1>3. QED
    BY <1>1, <1>2, Zenon

(* One comes to what is there and to be seen under the shared directories. *)
LEMMA ReachedIsShared ==
  ASSUME CD!ContentDirectoryConstants, TreeInv
  PROVE  CD!Reached = {Root} \cup {p \in present : CD!Interesting(p) /\ CD!IsShared(p)}
  <1>1. PICK n \in Nat : n = CD!Cardinality(Paths)
    <2>1. CD!IsFiniteSet(Paths) = IsFiniteSet(Paths)
          /\ CD!Cardinality(Paths) = Cardinality(Paths)
      BY CountedAlike
    <2>2. IsFiniteSet(Paths)
      BY <2>1 DEF CD!ContentDirectoryConstants
    <2>3. Cardinality(Paths) \in Nat
      BY <2>2, FS_CardinalityType
    <2>4. QED
      BY <2>1, <2>3
  <1>2. PICK m \in Nat : m = n + 1
    OBVIOUS
  <1>3. PICK f : Reaches(f, m) /\ f = CHOOSE g : Reaches(g, m)
    <2>1. \E g : Reaches(g, m)
      BY ReachesUpTo
    <2>2. QED
      BY <2>1
  <1>4. CD!Reached = f[m]
    BY <1>1, <1>2, <1>3 DEF CD!Reached, Reaches
  <1>5. f[m] = {Root} \cup Near(m)
    BY <1>3, ReachedIsNear
  <1>6. Near(m) = {p \in present : CD!Interesting(p) /\ CD!IsShared(p)}
    <2>1. \A i : i \in Nat /\ i < m <=> i \in 0..n
      BY <1>2
    <2>2. \A p : CD!IsShared(p) <=>
                   \E i \in Nat : i < m /\ CD!Up(p, i) \in CD!ToSet(m_rootPaths)
      BY <1>1, <2>1 DEF CD!IsShared
    <2>3. QED
      BY <2>2 DEF Near
  <1>7. QED
    BY <1>4, <1>5, <1>6

FilmOf(p, runs) == CD!Resource(p, CD!fillMediaInfo(runs[p], Size[p]))

LEMMA ObjectFilled ==
  ASSUME NEW container, NEW children, NEW runs,
         NEW o \in CD!fillContainer(container, children, runs)
  PROVE  /\ o.parentID = container /\ o.id \in children
         /\ o.class = "videoItem" => o.id \in Videos /\ o.res = FilmOf(o.id, runs)
  <1>1. \/ \E p \in children : o = CD!Container(p, container)
        \/ \E p \in children \cap Videos : o = CD!VideoItem(p, container, runs)
    BY DEF CD!fillContainer
  <1>2. CASE \E p \in children : o = CD!Container(p, container)
    <2>1. PICK p \in children : o = CD!Container(p, container)
      BY <1>2
    <2>2. o.parentID = container /\ o.id = p /\ o.class = "container"
      BY <2>1 DEF CD!Container, CD!DidlObject
    <2>3. QED
      BY <2>2
  <1>3. CASE \E p \in children \cap Videos : o = CD!VideoItem(p, container, runs)
    <2>1. PICK p \in children \cap Videos : o = CD!VideoItem(p, container, runs)
      BY <1>3
    <2>2. o.parentID = container /\ o.id = p /\ o.res = FilmOf(p, runs)
      BY <2>1 DEF CD!VideoItem, CD!DidlObject, FilmOf
    <2>3. QED
      BY <2>2
  <1>4. QED
    BY <1>1, <1>2, <1>3

(* Hours, minutes and seconds.                                             *)
IsTime(s, h, m, r) == s = 3600 * h + 60 * m + r /\ m < 60 /\ r < 60
LEMMA TimeDivided ==
  ASSUME NEW s \in Nat, NEW h, h = s \div 3600, NEW m, m = (s \div 60) % 60,
         NEW r, r = s % 60
  PROVE  IsTime(s, h, m, r)
  <1>1. PICK q \in Nat, c \in 0..59 : q = s \div 60 /\ c = s % 60 /\ s = 60 * q + c
    OBVIOUS
  <1>2. PICK a \in Nat, b \in 0..59 : a = q \div 60 /\ b = q % 60 /\ q = 60 * a + b
    OBVIOUS
  <1>3. s = 3600 * a + 60 * b + c
    BY <1>1, <1>2
  <1>4. s \div 3600 = a
    BY <1>3
  <1>5. h = a /\ m = b /\ r = c
    BY <1>1, <1>2, <1>4
  <1>6. QED
    BY <1>3, <1>5 DEF IsTime

(* An int stays as it is.                                                  *)
LEMMA IntKept ==
  ASSUME IntMax \in Nat, NEW n \in Nat, n <= IntMax
  PROVE  CD!asInt(n) = n
  <1>1. PICK d \in Nat : d = 2 * IntMax + 2
    OBVIOUS
  <1>2. n < d /\ d > 0
    BY <1>1
  <1>3. n % d = n
    BY <1>2
  <1>4. QED
    BY <1>1, <1>3 DEF CD!asInt

(* The element of a film says what mplayer has printed of it.              *)
LEMMA FilmTold ==
  ASSUME CD!ContentDirectoryConstants, NEW run \in Runs, NEW p, NEW size \in Nat,
         NEW res, res = CD!Resource(p, CD!fillMediaInfo(run, size))
  PROVE  CD!FilmRight(res, run, size)
  <1>1. PICK known : known = CD!fillMediaInfo(run, size)
    OBVIOUS
  <1>2. PICK told : told = [known EXCEPT !.fileSize = CD!asInt(@)]
    OBVIOUS
  <1>3. DOMAIN known =
          {"fileSize", "resolution", "duration", "audioBitrate", "audioRate", "audioChannels"}
    BY <1>1 DEF CD!fillMediaInfo
  <1>4. /\ told.fileSize = CD!asInt(known.fileSize) /\ told.audioRate = known.audioRate
        /\ told.duration = known.duration /\ told.resolution = known.resolution
    BY <1>2, <1>3
  <1>5. res = [x \in {"url"} \cup {y \in {"resolution", "duration"} : told[y] # None}
                       \cup {y \in CD!Audio \cup {"fileSize"} : told[y] >= 0} |->
                 IF x = "url" THEN << "get", p >> ELSE told[x]]
    BY <1>1, <1>2 DEF CD!Resource
  <1>6. /\ "audioRate" \in DOMAIN res <=> told.audioRate >= 0
        /\ "audioRate" \in DOMAIN res => res.audioRate = told.audioRate
        /\ "fileSize" \in DOMAIN res <=> told.fileSize >= 0
        /\ "fileSize" \in DOMAIN res => res.fileSize = told.fileSize
        /\ "duration" \in DOMAIN res <=> told.duration # None
        /\ "duration" \in DOMAIN res => res.duration = told.duration
        /\ "resolution" \in DOMAIN res <=> told.resolution # None
    BY <1>5 DEF CD!Audio
  <1>7. CASE ~run.ended
    <2>1. known.duration = None /\ known.resolution = None
      BY <1>1, <1>7 DEF CD!fillMediaInfo
    <2>2. QED
      BY <1>4, <1>6, <1>7, <2>1 DEF CD!FilmRight
  <1>8. CASE run.ended
    <2>1. PICK lines : lines = run.lines
      OBVIOUS
    <2>2. PICK info, n :
            /\ n \in Nat /\ Numbered(lines, n) /\ InfoRight(info, lines, n)
            /\ known.fileSize = size /\ known.audioRate = info.audioRate
            /\ known.duration =
                 IF ~info.ok \/ info.length = None THEN None ELSE CD!Duration(info.length)
      BY <1>1, <1>8, <2>1, FilmIsRead
    <2>3. CD!SizeRight(res, size)
      <3>1. SUFFICES ASSUME size <= IntMax PROVE "fileSize" \in DOMAIN res /\ res.fileSize = size
        BY DEF CD!SizeRight
      <3>2. CD!asInt(size) = size
        BY <3>1, IntKept DEF CD!ContentDirectoryConstants
      <3>3. told.fileSize = size
        BY <1>4, <2>2, <3>2
      <3>4. QED
        BY <1>6, <3>3
    <2>4. CD!SoundRight(res, lines)
      <3>1. RateRight(told.audioRate, lines, n) /\ DOMAIN lines = 1..n
        BY <1>4, <2>2 DEF InfoRight, Numbered
      <3>2. CASE \E i \in 1..n : CD!TellsRate(lines, i)
        <4>1. PICK i \in 1..n : /\ CD!TellsRate(lines, i)
                                /\ told.audioRate = CD!toInt(lines[i].value)
                                /\ \A k \in 1..n : i < k => ~CD!TellsRate(lines, k)
          BY <3>1, <3>2 DEF RateRight
        <4>2. lines[i].value \in Nat \cup {Unreadable}
          BY <2>2, <4>1 DEF Numbered, CD!TellsRate, CD!Audio
        <4>3. told.audioRate \in Nat
          BY <4>1, <4>2 DEF CD!toInt
        <4>4. "audioRate" \in DOMAIN res /\ res.audioRate = told.audioRate
          BY <1>6, <4>3
        <4>5. QED
          BY <3>1, <4>1, <4>4 DEF CD!SoundRight, CD!IsRate
      <3>3. CASE ~ \E i \in 1..n : CD!TellsRate(lines, i)
        <4>1. told.audioRate = -1
          BY <3>1, <3>3 DEF RateRight
        <4>2. "audioRate" \notin DOMAIN res
          BY <1>6, <4>1
        <4>3. QED
          BY <3>1, <3>3, <4>2 DEF CD!SoundRight
      <3>4. QED
        BY <3>2, <3>3
    <2>5. CD!LengthRight(res, lines)
      <3>1. SUFFICES ASSUME "duration" \in DOMAIN res
                     PROVE  \E i \in DOMAIN lines :
                              /\ lines[i].key = "length"
                              /\ CD!IsLength(res.duration, lines[i].value)
        BY DEF CD!LengthRight
      <3>2. PICK lens : lens = info.length
        OBVIOUS
      <3>3. /\ res.duration = CD!Duration(lens) /\ CD!Duration(lens) # None /\ lens # None
        BY <1>4, <1>6, <2>2, <3>1, <3>2
      <3>4. PICK i \in 1..n : lines[i].key = "length" /\ lines[i].value = lens
        BY <2>2, <3>2, <3>3 DEF InfoRight
      <3>5. DOMAIN lines = 1..n
        BY <2>2 DEF Numbered
      <3>6. lens \in Seq(Nat \cup {Unreadable}) /\ Len(lens) > 0
        <4>1. lines[i] \in CD!ToSet(lines)
          BY <3>5 DEF CD!ToSet
        <4>2. QED
          BY <2>1, <3>4, <4>1 DEF CD!ContentDirectoryConstants
      <3>7. PICK s \in Nat : s = CD!toInt(lens[1])
        <4>1. lens[1] \in Nat \cup {Unreadable}
          BY <3>6
        <4>2. QED
          BY <4>1 DEF CD!toInt
      <3>8. PICK h, m, r, f : /\ h = s \div 3600 /\ m = (s \div 60) % 60 /\ r = s % 60
                              /\ f = CD!Fraction(lens)
        OBVIOUS
      <3>9. res.duration = << h, m, r, f >>
        BY <3>3, <3>7, <3>8 DEF CD!Duration
      <3>10. /\ res.duration[1] = h /\ res.duration[2] = m /\ res.duration[3] = r
             /\ res.duration[4] = f
        BY <3>9
      <3>11. s = 3600 * h + 60 * m + r /\ m < 60 /\ r < 60
        <4>1. IsTime(s, h, m, r)
          BY <3>8, TimeDivided
        <4>2. QED
          BY <4>1 DEF IsTime
      <3>12. CD!IsLength(res.duration, lens)
        BY <3>7, <3>8, <3>10, <3>11 DEF CD!IsLength
      <3>13. QED
        BY <3>4, <3>5, <3>12
    <2>6. QED
      BY <1>8, <2>1, <2>3, <2>4, <2>5 DEF CD!FilmRight
  <1>9. QED
    BY <1>7, <1>8

(* Of one child one object is made.                                        *)
LEMMA FewFilled ==
  ASSUME NEW container, NEW c, NEW children, children \subseteq {c}, NEW runs
  PROVE  \E x : CD!fillContainer(container, children, runs) \subseteq {x}
  <1>1. PICK dir, film : dir = CD!Container(c, container)
                           /\ film = CD!VideoItem(c, container, runs)
    OBVIOUS
  <1>2. PICK objects : objects = CD!fillContainer(container, children, runs)
    OBVIOUS
  <1>3. \A o \in objects : \/ CD!isDir(c) /\ o = dir
                           \/ CD!isFile(c) /\ o = film
    BY <1>1, <1>2 DEF CD!fillContainer
  <1>4. ~CD!isDir(c) \/ ~CD!isFile(c)
    BY DEF CD!isDir, CD!isFile
  <1>5. objects \subseteq {dir} \/ objects \subseteq {film}
    BY <1>3, <1>4
  <1>6. QED
    BY <1>2, <1>5

LEMMA OneAtMost ==
  ASSUME NEW T, NEW x, T \subseteq {x}
  PROVE  CD!Cardinality(T) <= 1
  <1>1. T = {} \/ T = {x}
    OBVIOUS
  <1>2. Cardinality(T) <= 1
    <2>1. T = {} => Cardinality(T) = 0
      BY FS_EmptySet
    <2>2. T = {x} => Cardinality(T) = 1
      BY FS_Singleton
    <2>3. QED
      BY <1>1, <2>1, <2>2
  <1>3. QED
    BY <1>2, CountedAlike

(* Each object that is told of an id is right.                             *)
LEMMA ObjectsRight ==
  ASSUME CD!ContentDirectoryConstants, NEW id \in Paths \cup {Root}, NEW flag \in BOOLEAN,
         NEW runs \in [CD!childrenOf(id, flag) \cap Videos -> Runs],
         NEW o \in CD!objectsOf(id, flag, runs)
  PROVE  /\ flag => o.parentID = id
         /\ ~flag /\ id # Root => o.id = id /\ o.parentID = Parent[id]
         /\ o.class = "videoItem" => CD!FilmRight(o.res, runs[o.id], Size[o.id])
  <1>1. PICK c, C : c = CD!containerOf(id, flag) /\ C = CD!childrenOf(id, flag)
    OBVIOUS
  <1>2. o \in CD!fillContainer(c, C, runs)
    BY <1>1 DEF CD!objectsOf
  <1>3. /\ o.parentID = c /\ o.id \in C
        /\ o.class = "videoItem" => o.id \in Videos /\ o.res = FilmOf(o.id, runs)
    BY <1>2, ObjectFilled
  <1>4. flag => c = id
    BY <1>1 DEF CD!containerOf
  <1>5. ~flag /\ id # Root => c = Parent[id] /\ o.id = id
    <2>1. ~flag /\ id # Root => C \subseteq {id}
      BY <1>1 DEF CD!childrenOf
    <2>2. QED
      BY <1>1, <1>3, <2>1 DEF CD!containerOf
  <1>6. o.class = "videoItem" => CD!FilmRight(o.res, runs[o.id], Size[o.id])
    <2>1. SUFFICES ASSUME o.class = "videoItem"
                   PROVE  CD!FilmRight(o.res, runs[o.id], Size[o.id])
      OBVIOUS
    <2>2. PICK p : p = o.id
      OBVIOUS
    <2>3. PICK run \in Runs : run = runs[p]
      BY <1>1, <1>3, <2>1, <2>2
    <2>4. PICK size \in Nat : size = Size[p]
      BY <1>3, <2>1, <2>2 DEF CD!ContentDirectoryConstants
    <2>5. PICK res : res = o.res
      OBVIOUS
    <2>6. res = CD!Resource(p, CD!fillMediaInfo(run, size))
      BY <1>3, <2>1, <2>2, <2>3, <2>4, <2>5 DEF FilmOf
    <2>7. CD!FilmRight(res, run, size)
      BY <2>6, FilmTold
    <2>8. QED
      BY <2>2, <2>3, <2>4, <2>5, <2>7
  <1>7. QED
    BY <1>3, <1>4, <1>5, <1>6

(* Asked for itself, an id is told as one object at most.                  *)
LEMMA FewObjects ==
  ASSUME CD!ContentDirectoryConstants, TreeInv, NEW id \in Paths \cup {Root}, NEW runs,
         id = Root => ~(Len(m_rootPaths) > 1)
  PROVE  CD!Cardinality(CD!objectsOf(id, FALSE, runs)) <= 1
  <1>1. PICK objects : objects = CD!objectsOf(id, FALSE, runs)
    OBVIOUS
  <1>2. \E x : objects \subseteq {x}
    <2>1. CASE id = Root
      <3>1. PICK n \in Nat : n = Len(m_rootPaths) /\ DOMAIN m_rootPaths = 1..n
        <4>1. PICK S : S = Paths \cap Dirs
          OBVIOUS
        <4>2. m_rootPaths \in Seq(S)
          BY <4>1 DEF TreeInv
        <4>3. QED
          BY <4>2, LenProperties
      <3>2. PICK c : c = m_rootPaths[1]
        OBVIOUS
      <3>3. PICK C : C = CD!ToSet(m_rootPaths)
        OBVIOUS
      <3>4. C \subseteq {c}
        <4>1. \A i \in 1..n : i = 1
          BY <2>1, <3>1
        <4>2. QED
          BY <3>1, <3>2, <3>3, <4>1 DEF CD!ToSet
      <3>5. objects = CD!fillContainer(Root, C, runs)
        BY <1>1, <2>1, <3>3 DEF CD!objectsOf, CD!childrenOf, CD!containerOf
      <3>6. QED
        BY <3>4, <3>5, FewFilled
    <2>2. CASE id # Root /\ id \notin present
      <3>1. CD!childrenOf(id, FALSE) = {}
        BY <2>2 DEF CD!childrenOf
      <3>2. QED
        BY <1>1, <3>1 DEF CD!objectsOf, CD!fillContainer
    <2>3. CASE id # Root /\ id \in present
      <3>1. PICK c, C : c = Parent[id] /\ C = {id}
        OBVIOUS
      <3>2. objects = CD!fillContainer(c, C, runs)
        BY <1>1, <2>3, <3>1 DEF CD!objectsOf, CD!childrenOf, CD!containerOf
      <3>3. C \subseteq {id}
        BY <3>1
      <3>4. QED
        BY <3>2, <3>3, FewFilled
    <2>4. QED
      BY <2>1, <2>2, <2>3
  <1>3. PICK x : objects \subseteq {x}
    BY <1>2
  <1>4. QED
    BY <1>1, <1>3, OneAtMost

CDInv == TreeInv /\ CD!ReplyRight

LEMMA BrowseStep ==
  ASSUME CD!ContentDirectoryConstants, CDInv, NEW id \in Paths \cup {Root},
         NEW flag \in BOOLEAN,
         NEW runs \in [CD!childrenOf(id, flag) \cap Videos -> Runs], CD!browse(id, flag, runs)
  PROVE  CDInv'
  <1>1. PICK objects : objects = CD!objectsOf(id, flag, runs)
    OBVIOUS
  <1>2. PICK r : r = [asked |-> id, browseChildren |-> flag, runs |-> runs,
                      objects |-> objects, numberReturned |-> CD!Cardinality(objects)]
    OBVIOUS
  <1>3. reply' = r /\ UNCHANGED << present, changes, m_rootPaths >>
    BY <1>1, <1>2 DEF CD!browse
  <1>4. /\ r.asked = id /\ r.browseChildren = flag /\ r.runs = runs
        /\ r.objects = objects /\ r.numberReturned = CD!Cardinality(objects)
    BY <1>2
  <1>5. r.numberReturned <= 1 \/ flag \/ (id = Root /\ Len(m_rootPaths) > 1)
    <2>1. SUFFICES ASSUME ~flag, id = Root => ~(Len(m_rootPaths) > 1)
                   PROVE  CD!Cardinality(objects) <= 1
      BY <1>4
    <2>2. objects = CD!objectsOf(id, FALSE, runs)
      BY <1>1, <2>1
    <2>3. QED
      BY <2>1, <2>2, FewObjects DEF CDInv
  <1>6. ASSUME NEW o \in objects
        PROVE  /\ IF flag THEN o.parentID = id
                  ELSE id # Root => o.id = id /\ o.parentID = Parent[o.id]
               /\ o.class = "videoItem" => CD!FilmRight(o.res, runs[o.id], Size[o.id])
    <2>1. o \in CD!objectsOf(id, flag, runs)
      BY <1>1
    <2>2. /\ flag => o.parentID = id
          /\ ~flag /\ id # Root => o.id = id /\ o.parentID = Parent[id]
          /\ o.class = "videoItem" => CD!FilmRight(o.res, runs[o.id], Size[o.id])
      BY <2>1, ObjectsRight
    <2>3. QED
      BY <2>2
  <1>7. CD!ReplyRight'
    BY <1>3, <1>4, <1>5, <1>6 DEF CD!ReplyRight
  <1>8. QED
    BY <1>3, <1>7 DEF CDInv, TreeInv

LEMMA SearchStep ==
  ASSUME CDInv, NEW id, CD!search(id)
  PROVE  CDInv'
  <1>1. PICK r : r = [asked |-> id, browseChildren |-> TRUE, runs |-> << >>,
                      objects |-> {}, numberReturned |-> 0]
    OBVIOUS
  <1>2. reply' = r /\ UNCHANGED << present, changes, m_rootPaths >>
    BY <1>1 DEF CD!search
  <1>3. r.browseChildren = TRUE /\ r.objects = {}
    BY <1>1
  <1>4. CD!ReplyRight'
    BY <1>2, <1>3 DEF CD!ReplyRight
  <1>5. QED
    BY <1>2, <1>4 DEF CDInv, TreeInv

LEMMA AddPathStep ==
  ASSUME CD!ContentDirectoryConstants, CDInv, NEW path \in Shared, CD!addPath(path)
  PROVE  CDInv'
  <1>1. /\ reply = CD!NoReply /\ UNCHANGED << present, changes, reply >>
        /\ m_rootPaths' = Append(m_rootPaths, path)
    BY DEF CD!addPath
  <1>2. PICK S : S = Paths \cap Dirs
    OBVIOUS
  <1>3. path \in S /\ m_rootPaths \in Seq(S)
    BY <1>2 DEF CD!addPath, CD!isDir, CD!ContentDirectoryConstants, CDInv, TreeInv
  <1>4. m_rootPaths' \in Seq(S)
    BY <1>1, <1>3, AppendProperties
  <1>5. TreeInv'
    BY <1>1, <1>2, <1>4 DEF CDInv, TreeInv
  <1>6. CD!ReplyRight'
    BY <1>1 DEF CD!ReplyRight, CD!NoReply
  <1>7. QED
    BY <1>5, <1>6 DEF CDInv

LEMMA ComeOrGoStep ==
  ASSUME CD!ContentDirectoryConstants, CDInv, NEW p \in Paths, CD!Come(p) \/ CD!Go(p)
  PROVE  CDInv'
  <1>1. UNCHANGED << m_rootPaths, reply >>
    BY DEF CD!Come, CD!Go
  <1>2. present' \subseteq Paths
    BY DEF CD!Come, CD!Go, CDInv, TreeInv
  <1>3. ASSUME NEW q \in present', Parent[q] # None PROVE Parent[q] \in present'
    <2>1. CASE CD!Come(p)
      <3>1. present' = present \cup {p} /\ Parent[p] \in present \cup {None}
        BY <2>1 DEF CD!Come
      <3>2. QED
        BY <1>3, <3>1 DEF CDInv, TreeInv
    <2>2. CASE CD!Go(p)
      <3>1. present' = present \ {p} /\ CD!entries(p) = {}
        BY <2>2 DEF CD!Go
      <3>2. Parent[q] \in present /\ Parent[q] # p
        BY <1>3, <3>1 DEF CDInv, TreeInv, CD!entries
      <3>3. QED
        BY <3>1, <3>2
    <2>3. QED
      BY <2>1, <2>2
  <1>4. TreeInv'
    BY <1>1, <1>2, <1>3 DEF CDInv, TreeInv
  <1>5. CD!ReplyRight'
    BY <1>1 DEF CDInv, CD!ReplyRight
  <1>6. QED
    BY <1>4, <1>5 DEF CDInv

(* What a television sees is right, whatever tree of files there is,       *)
(* whichever of its directories are shared and whatever mplayer does:      *)
(* listing from the root it comes to the directories and films under the   *)
(* shared paths and to nothing else, objects name the parent they were     *)
(* asked for, and one id is one object; the length and sound of a film are *)
(* what was printed of it as far as it was read, and its size its own where*)
(* it is an int, if mplayer ended; if it did not, no length is told        *)
(* (addPath, browse, fillContainer, fillMediaInfo, Resource).              *)
THEOREM RepliesAreRight ==
  ASSUME CD!ContentDirectoryConstants
  PROVE  CD!Spec => []CD!BrowseRight
  <1>1. CD!Init => CDInv
    <2>1. SUFFICES ASSUME CD!Init PROVE CDInv
      OBVIOUS
    <2>2. m_rootPaths \in Seq(Paths \cap Dirs)
      BY <2>1, EmptySeq DEF CD!Init
    <2>3. TreeInv
      BY <2>1, <2>2 DEF CD!Init, TreeInv, CD!ContentDirectoryConstants
    <2>4. CD!ReplyRight
      BY <2>1 DEF CD!Init, CD!ReplyRight
    <2>5. QED
      BY <2>3, <2>4 DEF CDInv
  <1>2. CDInv /\ [CD!Next]_(CD!vars) => CDInv'
    <2>1. SUFFICES ASSUME CDInv, [CD!Next]_(CD!vars) PROVE CDInv'
      OBVIOUS
    <2>2. CASE \E p \in Shared : CD!addPath(p)
      BY <2>1, <2>2, AddPathStep
    <2>3. CASE \E id \in Paths \cup {Root}, flag \in BOOLEAN :
                 \E runs \in [CD!childrenOf(id, flag) \cap Videos -> Runs] :
                   CD!browse(id, flag, runs)
      BY <2>1, <2>3, BrowseStep
    <2>4. CASE \E id \in Paths \cup {Root} : CD!search(id)
      BY <2>1, <2>4, SearchStep
    <2>5. CASE \E p \in Paths : CD!Come(p) \/ CD!Go(p)
      BY <2>1, <2>5, ComeOrGoStep
    <2>6. CASE UNCHANGED CD!vars
      BY <2>1, <2>6 DEF CD!vars, CDInv, TreeInv, CD!ReplyRight
    <2>7. QED
      BY <2>1, <2>2, <2>3, <2>4, <2>5, <2>6 DEF CD!Next
  <1>3. CDInv => CD!BrowseRight
    <2>1. SUFFICES ASSUME CDInv PROVE CD!BrowseRight
      OBVIOUS
    <2>2. CD!ListedRight
      BY <2>1, ReachedIsShared DEF CDInv, CD!ListedRight
    <2>3. QED
      BY <2>1, <2>2 DEF CDInv, CD!BrowseRight
  <1>4. QED
    BY <1>1, <1>2, <1>3, PTL DEF CD!Spec
-----------------------------------------------------------------------------
(* The parts together (Data).                                              *)

(* Every behaviour is one of each part, which moves or stands still.       *)
LEMMA DataParts == DataSpec => CD!Spec /\ CF!Spec /\ MP!Spec
  <1>1. DataInit => CD!Init /\ CF!Init /\ MP!Init
    BY DEF DataInit
  <1>2. [DataNext]_data_vars => [CD!Next]_(CD!vars)
    BY DEF DataNext, DirectoryNext, LibraryNext, ConfigurationNext,
           ProgramNext, data_vars, cd_vars, CD!vars
  <1>3. [DataNext]_data_vars => [CF!Next]_(CF!vars)
    BY DEF DataNext, DirectoryNext, LibraryNext, ConfigurationNext,
           ProgramNext, data_vars, cf_vars, CF!vars, CF!history_vars
  <1>4. [DataNext]_data_vars => [MP!Next]_(MP!vars)
    BY DEF DataNext, DirectoryNext, LibraryNext, ConfigurationNext,
           ProgramNext, data_vars, mp_vars, MP!vars, MP!server_vars,
           MP!signal_vars
  <1>5. QED
    BY <1>1, <1>2, <1>3, <1>4, PTL DEF DataSpec, CD!Spec, CF!Spec, MP!Spec

(* For any tree of files, shared directories and runs of mplayer, ended or *)
(* not, a television comes to the directories and films under the shared   *)
(* paths and to nothing else, and of a film it is told what mplayer printed*)
(* as far as it was read (BrowseRight).                                    *)
THEOREM TelevisionSeesWhatIsShared == DataSpec => []BrowseRight
  <1>1. CD!Spec => []CD!BrowseRight
    BY DirectoryAssumption, RepliesAreRight
  <1>2. CD!BrowseRight => BrowseRight
    BY DEF BrowseRight
  <1>3. QED
    BY <1>1, <1>2, DataParts, PTL

(* For any processes, sections and parameters, a file of which each writer *)
(* knew what was in it and had it for itself holds what was set last, and  *)
(* items answers just that (ConfigKept).                                   *)
THEOREM ParametersAreKept == DataSpec => []ConfigKept
  <1>1. CF!Spec => []CF!ConfigKept
    BY ConfigurationAssumption, FileKeepsParameters
  <1>2. CF!ConfigKept => ConfigKept
    BY DEF ConfigKept
  <1>3. QED
    BY <1>1, <1>2, DataParts, PTL

(* For any ports and any pipe that takes a byte, a caught signal leaves a  *)
(* byte for the loop, which ends for nothing else but a child in a handler *)
(* of its parent; and a device is announced with a server behind it unless *)
(* its port was taken before (EndsWell).                                   *)
THEOREM ProgramEndsWell == DataSpec => []EndsWell
  <1>1. MP!Spec => []MP!EndsWell
    BY PipeAssumption, StagesEndWell
  <1>2. MP!EndsWell => EndsWell
    BY DEF EndsWell
  <1>3. QED
    BY <1>1, <1>2, DataParts, PTL

-----------------------------------------------------------------------------
(* How an application learns of a device (Discovery), of any make.         *)

(* What may stand in an announcement.                                      *)
Words ==
  {udn, RootDevice, deviceType} \cup Udns \cup EmbeddedTypes \cup ToSet(serviceList)
Titles == [usn : Seq(Words), nt : Words]
Alives == [nts : {"alive"}, usn : Seq(Words)]
Byebyes == [nts : {"byebye"}, usn : Seq(Words)]
Messages == Alives \cup Byebyes

DITypes ==
  /\ phase \in {"new", "running", "stopped", "crashed"}
  /\ starts \in Nat /\ lost \in Nat /\ late \in BOOLEAN
  /\ heard \in BOOLEAN /\ (heard => cp = "on")
  /\ gets \in [asked : Nat, page : Nat, error : Nat]
  /\ multicast \in Seq(Messages)

(* Until the device stops nobody has heard a farewell.                     *)
NoFarewell ==
  /\ phase = "new" => starts = 0
  /\ phase \in {"running", "stopped"} => starts > 0
  /\ phase = "new" \/ (phase = "running" /\ starts = 1) =>
       \A i \in 1..Len(multicast) : multicast[i] \in Alives

(* While it runs for the first time, and is not known, there are two       *)
(* chances for the application to learn of it, but for what was lost.      *)
Appearing ==
  phase = "running" /\ starts = 1 /\ cp = "on" /\ heard /\ udn \notin devices =>
    Len(multicast) + gets.asked + gets.page + lost >= 2

(* Once it has stopped it is forgotten for good, or there are two farewells*)
(* to come, but for what was lost.                                         *)
Farewell(i) == multicast[i].nts = "byebye" /\ multicast[i].usn = << udn >>
Farewells ==
  /\ lost = 0 => \E i \in 1..Len(multicast) : \E j \in 1..Len(multicast) :
                   i < j /\ Farewell(i) /\ Farewell(j)
  /\ lost = 1 => \E i \in 1..Len(multicast) : Farewell(i)
Forgotten == udn \notin devices /\ gets.page = 0
Leaving ==
  (phase = "stopped" \/ (phase = "crashed" /\ starts = 1)) /\ cp = "on" /\ heard /\ ~late =>
    Forgotten \/ Farewells

DIInv == DITypes /\ NoFarewell /\ Appearing /\ Leaving

LEMMA TwiceKeeps ==
  ASSUME NEW S, NEW s \in Seq(S), NEW k \in 1..Len(s)
  PROVE  /\ Twice(s) \in Seq(S)
         /\ \E o \in Nat : /\ o + 2 <= Len(Twice(s))
                           /\ Twice(s)[o + 1] = s[k] /\ Twice(s)[o + 2] = s[k]
  <1> DEFINE ss == [i \in DOMAIN s |-> << s[i], s[i] >>]
  <1>1. Len(s) \in Nat /\ DOMAIN s = 1..Len(s) /\ \A i \in 1..Len(s) : s[i] \in S
    BY LenProperties, ElementOfSeq
  <1>2. ss \in Seq(Seq(S)) /\ Len(ss) = Len(s)
    <2>1. ss \in [1..Len(s) -> Seq(S)]
      BY <1>1
    <2> HIDE DEF ss
    <2>2. QED
      BY <1>1, <2>1, SeqOfFunction
  <1>3. ss[k] = << s[k], s[k] >>
    BY <1>1
  <1>4. Len(<< s[k], s[k] >>) = 2
    OBVIOUS
  <1>5. Twice(s) = FlattenSeq(ss)
    BY DEF Twice, FlattenSeq, FlattenSeq
  <1> HIDE DEF ss
  <1> DEFINE t == FlattenSeq(ss)
  <1>6. t \in Seq(S) /\ \A i \in 1..Len(ss) : \E o \in Nat : Placed(t, o, ss[i])
    BY <1>2, FlattenKeeps
  <1> HIDE DEF t
  <1>7. PICK o \in Nat : Placed(t, o, ss[k])
    BY <1>2, <1>6
  <1>8. PICK p : p = << s[k], s[k] >>
    OBVIOUS
  <1>9. Len(p) = 2 /\ p[1] = s[k] /\ p[2] = s[k]
    BY <1>8
  <1>10. Placed(t, o, p)
    BY <1>3, <1>7, <1>8
  <1>11. o + 2 <= Len(t) /\ t[o + 1] = s[k] /\ t[o + 2] = s[k]
    BY <1>9, <1>10 DEF Placed
  <1>12. QED
    BY <1>5, <1>6, <1>11 DEF t

LEMMA NamesAre ==
  ASSUME DiscoveryConstants
  PROVE  /\ Names \in Seq(Titles)
         /\ 2 \in 1..Len(Names)
         /\ Names[2].usn = << udn >>
  <1> DEFINE root == RootNames
             list == embeddedDeviceList
             pairs == [i \in DOMAIN list |->
                        << [usn |-> << list[i].udn >>, nt |-> list[i].udn],
                           [usn |-> << list[i].udn, list[i].type >>, nt |-> list[i].type] >>]
  <1>1. /\ udn \in Words /\ RootDevice \in Words /\ deviceType \in Words
    BY DEF Words
  <1>2. /\ root \in Seq(Titles) /\ 2 \in 1..Len(root) /\ root[2].usn = << udn >>
    <2>1. /\ << udn, RootDevice >> \in Seq(Words)
          /\ << udn >> \in Seq(Words)
          /\ << udn, deviceType >> \in Seq(Words)
      BY <1>1
    <2> DEFINE a == [usn |-> << udn, RootDevice >>, nt |-> RootDevice]
               b == [usn |-> << udn >>, nt |-> udn]
               c == [usn |-> << udn, deviceType >>, nt |-> deviceType]
    <2>2. a \in Titles /\ b \in Titles /\ c \in Titles /\ b.usn = << udn >>
      BY <1>1, <2>1 DEF Titles
    <2>3. root = << a, b, c >>
      BY DEF RootNames
    <2> HIDE DEF a, b, c, root
    <2>4. QED
      BY <2>2, <2>3
  <1>3. EmbeddedNames \in Seq(Titles)
    <2>1. list \in Seq(ToSet(list)) /\ ToSet(list) = ToSet(list)
      BY DEF DiscoveryConstants, ToSet, ToSet
    <2>2. Len(list) \in Nat /\ DOMAIN list = 1..Len(list)
      BY <2>1, LenProperties
    <2>3. \A i \in 1..Len(list) : list[i].udn \in Words /\ list[i].type \in Words
      <3>1. \A i \in 1..Len(list) : list[i] \in ToSet(list)
        BY <2>1, ElementOfSeq
      <3>2. QED
        BY <3>1 DEF Words, Udns, EmbeddedTypes
    <2>4. ASSUME NEW i \in 1..Len(list)
          PROVE  pairs[i] \in Seq(Titles)
      <3>1. PICK u \in Words, v \in Words : u = list[i].udn /\ v = list[i].type
        BY <2>3
      <3> DEFINE a == [usn |-> << u >>, nt |-> u]
                 b == [usn |-> << u, v >>, nt |-> v]
      <3>2. a \in Titles /\ b \in Titles
        BY DEF Titles
      <3>3. pairs[i] = << a, b >>
        BY <2>2, <3>1
      <3> HIDE DEF a, b, pairs
      <3>4. QED
        BY <3>2, <3>3
    <2>5. pairs \in Seq(Seq(Titles))
      <3>1. pairs \in [1..Len(list) -> Seq(Titles)]
        <4>1. DOMAIN pairs = 1..Len(list) /\ pairs = [i \in 1..Len(list) |-> pairs[i]]
          BY <2>2
        <4> HIDE DEF pairs
        <4>2. QED
          BY <2>4, <4>1
      <3> HIDE DEF pairs
      <3>2. QED
        BY <2>2, <3>1, SeqOfFunction
    <2>6. EmbeddedNames = FlattenSeq(pairs)
      BY DEF EmbeddedNames, FlattenSeq, FlattenSeq
    <2> HIDE DEF pairs
    <2>7. QED
      BY <2>5, <2>6, FlattenKeeps
  <1>4. ServiceNames \in Seq(Titles)
    <2>1. serviceList \in Seq(ToSet(serviceList)) /\ ToSet(serviceList) = ToSet(serviceList)
      BY DEF DiscoveryConstants, ToSet, ToSet
    <2>2. Len(serviceList) \in Nat /\ DOMAIN serviceList = 1..Len(serviceList)
      BY <2>1, LenProperties
    <2>3. \A i \in 1..Len(serviceList) : serviceList[i] \in Words
      <3>1. \A i \in 1..Len(serviceList) : serviceList[i] \in ToSet(serviceList)
        BY <2>1, ElementOfSeq
      <3>2. QED
        BY <2>1, <3>1 DEF Words
    <2>4. ASSUME NEW i \in 1..Len(serviceList)
          PROVE  [usn |-> << udn, serviceList[i] >>, nt |-> serviceList[i]] \in Titles
      <3>1. PICK u \in Words : u = serviceList[i]
        BY <2>3
      <3>2. << udn, u >> \in Seq(Words)
        BY <1>1
      <3>3. [usn |-> << udn, u >>, nt |-> u] \in Titles
        BY <3>2 DEF Titles
      <3>4. QED
        BY <3>1, <3>3
    <2>5. ServiceNames = [i \in 1..Len(serviceList) |->
                              [usn |-> << udn, serviceList[i] >>, nt |-> serviceList[i]]]
      BY <2>2 DEF ServiceNames
    <2>6. ServiceNames \in [1..Len(serviceList) -> Titles]
      BY <2>4, <2>5
    <2>7. QED
      BY <2>2, <2>6, SeqOfFunction
  <1>5. Names = (root \o EmbeddedNames) \o ServiceNames
    BY DEF Names
  <1> HIDE DEF root, pairs
  <1> DEFINE a == root \o EmbeddedNames
             b == a \o ServiceNames
  <1>6. a \in Seq(Titles) /\ 2 \in 1..Len(a) /\ a[2] = root[2]
    BY <1>2, <1>3, LongerSeq
  <1> HIDE DEF a
  <1>7. b \in Seq(Titles) /\ 2 \in 1..Len(b) /\ b[2] = a[2]
    BY <1>4, <1>6, LongerSeq
  <1>8. Names = b
    BY <1>5 DEF a
  <1> HIDE DEF b
  <1>9. QED
    BY <1>2, <1>6, <1>7, <1>8

(* Everything is said twice, and one farewell is that of the device.       *)
LEMMA SaidTwice ==
  ASSUME DiscoveryConstants
  PROVE  /\ doNotify \in Seq(Alives) /\ Len(doNotify) >= 2
         /\ doByeBye \in Seq(Byebyes)
         /\ \E o \in Nat :
              /\ o + 2 <= Len(doByeBye)
              /\ doByeBye[o + 1].usn = << udn >>
              /\ doByeBye[o + 2].usn = << udn >>
  <1> DEFINE names == Names
             hellos == [i \in DOMAIN names |-> [nts |-> "alive", usn |-> names[i].usn]]
             byes == [i \in DOMAIN names |-> [nts |-> "byebye", usn |-> names[i].usn]]
  <1>1. names \in Seq(Titles) /\ 2 \in 1..Len(names) /\ names[2].usn = << udn >>
    BY NamesAre
  <1>2. /\ doNotify = Twice(hellos) /\ doByeBye = Twice(byes)
    BY DEF doNotify, doByeBye, UPNP_ALIVE_MESSAGE, UPNP_BYEBYE_MESSAGE
  <1> HIDE DEF names
  <1>3. /\ Len(names) \in Nat /\ DOMAIN names = 1..Len(names)
        /\ \A i \in 1..Len(names) : names[i].usn \in Seq(Words)
    <2>1. \A i \in 1..Len(names) : names[i] \in Titles
      BY <1>1, ElementOfSeq
    <2>2. QED
      BY <1>1, <2>1, LenProperties DEF Titles
  <1>4. hellos \in Seq(Alives) /\ Len(hellos) = Len(names)
    <2>1. hellos \in [1..Len(names) -> Alives]
      BY <1>3 DEF Alives
    <2> HIDE DEF hellos
    <2>2. QED
      BY <1>3, <2>1, SeqOfFunction
  <1>5. byes \in Seq(Byebyes) /\ Len(byes) = Len(names) /\ byes[2].usn = << udn >>
    <2>1. byes \in [1..Len(names) -> Byebyes] /\ byes[2].usn = << udn >>
      BY <1>1, <1>3 DEF Byebyes
    <2> HIDE DEF byes
    <2>2. QED
      BY <1>3, <2>1, SeqOfFunction
  <1> HIDE DEF hellos, byes
  <1> DEFINE a == Twice(hellos)
             b == Twice(byes)
  <1>6. a \in Seq(Alives) /\ \E o \in Nat : o + 2 <= Len(a)
    BY <1>1, <1>4, TwiceKeeps
  <1>7. b \in Seq(Byebyes)
        /\ \E o \in Nat : o + 2 <= Len(b) /\ b[o + 1] = byes[2] /\ b[o + 2] = byes[2]
    BY <1>1, <1>5, TwiceKeeps
  <1>8. Len(a) >= 2
    <2>1. Len(a) \in Nat
      BY <1>6, LenProperties
    <2> HIDE DEF a
    <2>2. QED
      BY <1>6, <2>1
  <1> HIDE DEF a, b
  <1>9. doNotify = a /\ doByeBye = b
    BY <1>2 DEF a, b
  <1>10. \E o \in Nat : o + 2 <= Len(b) /\ b[o + 1].usn = << udn >> /\ b[o + 2].usn = << udn >>
    <2>1. PICK o \in Nat : o + 2 <= Len(b) /\ b[o + 1] = byes[2] /\ b[o + 2] = byes[2]
      BY <1>7
    <2>2. b[o + 1].usn = << udn >> /\ b[o + 2].usn = << udn >>
      BY <1>5, <2>1
    <2>3. QED
      BY <2>1, <2>2
  <1>11. QED
    BY <1>6, <1>7, <1>8, <1>9, <1>10

(* Steps that touch nothing the invariant is about.                        *)
LEMMA ApartFromThat ==
  ASSUME DIInv,
         UNCHANGED << phase, starts, cp, multicast, gets, devices, lost, heard, late >>
  PROVE  DIInv'
  BY DEF DIInv, DITypes, NoFarewell, Appearing, Leaving, Farewells, Farewell, Forgotten

LEMMA TypedMessage ==
  ASSUME DITypes, NEW i \in 1..Len(multicast)
  PROVE  multicast[i] \in Messages
  BY ElementOfSeq DEF DITypes

LEMMA StartStep ==
  ASSUME DiscoveryConstants, DIInv, start
  PROVE  DIInv'
  <1>1. /\ phase \in {"new", "stopped"} /\ phase' = "running" /\ starts' = starts + 1
        /\ UNCHANGED << cp, gets, devices, lost, late >>
        /\ heard' = (cp = "on")
    BY DEF start, ssdp_start
  <1>2. PICK m \in Seq(Alives) : multicast' = multicast \o m /\ (cp = "on" => Len(m) >= 2)
    <2>1. doNotify \in Seq(Alives) /\ Len(doNotify) >= 2
      BY SaidTwice
    <2>2. << >> \in Seq(Alives)
      BY EmptySeq
    <2>3. multicast' = multicast \o IF cp = "on" THEN doNotify ELSE << >>
      BY DEF start, Heard
    <2>4. QED
      BY <2>1, <2>2, <2>3
  <1>3. multicast \in Seq(Messages) /\ m \in Seq(Messages)
    BY SeqMonotonic DEF DIInv, DITypes, Messages
  <1>4. /\ multicast' \in Seq(Messages)
        /\ Len(multicast') = Len(multicast) + Len(m)
        /\ \A i \in 1..Len(multicast) + Len(m) :
             multicast'[i] = IF i <= Len(multicast) THEN multicast[i]
                                                    ELSE m[i - Len(multicast)]
    BY <1>2, <1>3, ConcatProperties
  <1>5. Len(multicast) \in Nat /\ Len(m) \in Nat
    BY <1>3, LenProperties
  <1>6. DITypes'
    BY <1>1, <1>4 DEF DIInv, DITypes
  <1>7. NoFarewell'
    <2>1. starts' > 0
      BY <1>1 DEF DIInv, DITypes
    <2>2. SUFFICES ASSUME starts' = 1, NEW i \in 1..Len(multicast')
                   PROVE  multicast'[i] \in Alives
      BY <1>1, <2>1 DEF NoFarewell
    <2>3. phase = "new"
      BY <1>1, <2>2 DEF DIInv, DITypes, NoFarewell
    <2>4. \A j \in 1..Len(multicast) : multicast[j] \in Alives
      BY <2>3 DEF DIInv, NoFarewell
    <2>5. \A j \in 1..Len(m) : m[j] \in Alives
      BY <1>2, ElementOfSeq
    <2>6. i \in 1..Len(multicast) + Len(m)
      BY <1>4
    <2>7. CASE i <= Len(multicast)
      <3>1. i \in 1..Len(multicast)
        BY <1>5, <2>6, <2>7
      <3>2. QED
        BY <1>4, <2>4, <2>6, <2>7, <3>1
    <2>8. CASE ~(i <= Len(multicast))
      <3>1. i - Len(multicast) \in 1..Len(m)
        BY <1>5, <2>6, <2>8
      <3>2. multicast'[i] = m[i - Len(multicast)]
        BY <1>4, <2>6, <2>8
      <3>3. QED
        BY <2>5, <3>1, <3>2
    <2>9. QED
      BY <2>7, <2>8
  <1>8. Appearing'
    <2>1. SUFFICES ASSUME heard'
                   PROVE  Len(multicast') + gets'.asked + gets'.page + lost' >= 2
      BY DEF Appearing
    <2>2. Len(multicast') >= 2 /\ Len(multicast') \in Nat
      <3>1. cp = "on"
        BY <1>1, <2>1, Zenon
      <3>2. QED
        BY <1>2, <1>4, <1>5, <3>1
    <2>3. gets'.asked \in Nat /\ gets'.page \in Nat /\ lost' \in Nat
      BY <1>6 DEF DITypes
    <2>4. QED
      BY <2>2, <2>3
  <1>9. Leaving'
    BY <1>1 DEF Leaving
  <1>10. QED
    BY <1>6, <1>7, <1>8, <1>9 DEF DIInv

LEMMA StopStep ==
  ASSUME DiscoveryConstants, DIInv, stop
  PROVE  DIInv'
  <1>1. /\ phase = "running" /\ phase' = "stopped"
        /\ UNCHANGED << starts, cp, gets, devices, lost, heard, late >>
    BY DEF stop, history_vars
  <1>2. PICK m \in Seq(Byebyes) :
          /\ multicast' = multicast \o m
          /\ cp = "on" => \E o \in Nat : /\ o + 2 <= Len(m)
                                         /\ m[o + 1].usn = << udn >>
                                         /\ m[o + 2].usn = << udn >>
    <2>1. /\ doByeBye \in Seq(Byebyes)
          /\ \E o \in Nat : /\ o + 2 <= Len(doByeBye)
                            /\ doByeBye[o + 1].usn = << udn >>
                            /\ doByeBye[o + 2].usn = << udn >>
      BY SaidTwice
    <2>2. << >> \in Seq(Byebyes)
      BY EmptySeq
    <2>3. multicast' = multicast \o IF cp = "on" THEN doByeBye ELSE << >>
      BY DEF stop, Heard
    <2>4. CASE cp = "on"
      BY <2>1, <2>3, <2>4
    <2>5. CASE cp # "on"
      BY <2>2, <2>3, <2>5
    <2>6. QED
      BY <2>4, <2>5
  <1>3. multicast \in Seq(Messages) /\ m \in Seq(Messages)
    BY SeqMonotonic DEF DIInv, DITypes, Messages
  <1>4. /\ multicast' \in Seq(Messages)
        /\ Len(multicast') = Len(multicast) + Len(m)
        /\ \A i \in 1..Len(multicast) + Len(m) :
             multicast'[i] = IF i <= Len(multicast) THEN multicast[i]
                                                    ELSE m[i - Len(multicast)]
    BY <1>2, <1>3, ConcatProperties
  <1>5. Len(multicast) \in Nat /\ Len(m) \in Nat
    BY <1>3, LenProperties
  <1>6. DITypes'
    BY <1>1, <1>4 DEF DIInv, DITypes
  <1>7. NoFarewell'
    BY <1>1 DEF DIInv, NoFarewell
  <1>8. Appearing'
    BY <1>1 DEF Appearing
  <1>9. Leaving'
    <2>1. SUFFICES ASSUME cp = "on" PROVE Farewells'
      BY <1>1 DEF Leaving
    <2>2. PICK o \in Nat : /\ o + 2 <= Len(m)
                           /\ m[o + 1].usn = << udn >> /\ m[o + 2].usn = << udn >>
      BY <1>2, <2>1
    <2>3. PICK i \in Nat, j \in Nat : i = Len(multicast) + o + 1 /\ j = Len(multicast) + o + 2
      BY <1>5
    <2>4. /\ i \in 1..Len(multicast) + Len(m) /\ ~(i <= Len(multicast))
          /\ i - Len(multicast) = o + 1
          /\ j \in 1..Len(multicast) + Len(m) /\ ~(j <= Len(multicast))
          /\ j - Len(multicast) = o + 2
          /\ i < j /\ o + 1 \in 1..Len(m) /\ o + 2 \in 1..Len(m)
      BY <1>5, <2>2, <2>3
    <2>5. multicast'[i] = m[o + 1] /\ multicast'[j] = m[o + 2]
      BY <1>4, <2>4
    <2>6. m[o + 1].nts = "byebye" /\ m[o + 2].nts = "byebye"
      <3>1. m[o + 1] \in Byebyes /\ m[o + 2] \in Byebyes
        BY <1>2, <2>4, ElementOfSeq
      <3>2. QED
        BY <3>1 DEF Byebyes
    <2>7. Farewell(i)' /\ Farewell(j)'
      BY <2>2, <2>5, <2>6 DEF Farewell
    <2>8. i \in 1..Len(multicast') /\ j \in 1..Len(multicast') /\ i < j
      BY <1>4, <2>4
    <2>9. QED
      BY <2>7, <2>8 DEF Farewells
  <1>10. QED
    BY <1>6, <1>7, <1>8, <1>9 DEF DIInv

(* What a message that is read, or lost, leaves of the farewells.          *)
LEMMA FarewellsAfterLoss ==
  ASSUME DITypes, Farewells, multicast # << >>,
         multicast' = Tail(multicast), lost' = lost + 1
  PROVE  Farewells'
  <1>1. /\ multicast \in Seq(Messages) /\ lost \in Nat
        /\ Len(Tail(multicast)) = Len(multicast) - 1
        /\ \A i \in 1..Len(multicast) - 1 : Tail(multicast)[i] = multicast[i + 1]
    BY TailOfSeq DEF DITypes
  <1>2. Len(multicast) \in Nat
    BY <1>1, LenProperties
  <1>3. /\ Len(multicast') = Len(multicast) - 1
        /\ \A i \in 1..Len(multicast) - 1 : multicast'[i] = multicast[i + 1]
    BY <1>1
  <1>4. SUFFICES ASSUME lost = 0 PROVE \E i \in 1..Len(multicast') : Farewell(i)'
    BY <1>1 DEF Farewells
  <1>5. PICK i \in 1..Len(multicast), j \in 1..Len(multicast) : i < j /\ Farewell(j)
    BY <1>4 DEF Farewells
  <1>6. PICK k \in Nat : k = j - 1
    BY <1>2, <1>5
  <1>7. k \in 1..Len(multicast) - 1 /\ k + 1 = j
    BY <1>2, <1>5, <1>6
  <1>8. multicast'[k] = multicast[j]
    BY <1>3, <1>7
  <1>9. Farewell(k)'
    BY <1>5, <1>8 DEF Farewell
  <1>10. QED
    BY <1>3, <1>7, <1>9

LEMMA FarewellsAfterRead ==
  ASSUME DITypes, Farewells, multicast # << >>, ~Farewell(1),
         multicast' = Tail(multicast), lost' = lost
  PROVE  Farewells'
  <1>1. /\ multicast \in Seq(Messages)
        /\ Len(Tail(multicast)) = Len(multicast) - 1
        /\ \A i \in 1..Len(multicast) - 1 : Tail(multicast)[i] = multicast[i + 1]
    BY TailOfSeq DEF DITypes
  <1>2. Len(multicast) \in Nat
    BY <1>1, LenProperties
  <1>3. /\ Len(multicast') = Len(multicast) - 1
        /\ \A i \in 1..Len(multicast) - 1 : multicast'[i] = multicast[i + 1]
    BY <1>1
  <1>4. ASSUME NEW i \in 1..Len(multicast), Farewell(i)
        PROVE  i - 1 \in 1..Len(multicast') /\ Farewell(i - 1)'
    <2>1. i # 1
      BY <1>4
    <2>2. PICK k \in Nat : k = i - 1
      BY <1>2
    <2>3. k \in 1..Len(multicast) - 1 /\ k + 1 = i
      BY <1>2, <2>1, <2>2
    <2>4. multicast'[k] = multicast[i]
      BY <1>3, <2>3
    <2>5. Farewell(k)'
      BY <1>4, <2>4 DEF Farewell
    <2>6. QED
      BY <1>3, <2>2, <2>3, <2>5
  <1>5. ASSUME lost' = 0
        PROVE  \E i \in 1..Len(multicast') : \E j \in 1..Len(multicast') :
                 i < j /\ Farewell(i)' /\ Farewell(j)'
    <2>1. PICK i \in 1..Len(multicast), j \in 1..Len(multicast) :
                 i < j /\ Farewell(i) /\ Farewell(j)
      BY <1>5 DEF Farewells
    <2>2. PICK h \in 1..Len(multicast'), k \in 1..Len(multicast') :
            h = i - 1 /\ k = j - 1 /\ Farewell(h)' /\ Farewell(k)'
      BY <1>4, <2>1
    <2>3. h < k
      BY <1>2, <2>1, <2>2
    <2>4. QED
      BY <2>2, <2>3
  <1>6. ASSUME lost' = 1
        PROVE  \E i \in 1..Len(multicast') : Farewell(i)'
    <2>1. PICK i \in 1..Len(multicast) : Farewell(i)
      BY <1>6 DEF Farewells
    <2>2. PICK h \in 1..Len(multicast') : h = i - 1 /\ Farewell(h)'
      BY <1>4, <2>1
    <2>3. QED
      BY <2>2
  <1>7. QED
    BY <1>5, <1>6 DEF Farewells

(* Another download, and another byte or message lost.                     *)
LEMMA GetsChange ==
  ASSUME DITypes
  PROVE  /\ deviceFound =>
              /\ gets' \in [asked : Nat, page : Nat, error : Nat]
              /\ gets'.asked = gets.asked + 1 /\ gets'.page = gets.page
         /\ gets.asked > 0 /\ gets' = answered("page") =>
              /\ gets' \in [asked : Nat, page : Nat, error : Nat]
              /\ gets'.asked = gets.asked - 1 /\ gets'.page = gets.page + 1
         /\ gets.asked > 0 /\ gets' = answered("error") =>
              /\ gets' \in [asked : Nat, page : Nat, error : Nat]
              /\ gets'.asked = gets.asked - 1 /\ gets'.page = gets.page
  <1>1. PICK a \in Nat, p \in Nat, e \in Nat : gets = [asked |-> a, page |-> p, error |-> e]
    BY DEF DITypes
  <1>2. ASSUME deviceFound
        PROVE  gets' = [asked |-> a + 1, page |-> p, error |-> e]
    BY <1>1, <1>2 DEF deviceFound
  <1>3. ASSUME gets.asked > 0, gets' = answered("page")
        PROVE  gets' = [asked |-> a - 1, page |-> p + 1, error |-> e] /\ a > 0
    BY <1>1, <1>3 DEF answered
  <1>4. ASSUME gets.asked > 0, gets' = answered("error")
        PROVE  gets' = [asked |-> a - 1, page |-> p, error |-> e + 1] /\ a > 0
    BY <1>1, <1>4 DEF answered
  <1>5. QED
    BY <1>1, <1>2, <1>3, <1>4

LEMMA ConnectionStep ==
  ASSUME DIInv, incomingConnection
  PROVE  DIInv'
  <1>1. /\ gets.asked > 0
        /\ UNCHANGED << starts, cp, multicast, devices, lost, heard, late >>
        /\ phase' = IF Serves THEN phase ELSE "crashed"
        /\ gets' = answered(IF Serves THEN "page" ELSE "error")
    BY DEF incomingConnection, history_vars
  <1>2. DITypes /\ NoFarewell /\ Appearing /\ Leaving
    BY DEF DIInv
  <1>3. CASE Serves
    <2>1. phase = "running" /\ phase' = phase /\ gets' = answered("page")
      BY <1>1, <1>3 DEF Serves
    <2>2. /\ gets' \in [asked : Nat, page : Nat, error : Nat]
          /\ gets'.asked = gets.asked - 1 /\ gets'.page = gets.page + 1
      BY <1>1, <1>2, <2>1, GetsChange
    <2>3. DITypes'
      BY <1>1, <1>2, <2>1, <2>2 DEF DITypes
    <2>4. NoFarewell'
      BY <1>1, <1>2, <2>1 DEF NoFarewell
    <2>5. Appearing'
      <3>1. /\ gets.asked \in Nat /\ gets.page \in Nat /\ lost \in Nat
            /\ Len(multicast) \in Nat
        BY <1>2, LenProperties DEF DITypes
      <3>2. QED
        BY <1>1, <1>2, <2>1, <2>2, <3>1 DEF Appearing
    <2>6. Leaving'
      BY <2>1 DEF Leaving
    <2>7. QED
      BY <2>3, <2>4, <2>5, <2>6 DEF DIInv
  <1>4. CASE ~Serves
    <2>1. phase' = "crashed" /\ gets' = answered("error")
      BY <1>1, <1>4
    <2>2. /\ gets' \in [asked : Nat, page : Nat, error : Nat]
          /\ gets'.asked = gets.asked - 1 /\ gets'.page = gets.page
      BY <1>1, <1>2, <2>1, GetsChange
    <2>3. DITypes'
      BY <1>1, <1>2, <2>1, <2>2 DEF DITypes
    <2>4. NoFarewell'
      BY <2>1 DEF NoFarewell
    <2>5. Appearing'
      BY <2>1 DEF Appearing
    <2>6. Leaving'
      <3>1. SUFFICES ASSUME starts = 1, cp = "on", heard, ~late
                     PROVE  Forgotten' \/ Farewells'
        BY <1>1, <2>1 DEF Leaving
      <3>2. phase \in {"stopped", "crashed"}
        BY <1>2, <1>4, <3>1 DEF Serves, DITypes, NoFarewell
      <3>3. Forgotten \/ Farewells
        BY <1>2, <3>1, <3>2 DEF Leaving
      <3>4. Forgotten' <=> Forgotten
        BY <1>1, <2>2 DEF Forgotten
      <3>5. Farewells' <=> Farewells
        BY <1>1 DEF Farewells, Farewell
      <3>6. QED
        BY <3>3, <3>4, <3>5
    <2>7. QED
      BY <2>3, <2>4, <2>5, <2>6 DEF DIInv
  <1>5. QED
    BY <1>3, <1>4

LEMMA DownloadStep ==
  ASSUME DIInv, datagramReceived
  PROVE  DIInv'
  <1>1. UNCHANGED << phase, starts, cp, multicast, devices, lost, heard, late >>
    BY DEF datagramReceived, history_vars, device_vars
  <1>2. deviceFound \/ UNCHANGED gets
    BY DEF datagramReceived
  <1>3. CASE UNCHANGED gets
    BY <1>1, <1>3, ApartFromThat
  <1>4. CASE deviceFound
    <2>1. DITypes /\ NoFarewell /\ Appearing /\ Leaving
      BY DEF DIInv
    <2>2. /\ gets' \in [asked : Nat, page : Nat, error : Nat]
          /\ gets'.asked = gets.asked + 1 /\ gets'.page = gets.page
      BY <1>4, <2>1, GetsChange
    <2>3. DITypes'
      BY <1>1, <2>1, <2>2 DEF DITypes
    <2>4. NoFarewell'
      BY <1>1, <2>1 DEF NoFarewell
    <2>5. Appearing'
      <3>1. /\ gets.asked \in Nat /\ gets.page \in Nat /\ lost \in Nat
            /\ Len(multicast) \in Nat
        BY <2>1, LenProperties DEF DITypes
      <3>2. Appearing' <=>
              (phase = "running" /\ starts = 1 /\ cp = "on" /\ heard /\ udn \notin devices =>
                 Len(multicast) + gets'.asked + gets'.page + lost >= 2)
        BY <1>1 DEF Appearing
      <3>3. ASSUME phase = "running" /\ starts = 1 /\ cp = "on" /\ heard /\ udn \notin devices
            PROVE  Len(multicast) + gets'.asked + gets'.page + lost >= 2
        <4>1. Len(multicast) + gets.asked + gets.page + lost >= 2
          BY <2>1, <3>3 DEF Appearing
        <4>2. PICK a \in Nat, p \in Nat, n \in Nat :
                a = gets.asked /\ p = gets.page /\ n = Len(multicast)
          BY <3>1
        <4>3. gets'.asked = a + 1 /\ gets'.page = p
          BY <2>2, <4>2
        <4>4. n + a + p + lost >= 2 => n + (a + 1) + p + lost >= 2
          BY <3>1
        <4>5. QED
          BY <4>1, <4>2, <4>3, <4>4
      <3>4. QED
        BY <3>2, <3>3
    <2>6. Leaving'
      <3>1. Forgotten' <=> Forgotten
        BY <1>1, <2>2 DEF Forgotten
      <3>2. Farewells' <=> Farewells
        BY <1>1 DEF Farewells, Farewell
      <3>3. QED
        BY <1>1, <2>1, <3>1, <3>2 DEF Leaving
    <2>7. QED
      BY <2>3, <2>4, <2>5, <2>6 DEF DIInv
  <1>5. QED
    BY <1>2, <1>3, <1>4

LEMMA SwitchSteps ==
  ASSUME DIInv, cp_start \/ cp_stop
  PROVE  DIInv'
  <1>1. DITypes /\ NoFarewell /\ Appearing /\ Leaving
    BY DEF DIInv
  <1>2. CASE cp_start
    <2>1. /\ cp = "off" /\ cp' = "on"
          /\ UNCHANGED << phase, starts, multicast, gets, devices, lost, heard, late >>
      BY <1>2 DEF cp_start, msearch_start, history_vars, device_vars
    <2>2. ~heard
      BY <1>1, <2>1 DEF DITypes
    <2>3. DITypes'
      BY <1>1, <2>1 DEF DITypes
    <2>4. NoFarewell'
      BY <1>1, <2>1 DEF NoFarewell
    <2>5. Appearing' /\ Leaving'
      BY <2>1, <2>2 DEF Appearing, Leaving
    <2>6. QED
      BY <2>3, <2>4, <2>5 DEF DIInv
  <1>3. CASE cp_stop
    <2>1. /\ cp' = "off" /\ multicast' = << >> /\ heard' = FALSE
          /\ UNCHANGED << phase, starts, gets, devices, lost, late >>
      BY <1>3 DEF cp_stop, ssdpClient_stop, device_vars
    <2>2. << >> \in Seq(Messages) /\ Len(<< >>) = 0
      BY EmptySeq
    <2>3. DITypes'
      BY <1>1, <2>1, <2>2 DEF DITypes
    <2>4. \A i \in 1..Len(multicast') : FALSE
      BY <2>1, <2>2
    <2>5. NoFarewell'
      BY <1>1, <2>1, <2>4 DEF NoFarewell
    <2>6. Appearing' /\ Leaving'
      BY <2>1 DEF Appearing, Leaving
    <2>7. QED
      BY <2>3, <2>5, <2>6 DEF DIInv
  <1>4. QED
    BY <1>2, <1>3

(* One message less, read or lost.                                         *)
LEMMA Shorter ==
  ASSUME DITypes, multicast # << >>, multicast' = Tail(multicast)
  PROVE  /\ Head(multicast) \in Messages /\ Head(multicast) = multicast[1]
         /\ 1 \in 1..Len(multicast)
         /\ multicast' \in Seq(Messages)
         /\ Len(multicast) \in Nat /\ Len(multicast') = Len(multicast) - 1
         /\ (\A i \in 1..Len(multicast) : multicast[i] \in Alives) =>
              \A i \in 1..Len(multicast') : multicast'[i] \in Alives
  <1>1. /\ Head(multicast) \in Messages /\ Head(multicast) = multicast[1]
        /\ 1 \in 1..Len(multicast)
        /\ multicast' \in Seq(Messages)
        /\ Len(multicast') = Len(multicast) - 1
        /\ \A i \in 1..Len(multicast) - 1 : multicast'[i] = multicast[i + 1]
    BY TailOfSeq DEF DITypes
  <1>2. Len(multicast) \in Nat
    BY LenProperties DEF DITypes
  <1>3. ASSUME \A i \in 1..Len(multicast) : multicast[i] \in Alives,
               NEW i \in 1..Len(multicast')
        PROVE  multicast'[i] \in Alives
    <2>1. i \in 1..Len(multicast) - 1 /\ i + 1 \in 1..Len(multicast)
      BY <1>1, <1>2
    <2>2. QED
      BY <1>1, <1>3, <2>1
  <1>4. QED
    BY <1>1, <1>2, <1>3

LEMMA NotifyStep ==
  ASSUME DIInv, notifyReceived
  PROVE  DIInv'
  <1> DEFINE m == Head(multicast)
  <1>1. /\ multicast # << >> /\ multicast' = Tail(multicast)
        /\ UNCHANGED << phase, starts, cp, lost, heard >>
    BY DEF notifyReceived, device_vars
  <1>2. \/ m.nts = "alive" /\ deviceFound /\ UNCHANGED << devices, late >>
        \/ /\ m.nts = "byebye" /\ onRemovedDevice(m.usn)
           /\ late' = (late \/ gets.page > 0) /\ UNCHANGED gets
    BY DEF notifyReceived
  <1>3. DITypes /\ NoFarewell /\ Appearing /\ Leaving
    BY DEF DIInv
  <1>4. /\ m \in Messages /\ m = multicast[1] /\ 1 \in 1..Len(multicast)
        /\ multicast' \in Seq(Messages)
        /\ Len(multicast) \in Nat /\ Len(multicast') = Len(multicast) - 1
        /\ (\A i \in 1..Len(multicast) : multicast[i] \in Alives) =>
             \A i \in 1..Len(multicast') : multicast'[i] \in Alives
    BY <1>1, <1>3, Shorter
  <1> HIDE DEF m
  <1>5. NoFarewell'
    BY <1>1, <1>3, <1>4 DEF NoFarewell
  <1>6. /\ gets.asked \in Nat /\ gets.page \in Nat /\ lost \in Nat
    BY <1>3 DEF DITypes
  <1>7. ASSUME ~Farewell(1) PROVE Farewells => Farewells'
    BY <1>1, <1>3, <1>7, FarewellsAfterRead
  <1>8. CASE m.nts = "alive" /\ deviceFound /\ UNCHANGED << devices, late >>
    <2>1. /\ gets' \in [asked : Nat, page : Nat, error : Nat]
          /\ gets'.asked = gets.asked + 1 /\ gets'.page = gets.page
      BY <1>3, <1>8, GetsChange
    <2>2. DITypes'
      BY <1>1, <1>3, <1>4, <1>8, <2>1 DEF DITypes
    <2>3. Appearing'
      BY <1>1, <1>3, <1>4, <1>6, <1>8, <2>1 DEF Appearing
    <2>4. ~Farewell(1)
      BY <1>4, <1>8 DEF Farewell
    <2>5. Forgotten' <=> Forgotten
      BY <1>8, <2>1 DEF Forgotten
    <2>6. Leaving'
      BY <1>1, <1>3, <1>7, <1>8, <2>4, <2>5 DEF Leaving
    <2>7. QED
      BY <1>5, <2>2, <2>3, <2>6 DEF DIInv
  <1>9. CASE /\ m.nts = "byebye" /\ onRemovedDevice(m.usn)
             /\ late' = (late \/ gets.page > 0) /\ UNCHANGED gets
    <2>1. late \in BOOLEAN /\ late' \in BOOLEAN /\ (~late' => ~late /\ ~(gets.page > 0))
      BY <1>3, <1>9 DEF DITypes
    <2>2. DITypes'
      BY <1>1, <1>3, <1>4, <1>9, <2>1 DEF DITypes
    <2>3. Appearing'
      <3>1. ~(phase = "running" /\ starts = 1)
        <4>1. m \notin Alives
          BY <1>9 DEF Alives
        <4>2. QED
          BY <1>3, <1>4, <4>1 DEF NoFarewell
      <3>2. QED
        BY <1>1, <3>1 DEF Appearing
    <2>4. udn \notin devices => udn \notin devices'
      BY <1>9 DEF onRemovedDevice
    <2>5. Leaving'
      <3>1. SUFFICES ASSUME phase = "stopped" \/ (phase = "crashed" /\ starts = 1),
                            cp = "on", heard, ~late'
                     PROVE  Forgotten' \/ Farewells'
        BY <1>1 DEF Leaving
      <3>2. ~late /\ gets'.page = 0
        BY <1>6, <1>9, <2>1, <3>1
      <3>3. Forgotten \/ Farewells
        BY <1>3, <3>1, <3>2 DEF Leaving
      <3>4. CASE Forgotten
        BY <2>4, <3>2, <3>4 DEF Forgotten
      <3>5. CASE Farewells /\ Farewell(1)
        <4>1. m.usn = << udn >>
          BY <1>4, <3>5 DEF Farewell
        <4>2. PICK u : u = m.usn
          OBVIOUS
        <4>3. Len(u) = 1 /\ u[1] = udn
          BY <4>1, <4>2
        <4>4. devices' = devices \ {udn}
          BY <1>9, <4>2, <4>3 DEF onRemovedDevice
        <4>5. QED
          BY <3>2, <4>4 DEF Forgotten
      <3>6. CASE Farewells /\ ~Farewell(1)
        BY <1>7, <3>6
      <3>7. QED
        BY <3>3, <3>4, <3>5, <3>6
    <2>6. QED
      BY <1>5, <2>2, <2>3, <2>5 DEF DIInv
  <1>10. QED
    BY <1>2, <1>8, <1>9

LEMMA ReplyStep ==
  ASSUME DiscoveryConstants, DIInv,
         NEW result \in {"page", "error"}, replyFinished(result)
  PROVE  DIInv'
  <1>1. /\ gets[result] > 0 /\ gets' = [gets EXCEPT ![result] = @ - 1]
        /\ devices' = devices \cup {IF result = "page" THEN udn ELSE Ghost}
        /\ UNCHANGED << phase, starts, cp, multicast, lost, heard, late >>
    BY DEF replyFinished, history_vars, device_vars
  <1>2. DITypes /\ NoFarewell /\ Appearing /\ Leaving
    BY DEF DIInv
  <1>3. PICK a \in Nat, p \in Nat, e \in Nat : gets = [asked |-> a, page |-> p, error |-> e]
    BY <1>2 DEF DITypes
  <1>4. NoFarewell'
    BY <1>1, <1>2 DEF NoFarewell
  <1>5. Farewells' <=> Farewells
    BY <1>1 DEF Farewells, Farewell
  <1>6. CASE result = "page"
    <2>1. p > 0 /\ gets' = [asked |-> a, page |-> p - 1, error |-> e]
      BY <1>1, <1>3, <1>6
    <2>2. gets' \in [asked : Nat, page : Nat, error : Nat]
      BY <2>1
    <2>3. DITypes'
      BY <1>1, <1>2, <2>2 DEF DITypes
    <2>4. udn \in devices'
      BY <1>1, <1>6
    <2>5. Appearing'
      BY <2>4 DEF Appearing
    <2>6. ~Forgotten
      BY <1>3, <2>1 DEF Forgotten
    <2>7. Leaving'
      BY <1>1, <1>2, <1>5, <2>6 DEF Leaving
    <2>8. QED
      BY <1>4, <2>3, <2>5, <2>7 DEF DIInv
  <1>7. CASE result = "error"
    <2>1. e > 0 /\ gets' = [asked |-> a, page |-> p, error |-> e - 1]
      BY <1>1, <1>3, <1>7
    <2>2. /\ gets' \in [asked : Nat, page : Nat, error : Nat]
          /\ gets'.asked = gets.asked /\ gets'.page = gets.page
      BY <1>3, <2>1
    <2>3. DITypes'
      BY <1>1, <1>2, <2>2 DEF DITypes
    <2>4. udn \in devices' <=> udn \in devices
      BY <1>1, <1>7 DEF DiscoveryConstants
    <2>5. Appearing'
      BY <1>1, <1>2, <2>2, <2>4 DEF Appearing
    <2>6. Forgotten' <=> Forgotten
      BY <2>2, <2>4 DEF Forgotten
    <2>7. Leaving'
      BY <1>1, <1>2, <1>5, <2>6 DEF Leaving
    <2>8. QED
      BY <1>4, <2>3, <2>5, <2>7 DEF DIInv
  <1>8. QED
    BY <1>6, <1>7

LEMMA NetworkStep ==
  ASSUME DIInv, Network
  PROVE  DIInv'
  <1>1. /\ UNCHANGED << phase, starts, cp, devices, heard, late >>
        /\ \/ LoseDatagram /\ UNCHANGED gets
           \/ LoseConnection /\ UNCHANGED << searches, multicast, unicast >>
    BY DEF Network, history_vars, device_vars
  <1>2. DITypes /\ NoFarewell /\ Appearing /\ Leaving
    BY DEF DIInv
  <1>3. lost' = lost + 1
    BY <1>1 DEF LoseDatagram, LoseConnection, Lose
  <1>4. /\ gets.asked \in Nat /\ gets.page \in Nat /\ lost \in Nat /\ Len(multicast) \in Nat
    BY <1>2, LenProperties DEF DITypes
  <1>5. ASSUME UNCHANGED multicast,
               gets' \in [asked : Nat, page : Nat, error : Nat],
               gets'.asked >= gets.asked - 1, gets'.page = gets.page
        PROVE  DIInv'
    <2>1. DITypes'
      BY <1>1, <1>2, <1>3, <1>4, <1>5 DEF DITypes
    <2>2. NoFarewell'
      BY <1>1, <1>2, <1>5 DEF NoFarewell
    <2>3. gets'.asked \in Nat
      BY <1>5
    <2>4. Appearing'
      BY <1>1, <1>2, <1>3, <1>4, <1>5, <2>3 DEF Appearing
    <2>5. Forgotten' <=> Forgotten
      BY <1>1, <1>5 DEF Forgotten
    <2>6. Farewells => Farewells'
      <3>1. \A i : Farewell(i)' <=> Farewell(i)
        BY <1>5 DEF Farewell
      <3>2. Len(multicast') = Len(multicast)
        BY <1>5
      <3>3. QED
        BY <1>3, <1>4, <3>1, <3>2 DEF Farewells
    <2>7. Leaving'
      BY <1>1, <1>2, <2>5, <2>6 DEF Leaving
    <2>8. QED
      BY <2>1, <2>2, <2>4, <2>7 DEF DIInv
  <1>6. ASSUME multicast # << >>, multicast' = Tail(multicast), UNCHANGED gets
        PROVE  DIInv'
    <2>1. /\ multicast' \in Seq(Messages) /\ Len(multicast') = Len(multicast) - 1
          /\ (\A i \in 1..Len(multicast) : multicast[i] \in Alives) =>
               \A i \in 1..Len(multicast') : multicast'[i] \in Alives
      BY <1>2, <1>6, Shorter
    <2>9. gets' = gets /\ lost' \in Nat
      BY <1>3, <1>4, <1>6
    <2>2. DITypes'
      BY <1>1, <1>2, <2>1, <2>9 DEF DITypes
    <2>3. NoFarewell'
      BY <1>1, <1>2, <2>1 DEF NoFarewell
    <2>4. Appearing'
      <3>1. Appearing' <=>
              (phase = "running" /\ starts = 1 /\ cp = "on" /\ heard /\ udn \notin devices =>
                 Len(multicast') + gets.asked + gets.page + lost' >= 2)
        BY <1>1, <2>9 DEF Appearing
      <3>2. Len(multicast') + gets.asked + gets.page + lost'
              = Len(multicast) + gets.asked + gets.page + lost
        <4>1. PICK a \in Nat, p \in Nat, n \in Nat :
                a = gets.asked /\ p = gets.page /\ n = Len(multicast)
          BY <1>4
        <4>2. (n - 1) + a + p + (lost + 1) = n + a + p + lost
          BY <1>4
        <4>3. QED
          BY <1>3, <2>1, <4>1, <4>2
      <3>3. QED
        BY <1>2, <3>1, <3>2 DEF Appearing
    <2>5. Forgotten' <=> Forgotten
      BY <1>1, <1>6 DEF Forgotten
    <2>6. Farewells => Farewells'
      BY <1>2, <1>3, <1>6, FarewellsAfterLoss
    <2>7. Leaving'
      BY <1>1, <1>2, <2>5, <2>6 DEF Leaving
    <2>8. QED
      BY <2>2, <2>3, <2>4, <2>7 DEF DIInv
  <1>7. CASE LoseDatagram /\ UNCHANGED gets
    <2>1. \/ multicast # << >> /\ multicast' = Tail(multicast)
          \/ UNCHANGED multicast
      BY <1>7 DEF LoseDatagram, Lose
    <2>2. CASE UNCHANGED multicast
      <3>1. /\ gets' \in [asked : Nat, page : Nat, error : Nat]
            /\ gets'.asked >= gets.asked - 1 /\ gets'.page = gets.page
        BY <1>2, <1>4, <1>7 DEF DITypes
      <3>2. QED
        BY <1>5, <2>2, <3>1
    <2>3. QED
      BY <1>6, <1>7, <2>1, <2>2
  <1>8. CASE LoseConnection /\ UNCHANGED << searches, multicast, unicast >>
    <2>1. gets.asked > 0 /\ gets' = answered("error")
      BY <1>8 DEF LoseConnection
    <2>2. /\ gets' \in [asked : Nat, page : Nat, error : Nat]
          /\ gets'.asked = gets.asked - 1 /\ gets'.page = gets.page
      BY <1>2, <2>1, GetsChange
    <2>3. gets'.asked >= gets.asked - 1
      BY <1>4, <2>2
    <2>4. QED
      BY <1>5, <1>8, <2>2, <2>3
  <1>9. QED
    BY <1>1, <1>7, <1>8

LEMMA DIInit == DiscoveryInit => DIInv
  <1> SUFFICES ASSUME DiscoveryInit PROVE DIInv
    OBVIOUS
  <1>1. /\ phase = "new" /\ starts = 0 /\ multicast = << >>
        /\ gets = [asked |-> 0, page |-> 0, error |-> 0]
        /\ lost = 0 /\ heard = FALSE /\ late = FALSE
    BY DEF DiscoveryInit
  <1>2. multicast \in Seq(Messages) /\ \A i \in 1..Len(multicast) : FALSE
    BY <1>1, EmptySeq
  <1>3. DITypes
    BY <1>1, <1>2 DEF DITypes
  <1>4. NoFarewell
    BY <1>1, <1>2 DEF NoFarewell
  <1>5. Appearing /\ Leaving
    BY <1>1 DEF Appearing, Leaving
  <1>6. QED
    BY <1>3, <1>4, <1>5 DEF DIInv

LEMMA DINext ==
  ASSUME DiscoveryConstants, DIInv, [DiscoveryNext]_(discovery_vars)
  PROVE  DIInv'
  <1>1. CASE start
    BY <1>1, StartStep
  <1>2. CASE stop
    BY <1>2, StopStep
  <1>3. CASE msearchReceived \/ discover
    <2>1. UNCHANGED << phase, starts, cp, multicast, gets, devices, lost, heard, late >>
      BY <1>3 DEF msearchReceived, discover, history_vars, device_vars
    <2>2. QED
      BY <2>1, ApartFromThat
  <1>4. CASE incomingConnection
    BY <1>4, ConnectionStep
  <1>5. CASE cp_start \/ cp_stop
    BY <1>5, SwitchSteps
  <1>6. CASE notifyReceived
    BY <1>6, NotifyStep
  <1>7. CASE datagramReceived
    BY <1>7, DownloadStep
  <1>8. CASE Finish
    BY <1>8, ReplyStep DEF Finish
  <1>9. CASE Network
    BY <1>9, NetworkStep
  <1>10. CASE UNCHANGED discovery_vars
    <2>1. UNCHANGED << phase, starts, cp, multicast, gets, devices, lost, heard, late >>
      BY <1>10 DEF discovery_vars, history_vars, device_vars
    <2>2. QED
      BY <2>1, ApartFromThat
  <1>11. QED
    BY <1>1, <1>2, <1>3, <1>4, <1>5, <1>6, <1>7, <1>8, <1>9, <1>10 DEF DiscoveryNext

LEMMA DIViewRight == DIInv => ViewRight
  <1> SUFFICES ASSUME DIInv, Quiet, cp = "on", heard, lost <= 1, ~late
               PROVE  /\ phase = "running" /\ starts = 1 => udn \in devices
                      /\ phase = "stopped" \/ (phase = "crashed" /\ starts = 1)
                           => udn \notin devices
    BY DEF ViewRight
  <1>1. DITypes /\ Appearing /\ Leaving
    BY DEF DIInv
  <1>2. multicast = << >> /\ gets.asked + gets.page + gets.error = 0
    BY DEF Quiet, Outstanding
  <1>3. gets.asked \in Nat /\ gets.page \in Nat /\ gets.error \in Nat /\ lost \in Nat
    BY <1>1 DEF DITypes
  <1>4. gets.asked = 0 /\ gets.page = 0 /\ lost \in 0..1
    BY <1>2, <1>3
  <1>5. Len(multicast) = 0
    BY <1>2, EmptySeq
  <1>6. ~(Len(multicast) + gets.asked + gets.page + lost >= 2)
    BY <1>4, <1>5
  <1>7. ~Farewells
    BY <1>4, <1>5 DEF Farewells
  <1>8. QED
    BY <1>1, <1>6, <1>7 DEF Appearing, Leaving, Forgotten

(* When all is quiet, a control point that has been there since the device *)
(* was started has it in its list while the device runs, and not when it   *)
(* has stopped, although a datagram or a download may have been lost;      *)
(* whatever devices, embedded devices and services there are, and however  *)
(* many starts, searches and downloads (BrisaSSDPServer::doNotify and      *)
(* doByeBye, BrisaSSDPClient::notifyReceived, replyFinished).              *)
THEOREM ViewsAreRight == DiscoverySpec => []ViewRight
  <1>1. DiscoveryInit => DIInv
    BY ConstantsAssumption, DIInit
  <1>2. DIInv /\ [DiscoveryNext]_(discovery_vars) => DIInv'
    BY ConstantsAssumption, DINext
  <1>3. DIInv => ViewRight
    BY ConstantsAssumption, DIViewRight
  <1>4. QED
    BY <1>1, <1>2, <1>3, PTL DEF DiscoverySpec
=============================================================================
