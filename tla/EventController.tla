--------------------------- MODULE EventController ---------------------------
(***************************************************************************)
(* Subscriptions to a service and the events they get:                     *)
(* BrisaEventController with its list of BrisaEventSubscription objects.   *)
(*                                                                         *)
(* SUBSCRIBE and UNSUBSCRIBE requests run in the threads of the HTTP       *)
(* sessions; a state variable changes, and variableChanged walks the list,  *)
(* in Main.  No lock protects the list or the subscriptions: an operation  *)
(* on the list has a step in which it begins, with the list as it is then, *)
(* and one in which it ends; so has the making of an event's key.          *)
(*                                                                         *)
(* Every event travels on a TCP connection of its own, so events may       *)
(* overtake each other; a control point goes by their keys.  What it knows *)
(* in the end is in the newest event sent, the only one kept here.         *)
(***************************************************************************)
EXTENDS Integers, SequencesExt

CONSTANTS
  Threads,     \* the threads of the sessions: one, unless setThreadsNumber is called
  Sids,        \* the subscriptions control points ask for, each once
  Timeouts,    \* what they ask for, in seconds or Infinite
  Infinite,    \* the word "infinite"
  LastKey,     \* the greatest SEQ, 0xFFFFFFFF in the code
  MaxTime,     \* bound: seconds
  MaxChanges   \* bound: changes of the variable

ASSUME SidsAssumption == IsFiniteSet(Sids)
ASSUME TimeoutAssumption == Timeouts \subseteq Nat \cup {Infinite} /\ Infinite \notin Int
ASSUME LimitAssumption ==
  LastKey \in Nat \ {0} /\ MaxTime \in Nat /\ MaxChanges \in Nat

VARIABLES
  now,            \* the clock
  value,          \* the version of the variable's value
  subscriptions,  \* the list, of sids
  sub,            \* per sid: the object and what it has sent, if it exists
  visit,          \* variableChanged: its iterator, 0 if it is not running
  making,         \* and where it is with the event for the one it has come to
  at,             \* where each session thread is in subscribe() or unsubscribe()
  overlapped,     \* history: two operations on the list have overlapped
  crashed         \* freed memory was touched, or the list holds garbage

vars == << now, value, subscriptions, sub, visit, making, at, overlapped, crashed >>
list == << subscriptions, overlapped >>

NoSubscription == [exists |-> FALSE, used |-> FALSE]
Ended == [exists |-> FALSE, used |-> TRUE]
NoEvent == [nth |-> 0]
Nobody == [step |-> "idle"]
Exists(s) == sub[s].exists

Init ==
  /\ now = 0 /\ value = 0
  /\ subscriptions = << >>
  /\ sub = [s \in Sids |-> NoSubscription]
  /\ visit = 0 /\ making = Nobody
  /\ at = [th \in Threads |-> Nobody]
  /\ overlapped = FALSE /\ crashed = FALSE
-----------------------------------------------------------------------------
(* getTimeOut: what is not a number becomes 0.                             *)
getTimeOut(t) == IF t = Infinite THEN 0 ELSE t

hasExpired(s) == sub[s].timeout >= 0 /\ now - sub[s].date >= sub[s].timeout

(* getNextSeq reads the object x ...                                       *)
Reading(x) == [first |-> x.firstMessageSent, lastSeq |-> x.lastSeq, made |-> x.made]

(* Fault: the keys go round to 0.                                          *)
Fault_getNextSeq(r) ==
  IF ~r.first THEN 0
  ELSE (r.lastSeq + 1) % (LastKey + 1)

(* ... and returns the key that follows from the reading r.                *)
getNextSeq(r) ==
  IF ~r.first THEN 0
  ELSE (IF r.lastSeq = LastKey THEN 0 ELSE r.lastSeq) + 1

(* A new subscription.  Besides the members of the object: how many        *)
(* events were made, the newest event sent, whether variableChanged has    *)
(* passed over it, whether an event was made for it in the middle of the   *)
(* SUBSCRIBE, and whether a key was made from an outdated reading.         *)
BrisaEventSubscription(t) ==
  [exists |-> TRUE, date |-> now, timeout |-> getTimeOut(t), lastSeq |-> 0,
   firstMessageSent |-> FALSE, made |-> 0, newest |-> NoEvent,
   passed |-> FALSE, early |-> FALSE, mixed |-> FALSE]

(* Fault: it is not noted that the first event has been made.              *)
Fault_Made(x, r) == [x EXCEPT !.made = @ + 1, !.lastSeq = getNextSeq(r)]

(* x after an event has been made for it from the reading r: what          *)
(* getNextSeq writes does not depend on what x has become since ...        *)
Made(x, r) == [x EXCEPT !.firstMessageSent = TRUE, !.made = @ + 1,
                        !.lastSeq = IF r.first THEN getNextSeq(r) ELSE @,
                        !.mixed = @ \/ r.made # x.made]

(* What the nth event says, written when it is sent: the values are those  *)
(* of now, of the one variable that has changed or of the whole service.   *)
getRequestMessage(nth, key, whole) ==
  [nth |-> nth, key |-> key, value |-> value, whole |-> whole]

(* ... and after the nth event has been sent.                              *)
Sent(x, nth, key, whole) ==
  IF nth > x.newest.nth
  THEN [x EXCEPT !.newest = getRequestMessage(nth, key, whole)]
  ELSE x

(* sub when variableChanged passes over the subscription at i, if any.     *)
Passing(i, f) ==
  IF i \in 1..Len(subscriptions) /\ Exists(subscriptions[i])
  THEN [f EXCEPT ![subscriptions[i]].passed = TRUE]
  ELSE f

Running == ~crashed

(* The list holds an object that is deleted: who goes through it, touches  *)
(* freed memory.                                                           *)
Dangling == \E s \in ToSet(subscriptions) : ~Exists(s)
Crash ==
  /\ crashed' = TRUE
  /\ UNCHANGED << now, value, list, sub, visit, making, at >>

(* A session thread in the list while variableChanged walks it: what the   *)
(* walk points at may be freed.                                            *)
MayCollide == crashed' \in { FALSE, visit # 0 }

(* An operation on the list that began with the list seen ends, and makes  *)
(* it right.  If the list has changed since, each of the two operations    *)
(* may be lost, this one and the other; any other list they leave          *)
(* (an element twice, garbage for a pointer) is a crash.                   *)
EndsWith(right, seen, stale) ==
  /\ subscriptions' \in IF seen = subscriptions THEN {right}
                        ELSE {right, subscriptions, seen, stale}
  /\ overlapped' = (overlapped \/ seen # subscriptions)
  /\ crashed' \in { FALSE, visit # 0 \/ seen # subscriptions }

(* QList closes the gap of a removed element i from the nearer end.  The   *)
(* iterator of variableChanged is an address: what was before it may come  *)
(* to be under it, or what was under it slip in front of it.               *)
ClosedFromFront(i) == i - 1 < Len(subscriptions) - (i - 1)
AfterRemoval(v, i) == IF ClosedFromFront(i) THEN v - 1 ELSE v

-----------------------------------------------------------------------------
(* The session threads.  subscribe() makes a new subscription and begins   *)
(* to append it ...                                                        *)
subscribe(th, s, t) ==
  /\ Running /\ at[th] = Nobody
  /\ sub[s] = NoSubscription
  /\ sub' = [sub EXCEPT ![s] = BrisaEventSubscription(t)]
  /\ at' = [at EXCEPT ![th] = [step |-> "append", sid |-> s, seen |-> subscriptions]]
  /\ UNCHANGED << now, value, list, visit, making, crashed >>

(* ... has appended it, and answers ...                                    *)
subscribe_append(th) ==
  /\ Running
  /\ at[th].step = "append"
  /\ LET s == at[th].sid
         seen == at[th].seen
     IN  /\ EndsWith(Append(subscriptions, s), seen, Append(seen, s))
         /\ at' = [at EXCEPT ![th] = [step |-> "read", sid |-> s]]
  /\ UNCHANGED << now, value, sub, visit, making >>

(* ... begins to take a key for the first event ...                        *)
subscribe_read(th) ==
  /\ Running
  /\ at[th].step = "read"
  /\ LET s == at[th].sid
     IN  IF Exists(s)
         THEN /\ at' = [at EXCEPT ![th] = [step |-> "write", sid |-> s,
                                         reading |-> Reading(sub[s])]]
              /\ UNCHANGED << now, value, list, sub, visit, making, crashed >>
         ELSE Crash

(* ... has it ...                                                          *)
subscribe_message(th) ==
  /\ Running
  /\ at[th].step = "write"
  /\ LET s == at[th].sid
         r == at[th].reading
     IN  IF Exists(s)
         THEN /\ sub' = [sub EXCEPT ![s] = Made(@, r)]
              /\ at' = [at EXCEPT ![th] = [step |-> "send", sid |-> s,
                               key |-> getNextSeq(r), nth |-> sub[s].made + 1]]
              /\ UNCHANGED << now, value, list, visit, making, crashed >>
         ELSE Crash

(* ... and sends all variables as they are by then.                        *)
subscribe_send(th) ==
  /\ Running
  /\ at[th].step = "send"
  /\ LET s == at[th].sid
     IN  IF Exists(s)
         THEN /\ sub' = [sub EXCEPT ![s] = Sent(@, at[th].nth, at[th].key, TRUE)]
              /\ at' = [at EXCEPT ![th] = Nobody]
              /\ UNCHANGED << now, value, list, visit, making, crashed >>
         ELSE Crash

(* The answer with the SID leaves the socket only when subscribe() is over:*)
(* until then the control point cannot use it.                             *)
InSubscribe(th, s) == at[th].step \in {"append", "read", "write", "send"} /\ at[th].sid = s
Known(s) == s \in ToSet(subscriptions) /\ \A th \in Threads : ~InSubscribe(th, s)

(* A SUBSCRIBE with a SID, of this session or of another, renews.          *)
renewed(x, t) == [x EXCEPT !.date = now, !.timeout = getTimeOut(t)]
renew(th, s, t) ==
  /\ Running /\ at[th] = Nobody
  /\ Known(s)
  /\ IF Dangling THEN Crash
     ELSE /\ sub' = [sub EXCEPT ![s] = renewed(@, t)]
          /\ MayCollide
          /\ UNCHANGED << now, value, list, visit, making, at >>

Place(s) == CHOOSE i \in 1..Len(subscriptions) : subscriptions[i] = s

(* Fault: the object is deleted and stays in the list.                     *)
Fault_unsubscribe(th, s) ==
  /\ Running /\ at[th] = Nobody
  /\ Known(s) /\ ~Dangling
  /\ sub' = [sub EXCEPT ![s] = Ended]
  /\ MayCollide
  /\ UNCHANGED << now, value, list, visit, making, at >>

(* unsubscribe() finds the subscription and deletes the object ...         *)
unsubscribe(th, s) ==
  /\ Running /\ at[th] = Nobody
  /\ Known(s)
  /\ IF Dangling THEN Crash
     ELSE /\ sub' = [sub EXCEPT ![s] = Ended]
          /\ at' = [at EXCEPT ![th] = [step |-> "remove", sid |-> s,
                                     place |-> Place(s), seen |-> subscriptions]]
          /\ MayCollide
          /\ UNCHANGED << now, value, list, visit, making >>

(* ... and removes what is at its place by then, if that is in the list.   *)
RemovedAt(l, i) == IF i \in 1..Len(l) THEN RemoveAt(l, i) ELSE l
unsubscribe_removeAt(th) ==
  /\ Running
  /\ at[th].step = "remove"
  /\ LET i == at[th].place
         seen == at[th].seen
     IN  /\ EndsWith(RemovedAt(subscriptions, i), seen, RemoveAt(seen, i))
         /\ sub' = IF ~ClosedFromFront(i) /\ visit > i THEN Passing(visit, sub) ELSE sub
         /\ visit' = IF visit > 1 THEN AfterRemoval(visit, i) ELSE visit
  /\ at' = [at EXCEPT ![th] = Nobody]
  /\ UNCHANGED << now, value, making >>

-----------------------------------------------------------------------------
(* Main.  A state variable changes, and variableChanged begins.            *)
Change ==
  /\ Running
  /\ visit = 0
  /\ value < MaxChanges
  /\ value' = value + 1
  /\ visit' = 1
  /\ UNCHANGED << now, list, sub, making, at, crashed >>

(* The walk has come to a subscription.                                    *)
Visiting == Running /\ making = Nobody /\ visit \in 1..Len(subscriptions)

(* variableChanged comes to an unexpired one and begins to take a key for  *)
(* an event with the new value ...                                         *)
Notify_read ==
  /\ Visiting
  /\ LET s == subscriptions[visit]
     IN  IF ~Exists(s) THEN Crash
         ELSE /\ ~hasExpired(s)
              /\ making' = [step |-> "write", sid |-> s, reading |-> Reading(sub[s])]
              /\ sub' = [sub EXCEPT ![s].early =
                           @ \/ \E th \in Threads : at[th].step \in {"read", "write"}
                                                  /\ at[th].sid = s]
              /\ UNCHANGED << now, value, list, visit, at, crashed >>

(* ... has it, and sends the event, to the address of what is under the    *)
(* iterator by then: to the subscription; or to another one, for which it  *)
(* is not, and the walk goes on behind that one; or nowhere.               *)
Notify ==
  /\ Running /\ making # Nobody
  /\ LET s == making.sid
         r == making.reading
         x == Made(sub[s], r)
     IN  IF Exists(s) /\ visit \in 1..Len(subscriptions) /\ Exists(subscriptions[visit])
         THEN /\ sub' = IF subscriptions[visit] = s
                        THEN [sub EXCEPT ![s] = Sent([x EXCEPT !.passed = FALSE],
                                                     x.made, getNextSeq(r), FALSE)]
                        ELSE Passing(visit, [sub EXCEPT ![s] = [x EXCEPT !.passed = TRUE]])
              /\ visit' = visit + 1
              /\ making' = Nobody
              /\ UNCHANGED << now, value, list, at, crashed >>
         ELSE Crash

(* Fault: the walk ends at the first expired subscription.                 *)
Fault_Erase ==
  /\ Visiting
  /\ Exists(subscriptions[visit]) /\ hasExpired(subscriptions[visit])
  /\ sub' = [sub EXCEPT ![subscriptions[visit]] = Ended]
  /\ subscriptions' = RemoveAt(subscriptions, visit)
  /\ visit' = 0
  /\ UNCHANGED << now, value, making, at, overlapped, crashed >>

(* An expired one is erased, and the iterator advanced all the same: when  *)
(* the gap is closed from behind, it passes over the next element, or over *)
(* the end of the list.                                                    *)
Erase ==
  /\ Visiting
  /\ Exists(subscriptions[visit]) /\ hasExpired(subscriptions[visit])
  /\ sub' = [(IF ClosedFromFront(visit) THEN sub ELSE Passing(visit + 1, sub))
               EXCEPT ![subscriptions[visit]] = Ended]
  /\ subscriptions' = RemoveAt(subscriptions, visit)
  /\ visit' = AfterRemoval(visit, visit) + 1
  /\ UNCHANGED << now, value, making, at, overlapped, crashed >>

(* Beyond the end of the list the walk goes on into what is not the list.  *)
EndOfList ==
  /\ Running /\ making = Nobody
  /\ visit > Len(subscriptions)
  /\ visit' = 0
  /\ crashed' = (visit > Len(subscriptions) + 1)
  /\ UNCHANGED << now, value, list, sub, making, at >>

-----------------------------------------------------------------------------
Tick ==
  /\ Running
  /\ now < MaxTime
  /\ now' = now + 1
  /\ UNCHANGED << value, list, sub, visit, making, at, crashed >>

Subscribe(th) ==
  \/ subscribe_append(th) \/ subscribe_read(th)
  \/ subscribe_message(th) \/ subscribe_send(th)
Unsubscribe(th) == (\E s \in Sids : unsubscribe(th, s)) \/ unsubscribe_removeAt(th)
VariableChanged == Notify_read \/ Notify \/ Erase \/ EndOfList

SessionThread(th) ==
  \/ \E s \in Sids, t \in Timeouts : subscribe(th, s, t) \/ renew(th, s, t)
  \/ Subscribe(th)
  \/ Unsubscribe(th)

Next ==
  \/ \E th \in Threads : SessionThread(th)
  \/ Change
  \/ VariableChanged
  \/ Tick

Spec == Init /\ [][Next]_vars
-----------------------------------------------------------------------------
TypeOK ==
  /\ now \in 0..MaxTime /\ value \in 0..MaxChanges
  /\ subscriptions \in Seq(Sids)
  /\ \A s \in Sids : Exists(s) => sub[s].lastSeq \in 0..LastKey
  /\ visit \in 0..Cardinality(Sids) + 2
  /\ making.step \in {"idle", "write"}
  /\ \A th \in Threads :
       at[th].step \in {"idle", "append", "read", "write", "send", "remove"}
  /\ {overlapped, crashed} \subseteq BOOLEAN

(* The list at a moment when threads are in the middle of an operation on  *)
(* it: without what is being appended, with what is being removed.         *)
Listed(s) ==
  \/ Exists(s) /\ ~ \E th \in Threads : at[th].step = "append" /\ at[th].sid = s
  \/ \E th \in Threads : at[th].step = "remove" /\ at[th].sid = s

(* The types hold; nothing is in the list twice; and as long as no two     *)
(* operations on the list have overlapped, the list and the objects agree, *)
(* whatever renewals, cancellations, expiries and walks there were: nobody *)
(* is lost, and nothing that is deleted is left in it.                     *)
ListSound ==
  /\ TypeOK
  /\ IsInjective(subscriptions)
  /\ ~overlapped => ToSet(subscriptions) = { s \in Sids : Listed(s) }

Announced(s) == Exists(s) /\ sub[s].newest # NoEvent

(* The keys of a subscription are 0, 1, 2, ... LastKey, 1, 2, ..., whichever*)
(* thread makes the events, unless two threads were making an event for it *)
(* at the same time.                                                       *)
KeysInOrder ==
  \A s \in Sids :
    Announced(s) /\ ~sub[s].mixed =>
      LET e == sub[s].newest
      IN  e.key = IF e.nth = 1 THEN 0 ELSE ((e.nth - 2) % LastKey) + 1

(* An event with key 0 is the one that tells all variables, unless a       *)
(* variable has changed in the middle of the SUBSCRIBE.                    *)
FirstTellsAll ==
  \A s \in Sids :
    Announced(s) /\ sub[s].newest.key = 0 => sub[s].newest.whole \/ sub[s].early

(* When all threads are at rest every subscriber has been sent the latest  *)
(* value, also across expiries, renewals and changes in the middle of a    *)
(* SUBSCRIBE: only an iterator that passed over it, a crash, or threads    *)
(* that met in the list or in its keys keep it from a subscriber.          *)
SubscriberLearns ==
  visit = 0 /\ at = [th \in Threads |-> Nobody] /\ ~crashed /\ ~overlapped =>
    \A s \in ToSet(subscriptions) :
      ~hasExpired(s) /\ ~sub[s].passed /\ ~sub[s].mixed => sub[s].newest.value = value
=============================================================================
