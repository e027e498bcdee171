----------------------------- MODULE BoundedFifo -----------------------------
(***************************************************************************)
(* What a ring buffer promises its two users: a queue of at most Capacity  *)
(* bytes.  The producer appends a burst that fits, the consumer takes a    *)
(* burst from the front, and nothing is lost, repeated or reordered.  The  *)
(* promise holds until the consumer has gone: then nothing more is handed  *)
(* over, and nothing is said of the queue any more.                        *)
(***************************************************************************)
EXTENDS Naturals, Sequences

CONSTANTS
  Capacity,   \* the number of bytes the queue may hold
  Byte        \* the values a byte takes

VARIABLES
  queue,      \* bytes written and not read yet, oldest first
  out,        \* the burst handed to the consumer by the last read
  gone        \* there is no consumer any more

Init ==
  /\ queue = << >>
  /\ out = << >>
  /\ gone = FALSE

(* A burst is appended: the old contents are a prefix of the new ones.     *)
Put ==
  /\ ~gone
  /\ Len(queue) < Len(queue')
  /\ Len(queue') <= Capacity
  /\ \A i \in 1..Len(queue) : queue'[i] = queue[i]
  /\ UNCHANGED << out, gone >>

(* The n oldest bytes leave, in order, and are what the consumer gets.     *)
Take(n) ==
  /\ ~gone
  /\ out' = [i \in 1..n |-> queue[i]]
  /\ queue' = [i \in 1..(Len(queue) - n) |-> queue[i + n]]
  /\ UNCHANGED gone

(* The consumer leaves, in the middle of a read too: what it has got by    *)
(* then are again the oldest bytes.                                        *)
Leave(n) ==
  /\ ~gone /\ gone' = TRUE
  /\ \/ out' = [i \in 1..n |-> queue[i]]
     \/ UNCHANGED << out, queue >>

(* Nobody is there to be handed anything.                                  *)
Alone ==
  /\ gone /\ gone' = TRUE
  /\ out' \in {out, << >>}

Next ==
  \/ Put
  \/ \E n \in 1..Len(queue) : Take(n)
  \/ \E n \in 0..Len(queue) : Leave(n)
  \/ Alone

Spec == Init /\ [][Next]_<<queue, out, gone>>
=============================================================================
