-------------------------- MODULE MCEventController --------------------------
(* Four subscriptions are the fewest of which one can be passed over; for  *)
(* them there is one session thread, and a variable changes once.  When two*)
(* threads meet, two subscriptions are enough; keys up to 1 go round within*)
(* two changes.                                                            *)
EXTENDS EventController, TLC

VARIABLE meeting   \* whether there are several session threads

TheThread == CHOOSE th \in Threads : TRUE
Present == IF meeting THEN Threads ELSE {TheThread}
Used == {s \in Sids : sub[s] # NoSubscription}

MCInit == Init /\ meeting \in BOOLEAN

MCNext ==
  /\ UNCHANGED meeting
  /\ \/ \E th \in Present : SessionThread(th)
     \/ Change
     \/ VariableChanged
     \/ Tick
  /\ IF meeting THEN Cardinality(Used') <= 2 /\ now' = 0 ELSE value' <= 1

MCSpec == MCInit /\ [][MCNext]_<< vars, meeting >>

Interchangeable == Permutations(Sids)
=============================================================================
