---------------------------- MODULE PostStepOnce ----------------------------
(***************************************************************************)
(* What cpSpaceAddPostStepCallback() promises: a callback scheduled under  *)
(* a key runs once, later, never inside another one, and only one can be   *)
(* scheduled under a key at a time, the time it runs included.             *)
(***************************************************************************)
CONSTANTS Key, NoKey

VARIABLES pending,     \* the keys whose callbacks wait to run
          running      \* the key whose callback runs, or NoKey

Init == pending = {} /\ running = NoKey

Schedule(k) ==
  /\ k \notin pending /\ k # running
  /\ pending' = pending \cup {k}
  /\ UNCHANGED running

Start(k) ==
  /\ running = NoKey /\ k \in pending
  /\ running' = k
  /\ pending' = pending \ {k}

Finish == running # NoKey /\ running' = NoKey /\ UNCHANGED pending

Next == Finish \/ \E k \in Key : Schedule(k) \/ Start(k)

Spec == Init /\ [][Next]_<<pending, running>>
=============================================================================
