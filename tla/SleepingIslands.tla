--------------------------- MODULE SleepingIslands ---------------------------
(***************************************************************************)
(* What the sleeping of cpSpace promises: bodies sleep in islands, and an  *)
(* island falls asleep and wakes as a whole.  A body may be put to sleep   *)
(* into an island, but none leaves an island that goes on sleeping.        *)
(***************************************************************************)
CONSTANT Body

VARIABLE islands     \* the sets of bodies that sleep together

Sleeping == UNION islands

Init == islands = {}

\* Islands of awake bodies fall asleep.
FallAsleep(New) ==
  /\ \A I \in New : I # {} /\ I \cap Sleeping = {}
  /\ \A I, J \in New : I # J => I \cap J = {}
  /\ islands' = islands \cup New

\* An awake body is put to sleep with an island.
Join(b, I) ==
  /\ b \notin Sleeping /\ I \in islands
  /\ islands' = (islands \ {I}) \cup {I \cup {b}}

\* Islands wake.
WakeUp(Old) == Old \subseteq islands /\ islands' = islands \ Old

Next ==
  \/ \E New \in SUBSET SUBSET Body : FallAsleep(New)
  \/ \E b \in Body, I \in islands : Join(b, I)
  \/ \E Old \in SUBSET islands : WakeUp(Old)

Spec == Init /\ [][Next]_islands
=============================================================================
