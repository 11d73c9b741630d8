------------------------------ MODULE MCDrains ------------------------------
(* The driver with a memory of the wakes that were left to a turn at work. *)
EXTENDS AgentDriver

VARIABLE left  \* history: messages sent with a wake into an open turn that was live

MCInit == Init /\ left = {}

\* Only followup() and steer() submit a message and leave a frame for its wake.
SentWaking == {m \in unsent \ unsent' : Len(stack') > Len(stack)}

MCNext ==
  /\ Next
  /\ left' = IF LiveDriver /\ pc \in InTurn THEN left \cup SentWaking ELSE left

MCSpec == MCInit /\ [][MCNext]_<<vars, left>>

(* agent.ts:174-175: "Live drivers claim queued work themselves".  A turn  *)
(* that completes lets the driver go only when it has claimed every        *)
(* message whose wake was left to it.                                      *)
LiveDriverDrains ==
  [][(pc \in InTurn /\ pc' = "gapExit" /\ ~openTurn' /\ lastEnd' = "completed") =>
       left \cap Pending = {}]_<<vars, left>>
=============================================================================
