----------------------------- MODULE ChipService -----------------------------
(***************************************************************************)
(* What every backend promises of the command stream, without clocks,      *)
(* passes or queues between modules: each command runs its stages one at a *)
(* time, stages that run together never share a resource, and each chip    *)
(* serves its commands strictly in stream order, one from its first stage  *)
(* to its last before the next one starts.                                 *)
(***************************************************************************)
EXTENDS IfcStages

CONSTANT Platforms    \* platforms the backend may be called with

VARIABLES
  commands,           \* the command stream (empty if the platform is refused)
  stage,              \* per command: the number of stages that have ended
  running             \* the commands that have a stage under way

service == <<commands, stage, running>>

Ended(k) == stage[k] = StageCount(commands[k])

Init ==
  /\ commands \in {BuildCommands(p) : p \in {q \in Platforms : PlatformSupported(q)}}
                     \cup {<< >>}
  /\ stage = [k \in DOMAIN commands |-> 0]
  /\ running = {}

Start(k) ==
  /\ k \notin running /\ ~Ended(k)
  /\ \A j \in running : Needs(commands[j], stage[j]) \cap Needs(commands[k], stage[k]) = {}
  /\ \A j \in DOMAIN commands :
       j < k /\ SameChip(commands[j], commands[k]) => Ended(j)
  /\ running' = running \cup {k}
  /\ UNCHANGED <<commands, stage>>

Finish(k) ==
  /\ k \in running
  /\ running' = running \ {k}
  /\ stage' = [stage EXCEPT ![k] = @ + 1]
  /\ UNCHANGED commands

Next == \E k \in DOMAIN commands : Start(k) \/ Finish(k)

Spec == Init /\ [][Next]_service
=============================================================================
