----------------------------- MODULE CommandStream -----------------------------
(***************************************************************************)
(* What building a command stream and serving it have in common: the       *)
(* platform's stream, as far as it is built.                               *)
(***************************************************************************)
EXTENDS IfcStages

CONSTANT Platforms    \* platforms a stream may be asked for

ASSUME PlatformsAssumption == Platforms \subseteq Platform

VARIABLES
  commands,           \* the stream
  pc
=============================================================================
