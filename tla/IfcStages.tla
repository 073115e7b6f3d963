------------------------------ MODULE IfcStages ------------------------------
(***************************************************************************)
(* The command stream of the in-flash-computing controller: which commands *)
(* a platform is given, through which stages each command goes, and which  *)
(* flash resources a stage reserves.  The C event backend, its C++ mirror  *)
(* and the SystemC component model all schedule this same stream with      *)
(* these same rules, so the definitions are kept here and shared.          *)
(*                                                                         *)
(* Commands are numbered from 1 (the code: from 0), stages from 0 as in    *)
(* the code.                                                               *)
(***************************************************************************)
EXTENDS Integers, Sequences

CONSTANTS
  IFC_SAMPLE_TILES,                   \* tiles in the sample stream (16)
  IFC_READ_SLICES_PER_REQUEST,        \* slices of one page read (4)
  IFC_SSDSIM_MAX_CHANNELS,            \* array bounds of the resource tables
  IFC_SSDSIM_MAX_CHIPS_PER_CHANNEL,
  IFC_SSDSIM_MAX_DIES_PER_CHIP,
  IFC_SSDSIM_MAX_PLANES_PER_DIE,
  IFC_SSDSIM_MAX_COMMANDS             \* capacity of the command array (4096)

ASSUME LimitsAssumption ==
  /\ IFC_SAMPLE_TILES \in Nat \ {0}
  /\ IFC_READ_SLICES_PER_REQUEST \in Nat \ {0}
  /\ IFC_SSDSIM_MAX_CHANNELS \in Nat \ {0}
  /\ IFC_SSDSIM_MAX_CHIPS_PER_CHANNEL \in Nat \ {0}
  /\ IFC_SSDSIM_MAX_DIES_PER_CHIP \in Nat \ {0}
  /\ IFC_SSDSIM_MAX_PLANES_PER_DIE \in Nat \ {0}
  /\ IFC_SSDSIM_MAX_COMMANDS \in Nat \ {0}

-----------------------------------------------------------------------------
(* Platforms and timings, as far as the scheduling depends on them.        *)

Platform == [channels : Int, chips_per_channel : Int,
             dies_per_chip : Int, planes_per_die : Int]

PlatformSupported(p) ==
  /\ p.channels \in 1..IFC_SSDSIM_MAX_CHANNELS
  /\ p.chips_per_channel \in 1..IFC_SSDSIM_MAX_CHIPS_PER_CHANNEL
  /\ p.dies_per_chip \in 1..IFC_SSDSIM_MAX_DIES_PER_CHIP
  /\ p.planes_per_die \in 1..IFC_SSDSIM_MAX_PLANES_PER_DIE

StageNames == {"CA_TRANSFER", "VECTOR_TRANSFER", "ARRAY_READ",
               "IFC_COMPUTE", "DATA_TRANSFER"}

(* The cycles each stage takes.  ceil_cycles rounds up and never returns   *)
(* less than one cycle.                                                    *)
Timing == [StageNames -> Nat \ {0}]

-----------------------------------------------------------------------------
(* Commands.  arrival_cycle is a field the loops test; the builder sets it *)
(* to 0 in every command.                                                  *)

Command ==
  [opcode : {"READ_COMPUTE", "READ_SLICE"},
   logical_id : Nat, slice_id : Int,
   channel : 0..(IFC_SSDSIM_MAX_CHANNELS - 1),
   chip : 0..(IFC_SSDSIM_MAX_CHIPS_PER_CHANNEL - 1),
   die : 0..(IFC_SSDSIM_MAX_DIES_PER_CHIP - 1),
   plane : 0..(IFC_SSDSIM_MAX_PLANES_PER_DIE - 1),
   arrival_cycle : {0}]

StagesOf(opcode) ==
  IF opcode = "READ_COMPUTE"
  THEN <<"CA_TRANSFER", "VECTOR_TRANSFER", "ARRAY_READ", "IFC_COMPUTE">>
  ELSE <<"CA_TRANSFER", "DATA_TRANSFER">>

StageCount(c) == Len(StagesOf(c.opcode))

(* The stage a command is in at stage index s, s < StageCount(c).          *)
StageOf(c, s) == StagesOf(c.opcode)[s + 1]

IsTransfer(stage) == stage \in {"CA_TRANSFER", "VECTOR_TRANSFER", "DATA_TRANSFER"}

-----------------------------------------------------------------------------
(* Resources.  The four tables channel_active, chip_active, plane_active   *)
(* and compute_active are one table here, indexed by resource names.       *)

ChannelOf(c) == <<"channel", c.channel, -1, -1, -1>>
ChipOf(c)    == <<"chip", c.channel, c.chip, -1, -1>>
ComputeOf(c) == <<"compute", c.channel, c.chip, c.die, -1>>
PlaneOf(c)   == <<"plane", c.channel, c.chip, c.die, c.plane>>

AllResources ==
  UNION { {ChannelOf(c), ChipOf(c), ComputeOf(c), PlaneOf(c)} :
          c \in [channel : 0..(IFC_SSDSIM_MAX_CHANNELS - 1),
                 chip : 0..(IFC_SSDSIM_MAX_CHIPS_PER_CHANNEL - 1),
                 die : 0..(IFC_SSDSIM_MAX_DIES_PER_CHIP - 1),
                 plane : 0..(IFC_SSDSIM_MAX_PLANES_PER_DIE - 1)] }

(* Fault: the array read does not hold its chip.                           *)
NeedsReadWithoutChip(c, s) ==
  LET stage == StageOf(c, s)
  IN  IF IsTransfer(stage)        THEN {ChannelOf(c), ChipOf(c)}
      ELSE IF stage = "ARRAY_READ" THEN {PlaneOf(c)}
      ELSE {ChipOf(c), PlaneOf(c), ComputeOf(c)}

(* What stage s of command c must find free and then holds.  Every stage   *)
(* holds the chip.                                                         *)
Needs(c, s) ==
  LET stage == StageOf(c, s)
  IN  IF IsTransfer(stage)        THEN {ChannelOf(c), ChipOf(c)}
      ELSE IF stage = "ARRAY_READ" THEN {ChipOf(c), PlaneOf(c)}
      ELSE {ChipOf(c), PlaneOf(c), ComputeOf(c)}

SameChip(c, d) == c.channel = d.channel /\ c.chip = d.chip

-----------------------------------------------------------------------------
(* The latest of some times.                                               *)
Latest(T) == CHOOSE t \in T : \A u \in T : u <= t

-----------------------------------------------------------------------------
(* event_build_commands.  Its nested loops append, for every group of      *)
(* IFC_READ_SLICES_PER_REQUEST tiles, one READ_COMPUTE per tile and        *)
(* channel, then one READ_SLICE per slice and channel on the chip and die  *)
(* of the group's last tile and on the plane after its plane.  CommandAt   *)
(* is the n-th command appended (module CommandBuilder runs the loops).    *)

CommandCount(p) ==
  LET tiles  == IFC_SAMPLE_TILES
      slices == (IFC_SAMPLE_TILES \div IFC_READ_SLICES_PER_REQUEST)
                  * IFC_READ_SLICES_PER_REQUEST
  IN  (tiles + slices) * p.channels

CommandAt(p, n) ==
  LET S         == IFC_READ_SLICES_PER_REQUEST
      half      == S * p.channels        \* commands of one kind in a group
      group     == (n - 1) \div (2 * half)
      offset    == (n - 1) % (2 * half)
      compute   == offset < half
      tile      == IF compute THEN group * S + offset \div p.channels
                              ELSE group * S + S - 1
      plane     == (tile \div (p.chips_per_channel * p.dies_per_chip))
                     % p.planes_per_die
  IN  [opcode     |-> IF compute THEN "READ_COMPUTE" ELSE "READ_SLICE",
       logical_id |-> IF compute THEN tile ELSE group,
       slice_id   |-> IF compute THEN -1 ELSE (offset - half) \div p.channels,
       channel    |-> offset % p.channels,
       chip       |-> tile % p.chips_per_channel,
       die        |-> (tile \div p.chips_per_channel) % p.dies_per_chip,
       plane      |-> IF compute THEN plane ELSE (plane + 1) % p.planes_per_die,
       arrival_cycle |-> 0]

BuildCommands(p) == [n \in 1..CommandCount(p) |-> CommandAt(p, n)]

(* event_append_command refuses a command beyond the array's capacity.     *)
BuildFails(p) == CommandCount(p) > IFC_SSDSIM_MAX_COMMANDS
=============================================================================
