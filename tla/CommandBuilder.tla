---------------------------- MODULE CommandBuilder ----------------------------
(***************************************************************************)
(* event_build_commands of ssdsim_ifc.c: the nested loops that append the  *)
(* command stream to an array of fixed capacity.  The other modules take   *)
(* the stream in closed form, as BuildCommands of IfcStages; here it is    *)
(* built as the code builds it, one event_append_command a step.           *)
(***************************************************************************)
EXTENDS CommandStream

VARIABLES
  platform,
  tile_id, slice_id, channel    \* the loop variables

bvars == <<platform, commands, tile_id, slice_id, channel, pc>>

(* It is called for supported platforms only.  commands is what has been   *)
(* appended, pc the inner loop, or how the function returned.              *)
BuilderInit ==
  /\ platform \in Platforms /\ PlatformSupported(platform)
  /\ commands = << >>
  /\ tile_id = 0 /\ slice_id = 0 /\ channel = 0
  /\ pc = "read_compute"

(* Fault: the die is taken from the tile itself.                           *)
DieOfTile == tile_id % platform.dies_per_chip

(* Where a tile is: chips first, then dies, then planes.                   *)
Chip  == tile_id % platform.chips_per_channel
Die   == (tile_id \div platform.chips_per_channel) % platform.dies_per_chip
Plane == (tile_id \div (platform.chips_per_channel * platform.dies_per_chip))
           % platform.planes_per_die

(* event_append_command: FALSE if the array is full.                       *)
Fits == Len(commands) < IFC_SSDSIM_MAX_COMMANDS

AppendCommand(opcode, logical_id, slice, plane) ==
  commands' = Append(commands,
    [opcode |-> opcode, logical_id |-> logical_id, slice_id |-> slice,
     channel |-> channel, chip |-> Chip, die |-> Die, plane |-> plane,
     arrival_cycle |-> 0])

ReadCompute ==
  /\ pc = "read_compute" /\ channel < platform.channels
  /\ IF Fits
     THEN /\ AppendCommand("READ_COMPUTE", tile_id, -1, Plane)
          /\ channel' = channel + 1
          /\ UNCHANGED pc
     ELSE /\ pc' = "full"
          /\ UNCHANGED <<commands, channel>>
  /\ UNCHANGED <<platform, tile_id, slice_id>>

NextTile ==
  /\ tile_id' = tile_id + 1
  /\ pc' = IF tile_id + 1 < IFC_SAMPLE_TILES THEN "read_compute" ELSE "ok"

(* After the last tile of a group come the slices of the next plane.       *)
EndTile ==
  /\ pc = "read_compute" /\ channel >= platform.channels
  /\ channel' = 0
  /\ IF (tile_id + 1) % IFC_READ_SLICES_PER_REQUEST = 0
     THEN pc' = "read_slice" /\ UNCHANGED tile_id
     ELSE NextTile
  /\ slice_id' = 0
  /\ UNCHANGED <<platform, commands>>

ReadSlice ==
  /\ pc = "read_slice" /\ channel < platform.channels
  /\ IF Fits
     THEN /\ AppendCommand("READ_SLICE", tile_id \div IFC_READ_SLICES_PER_REQUEST, slice_id,
                     (Plane + 1) % platform.planes_per_die)
          /\ channel' = channel + 1
          /\ UNCHANGED pc
     ELSE /\ pc' = "full"
          /\ UNCHANGED <<commands, channel>>
  /\ UNCHANGED <<platform, tile_id, slice_id>>

EndSlice ==
  /\ pc = "read_slice" /\ channel >= platform.channels
  /\ channel' = 0
  /\ slice_id' = slice_id + 1
  /\ IF slice_id + 1 < IFC_READ_SLICES_PER_REQUEST
     THEN UNCHANGED <<tile_id, pc>>
     ELSE NextTile
  /\ UNCHANGED <<platform, commands>>

BuilderReturned == pc \in {"ok", "full"}

BuilderTerminated == BuilderReturned /\ UNCHANGED bvars

BuilderNext == ReadCompute \/ EndTile \/ ReadSlice \/ EndSlice \/ BuilderTerminated

BuilderSpec == BuilderInit /\ [][BuilderNext]_bvars

-----------------------------------------------------------------------------
(* Properties.                                                             *)

(* Every variable has its type.                                            *)
BuilderTypeOK ==
  /\ platform \in Platforms
  /\ commands \in Seq(Command) /\ Len(commands) <= IFC_SSDSIM_MAX_COMMANDS
  /\ tile_id \in 0..IFC_SAMPLE_TILES
  /\ slice_id \in 0..IFC_READ_SLICES_PER_REQUEST
  /\ channel \in 0..platform.channels
  /\ pc \in {"read_compute", "read_slice", "ok", "full"}

(* The loops append exactly the stream the backends are modelled with: the *)
(* n-th command appended is CommandAt(n), whatever the platform, and the   *)
(* array is refused exactly when the whole stream does not fit.            *)
BuildsStream ==
  /\ \A n \in DOMAIN commands : commands[n] = CommandAt(platform, n)
  /\ pc = "ok" => commands = BuildCommands(platform) /\ ~BuildFails(platform)
  /\ pc = "full" => BuildFails(platform)
=============================================================================
