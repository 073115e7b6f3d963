--------------------------- MODULE IfcStagesProofs ---------------------------
(***************************************************************************)
(* Facts about the command stream and the resource rules, for the proofs   *)
(* of the modules that schedule it.                                        *)
(***************************************************************************)
EXTENDS IfcStages, WellFoundedInduction, TLAPS

(* A command has two or four stages, each with a name a timing gives a     *)
(* duration for.                                                           *)
LEMMA StageFacts ==
  ASSUME NEW c
  PROVE  /\ StageCount(c) \in {2, 4}
         /\ \A s \in 0..(StageCount(c) - 1) : StageOf(c, s) \in StageNames
BY DEF StageCount, StageOf, StagesOf, StageNames

(* Every stage reserves the chip, and nothing but the command's own        *)
(* channel, chip, plane and compute core.                                  *)
LEMMA NeedsFacts ==
  ASSUME NEW c, NEW s
  PROVE  /\ ChipOf(c) \in Needs(c, s)
         /\ Needs(c, s) \subseteq {ChannelOf(c), ChipOf(c), PlaneOf(c), ComputeOf(c)}
         /\ s = 0 => Needs(c, s) = {ChannelOf(c), ChipOf(c)}
<1>1. ChipOf(c) \in Needs(c, s) /\ Needs(c, s) \subseteq {ChannelOf(c), ChipOf(c), PlaneOf(c), ComputeOf(c)}
  BY DEF Needs
<1>2. s = 0 => StageOf(c, s) = "CA_TRANSFER"
  BY DEF StageOf, StagesOf
<1>3. s = 0 => Needs(c, s) = {ChannelOf(c), ChipOf(c)}
  BY <1>2 DEF Needs, IsTransfer
<1> QED BY <1>1, <1>3

(* The resources of something placed within the bounds of the resource     *)
(* tables.                                                                 *)
Placed(c) ==
  /\ c.channel \in 0..(IFC_SSDSIM_MAX_CHANNELS - 1)
  /\ c.chip \in 0..(IFC_SSDSIM_MAX_CHIPS_PER_CHANNEL - 1)
  /\ c.die \in 0..(IFC_SSDSIM_MAX_DIES_PER_CHIP - 1)
  /\ c.plane \in 0..(IFC_SSDSIM_MAX_PLANES_PER_DIE - 1)

(* They are entries of the resource tables.                                *)
LEMMA PlacedResources ==
  ASSUME NEW c, Placed(c)
  PROVE  {ChannelOf(c), ChipOf(c), ComputeOf(c), PlaneOf(c)} \subseteq AllResources
<1> DEFINE Place == [channel : 0..(IFC_SSDSIM_MAX_CHANNELS - 1),
                     chip : 0..(IFC_SSDSIM_MAX_CHIPS_PER_CHANNEL - 1),
                     die : 0..(IFC_SSDSIM_MAX_DIES_PER_CHIP - 1),
                     plane : 0..(IFC_SSDSIM_MAX_PLANES_PER_DIE - 1)]
           place == [channel |-> c.channel, chip |-> c.chip,
                     die |-> c.die, plane |-> c.plane]
           Of(d) == {ChannelOf(d), ChipOf(d), ComputeOf(d), PlaneOf(d)}
<1>1. place \in Place
  BY DEF Placed
<1>2. Of(place) \subseteq AllResources
  BY <1>1 DEF AllResources
<1>3. Of(place) = Of(c)
  BY DEF ChannelOf, ChipOf, ComputeOf, PlaneOf
<1> QED BY <1>2, <1>3

(* So is what its stages reserve.                                          *)
LEMMA PlacedNeeds ==
  ASSUME NEW c, NEW s, Placed(c)
  PROVE  Needs(c, s) \subseteq AllResources
BY PlacedResources, NeedsFacts

(* The commands of the stream are placed within the bounds.                *)
LEMMA CommandPlaced ==
  ASSUME NEW c \in Command
  PROVE  Placed(c)
BY DEF Command, Placed

(* The four resources of a command are entries of the resource tables.     *)
LEMMA CommandResources ==
  ASSUME NEW c \in Command
  PROVE  {ChannelOf(c), ChipOf(c), ComputeOf(c), PlaneOf(c)} \subseteq AllResources
BY CommandPlaced, PlacedResources

(* What a command reserves is an entry of the resource tables.             *)
LEMMA NeedsType ==
  ASSUME NEW c \in Command, NEW s
  PROVE  Needs(c, s) \subseteq AllResources
BY CommandPlaced, PlacedNeeds

(* Commands of one chip share its channel too.                             *)
LEMMA SameChipFacts ==
  ASSUME NEW c, NEW d, SameChip(c, d)
  PROVE  ChipOf(c) = ChipOf(d) /\ ChannelOf(c) = ChannelOf(d)
BY DEF SameChip, ChipOf, ChannelOf

(* Two commands that can reserve the same entry, other than a channel, are *)
(* on one chip.                                                            *)
LEMMA SharedNeedSameChip ==
  ASSUME NEW c, NEW d, NEW s, NEW t,
         NEW r \in Needs(c, s), r \in Needs(d, t), r # ChannelOf(c)
  PROVE  SameChip(c, d)
<1>1. r \in {ChipOf(c), PlaneOf(c), ComputeOf(c)}
  BY NeedsFacts
<1>2. r \in {ChannelOf(d), ChipOf(d), PlaneOf(d), ComputeOf(d)}
  BY NeedsFacts
<1> QED BY <1>1, <1>2 DEF ChannelOf, ChipOf, PlaneOf, ComputeOf, SameChip

-----------------------------------------------------------------------------

(* Quotients and remainders by a positive number.                          *)
LEMMA DivMod ==
  ASSUME NEW a \in Nat, NEW b \in Nat \ {0}
  PROVE  a \div b \in Nat /\ a % b \in 0..(b - 1)
OBVIOUS

(* The quotient is the only number whose multiples enclose.                *)
LEMMA QuotientIs ==
  ASSUME NEW a \in Nat, NEW b \in Nat \ {0}, NEW k \in Nat,
         b * k <= a, a < b * k + b
  PROVE  a \div b = k
<1> DEFINE q == a \div b
<1>1. q \in Nat /\ b * q <= a /\ a < b * q + b
  OBVIOUS
<1> HIDE DEF q
<1>2. q >= k + 1 => b * q >= b * k + b
  BY <1>1
<1>3. k >= q + 1 => b * k >= b * q + b
  BY <1>1
<1>4. b * q \in Nat /\ b * k \in Nat
  BY <1>1
<1>5. q = k
  BY <1>1, <1>2, <1>3, <1>4
<1> QED BY <1>5 DEF q

(* A multiple grows by its factor at least.                                *)
LEMMA NextMultiple ==
  ASSUME NEW m \in Nat, NEW j \in Nat, NEW k \in Nat, j < k
  PROVE  m * j + m <= m * k
<1>1. PICK d \in Nat : k = j + 1 + d
  <2>1. k - (j + 1) \in Nat /\ k = j + 1 + (k - (j + 1))
    OBVIOUS
  <2> QED BY <2>1
<1>2. m * (j + 1 + d) = m * j + m + m * d /\ m * d \in Nat
  OBVIOUS
<1>3. m * j \in Nat
  OBVIOUS
<1> QED BY <1>1, <1>2, <1>3

(* A set of natural numbers that is not empty has a least one.             *)
LEMMA LeastOf ==
  ASSUME NEW T \in SUBSET Nat, T # {}
  PROVE  \E n \in T : \A m \in T : n <= m
<1> DEFINE R == {p \in Nat \X Nat : p[1] < p[2]}
<1>1. IsWellFoundedOn(R, Nat)
  BY NatLessThanWellFounded DEF OpToRel
<1>2. \A j, k \in Nat : j < k => <<j, k>> \in R
  OBVIOUS
<1> HIDE DEF R
<1>3. PICK n \in T : \A m \in T : <<m, n>> \notin R
  BY <1>1, WFMin
<1>4. ASSUME NEW m \in T
      PROVE  n <= m
  <2>1. n \in Nat /\ m \in Nat
    OBVIOUS
  <2>2. ~(m < n)
    BY <1>2, <1>3, <2>1
  <2> QED BY <2>1, <2>2
<1> QED BY <1>4

(* Quotients are in the order of their dividends.                          *)
LEMMA DivMonotone ==
  ASSUME NEW a \in Nat, NEW b \in Nat, NEW d \in Nat \ {0}, a <= b
  PROVE  a \div d <= b \div d
<1> DEFINE q == a \div d
           r == b \div d
<1>1. /\ q \in Nat /\ d * q <= a /\ r \in Nat /\ b < d * r + d
  OBVIOUS
<1> HIDE DEF q, r
<1>2. ASSUME r < q PROVE FALSE
  <2>1. d * r + d <= d * q
    BY <1>1, <1>2, NextMultiple
  <2>2. d * r \in Nat /\ d * q \in Nat
    BY <1>1
  <2> QED BY <1>1, <2>1, <2>2
<1> QED BY <1>1, <1>2 DEF q, r

(* The stream of a supported platform is a sequence of commands that fit   *)
(* the resource tables.                                                    *)
LEMMA BuildCommandsType ==
  ASSUME NEW p \in Platform, PlatformSupported(p)
  PROVE  /\ CommandCount(p) \in Nat
         /\ BuildCommands(p) \in Seq(Command)
         /\ Len(BuildCommands(p)) = CommandCount(p)
<1> DEFINE C == p.channels
           S == IFC_READ_SLICES_PER_REQUEST
           G == IFC_SAMPLE_TILES \div S
<1> USE LimitsAssumption
<1>1. /\ C \in Nat \ {0} /\ C <= IFC_SSDSIM_MAX_CHANNELS
      /\ p.chips_per_channel \in Nat \ {0} /\ p.chips_per_channel <= IFC_SSDSIM_MAX_CHIPS_PER_CHANNEL
      /\ p.dies_per_chip \in Nat \ {0} /\ p.dies_per_chip <= IFC_SSDSIM_MAX_DIES_PER_CHIP
      /\ p.planes_per_die \in Nat \ {0} /\ p.planes_per_die <= IFC_SSDSIM_MAX_PLANES_PER_DIE
  BY DEF PlatformSupported
<1>2. G \in Nat
  BY DivMod
<1>3. CommandCount(p) \in Nat
  <2>1. G * S \in Nat
    BY <1>2
  <2>2. IFC_SAMPLE_TILES + G * S \in Nat
    BY <2>1
  <2>3. (IFC_SAMPLE_TILES + G * S) * C \in Nat
    BY <2>2, <1>1
  <2> QED BY <2>3 DEF CommandCount
<1>4. ASSUME NEW n \in 1..CommandCount(p)
      PROVE  CommandAt(p, n) \in Command
  <2> DEFINE half == S * C
             group == (n - 1) \div (2 * half)
             offset == (n - 1) % (2 * half)
             compute == offset < half
             tile == IF compute THEN group * S + offset \div C ELSE group * S + S - 1
             plane == (tile \div (p.chips_per_channel * p.dies_per_chip)) % p.planes_per_die
  <2>1. half \in Nat \ {0} /\ 2 * half \in Nat \ {0} /\ n - 1 \in Nat
    BY <1>1, <1>3
  <2>2. group \in Nat /\ offset \in Nat
    <3> DEFINE m == n - 1
               d == 2 * half
    <3>1. m \in Nat /\ d \in Nat \ {0}
      BY <2>1
    <3>2. m \div d \in Nat /\ m % d \in 0..(d - 1)
      <4> HIDE DEF m, d
      <4> QED BY <3>1, DivMod
    <3> QED BY <3>2
  <2>3. tile \in Nat
    <3>1. group * S \in Nat
      <4> HIDE DEF group
      <4> QED BY <2>2
    <3>2. offset \div C \in Nat
      <4> HIDE DEF offset, C
      <4> QED BY <2>2, <1>1, DivMod
    <3> HIDE DEF group, offset, C
    <3> QED BY <3>1, <3>2
  <2>4. plane \in Nat /\ plane \in 0..(p.planes_per_die - 1)
    <3> DEFINE q == tile \div (p.chips_per_channel * p.dies_per_chip)
    <3>1. p.chips_per_channel * p.dies_per_chip \in Nat \ {0}
      BY <1>1
    <3>2. q \in Nat
      <4> HIDE DEF tile
      <4> QED BY <2>3, <3>1, DivMod
    <3>3. q % p.planes_per_die \in 0..(p.planes_per_die - 1)
      <4> HIDE DEF q
      <4> QED BY <3>2, <1>1, DivMod
    <3>4. plane \in 0..(p.planes_per_die - 1)
      BY <3>3
    <3> HIDE DEF plane
    <3> QED BY <3>4
  <2>5. (plane + 1) % p.planes_per_die \in 0..(p.planes_per_die - 1)
    <3> DEFINE q == plane + 1
    <3>1. q \in Nat
      <4> HIDE DEF plane
      <4> QED BY <2>4
    <3>2. q % p.planes_per_die \in 0..(p.planes_per_die - 1)
      <4> HIDE DEF q
      <4> QED BY <3>1, <1>1, DivMod
    <3> QED BY <3>2
  <2>6. tile % p.chips_per_channel \in 0..(p.chips_per_channel - 1)
    <3> HIDE DEF tile
    <3> QED BY <2>3, <1>1, DivMod
  <2>7. (tile \div p.chips_per_channel) % p.dies_per_chip \in 0..(p.dies_per_chip - 1)
    <3> HIDE DEF tile
    <3>1. tile \div p.chips_per_channel \in Nat
      BY <2>3, <1>1, DivMod
    <3> QED BY <3>1, <1>1, DivMod
  <2>8. offset % C \in 0..(C - 1)
    <3> HIDE DEF offset, C
    <3> QED BY <2>2, <1>1, DivMod
  <2>9. ~compute => (offset - half) \div C \in Int
    <3> HIDE DEF offset, half, C
    <3>1. ~compute => offset - half \in Nat
      BY <2>1, <2>2
    <3> QED BY <3>1, <1>1, DivMod
  <2>10. CommandAt(p, n) =
           [opcode |-> IF compute THEN "READ_COMPUTE" ELSE "READ_SLICE",
            logical_id |-> IF compute THEN tile ELSE group,
            slice_id |-> IF compute THEN -1 ELSE (offset - half) \div C,
            channel |-> offset % C,
            chip |-> tile % p.chips_per_channel,
            die |-> (tile \div p.chips_per_channel) % p.dies_per_chip,
            plane |-> IF compute THEN plane ELSE (plane + 1) % p.planes_per_die,
            arrival_cycle |-> 0]
    BY DEF CommandAt
  <2> HIDE DEF half, group, offset, compute, tile, plane, C
  <2>11. /\ offset % C \in 0..(IFC_SSDSIM_MAX_CHANNELS - 1)
         /\ tile % p.chips_per_channel \in 0..(IFC_SSDSIM_MAX_CHIPS_PER_CHANNEL - 1)
         /\ (tile \div p.chips_per_channel) % p.dies_per_chip \in 0..(IFC_SSDSIM_MAX_DIES_PER_CHIP - 1)
         /\ plane \in 0..(IFC_SSDSIM_MAX_PLANES_PER_DIE - 1)
         /\ (plane + 1) % p.planes_per_die \in 0..(IFC_SSDSIM_MAX_PLANES_PER_DIE - 1)
    BY <1>1, <2>4, <2>5, <2>6, <2>7, <2>8
  <2> QED BY <2>2, <2>3, <2>9, <2>10, <2>11 DEF Command
<1> HIDE DEF C, S, G
<1>5. BuildCommands(p) \in [1..CommandCount(p) -> Command]
  BY <1>4 DEF BuildCommands
<1> QED BY <1>3, <1>5

-----------------------------------------------------------------------------
(* Tables of ready times, and lists of stages placed by them.              *)

(* A greatest number of a set is what Latest chooses.                      *)
LEMMA LatestIs ==
  ASSUME NEW T, NEW t \in T, T \subseteq Int, \A u \in T : u <= t
  PROVE  Latest(T) = t
<1>1. Latest(T) \in T /\ \A u \in T : u <= Latest(T)
  BY DEF Latest
<1>2. Latest(T) <= t /\ t <= Latest(T) /\ Latest(T) \in Int /\ t \in Int
  BY <1>1
<1> QED BY <1>2

(* The types, for stages of the commands in C.                             *)
TablesTyped(C, table, list) ==
  /\ table \in [AllResources -> Nat]
  /\ list \in Seq([command : C, stage : 0..3, start : Nat, end : Nat \ {0}])

(* What the table and the list are after a stage is placed.                *)
TableAfter(table, c, s, end) ==
  [r \in AllResources |-> IF r \in Needs(c, s) THEN end ELSE table[r]]
ListAfter(list, c, s, start, end) ==
  Append(list, [command |-> c, stage |-> s, start |-> start, end |-> end])

(* The ends of the stages that used a resource.                            *)
EndsOf(list, r) ==
  {0} \cup {list[j].end : j \in {j \in DOMAIN list : r \in Needs(list[j].command, list[j].stage)}}

(* A resource is ready at the end of the last stage that used it.          *)
ReadyMax(table, list) ==
  \A r \in AllResources :
    table[r] \in EndsOf(list, r) /\ \A e \in EndsOf(list, r) : e <= table[r]

(* The ends a stage of a command has to wait for.                          *)
EndsBefore(list, c, s) ==
  {list[j].end : j \in {j \in DOMAIN list :
                          Needs(list[j].command, list[j].stage) \cap Needs(c, s) # {}}}

(* Stages placed at different positions that share a resource do not       *)
(* overlap, and are served in the order they were placed.                  *)
RowsExclusive(list) ==
  \A i, j \in DOMAIN list :
    /\ i < j
    /\ Needs(list[i].command, list[i].stage) \cap Needs(list[j].command, list[j].stage) # {}
    => list[i].end <= list[j].start

(* A command has no stages but its own.                                    *)
StagesExist(list) == \A j \in DOMAIN list : list[j].stage < StageCount(list[j].command)

(* The stages have natural numbers for ends.                               *)
LEMMA EndsType ==
  ASSUME NEW C, NEW table, NEW list, TablesTyped(C, table, list)
  PROVE  /\ \A j \in DOMAIN list : list[j].end \in Nat /\ list[j].start \in Nat
         /\ \A r : EndsOf(list, r) \subseteq Nat
         /\ \A r \in AllResources : table[r] \in Nat
<1> DEFINE RowSet == [command : C, stage : 0..3, start : Nat, end : Nat \ {0}]
<1>1. list \in Seq(RowSet) /\ table \in [AllResources -> Nat]
  BY DEF TablesTyped
<1>2. \A j \in DOMAIN list : list[j] \in RowSet
  <2> HIDE DEF RowSet
  <2> QED BY <1>1
<1>3. \A j \in DOMAIN list : list[j].end \in Nat /\ list[j].start \in Nat
  BY <1>2
<1> QED BY <1>1, <1>3 DEF EndsOf

(* The two ways to say that ready times are exact agree.                   *)
LEMMA ReadyMaxExact ==
  ASSUME NEW C, NEW table, NEW list, TablesTyped(C, table, list), ReadyMax(table, list)
  PROVE  \A r \in AllResources : table[r] = Latest(EndsOf(list, r))
<1> SUFFICES ASSUME NEW r \in AllResources
             PROVE  table[r] = Latest(EndsOf(list, r))
  OBVIOUS
<1>1. EndsOf(list, r) \subseteq Int
  BY EndsType
<1>2. table[r] \in EndsOf(list, r) /\ \A e \in EndsOf(list, r) : e <= table[r]
  BY DEF ReadyMax
<1> QED BY <1>1, <1>2, LatestIs

(* A stage that starts when everything it uses is ready, and no sooner,    *)
(* waits exactly for the stages it shares a resource with.                 *)
LEMMA EarliestIsWait ==
  ASSUME NEW C, NEW table, NEW list, TablesTyped(C, table, list), ReadyMax(table, list),
         NEW c, Placed(c), NEW s, NEW earliest,
         \A r \in Needs(c, s) : table[r] <= earliest,
         \E r \in Needs(c, s) : table[r] = earliest
  PROVE  /\ earliest \in {0} \cup EndsBefore(list, c, s)
         /\ \A e \in EndsBefore(list, c, s) : e <= earliest
<1>1. Needs(c, s) \subseteq AllResources
  BY PlacedNeeds
<1>2. PICK r \in Needs(c, s) : table[r] = earliest
  OBVIOUS
<1>3. EndsOf(list, r) \subseteq {0} \cup EndsBefore(list, c, s)
  BY DEF EndsOf, EndsBefore
<1>4. earliest \in {0} \cup EndsBefore(list, c, s)
  BY <1>1, <1>2, <1>3 DEF ReadyMax
<1>5. ASSUME NEW e \in EndsBefore(list, c, s)
      PROVE  e <= earliest
  <2>1. PICK j \in DOMAIN list : /\ Needs(list[j].command, list[j].stage) \cap Needs(c, s) # {}
                                 /\ e = list[j].end
    BY <1>5 DEF EndsBefore
  <2>2. PICK q \in Needs(c, s) : q \in Needs(list[j].command, list[j].stage)
    BY <2>1
  <2>3. e \in EndsOf(list, q)
    BY <2>1, <2>2 DEF EndsOf
  <2>4. e <= table[q] /\ table[q] <= earliest
    BY <1>1, <2>2, <2>3 DEF ReadyMax
  <2>5. e \in Nat /\ table[q] \in Nat /\ earliest \in Nat
    BY <1>1, <1>2, <2>1, <2>2, EndsType
  <2> QED BY <2>4, <2>5
<1> QED BY <1>4, <1>5

(* Placing a stage not before what it uses is ready keeps the tables exact *)
(* and the stages apart.                                                   *)
LEMMA PlacingKeeps ==
  ASSUME NEW C, NEW table, NEW list, TablesTyped(C, table, list), ReadyMax(table, list),
         RowsExclusive(list), StagesExist(list),
         NEW c \in C, Placed(c), NEW s \in 0..(StageCount(c) - 1),
         NEW start \in Nat, NEW end \in Nat, end > start,
         \A r \in Needs(c, s) : table[r] <= start,
         NEW after, after = TableAfter(table, c, s, end),
         NEW longer, longer = ListAfter(list, c, s, start, end)
  PROVE  /\ TablesTyped(C, after, longer) /\ ReadyMax(after, longer)
         /\ RowsExclusive(longer) /\ StagesExist(longer)
<1> DEFINE row == [command |-> c, stage |-> s, start |-> start, end |-> end]
           RowSet == [command : C, stage : 0..3, start : Nat, end : Nat \ {0}]
           Uses(x) == Needs(x.command, x.stage)
<1>1. /\ longer = Append(list, row)
      /\ after = [r \in AllResources |-> IF r \in Needs(c, s) THEN end ELSE table[r]]
  BY DEF TableAfter, ListAfter
<1>2. list \in Seq(RowSet) /\ row \in RowSet
  <2>1. s \in 0..3
    BY StageFacts
  <2> QED BY <2>1 DEF TablesTyped
<1>3. longer \in Seq(RowSet)
  BY <1>1, <1>2
<1>4. /\ Len(longer) = Len(list) + 1 /\ longer[Len(list) + 1] = row
      /\ \A k \in 1..Len(list) : longer[k] = list[k]
      /\ DOMAIN list = 1..Len(list) /\ DOMAIN longer = 1..Len(list) + 1
      /\ Len(list) \in Nat
  BY <1>1, <1>2, <1>3
<1>5. Needs(c, s) \subseteq AllResources
  BY PlacedNeeds
<1>6. row.command = c /\ row.stage = s /\ row.start = start /\ row.end = end
  OBVIOUS
<1> HIDE DEF row, RowSet
<1>7. TablesTyped(C, after, longer)
  BY <1>1, <1>3, EndsType DEF TablesTyped, RowSet
<1>8. ReadyMax(after, longer)
  <2> SUFFICES ASSUME NEW r \in AllResources
               PROVE  /\ after[r] \in EndsOf(longer, r)
                      /\ \A e \in EndsOf(longer, r) : e <= after[r]
    BY DEF ReadyMax
  <2>1. table[r] \in Nat /\ EndsOf(list, r) \subseteq Nat
    BY EndsType
  <2>2. table[r] \in EndsOf(list, r) /\ \A e \in EndsOf(list, r) : e <= table[r]
    BY DEF ReadyMax
  <2>3. CASE r \in Needs(c, s)
    <3>1. EndsOf(longer, r) = EndsOf(list, r) \cup {end}
      BY <1>4, <1>6, <2>3 DEF EndsOf
    <3>2. after[r] = end /\ table[r] <= start
      BY <1>1, <2>3
    <3> QED BY <3>1, <3>2, <2>1, <2>2
  <2>4. CASE r \notin Needs(c, s)
    <3>1. EndsOf(longer, r) = EndsOf(list, r)
      BY <1>4, <1>6, <2>4 DEF EndsOf
    <3>2. after[r] = table[r]
      BY <1>1, <2>4
    <3> QED BY <3>1, <3>2, <2>2
  <2> QED BY <2>3, <2>4
<1>9. RowsExclusive(longer)
  <2>1. ASSUME NEW i \in 1..Len(list), Uses(list[i]) \cap Needs(c, s) # {}
        PROVE  list[i].end <= start
    <3>1. PICK r \in Needs(c, s) : r \in Uses(list[i])
      BY <2>1
    <3>2. list[i].end \in EndsOf(list, r)
      BY <3>1, <1>4 DEF EndsOf
    <3>3. list[i].end <= table[r] /\ table[r] <= start
      BY <1>5, <3>1, <3>2 DEF ReadyMax
    <3>4. list[i].end \in Nat /\ table[r] \in Nat
      BY <1>4, <1>5, EndsType
    <3> QED BY <3>3, <3>4
  <2> SUFFICES ASSUME NEW i \in 1..Len(list) + 1, NEW j \in 1..Len(list) + 1, i < j,
                      Uses(longer[i]) \cap Uses(longer[j]) # {}
               PROVE  longer[i].end <= longer[j].start
    BY <1>4 DEF RowsExclusive
  <2>2. i \in 1..Len(list) /\ longer[i] = list[i]
    BY <1>4
  <2>3. CASE j = Len(list) + 1
    BY <1>4, <1>6, <2>1, <2>2, <2>3
  <2>4. CASE j # Len(list) + 1
    <3>1. j \in 1..Len(list) /\ longer[j] = list[j]
      BY <1>4, <2>4
    <3> QED BY <1>4, <2>2, <3>1 DEF RowsExclusive
  <2> QED BY <2>3, <2>4
<1>10. StagesExist(longer)
  <2>1. row.stage < StageCount(row.command)
    BY <1>6, StageFacts
  <2> QED BY <1>4, <2>1 DEF StagesExist
<1> QED BY <1>7, <1>8, <1>9, <1>10

(* Stages that share a resource being apart, slices find their plane idle: *)
(* what uses the plane also holds the chip, which the slice holds.         *)
LEMMA ExclusiveFindsPlaneIdle ==
  ASSUME NEW C, NEW table, NEW list, TablesTyped(C, table, list), RowsExclusive(list),
         StagesExist(list),
         NEW i \in DOMAIN list, NEW j \in DOMAIN list,
         list[i].command.opcode = "READ_SLICE",
         PlaneOf(list[i].command) \in Needs(list[j].command, list[j].stage)
  PROVE  list[i].end <= list[j].start \/ list[j].end <= list[i].start
<1> DEFINE c == list[i].command
           d == list[j].command
<1>1. PlaneOf(c) \in {ChannelOf(d), ChipOf(d), PlaneOf(d), ComputeOf(d)}
  BY NeedsFacts
<1>2. PlaneOf(c) = PlaneOf(d)
  BY <1>1 DEF ChannelOf, ChipOf, PlaneOf, ComputeOf
<1>3. ChipOf(c) = ChipOf(d)
  BY <1>2 DEF PlaneOf, ChipOf
<1>4. Needs(c, list[i].stage) \cap Needs(d, list[j].stage) # {}
  BY <1>3, NeedsFacts
<1>5. i # j
  <2> DEFINE RowSet == [command : C, stage : 0..3, start : Nat, end : Nat \ {0}]
  <2>1. list \in Seq(RowSet)
    BY DEF TablesTyped
  <2>2. list[i] \in RowSet
    <3> HIDE DEF RowSet
    <3> QED BY <2>1
  <2>3. StageCount(c) = 2
    BY DEF StageCount, StagesOf
  <2>4. list[i].stage \in 0..1
    BY <2>2, <2>3 DEF StagesExist
  <2>5. IsTransfer(StageOf(c, list[i].stage))
    BY <2>4 DEF StageOf, StagesOf, IsTransfer
  <2>6. PlaneOf(c) \notin Needs(c, list[i].stage)
    BY <2>5 DEF Needs, PlaneOf, ChipOf, ChannelOf
  <2> QED BY <2>6
<1>6. i \in Int /\ j \in Int
  BY DEF TablesTyped
<1> QED BY <1>4, <1>5, <1>6 DEF RowsExclusive
=============================================================================
