----------------------------- MODULE FullRowProofs -----------------------------
(***************************************************************************)
(* The full-row scheduler, for every set of platforms, durations, demands, *)
(* clocks and hashes: its table of issue slots is exact, it never issues   *)
(* too many stages in a cycle nor delays one past a free slot, it spreads  *)
(* the slices in proportion, and it implements ListSchedule with delays.   *)
(***************************************************************************)
EXTENDS FullRow, IfcStagesProofs, FiniteSetTheorems

-----------------------------------------------------------------------------
(* Numbers.                                                                *)

(* A multiple of a number leaves no remainder.                             *)
LEMMA Divides ==
  ASSUME NEW d \in Nat \ {0}, NEW a \in Nat
  PROVE  (d * a) % d = 0
<1> DEFINE m == d * a
           e == a - m \div d
           r == m % d
<1>1. m = d * (m \div d) + r /\ r \in 0..(d - 1) /\ e \in Int /\ m \in Nat
  OBVIOUS
<1>2. d * e = d * a - d * (m \div d)
  OBVIOUS
<1>3. d * e = r
  BY <1>1, <1>2
<1> HIDE DEF e, r
<1>4. e >= 1 => d * e >= d
  BY <1>1
<1>5. e <= -1 => d * e <= -d
  BY <1>1
<1>6. e = 0
  BY <1>1, <1>3, <1>4, <1>5
<1>7. r = 0
  BY <1>3, <1>6
<1> QED BY <1>7 DEF r

(* A number less than the divisor is its own remainder.                    *)
LEMMA SmallRemainder ==
  ASSUME NEW n \in Nat \ {0}, NEW a \in 0..n - 1
  PROVE  (a + 0) % n = a
<1>1. a + 0 = a /\ a \in Nat
  OBVIOUS
<1>2. a \div n = 0
  BY QuotientIs
<1>3. a = n * (a \div n) + (a % n)
  BY <1>1
<1>4. a % n \in Nat
  BY <1>1
<1> QED BY <1>1, <1>2, <1>3, <1>4

(* Doubling a power of two gives one.                                      *)
LEMMA DoubleIsPower ==
  ASSUME NEW n \in Nat \ {0}, PowerOfTwo(n)
  PROVE  PowerOfTwo(2 * n)
<1> SUFFICES ASSUME NEW d \in 2..2 * n, (2 * n) % d = 0, d % 2 # 0
             PROVE  FALSE
  BY DEF PowerOfTwo
<1> DEFINE q == (2 * n) \div d
<1>1. q \in Nat /\ 2 * n = d * q
  OBVIOUS
<1> HIDE DEF q
<1>2. PICK b \in Nat \ {0} : d = 2 * b + 1
  <2>1. d = 2 * (d \div 2) + 1
    OBVIOUS
  <2> QED BY <2>1
<1>3. CASE q % 2 = 0
  <2>1. PICK a \in Nat : q = 2 * a
    <3>1. q = 2 * (q \div 2) /\ q \div 2 \in Nat
      BY <1>1, <1>3
    <3> QED BY <3>1
  <2>2. d * q = 2 * (d * a)
    BY <2>1
  <2>3. n = d * a
    BY <1>1, <2>2
  <2>4. a > 0 /\ n % d = 0
    <3>1. d \in Nat \ {0} /\ (d * a) % d = 0
      BY Divides
    <3> QED BY <2>3, <3>1
  <2>5. d <= n
    BY <2>3, <2>4
  <2> QED BY <2>4, <2>5 DEF PowerOfTwo
<1>4. CASE q % 2 # 0
  <2>1. PICK a \in Nat : q = 2 * a + 1
    <3>1. q = 2 * (q \div 2) + 1 /\ q \div 2 \in Nat
      BY <1>1, <1>4
    <3> QED BY <3>1
  <2>2. d * q = 2 * (2 * (a * b) + a + b) + 1
    BY <1>2, <2>1
  <2>3. a * b \in Nat
    BY <2>1
  <2> QED BY <1>1, <2>2, <2>3
<1> QED BY <1>3, <1>4

(* Every number has a power of two between itself and its double; the      *)
(* least number that had none would be one more than a number that has.    *)
LEMMA PowerExists ==
  ASSUME NEW value \in Nat
  PROVE  \E n \in 1..2 * value + 1 : PowerOfTwo(n) /\ n >= value
<1> DEFINE Has(v) == \E n \in 1..2 * v + 1 : PowerOfTwo(n) /\ n >= v
           Bad    == {v \in Nat : ~Has(v)}
<1>1. Has(0)
  <2>1. PowerOfTwo(1)
    BY DEF PowerOfTwo
  <2> QED BY <2>1
<1>2. ASSUME NEW v \in Nat, Has(v)
      PROVE  Has(v + 1)
  <2>1. PICK n \in 1..2 * v + 1 : PowerOfTwo(n) /\ n >= v
    BY <1>2
  <2>2. CASE n >= v + 1
    BY <2>1, <2>2
  <2>3. CASE n = v
    <3>1. PowerOfTwo(2 * n) /\ 2 * n \in 1..2 * (v + 1) + 1 /\ 2 * n >= v + 1
      BY <2>1, <2>3, DoubleIsPower
    <3> QED BY <3>1
  <2> QED BY <2>1, <2>2, <2>3
<1> HIDE DEF Has
<1>3. Bad = {}
  <2> SUFFICES ASSUME Bad # {} PROVE FALSE
    OBVIOUS
  <2>1. PICK v \in Bad : \A w \in Bad : v <= w
    <3>1. Bad \in SUBSET Nat
      OBVIOUS
    <3> QED BY <3>1, LeastOf
  <2>2. v # 0 /\ v - 1 \in Nat /\ v - 1 \notin Bad
    BY <1>1, <2>1
  <2>3. Has(v - 1) /\ (v - 1) + 1 = v
    BY <2>2
  <2> QED BY <1>2, <2>1, <2>2, <2>3
<1>4. Has(value)
  BY <1>3
<1> QED BY <1>4 DEF Has

(* The table has buckets: two for every stage, and the slack.              *)
LEMMA BucketCountType ==
  ASSUME NEW d \in [read_compute : Nat, read_slice : Nat]
  PROVE  /\ BucketCount(d) \in Nat \ {0}
         /\ BucketCount(d) >= 2 * (4 * d.read_compute + 2 * d.read_slice) + BucketSlack
<1> DEFINE value == 2 * (4 * d.read_compute + 2 * d.read_slice) + BucketSlack
           Fits(n) == PowerOfTwo(n) /\ n >= value
<1>1. value \in Nat
  BY FullRowAssumption
<1> HIDE DEF value
<1> DEFINE Good == {n \in 1..2 * value + 1 : Fits(n)}
<1>2. PICK n \in Good : \A m \in Good : n <= m
  <2>1. Good \in SUBSET Nat /\ Good # {}
    BY <1>1, PowerExists
  <2> HIDE DEF Good
  <2> QED BY <2>1, LeastOf
<1>3. n \in 1..2 * value + 1 /\ Fits(n) /\ \A m \in 1..n - 1 : PowerOfTwo(m) => m < value
  BY <1>1, <1>2
<1>4. NextPowerOfTwo(value) \in 1..2 * value + 1 /\ NextPowerOfTwo(value) >= value
  BY <1>1, <1>3 DEF NextPowerOfTwo
<1> QED BY <1>1, <1>4 DEF BucketCount, value
-----------------------------------------------------------------------------
(* The invariant.                                                          *)

(* What the row is given.                                                  *)
InputsOK ==
  /\ demand \in [read_compute : Nat, read_slice : Nat]
  /\ timing \in Timing /\ dispatch_cycles \in Nat \ {0}
  /\ \A c \in DOMAIN hash : hash[c] \in Nat
  /\ pc # "refused" => platform \in Platform /\ PlatformSupported(platform)

UnderWay == pc \in {"stage", "probe"}

(* Where the submission is, against the last stage placed.                 *)
InStep ==
  LET last == rows[Len(rows)]
  IN  /\ UnderWay => stage < StageCount(command)
      /\ ~UnderWay \/ stage = 0 => rows = << >> \/ last.stage = StageCount(last.command) - 1
      /\ UnderWay /\ stage > 0 =>
           rows # << >> /\ last.command = command /\ last.stage = stage - 1

(* The slices due before READ_COMPUTE number n.                            *)
Due(n) == (n * demand.read_slice + demand.read_compute \div 2) \div demand.read_compute

(* Where the loops over the commands are.  Each computation is followed by *)
(* the slices that are due, so that after the last none are left.          *)
Turns ==
  LET R == demand.read_compute
      S == demand.read_slice
  IN  /\ pc = "compute" /\ R > 0 => slice_done = Due(rc)
      /\ (pc = "slices" \/ UnderWay) /\ rc < R => slice_done <= Due(rc + 1)
      /\ pc = "slices" => rc < R
      /\ pc \in {"trailing", "ok"} => rc = R
      /\ pc # "compute" /\ rc = R /\ R > 0 /\ pc # "refused" => slice_done = S
      /\ UnderWay /\ command.opcode = "READ_COMPUTE" => rc < R
      /\ UnderWay /\ command.opcode = "READ_SLICE" =>
           slice_done < (IF rc < R THEN Due(rc + 1) ELSE S)

Size == Cardinality(DOMAIN buckets)

(* The first d buckets from a cycle's hash on belong to other cycles.      *)
PassedBy(c, d) ==
  \A e \in 0..d - 1 :
    LET b == (HashOf(c) + e) % Size IN buckets[b].used /\ buckets[b].cycle # c

(* Every bucket in use is reached from its cycle's hash past buckets of    *)
(* other cycles, so that no probe for its cycle stops before it.           *)
Reachable ==
  \A b \in DOMAIN buckets :
    buckets[b].used =>
      \E d \in Nat : b = (HashOf(buckets[b].cycle) + d) % Size /\ PassedBy(buckets[b].cycle, d)

IsFull(c) == Cardinality(StartedAt(c)) = issue_width

(* A probe has passed other cycles' buckets, and before its cycle full     *)
(* cycles, a module clock apart from the earliest on.                      *)
Probing ==
  pc = "probe" =>
    /\ \E d \in Nat : index = (HashOf(cycle) + d) % Size /\ PassedBy(cycle, d)
    /\ \E k \in Nat : /\ cycle = Earliest + dispatch_cycles * k
                      /\ \A j \in 0..k - 1 : IsFull(Earliest + dispatch_cycles * j)

IInv ==
  /\ InputsOK /\ TypeOK
  /\ ReadyMax(ready, rows) /\ RowsExclusive(rows) /\ StagesExist(rows) /\ InStep
  /\ Turns
  /\ BucketsExact /\ Reachable /\ Probing

-----------------------------------------------------------------------------
(* Facts about the state.                                                  *)

(* The width is a positive number.                                         *)
LEMMA WidthType == issue_width \in Nat \ {0}
BY FullRowAssumption DEF issue_width, Max2, Min2

(* Buckets are numbered from 0, and a hash or a next bucket is one.        *)
LEMMA TableFacts ==
  ASSUME InputsOK, TypeOK
  PROVE  /\ Size \in Nat \ {0} /\ Size = BucketCount(demand)
         /\ DOMAIN buckets = 0..Size - 1
         /\ \A a \in Nat : a % Size \in 0..Size - 1
         /\ \A c : HashOf(c) \in 0..Size - 1
<1> DEFINE BC == BucketCount(demand)
<1>1. BC \in Nat \ {0}
  BY BucketCountType DEF InputsOK
<1>2. DOMAIN buckets = 0..BC - 1
  BY DEF TypeOK
<1>3. Cardinality(0..BC - 1) = BC
  <2>1. 0 \in Int /\ BC - 1 \in Int /\ ~(0 > BC - 1)
    BY <1>1
  <2>2. Cardinality(0..BC - 1) = BC - 1 - 0 + 1
    BY <2>1, FS_Interval
  <2> QED BY <1>1, <2>2
<1>4. Size = BC
  BY <1>2, <1>3 DEF Size
<1> HIDE DEF BC
<1>5. \A a \in Nat : a % Size \in 0..Size - 1
  BY <1>1, <1>4
<1>6. ASSUME NEW c
      PROVE  HashOf(c) \in 0..Size - 1
  <2>1. (IF c \in DOMAIN hash THEN hash[c] ELSE 0) \in Nat
    BY DEF InputsOK
  <2> QED BY <1>5, <2>1 DEF HashOf, Size
<1> QED BY <1>1, <1>2, <1>4, <1>5, <1>6 DEF BC

(* Going on from a bucket by one is going on by one from where it started. *)
LEMMA NextIndex ==
  ASSUME NEW n \in Nat \ {0}, NEW a \in Nat
  PROVE  ((a % n) + 1) % n = (a + 1) % n
<1> DEFINE q == a \div n
           r == a % n
<1>1. a = n * q + r /\ r \in 0..(n - 1) /\ q \in Nat
  OBVIOUS
<1> HIDE DEF q, r
<1>2. CASE r + 1 < n
  <2>1. n * q <= a + 1 /\ a + 1 < n * q + n
    BY <1>1, <1>2
  <2>2. (a + 1) \div n = q /\ (r + 1) \div n = 0
    BY <1>1, <1>2, <2>1, QuotientIs
  <2>3. a + 1 = n * ((a + 1) \div n) + ((a + 1) % n) /\ (r + 1) % n = r + 1
    BY <1>1, <1>2
  <2>4. (a + 1) % n \in Nat
    BY <1>1
  <2>5. (a + 1) % n = r + 1
    BY <1>1, <2>2, <2>3, <2>4
  <2> QED BY <2>3, <2>5 DEF r
<1>3. CASE r + 1 = n
  <2>1. a + 1 = n * (q + 1)
    BY <1>1, <1>3
  <2>2. (a + 1) % n = 0
    <3>1. q + 1 \in Nat
      BY <1>1
    <3>2. (n * (q + 1)) % n = 0
      BY <3>1, Divides
    <3> QED BY <2>1, <3>2
  <2>3. n % n = 0
    BY <1>1
  <2> QED BY <1>3, <2>2, <2>3 DEF r
<1> QED BY <1>1, <1>2, <1>3

(* The number of slices due: none at first, all at last, never fewer       *)
(* later, and within half a slice of the proportion.                       *)
LEMMA DueFacts ==
  ASSUME InputsOK, demand.read_compute > 0
  PROVE  /\ Due(0) = 0 /\ Due(demand.read_compute) = demand.read_slice
         /\ \A n \in 0..demand.read_compute :
              /\ Due(n) \in 0..demand.read_slice
              /\ n < demand.read_compute => Due(n) <= Due(n + 1)
              /\ 2 * (Due(n) * demand.read_compute - n * demand.read_slice) <= demand.read_compute
              /\ 2 * (n * demand.read_slice - Due(n) * demand.read_compute) <= demand.read_compute
<1> DEFINE R == demand.read_compute
           S == demand.read_slice
           h == R \div 2
           x(n) == n * S + h
<1>1. R \in Nat \ {0} /\ S \in Nat
  BY DEF InputsOK
<1>2. h \in Nat /\ h < R /\ 2 * h <= R /\ R <= 2 * h + 1
  BY <1>1
<1>3. \A n : Due(n) = x(n) \div R
  BY DEF Due
<1> HIDE DEF R, S, h
<1>4. ASSUME NEW n \in Nat
      PROVE  /\ n * S \in Nat /\ x(n) \in Nat /\ Due(n) \in Nat
             /\ R * Due(n) <= x(n) /\ x(n) < R * Due(n) + R
  <2>1. n * S \in Nat
    BY <1>1
  <2>2. x(n) \in Nat
    BY <2>1, <1>2
  <2> DEFINE y == x(n)
  <2>3. y \div R \in Nat /\ R * (y \div R) <= y /\ y < R * (y \div R) + R
    <3>1. y \in Nat
      BY <2>2
    <3> HIDE DEF y
    <3> QED BY <1>1, <3>1
  <2> HIDE DEF x
  <2> QED BY <1>3, <2>1, <2>2, <2>3
<1>5. Due(0) = 0
  <2>1. x(0) = h
    BY <1>1, <1>2
  <2>2. h \div R = 0
    BY <1>1, <1>2
  <2> QED BY <1>3, <2>1, <2>2
<1>6. Due(R) = S
  <2>1. R * S <= x(R) /\ x(R) < R * S + R /\ x(R) \in Nat
    BY <1>1, <1>2
  <2>2. x(R) \div R = S
    <3> HIDE DEF x
    <3> QED BY <1>1, <2>1, QuotientIs
  <2> QED BY <1>3, <2>2
<1>7. ASSUME NEW m \in Nat, NEW n \in Nat, m <= n
      PROVE  Due(m) <= Due(n)
  <2>1. m * S <= n * S
    BY <1>1, <1>7
  <2>2. x(m) <= x(n)
    BY <1>2, <1>4, <2>1
  <2>3. R * Due(m) < R * Due(n) + R
    <3>1. x(m) \in Nat /\ x(n) \in Nat /\ R * Due(m) \in Nat /\ R * Due(n) \in Nat
      BY <1>1, <1>4
    <3>2. R * Due(m) <= x(m) /\ x(n) < R * Due(n) + R
      BY <1>4
    <3> HIDE DEF x
    <3> QED BY <1>1, <2>2, <3>1, <3>2
  <2>4. Due(m) >= Due(n) + 1 => R * Due(m) >= R * Due(n) + R
    BY <1>1, <1>4
  <2>5. Due(m) \in Nat /\ Due(n) \in Nat
    BY <1>4
  <2>6. R * Due(m) \in Nat /\ R * Due(n) \in Nat
    BY <1>1, <2>5
  <2> QED BY <1>1, <2>3, <2>4, <2>5, <2>6
<1>8. ASSUME NEW n \in 0..R
      PROVE  /\ Due(n) \in 0..S
             /\ n < R => Due(n) <= Due(n + 1)
             /\ 2 * (Due(n) * R - n * S) <= R
             /\ 2 * (n * S - Due(n) * R) <= R
  <2>1. Due(n) <= S /\ Due(n) <= Due(n + 1)
    BY <1>1, <1>6, <1>7
  <2>2. Due(n) * R = R * Due(n)
    BY <1>1, <1>4
  <2>3. R * Due(n) <= n * S + h /\ n * S + h < R * Due(n) + R
    BY <1>4
  <2>4. R * Due(n) \in Nat /\ n * S \in Nat
    BY <1>1, <1>4
  <2> DEFINE a == R * Due(n)
             b == n * S
  <2>5. 2 * (a - b) <= R /\ 2 * (b - a) <= R
    <3>1. a \in Nat /\ b \in Nat /\ a <= b + h /\ b + h < a + R
      BY <2>3, <2>4
    <3> HIDE DEF a, b
    <3> QED BY <1>1, <1>2, <3>1
  <2> QED BY <1>4, <2>1, <2>2, <2>5
<1> QED BY <1>5, <1>6, <1>8 DEF R, S

(* A command is put where the tables have a place for it.                  *)
LEMMA PlaceAtType ==
  ASSUME platform \in Platform, PlatformSupported(platform),
         NEW opcode \in {"READ_COMPUTE", "READ_SLICE"}, NEW i \in Nat, NEW offset \in Nat
  PROVE  PlaceAt(opcode, i, offset) \in PlacedCommand
<1> DEFINE group == i \div platform.channels
           lanes == platform.chips_per_channel * platform.dies_per_chip
           lane  == group % lanes
<1>1. /\ platform.channels \in Nat \ {0} /\ platform.chips_per_channel \in Nat \ {0}
      /\ platform.dies_per_chip \in Nat \ {0} /\ platform.planes_per_die \in Nat \ {0}
      /\ platform.channels <= IFC_SSDSIM_MAX_CHANNELS
      /\ platform.chips_per_channel <= IFC_SSDSIM_MAX_CHIPS_PER_CHANNEL
      /\ platform.dies_per_chip <= IFC_SSDSIM_MAX_DIES_PER_CHIP
      /\ platform.planes_per_die <= IFC_SSDSIM_MAX_PLANES_PER_DIE
  BY LimitsAssumption DEF PlatformSupported
<1>2. lanes \in Nat \ {0}
  BY <1>1
<1>3. group \in Nat
  BY <1>1, DivMod
<1> HIDE DEF group, lanes
<1>4. lane \in Nat
  BY <1>2, <1>3, DivMod
<1>5. group \div lanes + offset \in Nat
  BY <1>2, <1>3, DivMod
<1> HIDE DEF lane
<1>6. lane \div platform.chips_per_channel \in Nat
  BY <1>1, <1>4, DivMod
<1>7. /\ i % platform.channels \in 0..(platform.channels - 1)
      /\ lane % platform.chips_per_channel \in 0..(platform.chips_per_channel - 1)
  BY <1>1, <1>4, DivMod
<1>8. (lane \div platform.chips_per_channel) % platform.dies_per_chip
        \in 0..(platform.dies_per_chip - 1)
  BY <1>1, <1>6, DivMod
<1>9. (group \div lanes + offset) % platform.planes_per_die \in 0..(platform.planes_per_die - 1)
  BY <1>1, <1>5, DivMod
<1>10. PlaceAt(opcode, i, offset) =
         [opcode |-> opcode, channel |-> i % platform.channels,
          chip |-> lane % platform.chips_per_channel,
          die |-> (lane \div platform.chips_per_channel) % platform.dies_per_chip,
          plane |-> (group \div lanes + offset) % platform.planes_per_die]
  BY DEF PlaceAt, group, lanes, lane
<1>11. /\ i % platform.channels \in 0..(IFC_SSDSIM_MAX_CHANNELS - 1)
       /\ lane % platform.chips_per_channel \in 0..(IFC_SSDSIM_MAX_CHIPS_PER_CHANNEL - 1)
       /\ (lane \div platform.chips_per_channel) % platform.dies_per_chip
            \in 0..(IFC_SSDSIM_MAX_DIES_PER_CHIP - 1)
       /\ (group \div lanes + offset) % platform.planes_per_die
            \in 0..(IFC_SSDSIM_MAX_PLANES_PER_DIE - 1)
  BY <1>1, <1>7, <1>8, <1>9, LimitsAssumption
<1> QED BY <1>10, <1>11 DEF PlacedCommand

(* A stage's earliest cycle is that of the last of its resources.          *)
LEMMA EarliestFacts ==
  ASSUME TypeOK
  PROVE  /\ Placed(command) /\ Earliest \in Nat
         /\ \A r \in Needs(command, stage) : ready[r] <= Earliest
         /\ \E r \in Needs(command, stage) : ready[r] = Earliest
<1> DEFINE Times == {ready[r] : r \in Needs(command, stage)}
<1>1. Placed(command)
  BY DEF TypeOK, PlacedCommand, Placed
<1>2. Needs(command, stage) \subseteq AllResources
  BY <1>1, PlacedNeeds
<1>3. \A r \in Needs(command, stage) : ready[r] \in Nat
  BY <1>2 DEF TypeOK, ReadyTypeOK
<1>4. PICK t \in Times : \A u \in Times : u <= t
  <2>1. \/ Needs(command, stage) = {ChannelOf(command), ChipOf(command)}
        \/ Needs(command, stage) = {ChipOf(command), PlaneOf(command)}
        \/ Needs(command, stage) = {ChipOf(command), PlaneOf(command), ComputeOf(command)}
    BY DEF Needs
  <2>2. ASSUME NEW q, NEW r, Needs(command, stage) = {q, r}
        PROVE  \E t \in Times : \A u \in Times : u <= t
    <3>1. ready[q] \in Nat /\ ready[r] \in Nat /\ Times = {ready[q], ready[r]}
      BY <1>3, <2>2
    <3> QED BY <3>1
  <2>3. ASSUME NEW p, NEW q, NEW r, Needs(command, stage) = {p, q, r}
        PROVE  \E t \in Times : \A u \in Times : u <= t
    <3>1. /\ ready[p] \in Nat /\ ready[q] \in Nat /\ ready[r] \in Nat
          /\ Times = {ready[p], ready[q], ready[r]}
      BY <1>3, <2>3
    <3> HIDE DEF Times
    <3> QED BY <3>1
  <2> QED BY <2>1, <2>2, <2>3
<1>5. Times \subseteq Int
  BY <1>3
<1>6. Earliest = t
  <2>1. Latest(Times) = t
    <3> HIDE DEF Times
    <3> QED BY <1>4, <1>5, LatestIs
  <2> QED BY <2>1 DEF Earliest
<1> QED BY <1>1, <1>3, <1>4, <1>6

-----------------------------------------------------------------------------
(* The invariant holds at first and is kept by every step.                 *)

(* The initial states satisfy the invariant.                               *)
LEMMA InitIInv == Init => IInv
<1> SUFFICES ASSUME Init PROVE IInv
  OBVIOUS
<1>1. /\ ready = [r \in AllResources |-> 0] /\ rows = << >>
      /\ buckets = [b \in 0..BucketCount(demand) - 1 |-> Unused]
      /\ issue_events = 0 /\ dispatch_rounds = 0 /\ rc = 0 /\ slice_done = 0
      /\ command = NoCommand /\ stage = 0 /\ cycle = 0 /\ index = 0 /\ last_cycle = 0
      /\ pc \in {"compute", "refused"}
  BY DEF Init, InitReady
<1>2. InputsOK
  <2>1. pc # "refused" => PlatformSupported(platform)
    BY DEF Init
  <2> QED BY <2>1, FullRowAssumption DEF Init, InputsOK
<1>3. TypeOK
  <2>1. BucketCount(demand) \in Nat \ {0}
    BY <1>2, BucketCountType DEF InputsOK
  <2>2. 0 \in DOMAIN buckets
    BY <1>1, <2>1
  <2>3. buckets \in [0..BucketCount(demand) - 1 ->
                       [used : BOOLEAN, cycle : Nat, count : 0..issue_width]]
    BY <1>1, WidthType DEF Unused
  <2>4. NoCommand \in PlacedCommand
    BY LimitsAssumption DEF NoCommand, PlacedCommand
  <2>5. demand.read_compute \in Nat /\ demand.read_slice \in Nat
    BY <1>2 DEF InputsOK
  <2>6. ReadyTypeOK(PlacedCommand)
    BY <1>1 DEF ReadyTypeOK
  <2> QED BY <1>1, <2>2, <2>3, <2>4, <2>5, <2>6 DEF TypeOK
<1>4. ReadyMax(ready, rows) /\ RowsExclusive(rows) /\ StagesExist(rows)
  BY <1>1 DEF ReadyMax, EndsOf, RowsExclusive, StagesExist
<1>5. InStep /\ Probing
  BY <1>1 DEF InStep, UnderWay, Probing
<1>6. Turns
  <2>1. demand.read_compute > 0 => Due(0) = 0
    BY <1>2, DueFacts
  <2> QED BY <1>1, <2>1 DEF Turns, UnderWay
<1>7. \A b \in DOMAIN buckets : ~buckets[b].used
  BY <1>1 DEF Unused
<1>8. BucketsExact /\ Reachable
  BY <1>1, <1>7 DEF BucketsExact, Reachable, Starts
<1> QED BY <1>2, <1>3, <1>4, <1>5, <1>6, <1>8 DEF IInv

(* Nothing is said of a stage that is not placed.                          *)
LEMMA QuietKeeps ==
  ASSUME IInv, UNCHANGED <<ready, rows, inputs, scheduler>>
  PROVE  /\ ReadyTypeOK(PlacedCommand)' /\ ReadyMax(ready, rows)' /\ RowsExclusive(rows)' /\ StagesExist(rows)'
         /\ BucketsExact' /\ Reachable'
         /\ (buckets \in [0..BucketCount(demand) - 1 ->
                            [used : BOOLEAN, cycle : Nat, count : 0..issue_width]])'
         /\ issue_events' \in Nat /\ dispatch_rounds' \in Nat
         /\ (pc' # "refused" => pc # "refused") => InputsOK'
<1>1. /\ ready' = ready /\ rows' = rows /\ buckets' = buckets /\ hash' = hash
      /\ demand' = demand /\ platform' = platform /\ timing' = timing
      /\ dispatch_cycles' = dispatch_cycles
      /\ issue_events' = issue_events /\ dispatch_rounds' = dispatch_rounds
  BY DEF inputs, scheduler
<1>2. ReadyTypeOK(PlacedCommand)' /\ ReadyMax(ready, rows)' /\ RowsExclusive(rows)' /\ StagesExist(rows)'
  BY <1>1 DEF IInv, TypeOK, ReadyTypeOK, ReadyMax, EndsOf, RowsExclusive, StagesExist
<1>3. BucketsExact'
  BY <1>1 DEF IInv, BucketsExact, StartedAt, Starts
<1>4. Reachable'
  BY <1>1 DEF IInv, Reachable, PassedBy, HashOf, Size
<1>5. (buckets \in [0..BucketCount(demand) - 1 ->
                      [used : BOOLEAN, cycle : Nat, count : 0..issue_width]])'
  BY <1>1 DEF IInv, TypeOK, BucketCount
<1>6. issue_events' \in Nat /\ dispatch_rounds' \in Nat
  BY <1>1 DEF IInv, TypeOK
<1>7. (pc' # "refused" => pc # "refused") => InputsOK'
  BY <1>1 DEF IInv, InputsOK
<1> QED BY <1>2, <1>3, <1>4, <1>5, <1>6, <1>7

(* The loops over the commands.                                            *)
LEMMA LoopsIInv ==
  IInv /\ (SubmitReadCompute \/ EndCompute \/ SubmitReadSlice \/ EndSlices \/ Finish)
    => IInv'
<1> SUFFICES ASSUME IInv,
                    SubmitReadCompute \/ EndCompute \/ SubmitReadSlice \/ EndSlices \/ Finish
             PROVE  IInv'
  OBVIOUS
<1> DEFINE R == demand.read_compute
           S == demand.read_slice
<1>1. /\ UNCHANGED <<ready, rows, inputs, scheduler>>
      /\ demand' = demand /\ slice_done' = slice_done
      /\ cycle' = cycle /\ index' = index /\ last_cycle' = last_cycle
      /\ pc \in {"compute", "slices", "trailing"}
      /\ pc' \in {"compute", "slices", "trailing", "stage", "ok"}
      /\ rows' = rows /\ buckets' = buckets
  BY DEF SubmitReadCompute, EndCompute, SubmitReadSlice, EndSlices, Finish, Submit,
         inputs, scheduler
<1>2. /\ ReadyTypeOK(PlacedCommand)' /\ ReadyMax(ready, rows)' /\ RowsExclusive(rows)' /\ StagesExist(rows)'
      /\ BucketsExact' /\ Reachable' /\ InputsOK'
      /\ (buckets \in [0..BucketCount(demand) - 1 ->
                         [used : BOOLEAN, cycle : Nat, count : 0..issue_width]])'
      /\ issue_events' \in Nat /\ dispatch_rounds' \in Nat
  BY <1>1, QuietKeeps
<1>3. InputsOK /\ TypeOK /\ InStep /\ Turns
  BY DEF IInv
<1>4. /\ R \in Nat /\ S \in Nat /\ rc \in 0..R /\ slice_done \in 0..S
      /\ platform \in Platform /\ PlatformSupported(platform)
  BY <1>1, <1>3 DEF InputsOK, TypeOK
<1>5. Probing'
  BY <1>1 DEF Probing
<1>6. \A n : Due(n)' = Due(n)
  BY <1>1 DEF Due
<1>7. TargetSlices = Due(rc + 1)
  BY DEF TargetSlices, Due
<1>8. ASSUME command' \in PlacedCommand, stage' \in 0..4, rc' \in 0..R
      PROVE  TypeOK'
  <2>1. cycle' \in Nat /\ index' \in DOMAIN buckets' /\ last_cycle' \in Nat
    BY <1>1, <1>3 DEF TypeOK
  <2>2. /\ slice_done' \in 0..S' /\ rc' \in 0..R'
        /\ pc' \in {"compute", "slices", "trailing", "stage", "probe", "ok", "refused"}
    BY <1>1, <1>4, <1>8
  <2> QED BY <1>2, <1>8, <2>1, <2>2 DEF TypeOK
<1>9. CASE SubmitReadCompute
  <2>1. /\ pc = "compute" /\ pc' = "stage" /\ stage' = 0 /\ rc' = rc /\ rc < R
        /\ command' = PlaceAt("READ_COMPUTE", rc, 0)
    BY <1>9 DEF SubmitReadCompute, Submit
  <2>2. command' \in PlacedCommand /\ command'.opcode = "READ_COMPUTE"
    BY <1>4, <2>1, PlaceAtType DEF PlaceAt
  <2>3. TypeOK'
    BY <1>4, <1>8, <2>1, <2>2
  <2>4. InStep'
    BY <1>1, <1>3, <2>1, StageFacts DEF InStep, UnderWay
  <2>5. Due(rc) <= Due(rc + 1)
    BY <1>3, <1>4, <2>1, DueFacts
  <2>6. Turns'
    BY <1>1, <1>3, <1>4, <1>6, <2>1, <2>2, <2>5 DEF Turns, UnderWay
  <2> QED BY <1>2, <1>5, <2>3, <2>4, <2>6 DEF IInv
<1>10. CASE EndCompute
  <2>1. /\ pc = "compute" /\ pc' = "trailing" /\ rc' = rc /\ rc >= R
        /\ command' = command /\ stage' = stage
    BY <1>10 DEF EndCompute
  <2>2. TypeOK'
    BY <1>3, <1>4, <1>8, <2>1 DEF TypeOK
  <2>3. InStep'
    BY <1>1, <1>3, <2>1 DEF InStep, UnderWay
  <2>4. R > 0 => slice_done = S
    <3>1. rc = R
      BY <1>4, <2>1
    <3>2. R > 0 => slice_done = Due(rc)
      BY <1>3, <2>1 DEF Turns
    <3>3. R > 0 => Due(R) = S
      BY <1>3, DueFacts
    <3> QED BY <3>1, <3>2, <3>3
  <2>5. Turns'
    BY <1>1, <1>3, <1>4, <1>6, <2>1, <2>4 DEF Turns, UnderWay
  <2> QED BY <1>2, <1>5, <2>2, <2>3, <2>5 DEF IInv
<1>11. CASE SubmitReadSlice
  <2>1. /\ pc' = "stage" /\ stage' = 0 /\ rc' = rc
        /\ command' = PlaceAt("READ_SLICE", slice_done, 1)
        /\ \/ pc = "slices" /\ slice_done < Due(rc + 1)
           \/ pc = "trailing" /\ slice_done < S
    BY <1>7, <1>11 DEF SubmitReadSlice, Submit
  <2>2. command' \in PlacedCommand /\ command'.opcode = "READ_SLICE"
    BY <1>4, <2>1, PlaceAtType DEF PlaceAt
  <2>3. TypeOK'
    BY <1>4, <1>8, <2>1, <2>2
  <2>4. InStep'
    BY <1>1, <1>3, <2>1, StageFacts DEF InStep, UnderWay
  <2>5. Turns'
    BY <1>1, <1>3, <1>4, <1>6, <2>1, <2>2 DEF Turns, UnderWay
  <2> QED BY <1>2, <1>5, <2>3, <2>4, <2>5 DEF IInv
<1>12. CASE EndSlices
  <2>1. /\ pc = "slices" /\ pc' = "compute" /\ rc' = rc + 1 /\ slice_done >= Due(rc + 1)
        /\ command' = command /\ stage' = stage
    BY <1>7, <1>12 DEF EndSlices
  <2>2. rc < R /\ slice_done <= Due(rc + 1)
    BY <1>3, <2>1 DEF Turns
  <2>3. TypeOK'
    BY <1>3, <1>4, <1>8, <2>1, <2>2 DEF TypeOK
  <2>4. InStep'
    BY <1>1, <1>3, <2>1 DEF InStep, UnderWay
  <2>5. Due(rc + 1) \in Nat
    BY <1>3, <1>4, <2>2, DueFacts
  <2>6. Turns'
    BY <1>1, <1>4, <1>6, <2>1, <2>2, <2>5 DEF Turns, UnderWay
  <2> QED BY <1>2, <1>5, <2>3, <2>4, <2>6 DEF IInv
<1>13. CASE Finish
  <2>1. /\ pc = "trailing" /\ pc' = "ok" /\ rc' = rc
        /\ command' = command /\ stage' = stage
    BY <1>13 DEF Finish
  <2>2. TypeOK'
    BY <1>3, <1>4, <1>8, <2>1 DEF TypeOK
  <2>3. InStep'
    BY <1>1, <1>3, <2>1 DEF InStep, UnderWay
  <2>4. Turns'
    BY <1>1, <1>3, <1>4, <1>6, <2>1 DEF Turns, UnderWay
  <2> QED BY <1>2, <1>5, <2>2, <2>3, <2>4 DEF IInv
<1> QED BY <1>9, <1>10, <1>11, <1>12, <1>13

(* The steps of a probe that place nothing.                                *)
LEMMA ProbeIInv ==
  IInv /\ (BeginStage \/ LaterCycle \/ NextBucket) => IInv'
<1> SUFFICES ASSUME IInv, BeginStage \/ LaterCycle \/ NextBucket
             PROVE  IInv'
  OBVIOUS
<1>1. /\ UNCHANGED <<ready, rows, inputs, scheduler>>
      /\ demand' = demand /\ slice_done' = slice_done /\ rc' = rc
      /\ command' = command /\ stage' = stage /\ last_cycle' = last_cycle
      /\ pc \in {"stage", "probe"} /\ pc' = "probe"
      /\ ready' = ready /\ rows' = rows /\ buckets' = buckets /\ hash' = hash
      /\ dispatch_cycles' = dispatch_cycles
  BY DEF BeginStage, LaterCycle, NextBucket, inputs, scheduler
<1>2. /\ ReadyTypeOK(PlacedCommand)' /\ ReadyMax(ready, rows)' /\ RowsExclusive(rows)' /\ StagesExist(rows)'
      /\ BucketsExact' /\ Reachable' /\ InputsOK'
      /\ (buckets \in [0..BucketCount(demand) - 1 ->
                         [used : BOOLEAN, cycle : Nat, count : 0..issue_width]])'
      /\ issue_events' \in Nat /\ dispatch_rounds' \in Nat
  BY <1>1, QuietKeeps
<1>3. InputsOK /\ TypeOK /\ InStep /\ Turns /\ Probing /\ BucketsExact
  BY DEF IInv
<1>4. InStep'
  BY <1>1, <1>3 DEF InStep, UnderWay
<1>5. Turns'
  <2>1. \A n : Due(n)' = Due(n)
    BY <1>1 DEF Due
  <2> QED BY <1>1, <1>3, <2>1 DEF Turns, UnderWay
<1>6. /\ \A c : HashOf(c)' = HashOf(c)
      /\ Size' = Size
      /\ \A c, d : PassedBy(c, d)' = PassedBy(c, d)
      /\ Earliest' = Earliest
      /\ \A c : IsFull(c)' = IsFull(c)
  BY <1>1 DEF HashOf, Size, PassedBy, Earliest, IsFull, StartedAt
<1>7. /\ Size \in Nat \ {0} /\ DOMAIN buckets = 0..Size - 1
      /\ \A a \in Nat : a % Size \in 0..Size - 1
      /\ \A c : HashOf(c) \in 0..Size - 1
  BY <1>3, TableFacts
<1>8. Earliest \in Nat
  BY <1>3, EarliestFacts
<1>9. dispatch_cycles \in Nat \ {0} /\ cycle \in Nat
  BY <1>3 DEF InputsOK, TypeOK
<1>10. ASSUME cycle' \in Nat, index' \in DOMAIN buckets
       PROVE  TypeOK'
  <2>1. /\ rc' \in (0..demand.read_compute)' /\ slice_done' \in (0..demand.read_slice)'
        /\ command' \in PlacedCommand /\ stage' \in 0..4 /\ last_cycle' \in Nat
        /\ index' \in (DOMAIN buckets)'
    BY <1>1, <1>3, <1>10 DEF TypeOK
  <2> QED BY <1>1, <1>2, <1>10, <2>1 DEF TypeOK
<1>11. \A c : HashOf(c) = (HashOf(c) + 0) % Size /\ PassedBy(c, 0)
  <2>1. ASSUME NEW a \in 0..Size - 1
        PROVE  a = (a + 0) % Size
    BY <1>7, SmallRemainder
  <2>2. \A c : PassedBy(c, 0)
    BY DEF PassedBy
  <2>3. ASSUME NEW c
        PROVE  HashOf(c) = (HashOf(c) + 0) % Size
    BY <1>7, <2>1
  <2> QED BY <2>2, <2>3
<1>12. CASE BeginStage
  <2>1. cycle' = Earliest /\ index' = HashOf(Earliest)
    BY <1>12 DEF BeginStage
  <2>2. TypeOK'
    BY <1>7, <1>8, <1>10, <2>1
  <2>3. \E d \in Nat : index' = (HashOf(cycle') + d) % Size /\ PassedBy(cycle', d)
    BY <1>11, <2>1
  <2>4. \E k \in Nat : /\ cycle' = Earliest + dispatch_cycles * k
                       /\ \A j \in 0..k - 1 : IsFull(Earliest + dispatch_cycles * j)
    <3>1. cycle' = Earliest + dispatch_cycles * 0
      BY <1>8, <1>9, <2>1
    <3> QED BY <3>1
  <2>5. Probing'
    BY <1>1, <1>6, <2>3, <2>4 DEF Probing
  <2> QED BY <1>2, <1>4, <1>5, <2>2, <2>5 DEF IInv
<1>13. CASE LaterCycle
  <2>1. /\ cycle' = cycle + dispatch_cycles /\ index' = HashOf(cycle + dispatch_cycles)
        /\ pc = "probe" /\ buckets[index].used /\ buckets[index].cycle = cycle
        /\ ~(buckets[index].count < issue_width)
    BY <1>13 DEF LaterCycle, bucket, HasSlot
  <2>2. TypeOK'
    BY <1>7, <1>9, <1>10, <2>1
  <2>3. \E d \in Nat : index' = (HashOf(cycle') + d) % Size /\ PassedBy(cycle', d)
    BY <1>11, <2>1
  <2>4. IsFull(cycle)
    <3>1. index \in DOMAIN buckets /\ buckets[index].count \in 0..issue_width
      BY <1>3 DEF TypeOK
    <3>2. buckets[index].count = Cardinality(StartedAt(cycle))
      BY <1>3, <2>1, <3>1 DEF BucketsExact
    <3> QED BY <2>1, <3>1, <3>2, WidthType DEF IsFull
  <2>5. \E k \in Nat : /\ cycle' = Earliest + dispatch_cycles * k
                       /\ \A j \in 0..k - 1 : IsFull(Earliest + dispatch_cycles * j)
    <3>1. PICK k \in Nat : /\ cycle = Earliest + dispatch_cycles * k
                           /\ \A j \in 0..k - 1 : IsFull(Earliest + dispatch_cycles * j)
      BY <1>3, <2>1 DEF Probing
    <3>2. cycle' = Earliest + dispatch_cycles * (k + 1)
      BY <1>8, <1>9, <2>1, <3>1
    <3>3. \A j \in 0..(k + 1) - 1 : IsFull(Earliest + dispatch_cycles * j)
      <4>1. \A j \in 0..(k + 1) - 1 : j \in 0..k - 1 \/ j = k
        OBVIOUS
      <4> QED BY <2>4, <3>1, <4>1
    <3> QED BY <3>2, <3>3
  <2>6. Probing'
    BY <1>1, <1>6, <2>3, <2>5 DEF Probing
  <2> QED BY <1>2, <1>4, <1>5, <2>2, <2>6 DEF IInv
<1>14. CASE NextBucket
  <2>1. /\ cycle' = cycle /\ index' = (index + 1) % Size
        /\ pc = "probe" /\ buckets[index].used /\ buckets[index].cycle # cycle
    BY <1>14 DEF NextBucket, bucket, Size
  <2>2. index \in Nat
    BY <1>3, <1>7 DEF TypeOK
  <2>3. TypeOK'
    BY <1>7, <1>9, <1>10, <2>1, <2>2
  <2>4. \E d \in Nat : index' = (HashOf(cycle') + d) % Size /\ PassedBy(cycle', d)
    <3>1. PICK d \in Nat : index = (HashOf(cycle) + d) % Size /\ PassedBy(cycle, d)
      BY <1>3, <2>1 DEF Probing
    <3>2. HashOf(cycle) \in Nat
      BY <1>7
    <3>3. index' = (HashOf(cycle) + (d + 1)) % Size
      <4> DEFINE a == HashOf(cycle) + d
      <4>1. a \in Nat /\ a + 1 = HashOf(cycle) + (d + 1)
        BY <3>2
      <4>2. ((a % Size) + 1) % Size = (a + 1) % Size
        <5> HIDE DEF a
        <5> QED BY <1>7, <4>1, NextIndex
      <4> QED BY <2>1, <3>1, <4>1, <4>2
    <3>4. PassedBy(cycle, d + 1)
      <4>1. \A e \in 0..(d + 1) - 1 : e \in 0..d - 1 \/ e = d
        OBVIOUS
      <4> QED BY <2>1, <3>1, <4>1 DEF PassedBy
    <3> QED BY <2>1, <3>3, <3>4
  <2>5. \E k \in Nat : /\ cycle' = Earliest + dispatch_cycles * k
                       /\ \A j \in 0..k - 1 : IsFull(Earliest + dispatch_cycles * j)
    BY <1>3, <2>1 DEF Probing
  <2>6. Probing'
    BY <1>1, <1>6, <2>4, <2>5 DEF Probing
  <2> QED BY <1>2, <1>4, <1>5, <2>3, <2>6 DEF IInv
<1> QED BY <1>12, <1>13, <1>14

(* The stages of a list that start in a cycle.                             *)
StartedBy(list, c) == {j \in DOMAIN list : list[j].start = c}

(* A stage that is placed starts in a cycle of its own or joins others.    *)
LEMMA StartsGrow ==
  ASSUME NEW C, ReadyTypeOK(C), NEW row, rows' = Append(rows, row)
  PROVE  /\ Starts' = Starts \cup {row.start}
         /\ \A c : IsFiniteSet(StartedAt(c)) /\ Cardinality(StartedAt(c)) \in Nat
         /\ Cardinality(StartedBy(rows', row.start)) = Cardinality(StartedAt(row.start)) + 1
         /\ \A c : c # row.start => StartedBy(rows', c) = StartedAt(c)
         /\ \A c : c \notin Starts => Cardinality(StartedAt(c)) = 0
<1> DEFINE n == Len(rows)
<1>1. /\ n \in Nat /\ DOMAIN rows = 1..n /\ DOMAIN rows' = 1..n + 1
      /\ rows'[n + 1] = row /\ \A j \in 1..n : rows'[j] = rows[j]
  BY DEF ReadyTypeOK
<1> HIDE DEF n
<1>2. DOMAIN rows' = DOMAIN rows \cup {n + 1} /\ n + 1 \notin DOMAIN rows
  BY <1>1
<1>3. Starts' = Starts \cup {row.start}
  BY <1>1, <1>2 DEF Starts
<1>4. ASSUME NEW c
      PROVE  IsFiniteSet(StartedAt(c)) /\ Cardinality(StartedAt(c)) \in Nat
  <2>1. IsFiniteSet(1..n)
    <3>1. 1 \in Int /\ n \in Int
      BY <1>1
    <3> QED BY <3>1, FS_Interval
  <2>2. StartedAt(c) \in SUBSET (1..n)
    BY <1>1 DEF StartedAt
  <2> QED BY <2>1, <2>2, FS_Subset, FS_CardinalityType
<1>5. Cardinality(StartedBy(rows', row.start)) = Cardinality(StartedAt(row.start)) + 1
  <2>1. StartedBy(rows', row.start) = StartedAt(row.start) \cup {n + 1}
    BY <1>1, <1>2 DEF StartedAt, StartedBy
  <2>2. n + 1 \notin StartedAt(row.start)
    BY <1>2 DEF StartedAt
  <2> QED BY <1>4, <2>1, <2>2, FS_AddElement
<1>6. \A c : c # row.start => StartedBy(rows', c) = StartedAt(c)
  BY <1>1, <1>2 DEF StartedAt, StartedBy
<1>7. ASSUME NEW c, c \notin Starts
      PROVE  Cardinality(StartedAt(c)) = 0
  <2>1. StartedAt(c) = {}
    BY <1>7 DEF StartedAt, Starts
  <2> QED BY <2>1, FS_EmptySet
<1> QED BY <1>3, <1>4, <1>5, <1>6, <1>7

(* A placed stage keeps what is said of resources, stages and loops.       *)
LEMMA IssueKeeps ==
  ASSUME IInv, pc = "probe", StageIssued
  PROVE  /\ InputsOK' /\ ReadyTypeOK(PlacedCommand)' /\ ReadyMax(ready, rows)' /\ RowsExclusive(rows)'
         /\ StagesExist(rows)' /\ InStep' /\ Turns' /\ Probing'
         /\ issue_events' \in Nat /\ rc' \in (0..demand.read_compute)'
         /\ slice_done' \in (0..demand.read_slice)'
         /\ command' \in PlacedCommand /\ stage' \in 0..4 /\ cycle' \in Nat
         /\ last_cycle' \in Nat /\ pc' \in {"stage", "slices", "trailing"}
<1> DEFINE R == demand.read_compute
           S == demand.read_slice
           end == cycle + timing[StageOf(command, stage)]
           row == [command |-> command, stage |-> stage, start |-> cycle, end |-> end]
           last == stage + 1 = StageCount(command)
<1>1. /\ Occupy(command, stage, cycle, end)
      /\ issue_events' = issue_events + 1 /\ stage' = stage + 1
      /\ last_cycle' = IF last THEN Max2(last_cycle, end) ELSE last_cycle
      /\ slice_done' = IF last /\ command.opcode = "READ_SLICE" THEN slice_done + 1
                                                               ELSE slice_done
      /\ pc' = IF ~last THEN "stage" ELSE IF rc < R THEN "slices" ELSE "trailing"
      /\ UNCHANGED <<inputs, rc, command, cycle, index>>
  BY DEF StageIssued
<1>2. /\ demand' = demand /\ platform' = platform /\ timing' = timing /\ hash' = hash
      /\ dispatch_cycles' = dispatch_cycles /\ rc' = rc /\ command' = command /\ cycle' = cycle
  BY <1>1 DEF inputs
<1>3. InputsOK /\ TypeOK /\ InStep /\ Turns /\ Probing /\ ReadyTypeOK(PlacedCommand)
  BY DEF IInv, TypeOK
<1>4. /\ command \in PlacedCommand /\ Placed(command) /\ StageCount(command) \in {2, 4}
      /\ stage \in 0..(StageCount(command) - 1)
  <2>1. command \in PlacedCommand /\ stage \in Nat /\ stage < StageCount(command)
    BY <1>3 DEF TypeOK, InStep, UnderWay
  <2>2. StageCount(command) \in {2, 4}
    BY StageFacts
  <2> QED BY <1>3, <2>1, <2>2, EarliestFacts
<1>5. cycle \in Nat /\ Earliest <= cycle
  <2>1. PICK k \in Nat : cycle = Earliest + dispatch_cycles * k
    BY <1>3 DEF Probing
  <2>2. Earliest \in Nat /\ dispatch_cycles * k \in Nat
    BY <1>3, EarliestFacts DEF InputsOK
  <2> QED BY <2>1, <2>2
<1>6. end \in Nat /\ end > cycle
  <2>1. StageOf(command, stage) \in StageNames
    BY <1>4, StageFacts
  <2>2. timing[StageOf(command, stage)] \in Nat \ {0}
    BY <1>3, <2>1 DEF InputsOK, Timing
  <2> QED BY <1>5, <2>2
<1> HIDE DEF end
<1>7. \A r \in Needs(command, stage) : ready[r] <= cycle
  <2>1. \A r \in Needs(command, stage) : ready[r] <= Earliest /\ ready[r] \in Nat
    <3>1. Needs(command, stage) \subseteq AllResources
      BY <1>4, PlacedNeeds
    <3> QED BY <1>3, <3>1, EarliestFacts DEF ReadyTypeOK
  <2>2. Earliest \in Nat
    BY <1>3, EarliestFacts
  <2> QED BY <1>5, <2>1, <2>2
<1>8. ReadyTypeOK(PlacedCommand)' /\ ReadyMax(ready, rows)' /\ RowsExclusive(rows)' /\ StagesExist(rows)'
  <2>1. /\ ready' = TableAfter(ready, command, stage, end)
        /\ rows' = ListAfter(rows, command, stage, cycle, end)
    BY <1>1 DEF Occupy, TableAfter, ListAfter
  <2>2. TablesTyped(PlacedCommand, ready, rows)
    BY <1>3 DEF ReadyTypeOK, TablesTyped
  <2>3. /\ TablesTyped(PlacedCommand, ready', rows') /\ ReadyMax(ready', rows')
        /\ RowsExclusive(rows') /\ StagesExist(rows')
    BY <1>4, <1>5, <1>6, <1>7, <2>1, <2>2, PlacingKeeps DEF IInv
  <2> QED BY <2>3 DEF TablesTyped, ReadyTypeOK
<1>9. InputsOK'
  BY <1>2, <1>3 DEF InputsOK
<1>10. Probing' /\ pc' \in {"stage", "slices", "trailing"}
  BY <1>1 DEF Probing
<1>11. rows' # << >> /\ rows'[Len(rows')] = row
  <2>1. rows' = Append(rows, row)
    BY <1>1 DEF Occupy
  <2>2. rows \in Seq([command : PlacedCommand, stage : 0..3, start : Nat, end : Nat \ {0}])
    BY <1>3 DEF ReadyTypeOK
  <2>3. Len(rows') = Len(rows) + 1 /\ Len(rows) \in Nat
    BY <2>1, <2>2
  <2> QED BY <2>1, <2>2, <2>3
<1>12. InStep'
  <2>1. row.command = command /\ row.stage = stage
    OBVIOUS
  <2> QED BY <1>1, <1>2, <1>4, <1>11, <2>1 DEF InStep, UnderWay
<1>13. R \in Nat /\ S \in Nat /\ rc \in 0..R /\ slice_done \in 0..S
  BY <1>3 DEF InputsOK, TypeOK
<1>14. rc < R => Due(rc + 1) \in 0..S
  <2>1. rc < R => rc + 1 \in 0..R /\ R > 0
    BY <1>13
  <2> QED BY <1>3, <2>1, DueFacts
<1>15. command.opcode = "READ_SLICE" =>
         slice_done + 1 <= S /\ (rc < R => slice_done + 1 <= Due(rc + 1))
  <2>1. command.opcode = "READ_SLICE" => slice_done < (IF rc < R THEN Due(rc + 1) ELSE S)
    BY <1>3 DEF Turns, UnderWay
  <2> QED BY <1>13, <1>14, <2>1
<1>16. slice_done' \in 0..S
  BY <1>1, <1>13, <1>15
<1>17. Turns'
  <2>1. \A n : Due(n)' = Due(n)
    BY <1>2 DEF Due
  <2>2. rc < R => slice_done' <= Due(rc + 1)
    BY <1>1, <1>3, <1>15 DEF Turns, UnderWay
  <2>3. rc = R /\ R > 0 => slice_done' = S
    BY <1>1, <1>3, <1>13, <1>15 DEF Turns
  <2>4. CASE last
    <3>1. pc' = IF rc < R THEN "slices" ELSE "trailing"
      BY <1>1, <2>4
    <3> QED BY <1>2, <1>13, <2>1, <2>2, <2>3, <3>1 DEF Turns, UnderWay
  <2>5. CASE ~last
    <3>1. pc' = "stage" /\ slice_done' = slice_done
      BY <1>1, <2>5
    <3> QED BY <1>2, <1>3, <1>13, <2>1, <3>1 DEF Turns, UnderWay
  <2> QED BY <2>4, <2>5
<1>18. stage' \in 0..4 /\ issue_events' \in Nat /\ last_cycle' \in Nat
  BY <1>1, <1>3, <1>4, <1>6 DEF TypeOK, Max2
<1> QED BY <1>2, <1>4, <1>5, <1>8, <1>9, <1>10, <1>12, <1>13, <1>16, <1>17, <1>18

(* A probe that finds a free bucket has not missed its cycle's.            *)
LEMMA FreeIsNew ==
  ASSUME IInv, pc = "probe", ~buckets[index].used,
         NEW b \in DOMAIN buckets, buckets[b].used
  PROVE  buckets[b].cycle # cycle
<1> SUFFICES ASSUME buckets[b].cycle = cycle PROVE FALSE
  OBVIOUS
<1>1. PICK d \in Nat : index = (HashOf(cycle) + d) % Size /\ PassedBy(cycle, d)
  BY DEF IInv, Probing
<1>2. PICK e \in Nat : b = (HashOf(cycle) + e) % Size /\ PassedBy(cycle, e)
  BY DEF IInv, Reachable
<1>3. d < e => buckets[index].used
  BY <1>1, <1>2 DEF PassedBy
<1>4. e < d => buckets[b].cycle # cycle
  BY <1>1, <1>2 DEF PassedBy
<1>5. d = e => index = b
  BY <1>1, <1>2
<1> QED BY <1>3, <1>4, <1>5

(* The bucket of a stage that is placed, new or joined, counts it.         *)
LEMMA TableKeeps ==
  ASSUME IInv, pc = "probe", StageIssued,
         NEW n, n = Cardinality(StartedAt(cycle)) + 1, n <= issue_width,
         buckets[index].used => buckets[index].cycle = cycle,
         buckets' = [buckets EXCEPT ![index] = [used |-> TRUE, cycle |-> cycle, count |-> n]]
  PROVE  /\ BucketsExact' /\ Reachable'
         /\ (buckets \in [0..BucketCount(demand) - 1 ->
                            [used : BOOLEAN, cycle : Nat, count : 0..issue_width]])'
         /\ index' \in (DOMAIN buckets)'
<1> DEFINE end == cycle + timing[StageOf(command, stage)]
           row == [command |-> command, stage |-> stage, start |-> cycle, end |-> end]
           BucketSet == [used : BOOLEAN, cycle : Nat, count : 0..issue_width]
<1>1. /\ rows' = Append(rows, row) /\ index' = index /\ hash' = hash /\ demand' = demand
  BY DEF StageIssued, Occupy, inputs
<1>2. InputsOK /\ TypeOK /\ BucketsExact /\ Reachable /\ Probing /\ ReadyTypeOK(PlacedCommand)
  BY DEF IInv, TypeOK
<1>3. /\ Starts' = Starts \cup {cycle}
      /\ \A c : Cardinality(StartedAt(c)) \in Nat
      /\ Cardinality(StartedBy(rows', cycle)) = n
      /\ \A c : c # cycle => StartedBy(rows', c) = StartedAt(c)
  <2>1. row.start = cycle
    OBVIOUS
  <2> HIDE DEF row
  <2> QED BY <1>1, <1>2, <2>1, StartsGrow
<1>4. /\ buckets \in [0..BucketCount(demand) - 1 -> BucketSet]
      /\ index \in DOMAIN buckets /\ cycle \in Nat
  BY <1>2 DEF TypeOK
<1>5. n \in 0..issue_width
  BY <1>3, WidthType
<1>6. /\ DOMAIN buckets' = DOMAIN buckets
      /\ buckets'[index] = [used |-> TRUE, cycle |-> cycle, count |-> n]
      /\ \A b \in DOMAIN buckets : b # index => buckets'[b] = buckets[b]
  BY <1>4
<1>7. buckets' \in [0..BucketCount(demand) - 1 -> BucketSet]
  <2>1. [used |-> TRUE, cycle |-> cycle, count |-> n] \in BucketSet
    BY <1>4, <1>5
  <2> HIDE DEF BucketSet
  <2> QED BY <1>4, <2>1
<1>8. BucketCount(demand)' = BucketCount(demand)
  BY <1>1 DEF BucketCount
<1>9. \A b \in DOMAIN buckets : buckets[b].used /\ buckets[b].cycle = cycle => b = index
  BY <1>2, <1>4, FreeIsNew DEF BucketsExact
<1>10. BucketsExact'
  <2> DEFINE Used == {b \in DOMAIN buckets : buckets[b].used}
  <2>1. (DOMAIN buckets)' = DOMAIN buckets /\ Used' = Used \cup {index}
    BY <1>4, <1>6
  <2>2. \A b \in Used' : buckets'[b].count = Cardinality(StartedBy(rows', buckets'[b].cycle))
    <3> SUFFICES ASSUME NEW b \in Used'
                 PROVE  buckets'[b].count = Cardinality(StartedBy(rows', buckets'[b].cycle))
      OBVIOUS
    <3>1. CASE b = index
      <4>1. buckets'[b].count = n /\ buckets'[b].cycle = cycle
        BY <1>6, <3>1
      <4> QED BY <1>3, <4>1
    <3>2. CASE b # index
      <4>1. buckets'[b] = buckets[b] /\ b \in DOMAIN buckets /\ buckets[b].used
        BY <1>6, <2>1, <3>2
      <4>2. buckets[b].cycle # cycle
        BY <1>9, <3>2, <4>1
      <4>3. buckets[b].count = Cardinality(StartedAt(buckets[b].cycle))
        BY <1>2, <4>1 DEF BucketsExact
      <4>4. StartedBy(rows', buckets[b].cycle) = StartedAt(buckets[b].cycle)
        BY <1>3, <4>1, <4>2
      <4> QED BY <4>1, <4>3, <4>4
    <3> QED BY <3>1, <3>2
  <2>3. \A c \in Starts' : \E b \in Used' : buckets'[b].cycle = c
    <3> SUFFICES ASSUME NEW c \in Starts' PROVE \E b \in Used' : buckets'[b].cycle = c
      OBVIOUS
    <3>1. CASE c = cycle
      BY <1>6, <2>1, <3>1
    <3>2. CASE c # cycle
      <4>1. PICK b \in Used : buckets[b].cycle = c
        BY <1>2, <1>3, <3>2 DEF BucketsExact
      <4>2. b # index
        BY <1>4, <3>2, <4>1
      <4> QED BY <1>6, <2>1, <4>1, <4>2
    <3> QED BY <3>1, <3>2
  <2>4. \A a, b \in Used' : buckets'[a].cycle = buckets'[b].cycle => a = b
    <3> SUFFICES ASSUME NEW a \in Used', NEW b \in Used',
                        buckets'[a].cycle = buckets'[b].cycle, a # b
                 PROVE  FALSE
      OBVIOUS
    <3>1. ASSUME NEW x \in Used', x # index
          PROVE  buckets'[x] = buckets[x] /\ x \in Used /\ buckets[x].cycle # cycle
      <4>1. x \in Used /\ buckets'[x] = buckets[x]
        BY <1>6, <2>1, <3>1
      <4> QED BY <1>9, <3>1, <4>1
    <3>2. buckets'[index].cycle = cycle
      BY <1>6
    <3>3. a # index /\ b # index
      BY <3>1, <3>2
    <3> QED BY <1>2, <3>1, <3>3 DEF BucketsExact
  <2> QED BY <2>2, <2>3, <2>4 DEF BucketsExact, StartedAt, StartedBy
<1>11. Reachable'
  <2>1. Size' = Size /\ \A c : HashOf(c)' = HashOf(c)
    BY <1>1, <1>6 DEF Size, HashOf
  <2>2. Size \in Nat \ {0} /\ DOMAIN buckets = 0..Size - 1
        /\ (\A a \in Nat : a % Size \in 0..Size - 1) /\ \A c : HashOf(c) \in 0..Size - 1
    BY <1>2, TableFacts
  <2> DEFINE Slot(c, e) == (HashOf(c) + e) % Size
             PassedNow(c, d) == \A e \in 0..d - 1 : /\ buckets'[Slot(c, e)].used
                                                   /\ buckets'[Slot(c, e)].cycle # c
  <2>3. ASSUME NEW c, NEW d \in Nat, PassedBy(c, d)
        PROVE  PassedNow(c, d)
    <3> SUFFICES ASSUME NEW e \in 0..d - 1
                 PROVE  buckets'[Slot(c, e)].used /\ buckets'[Slot(c, e)].cycle # c
      OBVIOUS
    <3>1. buckets[Slot(c, e)].used /\ buckets[Slot(c, e)].cycle # c
      BY <2>3 DEF PassedBy
    <3>2. Slot(c, e) \in DOMAIN buckets
      <4>1. HashOf(c) \in Nat /\ e \in Nat
        <5>1. HashOf(c) \in 0..Size - 1 /\ Size \in Nat
          BY <2>2
        <5>2. e \in Nat
          OBVIOUS
        <5> QED BY <5>1, <5>2
      <4>2. HashOf(c) + e \in Nat
        BY <4>1
      <4> QED BY <2>2, <4>2
    <3> HIDE DEF Slot
    <3> QED BY <1>6, <3>1, <3>2
  <2> HIDE DEF PassedNow
  <2>4. ASSUME NEW b \in DOMAIN buckets', buckets'[b].used
        PROVE  \E d \in Nat : b = Slot(buckets'[b].cycle, d) /\ PassedNow(buckets'[b].cycle, d)
    <3>1. CASE b = index
      <4>1. PICK d \in Nat : index = Slot(cycle, d) /\ PassedBy(cycle, d)
        BY <1>2 DEF Probing
      <4>2. buckets'[b].cycle = cycle
        BY <1>6, <3>1
      <4>3. PassedNow(cycle, d)
        BY <2>3, <4>1
      <4> QED BY <3>1, <4>1, <4>2, <4>3
    <3>2. CASE b # index
      <4>1. b \in DOMAIN buckets /\ buckets'[b] = buckets[b]
        BY <1>6, <2>4, <3>2
      <4>2. PICK d \in Nat : b = Slot(buckets[b].cycle, d) /\ PassedBy(buckets[b].cycle, d)
        BY <1>2, <2>4, <4>1 DEF Reachable
      <4>3. PassedNow(buckets[b].cycle, d)
        BY <2>3, <4>2
      <4> QED BY <4>1, <4>2, <4>3
    <3> QED BY <3>1, <3>2
  <2> USE DEF PassedNow
  <2> QED BY <1>1, <1>6, <2>4 DEF Reachable, PassedBy, HashOf, Size
<1>12. index' \in (DOMAIN buckets)'
  BY <1>1, <1>4, <1>6
<1> QED BY <1>7, <1>8, <1>10, <1>11, <1>12

(* A stage that is placed counts itself in its cycle's bucket.             *)
LEMMA IssueIInv == IInv /\ (NewBucket \/ JoinBucket) => IInv'
<1> SUFFICES ASSUME IInv, NewBucket \/ JoinBucket
             PROVE  IInv'
  OBVIOUS
<1> DEFINE n == Cardinality(StartedAt(cycle)) + 1
<1>1. pc = "probe" /\ StageIssued
  BY DEF NewBucket, JoinBucket
<1>2. TypeOK /\ BucketsExact /\ ReadyTypeOK(PlacedCommand)
  BY DEF IInv, TypeOK
<1>3. /\ index \in DOMAIN buckets
      /\ buckets \in [0..BucketCount(demand) - 1 ->
                        [used : BOOLEAN, cycle : Nat, count : 0..issue_width]]
      /\ dispatch_rounds \in Nat
  BY <1>2 DEF TypeOK
<1>4. /\ n <= issue_width
      /\ buckets[index].used => buckets[index].cycle = cycle
      /\ buckets' = [buckets EXCEPT ![index] = [used |-> TRUE, cycle |-> cycle, count |-> n]]
  <2>1. CASE NewBucket
    <3>1. ~buckets[index].used
      BY <2>1 DEF NewBucket, bucket
    <3>2. cycle \notin Starts
      BY <1>1, <1>2, <3>1, FreeIsNew DEF BucketsExact
    <3>3. n = 1
      <4>1. rows \in Seq([command : PlacedCommand, stage : 0..3, start : Nat, end : Nat \ {0}])
        BY <1>2 DEF ReadyTypeOK
      <4>2. StartedAt(cycle) = {}
        BY <3>2 DEF StartedAt, Starts
      <4> QED BY <4>2, FS_EmptySet
    <3>4. n <= issue_width
      BY <3>3, WidthType
    <3> HIDE DEF n
    <3> QED BY <2>1, <3>1, <3>3, <3>4 DEF NewBucket
  <2>2. CASE JoinBucket
    <3>1. buckets[index].used /\ buckets[index].cycle = cycle
          /\ buckets[index].count < issue_width
      BY <2>2 DEF JoinBucket, bucket, HasSlot
    <3>2. buckets[index].count = Cardinality(StartedAt(cycle))
      BY <1>2, <1>3, <3>1 DEF BucketsExact
    <3>3. n <= issue_width /\ buckets[index].count + 1 = n
      BY <1>3, <3>1, <3>2, WidthType
    <3>4. buckets' = [buckets EXCEPT ![index] = [used |-> TRUE, cycle |-> cycle, count |-> n]]
      BY <2>2, <3>3 DEF JoinBucket
    <3> QED BY <3>1, <3>3, <3>4
  <2> QED BY <2>1, <2>2
<1>5. dispatch_rounds' \in Nat
  BY <1>3 DEF NewBucket, JoinBucket
<1>6. /\ BucketsExact' /\ Reachable' /\ index' \in (DOMAIN buckets)'
      /\ (buckets \in [0..BucketCount(demand) - 1 ->
                         [used : BOOLEAN, cycle : Nat, count : 0..issue_width]])'
  BY <1>1, <1>4, TableKeeps
<1>7. /\ InputsOK' /\ ReadyTypeOK(PlacedCommand)' /\ ReadyMax(ready, rows)' /\ RowsExclusive(rows)'
      /\ StagesExist(rows)' /\ InStep' /\ Turns' /\ Probing'
      /\ issue_events' \in Nat /\ rc' \in (0..demand.read_compute)'
      /\ slice_done' \in (0..demand.read_slice)'
      /\ command' \in PlacedCommand /\ stage' \in 0..4 /\ cycle' \in Nat
      /\ last_cycle' \in Nat /\ pc' \in {"stage", "slices", "trailing"}
  BY <1>1, IssueKeeps
<1> QED BY <1>5, <1>6, <1>7 DEF IInv, TypeOK

(* A step that changes nothing keeps everything.                           *)
LEMMA StutterIInv == IInv /\ UNCHANGED vars => IInv'
<1> SUFFICES ASSUME IInv, UNCHANGED vars
             PROVE  IInv'
  OBVIOUS
<1>1. /\ UNCHANGED <<ready, rows, inputs, scheduler>>
      /\ demand' = demand /\ timing' = timing /\ dispatch_cycles' = dispatch_cycles
      /\ rc' = rc /\ slice_done' = slice_done
      /\ command' = command /\ stage' = stage /\ cycle' = cycle /\ index' = index
      /\ last_cycle' = last_cycle /\ pc' = pc
      /\ ready' = ready /\ rows' = rows /\ buckets' = buckets /\ hash' = hash
  BY DEF vars, inputs, scheduler
<1>2. /\ ReadyTypeOK(PlacedCommand)' /\ ReadyMax(ready, rows)' /\ RowsExclusive(rows)' /\ StagesExist(rows)'
      /\ BucketsExact' /\ Reachable' /\ InputsOK'
      /\ (buckets \in [0..BucketCount(demand) - 1 ->
                         [used : BOOLEAN, cycle : Nat, count : 0..issue_width]])'
      /\ issue_events' \in Nat /\ dispatch_rounds' \in Nat
  BY <1>1, QuietKeeps
<1>3. TypeOK /\ InStep /\ Turns /\ Probing
  BY DEF IInv
<1>4. TypeOK'
  BY <1>1, <1>2, <1>3 DEF TypeOK
<1>5. InStep'
  BY <1>1, <1>3 DEF InStep, UnderWay
<1>6. Turns'
  BY <1>1, <1>3 DEF Turns, UnderWay, Due
<1>7. Probing'
  <2>1. /\ \A c : HashOf(c)' = HashOf(c)
        /\ Size' = Size
        /\ \A c, d : PassedBy(c, d)' = PassedBy(c, d)
        /\ Earliest' = Earliest
        /\ \A c : IsFull(c)' = IsFull(c)
    BY <1>1 DEF HashOf, Size, PassedBy, Earliest, IsFull, StartedAt
  <2> QED BY <1>1, <1>3, <2>1 DEF Probing
<1> QED BY <1>2, <1>4, <1>5, <1>6, <1>7 DEF IInv

(* Every step keeps the invariant.                                         *)
LEMMA NextIInv == IInv /\ [Next]_vars => IInv'
BY LoopsIInv, ProbeIInv, IssueIInv, StutterIInv DEF Next, Terminated

(* The invariant holds in every reachable state.                           *)
LEMMA Invariance == Spec => []IInv
BY InitIInv, NextIInv, PTL DEF Spec

-----------------------------------------------------------------------------
(* What the row reports.                                                   *)

(* The reported counts, and why the last cycle is the last end: a stage    *)
(* that ends later is one of the command under way, whose chip is ready no *)
(* sooner.                                                                 *)
ReportInv ==
  /\ issue_events = Len(rows)
  /\ IsFiniteSet(Starts) /\ dispatch_rounds = Cardinality(Starts)
  /\ \A b \in DOMAIN buckets : buckets[b].used => buckets[b].cycle \in Starts
  /\ \A j \in DOMAIN rows :
       rows[j].end <= last_cycle \/ (UnderWay /\ rows[j].end <= ready[ChipOf(command)])
  /\ last_cycle = 0 \/ \E j \in DOMAIN rows : rows[j].end = last_cycle

(* A placed stage has an end.                                              *)
LEMMA RowEnds ==
  ASSUME TypeOK
  PROVE  \A j \in DOMAIN rows : rows[j].end \in Nat
<1> DEFINE RowSet == [command : PlacedCommand, stage : 0..3, start : Nat, end : Nat \ {0}]
<1>1. rows \in Seq(RowSet)
  BY DEF TypeOK, ReadyTypeOK
<1>2. ASSUME NEW j \in DOMAIN rows
      PROVE  rows[j] \in RowSet
  <2> HIDE DEF RowSet
  <2> QED BY <1>1
<1> QED BY <1>2

(* Between commands, what is kept is what is reported.                     *)
LEMMA ReportsRight == ASSUME TypeOK, ReportInv PROVE ReportExact
<1>1. ASSUME ~UnderWay
      PROVE  last_cycle = Latest({0} \cup {rows[j].end : j \in DOMAIN rows})
  <2> DEFINE Ends == {0} \cup {rows[j].end : j \in DOMAIN rows}
  <2>1. last_cycle \in Nat /\ \A j \in DOMAIN rows : rows[j].end \in Nat
    BY RowEnds DEF TypeOK
  <2>2. Ends \subseteq Int /\ last_cycle \in Ends /\ \A e \in Ends : e <= last_cycle
    BY <1>1, <2>1 DEF ReportInv
  <2> HIDE DEF Ends
  <2>3. Latest(Ends) = last_cycle
    BY <2>2, LatestIs
  <2> QED BY <2>3 DEF Ends
<1> QED BY <1>1 DEF ReportInv, ReportExact, UnderWay

(* Nothing is reported before the first stage.                             *)
LEMMA InitReportInv == Init => ReportInv
<1> SUFFICES ASSUME Init PROVE ReportInv
  OBVIOUS
<1>1. /\ rows = << >> /\ issue_events = 0 /\ dispatch_rounds = 0 /\ last_cycle = 0
      /\ buckets = [b \in 0..BucketCount(demand) - 1 |-> Unused]
  BY DEF Init, InitReady
<1>2. Starts = {}
  BY <1>1 DEF Starts
<1>3. IsFiniteSet(Starts) /\ Cardinality(Starts) = 0
  BY <1>2, FS_EmptySet
<1> QED BY <1>1, <1>3 DEF ReportInv, Unused

(* A stage that is placed is reported: as an event, as a round if it is    *)
(* the first in its cycle, and once its command has no other, by its end.  *)
LEMMA IssueReports ==
  IInv /\ ReportInv /\ (NewBucket \/ JoinBucket) => ReportInv'
<1> SUFFICES ASSUME IInv, ReportInv, NewBucket \/ JoinBucket
             PROVE  ReportInv'
  OBVIOUS
<1> DEFINE end == cycle + timing[StageOf(command, stage)]
           row == [command |-> command, stage |-> stage, start |-> cycle, end |-> end]
           last == stage + 1 = StageCount(command)
           n == Len(rows)
<1>1. /\ pc = "probe" /\ rows' = Append(rows, row)
      /\ ready' = [r \in AllResources |-> IF r \in Needs(command, stage) THEN end ELSE ready[r]]
      /\ issue_events' = issue_events + 1 /\ command' = command
      /\ last_cycle' = IF last THEN Max2(last_cycle, end) ELSE last_cycle
      /\ ~last => pc' = "stage"
  BY DEF NewBucket, JoinBucket, StageIssued, Occupy
<1>2. InputsOK /\ TypeOK /\ InStep /\ ReadyTypeOK(PlacedCommand) /\ BucketsExact
  BY DEF IInv, TypeOK
<1>3. /\ n \in Nat /\ DOMAIN rows = 1..n /\ DOMAIN rows' = 1..n + 1
      /\ rows'[n + 1] = row /\ \A j \in 1..n : rows'[j] = rows[j]
      /\ \A j \in DOMAIN rows : rows[j].end \in Nat
  <2> DEFINE RowSet == [command : PlacedCommand, stage : 0..3, start : Nat, end : Nat \ {0}]
  <2>1. rows \in Seq(RowSet)
    BY <1>2 DEF ReadyTypeOK
  <2> HIDE DEF row, RowSet
  <2>2. /\ n \in Nat /\ DOMAIN rows = 1..n /\ DOMAIN rows' = 1..n + 1
        /\ rows'[n + 1] = row /\ \A j \in 1..n : rows'[j] = rows[j]
    BY <1>1, <2>1
  <2> QED BY <1>2, <2>2, RowEnds
<1>4. /\ cycle \in Nat /\ last_cycle \in Nat /\ end \in Nat
      /\ ChipOf(command) \in Needs(command, stage) /\ ChipOf(command) \in AllResources
      /\ ready[ChipOf(command)] \in Nat /\ ready[ChipOf(command)] <= cycle /\ cycle <= end
  <2>1. StageCount(command) \in {2, 4} /\ stage \in Nat /\ stage < StageCount(command)
    BY <1>1, <1>2, StageFacts DEF TypeOK, InStep, UnderWay
  <2>2. StageOf(command, stage) \in StageNames
    BY <1>2, <2>1, StageFacts, EarliestFacts
  <2>3. timing[StageOf(command, stage)] \in Nat \ {0}
    BY <1>2, <2>2 DEF InputsOK, Timing
  <2>4. ChipOf(command) \in Needs(command, stage) /\ ChipOf(command) \in AllResources
    <3>1. Placed(command)
      BY <1>2, EarliestFacts
    <3> QED BY <3>1, NeedsFacts, PlacedNeeds
  <2>5. Earliest \in Nat /\ ready[ChipOf(command)] <= Earliest
    BY <1>2, <2>4, EarliestFacts
  <2>6. cycle \in Nat /\ Earliest <= cycle
    <3>1. PICK k \in Nat : cycle = Earliest + dispatch_cycles * k
      BY <1>1 DEF IInv, Probing
    <3>2. dispatch_cycles * k \in Nat
      BY <1>2 DEF InputsOK
    <3> QED BY <2>5, <3>1, <3>2
  <2> QED BY <1>2, <2>3, <2>4, <2>5, <2>6 DEF TypeOK, ReadyTypeOK
<1>5. Starts' = Starts \cup {cycle}
  BY <1>1, <1>2, StartsGrow
<1> HIDE DEF end, n
<1>6. issue_events' = Len(rows')
  <2>1. Len(rows') = n + 1
    BY <1>3
  <2> QED BY <1>1, <2>1 DEF ReportInv, n
<1>7. IsFiniteSet(Starts') /\ dispatch_rounds' = Cardinality(Starts')
  <2>1. IsFiniteSet(Starts) /\ dispatch_rounds = Cardinality(Starts)
    BY DEF ReportInv
  <2>2. CASE NewBucket
    <3>1. ~buckets[index].used /\ dispatch_rounds' = dispatch_rounds + 1
      BY <2>2 DEF NewBucket, bucket
    <3>2. cycle \notin Starts
      BY <1>1, <1>2, <3>1, FreeIsNew DEF BucketsExact
    <3> QED BY <1>5, <2>1, <3>1, <3>2, FS_AddElement
  <2>3. CASE JoinBucket
    <3>1. /\ buckets[index].used /\ buckets[index].cycle = cycle
          /\ dispatch_rounds' = dispatch_rounds
      BY <2>3 DEF JoinBucket, bucket
    <3>2. cycle \in Starts
      BY <1>2, <3>1 DEF ReportInv, TypeOK
    <3>3. Starts' = Starts
      BY <1>5, <3>2
    <3> QED BY <2>1, <3>1, <3>3
  <2> QED BY <2>2, <2>3
<1>8. \A b \in DOMAIN buckets' : buckets'[b].used => buckets'[b].cycle \in Starts'
  <2>1. /\ DOMAIN buckets' = DOMAIN buckets
        /\ \A b \in DOMAIN buckets : b # index => buckets'[b] = buckets[b]
        /\ buckets'[index].cycle = cycle
    <3>1. index \in DOMAIN buckets /\ buckets = [b \in DOMAIN buckets |-> buckets[b]]
      BY <1>2 DEF TypeOK
    <3>2. CASE NewBucket
      BY <3>1, <3>2 DEF NewBucket
    <3>3. CASE JoinBucket
      <4>1. buckets' = [buckets EXCEPT ![index] = [used |-> TRUE, cycle |-> cycle,
                                                   count |-> buckets[index].count + 1]]
        BY <3>3 DEF JoinBucket
      <4> QED BY <3>1, <4>1
    <3> QED BY <3>2, <3>3
  <2> QED BY <1>5, <2>1 DEF ReportInv
<1>9. last_cycle <= last_cycle' /\ (last => end <= last_cycle')
  BY <1>1, <1>4 DEF Max2
<1>10. last_cycle' \in Nat /\ ready'[ChipOf(command)] = end
  BY <1>1, <1>4 DEF Max2
<1>11. ASSUME NEW j \in DOMAIN rows'
       PROVE  \/ rows'[j].end <= last_cycle'
              \/ UnderWay' /\ rows'[j].end <= ready'[ChipOf(command')]
  <2>1. rows'[j].end \in Nat /\ (rows'[j].end <= last_cycle \/ rows'[j].end <= end)
    <3>1. CASE j = n + 1
      BY <1>3, <1>4, <3>1
    <3>2. CASE j \in 1..n
      <4>1. rows'[j] = rows[j] /\ rows[j].end \in Nat
        BY <1>3, <3>2
      <4>2. rows[j].end <= last_cycle \/ rows[j].end <= ready[ChipOf(command)]
        BY <1>3, <3>2 DEF ReportInv
      <4> QED BY <1>4, <4>1, <4>2
    <3> QED BY <1>3, <3>1, <3>2
  <2>2. ~last => UnderWay'
    BY <1>1 DEF UnderWay
  <2> HIDE DEF last
  <2> QED BY <1>1, <1>4, <1>9, <1>10, <2>1, <2>2
<1>12. last_cycle' = 0 \/ \E j \in DOMAIN rows' : rows'[j].end = last_cycle'
  <2>1. last_cycle' = last_cycle \/ last_cycle' = end
    BY <1>1 DEF Max2
  <2>2. n + 1 \in DOMAIN rows' /\ rows'[n + 1].end = end
    BY <1>3
  <2>3. last_cycle = 0 \/ \E j \in DOMAIN rows' : rows'[j].end = last_cycle
    BY <1>3 DEF ReportInv
  <2> QED BY <2>1, <2>2, <2>3
<1> QED BY <1>6, <1>7, <1>8, <1>11, <1>12 DEF ReportInv

(* The other steps change nothing that is reported, and a command under    *)
(* way stays the same.                                                     *)
LEMMA StepReportInv == IInv /\ ReportInv /\ [Next]_vars => ReportInv'
<1> SUFFICES ASSUME IInv, ReportInv, [Next]_vars
             PROVE  ReportInv'
  OBVIOUS
<1>1. ASSUME UNCHANGED <<ready, rows, buckets, issue_events, dispatch_rounds, last_cycle>>,
             UnderWay => UnderWay' /\ command' = command
      PROVE  ReportInv'
  BY <1>1 DEF ReportInv, Starts
<1>2. ASSUME SubmitReadCompute \/ EndCompute \/ SubmitReadSlice \/ EndSlices \/ Finish
      PROVE  /\ UNCHANGED <<ready, rows, buckets, issue_events, dispatch_rounds, last_cycle>>
             /\ ~UnderWay
  BY <1>2 DEF SubmitReadCompute, EndCompute, SubmitReadSlice, EndSlices, Finish, scheduler,
              UnderWay
<1>3. ASSUME BeginStage \/ LaterCycle \/ NextBucket \/ UNCHANGED vars
      PROVE  /\ UNCHANGED <<ready, rows, buckets, issue_events, dispatch_rounds, last_cycle>>
             /\ command' = command /\ (UnderWay => UnderWay')
  BY <1>3 DEF BeginStage, LaterCycle, NextBucket, vars, scheduler, UnderWay
<1> QED BY <1>1, <1>2, <1>3, IssueReports DEF Next, Terminated

-----------------------------------------------------------------------------
(* The theorems.                                                           *)

(* Every variable has its type.                                            *)
THEOREM TypeCorrect == Spec => []TypeOK
<1>1. IInv => TypeOK
  BY DEF IInv
<1> QED BY <1>1, Invariance, PTL

(* However the hash collides, the table counts every cycle's stages, and   *)
(* what the row reports is what was placed.                                *)
THEOREM TableCorrect == Spec => []TableExact
<1>1. Init => ReportInv
  BY InitReportInv
<1>2. IInv /\ ReportInv /\ [Next]_vars => ReportInv'
  BY StepReportInv
<1>3. IInv /\ ReportInv => TableExact
  BY ReportsRight DEF TableExact, IInv
<1> QED BY <1>1, <1>2, <1>3, Invariance, PTL DEF Spec

(* No array read and no computation of a slice's plane overlaps the slice, *)
(* although it never looks at the plane's ready time.                      *)
THEOREM PlanesIdle == Spec => []SlicesFindPlaneIdle
<1>1. ASSUME IInv PROVE SlicesFindPlaneIdle
  <2>1. /\ TablesTyped(PlacedCommand, ready, rows) /\ RowsExclusive(rows)
        /\ StagesExist(rows)
    BY <1>1 DEF IInv, TypeOK, ReadyTypeOK, TablesTyped
  <2> QED BY <2>1, ExclusiveFindsPlaneIdle DEF SlicesFindPlaneIdle
<1> QED BY <1>1, Invariance, PTL

(* No cycle issues more stages than the width, none waits past a free slot. *)
THEOREM WidthCorrect == Spec => []WidthRespected
<1>1. ASSUME IInv PROVE WidthRespected
  <2>1. InputsOK /\ TypeOK /\ BucketsExact /\ Probing
    BY <1>1 DEF IInv
  <2>2. ASSUME NEW c \in Starts
        PROVE  Cardinality(StartedAt(c)) <= issue_width
    <3>1. PICK b \in DOMAIN buckets : /\ buckets[b].used /\ buckets[b].cycle = c
                                      /\ buckets[b].count = Cardinality(StartedAt(c))
      BY <2>1 DEF BucketsExact
    <3>2. buckets[b].count \in 0..issue_width
      BY <2>1, <3>1 DEF TypeOK
    <3> QED BY <3>1, <3>2, WidthType
  <2>3. ASSUME pc = "probe"
        PROVE  /\ (cycle - Earliest) % dispatch_cycles = 0
               /\ \A k \in 0..(cycle - Earliest) \div dispatch_cycles - 1 :
                    Cardinality(StartedAt(Earliest + k * dispatch_cycles)) = issue_width
    <3>1. PICK n \in Nat : /\ cycle = Earliest + dispatch_cycles * n
                           /\ \A j \in 0..n - 1 : IsFull(Earliest + dispatch_cycles * j)
      BY <2>1, <2>3 DEF Probing
    <3>2. Earliest \in Nat /\ dispatch_cycles \in Nat \ {0}
      BY <2>1, EarliestFacts DEF InputsOK
    <3>3. cycle - Earliest = dispatch_cycles * n /\ dispatch_cycles * n \in Nat
      BY <3>1, <3>2
    <3>4. (dispatch_cycles * n) % dispatch_cycles = 0
      BY <3>2, Divides
    <3>5. (dispatch_cycles * n) \div dispatch_cycles = n
      <4>1. dispatch_cycles * n < dispatch_cycles * n + dispatch_cycles
        BY <3>2, <3>3
      <4>2. dispatch_cycles * n <= dispatch_cycles * n
        BY <3>3
      <4> QED BY <3>2, <3>3, <4>1, <4>2, QuotientIs
    <3>6. \A k \in 0..n - 1 : Earliest + k * dispatch_cycles = Earliest + dispatch_cycles * k
      BY <3>2
    <3> QED BY <3>1, <3>3, <3>4, <3>5, <3>6 DEF IsFull
  <2> QED BY <2>2, <2>3 DEF WidthRespected
<1> QED BY <1>1, Invariance, PTL

(* The slices are spread in proportion over the computations.              *)
THEOREM SlicesCorrect == Spec => []SlicesSpread
<1>1. ASSUME IInv PROVE SlicesSpread
  <2>1. InputsOK /\ TypeOK /\ Turns
    BY <1>1 DEF IInv
  <2> SUFFICES ASSUME demand.read_compute > 0
               PROVE  /\ pc = "compute" =>
                           LET ahead == slice_done * demand.read_compute - rc * demand.read_slice
                           IN  /\ 2 * ahead <= demand.read_compute
                               /\ -2 * ahead <= demand.read_compute
                      /\ pc \in {"trailing", "ok"} => slice_done = demand.read_slice
    BY DEF SlicesSpread
  <2> DEFINE a == slice_done * demand.read_compute
             b == rc * demand.read_slice
  <2>2. /\ rc \in 0..demand.read_compute /\ slice_done \in Nat
        /\ demand.read_compute \in Nat /\ demand.read_slice \in Nat
    BY <2>1 DEF InputsOK, TypeOK
  <2>3. a \in Nat /\ b \in Nat
    BY <2>2
  <2>4. pc = "compute" => 2 * (a - b) <= demand.read_compute /\ 2 * (b - a) <= demand.read_compute
    BY <2>1, <2>2, DueFacts DEF Turns
  <2> HIDE DEF a, b
  <2>5. pc = "compute" => 2 * (a - b) <= demand.read_compute /\ -2 * (a - b) <= demand.read_compute
    BY <2>2, <2>3, <2>4
  <2>6. pc \in {"trailing", "ok"} => slice_done = demand.read_slice
    BY <2>1, <2>2 DEF Turns
  <2> QED BY <2>5, <2>6 DEF a, b
<1> QED BY <1>1, Invariance, PTL

-----------------------------------------------------------------------------
(* Room in the table.                                                      *)

Used == {b \in DOMAIN buckets : buckets[b].used}

SliceUnderWay == UnderWay /\ command.opcode = "READ_SLICE" /\ rc < demand.read_compute

(* Every computation submitted has placed four stages, the one under way   *)
(* as many as it has come to, and every slice two.                         *)
RowsCounted ==
  Len(rows) = 4 * (IF pc = "slices" \/ SliceUnderWay THEN rc + 1 ELSE rc)
              + 2 * slice_done + (IF UnderWay THEN stage ELSE 0)

(* No stage takes more than one bucket.                                    *)
UsedCounted == IsFiniteSet(Used) /\ Cardinality(Used) <= Len(rows)

(* What a command has to place.                                            *)
LEMMA StagesDue ==
  /\ command.opcode = "READ_COMPUTE" => StageCount(command) = 4
  /\ command.opcode = "READ_SLICE" => StageCount(command) = 2
BY DEF StageCount, StagesOf

(* Nothing is counted before the first command.                            *)
LEMMA InitCounted == Init => RowsCounted /\ UsedCounted
<1> SUFFICES ASSUME Init
             PROVE  RowsCounted /\ UsedCounted
  OBVIOUS
<1>1. /\ rows = << >> /\ rc = 0 /\ slice_done = 0 /\ stage = 0
      /\ pc \in {"refused", "compute"}
      /\ buckets = [b \in 0..BucketCount(demand) - 1 |-> Unused]
  BY DEF Init, InitReady
<1>2. RowsCounted
  BY <1>1 DEF RowsCounted, UnderWay, SliceUnderWay
<1>3. Used = {}
  BY <1>1 DEF Used, Unused
<1>4. IsFiniteSet(Used) /\ Cardinality(Used) = 0
  BY <1>3, FS_EmptySet
<1> QED BY <1>1, <1>2, <1>4 DEF UsedCounted

(* The loops and the probe count on as the stages are placed.              *)
LEMMA RowsCountedStep == IInv /\ RowsCounted /\ [Next]_vars => RowsCounted'
<1> SUFFICES ASSUME IInv, RowsCounted, [Next]_vars
             PROVE  RowsCounted'
  OBVIOUS
<1> DEFINE R == demand.read_compute
           S == demand.read_slice
           n == Len(rows)
<1>1. InputsOK /\ TypeOK /\ InStep /\ Turns
  BY DEF IInv
<1>2. /\ R \in Nat /\ S \in Nat /\ rc \in 0..R /\ slice_done \in 0..S /\ stage \in 0..4
      /\ command \in PlacedCommand
  BY <1>1 DEF InputsOK, TypeOK
<1>3. n \in Nat
  <2>1. rows \in Seq([command : PlacedCommand, stage : 0..3, start : Nat, end : Nat \ {0}])
    BY <1>1 DEF TypeOK, ReadyTypeOK
  <2> QED BY <2>1
<1>4. demand' = demand
  BY DEF Next, SubmitReadCompute, EndCompute, SubmitReadSlice, EndSlices, Finish, BeginStage,
         NewBucket, JoinBucket, LaterCycle, NextBucket, StageIssued, Terminated, vars, inputs
<1>5. CASE /\ rows' = rows /\ rc' = rc /\ slice_done' = slice_done /\ stage' = stage
           /\ command' = command
           /\ (pc' = "slices" <=> pc = "slices") /\ (UnderWay' <=> UnderWay)
  BY <1>4, <1>5 DEF RowsCounted, SliceUnderWay
<1>6. CASE SubmitReadCompute
  <2>1. /\ rows' = rows /\ rc' = rc /\ slice_done' = slice_done /\ stage' = 0
        /\ pc = "compute" /\ pc' = "stage" /\ command' = PlaceAt("READ_COMPUTE", rc, 0)
    BY <1>6 DEF SubmitReadCompute, Submit
  <2>2. command'.opcode = "READ_COMPUTE"
    BY <2>1 DEF PlaceAt
  <2>3. ~SliceUnderWay' /\ UnderWay' /\ ~UnderWay
    BY <2>1, <2>2 DEF SliceUnderWay, UnderWay
  <2> QED BY <1>2, <1>3, <2>1, <2>3 DEF RowsCounted, SliceUnderWay
<1>7. CASE SubmitReadSlice
  <2>1. /\ rows' = rows /\ rc' = rc /\ slice_done' = slice_done /\ stage' = 0
        /\ pc' = "stage" /\ command' = PlaceAt("READ_SLICE", slice_done, 1)
        /\ pc \in {"slices", "trailing"}
    BY <1>7 DEF SubmitReadSlice, Submit
  <2>2. command'.opcode = "READ_SLICE" /\ UnderWay' /\ ~UnderWay
    BY <2>1 DEF PlaceAt, UnderWay
  <2>3. pc = "slices" <=> rc < R
    BY <1>1, <1>2, <2>1 DEF Turns
  <2>4. SliceUnderWay' <=> pc = "slices"
    BY <1>4, <2>1, <2>2, <2>3 DEF SliceUnderWay
  <2> QED BY <1>2, <1>3, <2>1, <2>2, <2>4 DEF RowsCounted, SliceUnderWay
<1>8. CASE EndSlices
  <2>1. /\ rows' = rows /\ rc' = rc + 1 /\ slice_done' = slice_done
        /\ pc = "slices" /\ pc' = "compute"
    BY <1>8 DEF EndSlices
  <2> QED BY <1>2, <1>3, <2>1 DEF RowsCounted, SliceUnderWay, UnderWay
<1>9. CASE pc = "probe" /\ StageIssued
  <2> DEFINE end == cycle + timing[StageOf(command, stage)]
             last == stage + 1 = StageCount(command)
  <2>1. /\ Occupy(command, stage, cycle, end) /\ stage' = stage + 1
        /\ slice_done' = IF last /\ command.opcode = "READ_SLICE" THEN slice_done + 1
                                                                  ELSE slice_done
        /\ pc' = IF ~last THEN "stage" ELSE IF rc < R THEN "slices" ELSE "trailing"
        /\ rc' = rc /\ command' = command
    BY <1>9 DEF StageIssued
  <2>2. Len(rows') = n + 1
    <3>1. rows' = Append(rows, [command |-> command, stage |-> stage, start |-> cycle,
                                end |-> end])
      BY <2>1 DEF Occupy
    <3>2. rows \in Seq([command : PlacedCommand, stage : 0..3, start : Nat, end : Nat \ {0}])
      BY <1>1 DEF TypeOK, ReadyTypeOK
    <3> HIDE DEF end
    <3> QED BY <3>1, <3>2
  <2>3. command.opcode \in {"READ_COMPUTE", "READ_SLICE"}
    BY <1>2 DEF PlacedCommand
  <2>4. command.opcode = "READ_COMPUTE" => rc < R
    BY <1>1, <1>9 DEF Turns, UnderWay
  <2>5. UnderWay /\ (SliceUnderWay <=> command.opcode = "READ_SLICE" /\ rc < R)
    BY <1>9 DEF SliceUnderWay, UnderWay
  <2> HIDE DEF n
  <2>6. n = 4 * (IF command.opcode = "READ_SLICE" /\ rc < R THEN rc + 1 ELSE rc)
            + 2 * slice_done + stage
    BY <1>9, <2>5 DEF RowsCounted, n
  <2>7. CASE last
    <3>1. /\ ~UnderWay' /\ ~SliceUnderWay' /\ stage + 1 = StageCount(command)
          /\ pc' = IF rc < R THEN "slices" ELSE "trailing"
      BY <2>1, <2>7 DEF UnderWay, SliceUnderWay
    <3>2. Len(rows') = 4 * (IF rc < R THEN rc + 1 ELSE rc) + 2 * slice_done'
      <4>1. CASE command.opcode = "READ_COMPUTE"
        BY <1>2, <1>3, <2>1, <2>2, <2>4, <2>6, <3>1, <4>1, StagesDue
      <4>2. CASE command.opcode = "READ_SLICE"
        BY <1>2, <1>3, <2>1, <2>2, <2>6, <2>7, <3>1, <4>2, StagesDue
      <4> QED BY <2>3, <4>1, <4>2
    <3> QED BY <1>2, <2>1, <3>1, <3>2 DEF RowsCounted
  <2>8. CASE ~last
    <3>1. /\ UnderWay' /\ (SliceUnderWay' <=> command.opcode = "READ_SLICE" /\ rc < R)
          /\ slice_done' = slice_done /\ pc' = "stage"
      BY <1>4, <2>1, <2>8 DEF UnderWay, SliceUnderWay
    <3>2. Len(rows') = 4 * (IF command.opcode = "READ_SLICE" /\ rc < R THEN rc + 1 ELSE rc)
                       + 2 * slice_done' + stage'
      BY <1>2, <1>3, <2>1, <2>2, <2>6, <3>1
    <3> QED BY <2>1, <3>1, <3>2 DEF RowsCounted
  <2> QED BY <2>7, <2>8
<1>10. ASSUME EndCompute \/ Finish \/ BeginStage \/ LaterCycle \/ NextBucket \/ UNCHANGED vars
       PROVE  /\ rows' = rows /\ rc' = rc /\ slice_done' = slice_done /\ stage' = stage
              /\ command' = command
              /\ (pc' = "slices" <=> pc = "slices") /\ (UnderWay' <=> UnderWay)
  BY <1>10 DEF EndCompute, Finish, BeginStage, LaterCycle, NextBucket, vars, UnderWay
<1> QED BY <1>5, <1>6, <1>7, <1>8, <1>9, <1>10 DEF Next, Terminated, NewBucket, JoinBucket

(* A stage that is placed takes one bucket more at most.                   *)
LEMMA UsedCountedStep == IInv /\ UsedCounted /\ [Next]_vars => UsedCounted'
<1> SUFFICES ASSUME IInv, UsedCounted, [Next]_vars
             PROVE  UsedCounted'
  OBVIOUS
<1>1. IsFiniteSet(Used) /\ Cardinality(Used) <= Len(rows) /\ Cardinality(Used) \in Nat
  BY FS_CardinalityType DEF UsedCounted
<1>2. CASE rows' = rows /\ buckets' = buckets
  BY <1>1, <1>2 DEF UsedCounted, Used
<1>3. CASE NewBucket \/ JoinBucket
  <2> DEFINE end == cycle + timing[StageOf(command, stage)]
             U == Used \cup {index}
             k == Cardinality(U)
  <2>1. pc = "probe" /\ StageIssued
    BY <1>3 DEF NewBucket, JoinBucket
  <2>2. Len(rows') = Len(rows) + 1 /\ Len(rows) \in Nat
    <3>1. rows' = Append(rows, [command |-> command, stage |-> stage, start |-> cycle,
                                end |-> end])
      BY <2>1 DEF StageIssued, Occupy
    <3>2. rows \in Seq([command : PlacedCommand, stage : 0..3, start : Nat, end : Nat \ {0}])
      BY DEF IInv, TypeOK, ReadyTypeOK
    <3> HIDE DEF end
    <3> QED BY <3>1, <3>2
  <2>3. /\ buckets' \in [DOMAIN buckets -> [used : BOOLEAN, cycle : Nat, count : Int]]
        /\ index \in DOMAIN buckets /\ buckets'[index].used
        /\ \A b \in DOMAIN buckets \ {index} : buckets'[b] = buckets[b]
    <3>1. /\ buckets \in [DOMAIN buckets -> [used : BOOLEAN, cycle : Nat, count : Int]]
          /\ index \in DOMAIN buckets /\ cycle \in Nat
          /\ buckets[index].count \in Int
      BY WidthType DEF IInv, TypeOK
    <3>2. CASE NewBucket
      BY <3>1, <3>2 DEF NewBucket
    <3>3. CASE JoinBucket
      <4>1. buckets' = [buckets EXCEPT ![index] = [used |-> TRUE, cycle |-> cycle,
                                                   count |-> buckets[index].count + 1]]
        BY <3>3 DEF JoinBucket
      <4>2. buckets[index].count + 1 \in Int
        BY <3>1
      <4> QED BY <3>1, <4>1, <4>2
    <3> QED BY <1>3, <3>2, <3>3
  <2>4. Used' = U
    BY <2>3 DEF Used
  <2>5. IsFiniteSet(U) /\ k = IF index \in Used THEN Cardinality(Used) ELSE Cardinality(Used) + 1
    BY <1>1, FS_AddElement
  <2> HIDE DEF U, k
  <2>6. k <= Len(rows) + 1
    BY <1>1, <2>2, <2>5
  <2> QED BY <2>2, <2>4, <2>5, <2>6 DEF UsedCounted, k
<1>4. ASSUME ~(NewBucket \/ JoinBucket)
      PROVE  rows' = rows /\ buckets' = buckets
  BY <1>4 DEF Next, SubmitReadCompute, EndCompute, SubmitReadSlice, EndSlices, Finish,
              BeginStage, LaterCycle, NextBucket, Terminated, vars, scheduler
<1> QED BY <1>2, <1>3, <1>4

(* No more stages are placed than the demand has.                          *)
LEMMA RowsBounded ==
  IInv /\ RowsCounted => Len(rows) <= 4 * demand.read_compute + 2 * demand.read_slice
<1> SUFFICES ASSUME IInv, RowsCounted
             PROVE  Len(rows) <= 4 * demand.read_compute + 2 * demand.read_slice
  OBVIOUS
<1> DEFINE R == demand.read_compute
           S == demand.read_slice
           n == Len(rows)
<1>1. InputsOK /\ TypeOK /\ InStep /\ Turns
  BY DEF IInv
<1>2. /\ R \in Nat /\ S \in Nat /\ rc \in 0..R /\ slice_done \in 0..S /\ stage \in 0..4
      /\ command.opcode \in {"READ_COMPUTE", "READ_SLICE"}
  BY <1>1 DEF InputsOK, TypeOK, PlacedCommand
<1>3. rc < R => Due(rc + 1) \in 0..S
  <2>1. rc < R => rc + 1 \in 0..R /\ R > 0
    BY <1>2
  <2> QED BY <1>1, <2>1, DueFacts
<1>4. CASE UnderWay /\ command.opcode = "READ_COMPUTE"
  <2>1. rc < R /\ stage < 4 /\ ~SliceUnderWay
    BY <1>1, <1>4, StagesDue DEF Turns, InStep, SliceUnderWay
  <2>2. n = 4 * rc + 2 * slice_done + stage
    BY <1>4, <2>1 DEF RowsCounted, UnderWay
  <2> HIDE DEF n, R, S
  <2>3. n <= 4 * R + 2 * S
    BY <1>2, <2>1, <2>2
  <2> QED BY <2>3 DEF n, R, S
<1>5. CASE UnderWay /\ command.opcode = "READ_SLICE"
  <2>1. stage < 2 /\ slice_done < (IF rc < R THEN Due(rc + 1) ELSE S)
    BY <1>1, <1>5, StagesDue DEF Turns, InStep
  <2>2. slice_done < S
    BY <1>2, <1>3, <2>1
  <2>3. n = 4 * (IF rc < R THEN rc + 1 ELSE rc) + 2 * slice_done + stage
    BY <1>5 DEF RowsCounted, UnderWay, SliceUnderWay
  <2> HIDE DEF n, R, S
  <2>4. n <= 4 * R + 2 * S
    BY <1>2, <2>1, <2>2, <2>3
  <2> QED BY <2>4 DEF n, R, S
<1>6. CASE ~UnderWay
  <2>1. n = 4 * (IF pc = "slices" THEN rc + 1 ELSE rc) + 2 * slice_done
    BY <1>2, <1>6 DEF RowsCounted, SliceUnderWay
  <2>2. pc = "slices" => rc < R
    BY <1>1 DEF Turns
  <2> HIDE DEF n, R, S
  <2>3. n <= 4 * R + 2 * S
    BY <1>2, <2>1, <2>2
  <2> QED BY <2>3 DEF n, R, S
<1> QED BY <1>2, <1>4, <1>5, <1>6

(* The bucket d places after a, wrapping at the end of the table.          *)
LEMMA WrapsTo ==
  ASSUME NEW n \in Nat \ {0}, NEW a \in 0..n - 1, NEW b \in 0..n - 1
  PROVE  \E d \in 0..n - 1 : (a + d) % n = b
<1>1. ASSUME b >= a
      PROVE  b - a \in 0..n - 1 /\ (a + (b - a)) % n = b
  <2>1. a + (b - a) = b + 0
    OBVIOUS
  <2> QED BY <1>1, <2>1, SmallRemainder
<1>2. ASSUME b < a
      PROVE  b - a + n \in 0..n - 1 /\ (a + (b - a + n)) % n = b
  <2>1. a + (b - a + n) = b + n
    OBVIOUS
  <2>2. (b + n) \div n = 1
    <3>1. n * 1 <= b + n /\ b + n < n * 1 + n
      OBVIOUS
    <3> QED BY <3>1, QuotientIs
  <2>3. b + n = n * ((b + n) \div n) + ((b + n) % n) /\ (b + n) % n \in Nat
    OBVIOUS
  <2>4. (b + n) % n = b
    BY <2>2, <2>3
  <2>5. b - a + n \in 0..n - 1
    BY <1>2
  <2> QED BY <2>1, <2>4, <2>5
<1> DEFINE e == IF b >= a THEN b - a ELSE b - a + n
<1>3. b >= a \/ b < a
  OBVIOUS
<1>4. e \in 0..n - 1 /\ (a + e) % n = b
  <2>1. CASE b >= a
    <3>1. e = b - a
      BY <2>1
    <3> HIDE DEF e
    <3> QED BY <1>1, <2>1, <3>1, Zenon
  <2>2. CASE b < a
    <3>1. e = b - a + n
      BY <2>2
    <3> HIDE DEF e
    <3> QED BY <1>2, <2>2, <3>1, Zenon
  <2> QED BY <1>3, <2>1, <2>2
<1> HIDE DEF e
<1> QED BY <1>4, Zenon

(* Less than half of the table is ever in use, and from the hash of any    *)
(* cycle on a probe comes to the cycle's own bucket or to a free one       *)
(* before it has gone round.                                               *)
RoomLeft ==
  /\ 2 * Cardinality(Used) < Size
  /\ \A c \in Nat : \E d \in 0..Size - 1 :
       LET b == buckets[(HashOf(c) + d) % Size] IN ~b.used \/ b.cycle = c

(* The table of issue slots always has room, so that the probe loop, which *)
(* nothing in the code bounds, cannot go round for ever.                   *)
THEOREM TableHasRoom == Spec => []RoomLeft
<1>1. ASSUME IInv, RowsCounted, UsedCounted
      PROVE  RoomLeft
  <2> DEFINE R == demand.read_compute
             S == demand.read_slice
             u == Cardinality(Used)
  <2>1. InputsOK /\ TypeOK
    BY <1>1 DEF IInv
  <2>2. R \in Nat /\ S \in Nat /\ BucketSlack \in Nat \ {0}
    BY <2>1, FullRowAssumption DEF InputsOK
  <2>3. /\ Size \in Nat /\ Size = BucketCount(demand) /\ DOMAIN buckets = 0..Size - 1
        /\ \A c : HashOf(c) \in 0..Size - 1
    BY <2>1, TableFacts
  <2>4. Size >= 2 * (4 * R + 2 * S) + BucketSlack
    BY <2>1, <2>3, BucketCountType DEF InputsOK
  <2>5. u \in Nat /\ u <= 4 * R + 2 * S
    <3>1. u \in Nat /\ u <= Len(rows) /\ Len(rows) <= 4 * R + 2 * S
      BY <1>1, FS_CardinalityType, RowsBounded DEF UsedCounted
    <3>2. Len(rows) \in Nat
      <4>1. rows \in Seq([command : PlacedCommand, stage : 0..3, start : Nat, end : Nat \ {0}])
        BY <2>1 DEF TypeOK, ReadyTypeOK
      <4> QED BY <4>1
    <3> HIDE DEF u, R, S
    <3> QED BY <2>2, <3>1, <3>2
  <2>6. 2 * u < Size
    <3> HIDE DEF u, R, S
    <3> QED BY <2>2, <2>3, <2>4, <2>5
  <2>7. PICK b \in DOMAIN buckets : ~buckets[b].used
    <3> SUFFICES ASSUME \A b \in DOMAIN buckets : buckets[b].used
                 PROVE  FALSE
      OBVIOUS
    <3>1. Used = DOMAIN buckets
      BY DEF Used
    <3>2. u = Size
      BY <3>1 DEF Size
    <3> HIDE DEF u
    <3> QED BY <2>3, <2>5, <2>6, <3>2
  <2>8. ASSUME NEW c \in Nat
        PROVE  \E d \in 0..Size - 1 :
                 LET e == buckets[(HashOf(c) + d) % Size] IN ~e.used \/ e.cycle = c
    <3>1. HashOf(c) \in 0..Size - 1 /\ b \in 0..Size - 1 /\ Size \in Nat \ {0}
      BY <2>3, <2>7
    <3>2. PICK d \in 0..Size - 1 : (HashOf(c) + d) % Size = b
      BY <3>1, WrapsTo
    <3> QED BY <2>7, <3>2
  <2> QED BY <2>6, <2>8 DEF RoomLeft
<1> QED BY <1>1, Invariance, InitCounted, RowsCountedStep, UsedCountedStep, PTL DEF Spec

-----------------------------------------------------------------------------
(* Refinement of ListSchedule.                                             *)

(* The stages and resources of the instance are those of IfcStages.        *)
LEMMA ListTerms ==
  /\ \A row : List!LastStageOf(row) <=> row.stage = StageCount(row.command) - 1
  /\ \A row : List!Claims(row) = Needs(row.command, row.stage)
<1>1. \A c, s : List!StageCount(c) = StageCount(c) /\ List!StageOf(c, s) = StageOf(c, s)
  BY DEF List!StageCount, List!StageOf, List!StagesOf, StageCount, StageOf, StagesOf
<1>2. \A c, s : List!Needs(c, s) = Needs(c, s)
  <2>1. \A c : /\ List!ChannelOf(c) = ChannelOf(c) /\ List!ChipOf(c) = ChipOf(c)
               /\ List!ComputeOf(c) = ComputeOf(c) /\ List!PlaneOf(c) = PlaneOf(c)
    BY DEF List!ChannelOf, List!ChipOf, List!ComputeOf, List!PlaneOf,
           ChannelOf, ChipOf, ComputeOf, PlaneOf
  <2> QED BY <1>1, <2>1 DEF List!Needs, List!IsTransfer, Needs, IsTransfer
<1> QED BY <1>1, <1>2 DEF List!LastStageOf, List!Claims

(* The only steps that place a stage place it in turn, and later than its  *)
(* resources ask for by as much as the probe went on.                      *)
LEMMA ListStep == IInv /\ [Next]_vars => [List!Next]_rows
<1> SUFFICES ASSUME IInv, [Next]_vars, rows' # rows
             PROVE  List!Next
  OBVIOUS
<1> DEFINE end == cycle + timing[StageOf(command, stage)]
           row == [command |-> command, stage |-> stage, start |-> cycle, end |-> end]
<1>1. pc = "probe" /\ StageIssued
  BY DEF Next, SubmitReadCompute, EndCompute, SubmitReadSlice, EndSlices, Finish, BeginStage,
         NewBucket, JoinBucket, LaterCycle, NextBucket, Terminated, vars
<1>2. rows' = Append(rows, row)
  BY <1>1 DEF StageIssued, Occupy
<1>3. InputsOK /\ TypeOK /\ InStep /\ Probing /\ ReadyTypeOK(PlacedCommand) /\ ReadyMax(ready, rows)
  BY DEF IInv, TypeOK
<1>4. /\ command \in PlacedCommand /\ Placed(command)
      /\ StageCount(command) \in {2, 4} /\ stage \in 0..3 /\ stage < StageCount(command)
  <2>1. command \in PlacedCommand /\ stage \in Nat /\ stage < StageCount(command)
    BY <1>1, <1>3 DEF TypeOK, InStep, UnderWay
  <2>2. StageCount(command) \in {2, 4}
    BY StageFacts
  <2> QED BY <1>3, <2>1, <2>2, EarliestFacts
<1>5. /\ Earliest \in Nat /\ cycle \in Nat /\ cycle - Earliest \in Nat
  <2>1. PICK k \in Nat : cycle = Earliest + dispatch_cycles * k
    BY <1>1, <1>3 DEF Probing
  <2>2. Earliest \in Nat /\ dispatch_cycles * k \in Nat
    BY <1>3, EarliestFacts DEF InputsOK
  <2> QED BY <2>1, <2>2
<1>6. end \in Nat /\ end > cycle
  <2>1. StageOf(command, stage) \in StageNames
    BY <1>4, StageFacts
  <2>2. timing[StageOf(command, stage)] \in Nat \ {0}
    BY <1>3, <2>1 DEF InputsOK, Timing
  <2> QED BY <1>5, <2>2
<1> HIDE DEF end
<1>7. /\ Earliest \in {0} \cup EndsBefore(rows, command, stage)
      /\ \A e \in EndsBefore(rows, command, stage) : e <= Earliest
  <2>1. TablesTyped(PlacedCommand, ready, rows)
    BY <1>3 DEF ReadyTypeOK, TablesTyped
  <2> QED BY <1>3, <1>4, <2>1, EarliestFacts, EarliestIsWait
<1>8. row.command = command /\ row.stage = stage /\ row.start = cycle /\ row.end = end
  OBVIOUS
<1>9. row \in List!Row
  BY <1>4, <1>5, <1>6 DEF List!Row
<1>10. rows \in Seq(List!Row)
  <2> DEFINE RowSet == [command : PlacedCommand, stage : 0..3, start : Nat, end : Nat \ {0}]
  <2>1. rows \in Seq(RowSet) /\ RowSet \subseteq List!Row
    BY <1>3 DEF ReadyTypeOK, List!Row
  <2> HIDE DEF RowSet
  <2> QED BY <2>1
<1> HIDE DEF row
<1>11. Len(rows') = Len(rows) + 1 /\ rows'[Len(rows')] = row
  BY <1>2, <1>9, <1>10
<1>12. List!InTurn(rows, row)
  <2>1. CASE stage = 0
    <3>1. rows = << >> \/ List!LastStageOf(rows[Len(rows)])
      BY <2>1, <1>3, ListTerms DEF InStep
    <3> QED BY <3>1, <2>1, <1>8 DEF List!InTurn
  <2>2. CASE stage # 0
    <3>1. /\ rows # << >> /\ rows[Len(rows)].command = command
          /\ rows[Len(rows)].stage = stage - 1
      BY <2>2, <1>1, <1>3, <1>4 DEF InStep, UnderWay
    <3>2. ~List!LastStageOf(rows[Len(rows)])
      BY <3>1, <1>4, ListTerms
    <3> QED BY <3>1, <3>2, <1>4, <1>8 DEF List!InTurn
  <2> QED BY <2>1, <2>2
<1>13. List!OnTime(rows, row)
  <2>1. List!WaitsFor(rows, row) = EndsBefore(rows, command, stage)
    BY <1>8, ListTerms DEF List!WaitsFor, List!Conflict, EndsBefore
  <2>2. cycle >= Earliest
    BY <1>5
  <2> QED BY <2>1, <2>2, <1>5, <1>7, <1>8 DEF List!OnTime, AnyDelay
<1> QED BY <1>2, <1>6, <1>8, <1>9, <1>11, <1>12, <1>13 DEF List!Next

(* The row is a list schedule of its stages, delayed by the issue slots.   *)
THEOREM Implements == Spec => ImplementsListSchedule
<1>1. Init => List!Init
  BY DEF Init, InitReady, List!Init
<1> QED BY <1>1, Invariance, ListStep, PTL DEF Spec, ImplementsListSchedule, List!Spec
=============================================================================
