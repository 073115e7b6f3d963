-------------------------- MODULE ComponentModelProofs --------------------------
(***************************************************************************)
(* The safety of the SystemC component model, for every platform, stage    *)
(* timing, issue width, queue depth and module clock.                      *)
(***************************************************************************)
EXTENDS ComponentModel, IfcStagesProofs, FiniteSetTheorems, SequenceTheorems

(* The state of a command agrees with its stage index.                     *)
StageAgrees ==
  \A k \in Ids :
    /\ Done(k) => stage[k] = StageCount(commands[k])
    /\ ~Done(k) => stage[k] < StageCount(commands[k])

Blocked(k) == \E r \in Need(k) : owner[r] # None

(* A waiting command the dispatch round has gone by is blocked.            *)
PassBlocks ==
  pc = "dispatch" => \A k \in Ids : Waiting(k) /\ k < i => Blocked(k)

DoneIds == {k \in Ids : Done(k)}

(* The counters are the sizes of the sets they speak of.                   *)
CountsExact ==
  /\ active_commands = Cardinality(ActiveIds)
  /\ completed_commands = Cardinality(DoneIds)
  /\ fabric_issued = fabric_completed + Cardinality(DOMAIN wake)

Members(s) == {s[n] : n \in DOMAIN s}

Distinct(s) == \A m, n \in DOMAIN s : s[m] = s[n] => m = n

CommandIds(s) == [n \in DOMAIN s |-> s[n].command_id]

(* The commands in each of the three places, and the completions written.  *)
OnWay     == Members(Entries(issue_fifo))
InFabric  == DOMAIN wake
Written   == Members(Entries(done_fifo))
OnWayBack == Members(CommandIds(Entries(done_fifo)))

(* The active commands are split between the places.                       *)
PlacesSplit ==
  /\ Distinct(Entries(issue_fifo)) /\ Distinct(CommandIds(Entries(done_fifo)))
  /\ OnWay \cap InFabric = {} /\ OnWay \cap OnWayBack = {} /\ InFabric \cap OnWayBack = {}
  /\ OnWay \cup InFabric \cup OnWayBack \subseteq ActiveIds
  /\ pc # "write_error" => ActiveIds \subseteq OnWay \cup InFabric \cup OnWayBack

UnitsOfFabric ==
  /\ busy_violations = 0
  /\ busy_units = {Unit(k) : k \in InFabric}

(* Every place keeps the cycle in which the controller expects the end.    *)
Punctual ==
  /\ \A k \in OnWay : stage_end[k] = Cycle(now) + Duration(k)
  /\ \A k \in InFabric : stage_end[k] = Cycle(wake[k])
  /\ \A e \in Written : e.observed_cycle = stage_end[e.command_id]

Uncut == issue_backpressure_stalls = 0 /\ width_limited_dispatches = 0

(* Until a round is cut short the controller waits for completions only,   *)
(* so none is left to a later cycle.                                       *)
UncutOnTime ==
  Uncut =>
    /\ pc # "clock" /\ timing_violations = 0
    /\ pc \in {"dispatch", "drain"} => issue_fifo.read = 0
    /\ \A e \in Written : e.observed_cycle = Cycle(now)

IssuedActive == pc = "dispatch" => issued <= active_commands

WideUncut == WideEnough => Uncut

Verdict ==
  pc \in {"ok", "failed"} =>
    /\ completed_commands >= Len(commands)
    /\ pc = "ok" <=> active_commands = 0 /\ timing_violations = 0

(* Completions are only awaited while stages are under way.                *)
AwaitsStage == pc = "read" => ActiveIds # {}

(* What will wake a process lies ahead.                                    *)
AlarmsAhead ==
  /\ \A k \in InFabric : wake[k] >= now
  /\ pc = "clock" => clock >= now

(* The inductive invariant.                                                *)
IInv ==
  /\ TypeOK /\ StageAgrees
  /\ OwnersExact /\ ChipInOrder /\ PassBlocks
  /\ CountsExact
  /\ PlacesSplit /\ UnitsOfFabric
  /\ Punctual /\ UncutOnTime
  /\ IssuedActive /\ WideUncut /\ Verdict
  /\ AwaitsStage /\ AlarmsAhead

-----------------------------------------------------------------------------
(* Sequences as lists of distinct members.                                 *)

LEMMA AppendMembers ==
  ASSUME NEW S, NEW s \in Seq(S), NEW x \in S
  PROVE  /\ Members(Append(s, x)) = Members(s) \cup {x}
         /\ Distinct(s) /\ x \notin Members(s) => Distinct(Append(s, x))
<1> DEFINE a == Append(s, x)
<1>1. /\ DOMAIN s = 1..Len(s) /\ Len(s) \in Nat /\ DOMAIN a = 1..Len(s) + 1
      /\ \A n \in 1..Len(s) : a[n] = s[n]
      /\ a[Len(s) + 1] = x
  OBVIOUS
<1> HIDE DEF a
<1>2. \A n \in DOMAIN a : n \in 1..Len(s) \/ n = Len(s) + 1
  BY <1>1
<1>3. 1..Len(s) \subseteq DOMAIN a /\ Len(s) + 1 \in DOMAIN a
  BY <1>1
<1>4. Members(a) = Members(s) \cup {x}
  BY <1>1, <1>2, <1>3 DEF Members
<1>5. ASSUME Distinct(s), x \notin Members(s), NEW m \in DOMAIN a, NEW n \in DOMAIN a, a[m] = a[n]
      PROVE  m = n
  <2>1. \A l \in 1..Len(s) : a[l] # x
    BY <1>1, <1>5 DEF Members
  <2> QED BY <1>1, <1>2, <1>5, <2>1 DEF Distinct
<1> QED BY <1>4, <1>5 DEF a, Distinct

LEMMA TailMembers ==
  ASSUME NEW S, NEW s \in Seq(S), s # << >>, Distinct(s)
  PROVE  /\ Head(s) \in Members(s)
         /\ Members(Tail(s)) = Members(s) \ {Head(s)}
         /\ Distinct(Tail(s))
<1> DEFINE t == Tail(s)
<1>1. /\ DOMAIN s = 1..Len(s) /\ Len(s) \in Nat \ {0} /\ Head(s) = s[1]
      /\ DOMAIN t = 1..Len(s) - 1
      /\ \A n \in 1..Len(s) - 1 : t[n] = s[n + 1]
  OBVIOUS
<1> HIDE DEF t
<1>2. ASSUME NEW n \in DOMAIN t
      PROVE  n + 1 \in DOMAIN s /\ t[n] = s[n + 1] /\ t[n] # s[1]
  BY <1>1 DEF Distinct
<1>3. ASSUME NEW n \in DOMAIN s, s[n] # s[1]
      PROVE  n - 1 \in DOMAIN t /\ t[n - 1] = s[n]
  BY <1>1, <1>3
<1>4. Members(t) = Members(s) \ {Head(s)}
  BY <1>1, <1>2, <1>3 DEF Members
<1>5. Distinct(t)
  BY <1>1, <1>2 DEF Distinct
<1>6. Head(s) \in Members(s)
  BY <1>1 DEF Members
<1> QED BY <1>4, <1>5, <1>6 DEF t

(* In a list of distinct members each occurs once.                         *)
LEMMA TimesDistinct ==
  ASSUME NEW s, Distinct(s), NEW k
  PROVE  Times(s, k) = IF k \in Members(s) THEN 1 ELSE 0
<1> DEFINE N == {n \in DOMAIN s : s[n] = k}
<1>1. CASE k \in Members(s)
  <2>1. PICK m \in DOMAIN s : s[m] = k
    BY <1>1 DEF Members
  <2>2. N = {m}
    BY <2>1 DEF Distinct
  <2> QED BY <1>1, <2>2, FS_Singleton DEF Times
<1>2. CASE k \notin Members(s)
  <2>1. N = {}
    BY <1>2 DEF Members
  <2> QED BY <1>2, <2>1, FS_EmptySet DEF Times
<1> QED BY <1>1, <1>2

(* A list of distinct members is as long as it has members.                *)
LEMMA LengthDistinct ==
  ASSUME NEW S, NEW s \in Seq(S), Distinct(s)
  PROVE  IsFiniteSet(Members(s)) /\ Cardinality(Members(s)) = Len(s)
<1>1. DOMAIN s = 1..Len(s) /\ Len(s) \in Nat
  OBVIOUS
<1>2. IsFiniteSet(1..Len(s)) /\ Cardinality(1..Len(s)) = Len(s)
  <2>1. 1 \in Int /\ Len(s) \in Int
    BY <1>1
  <2>2. /\ IsFiniteSet(1..Len(s))
        /\ Cardinality(1..Len(s)) = IF 1 > Len(s) THEN 0 ELSE Len(s) - 1 + 1
    BY <2>1, FS_Interval
  <2> QED BY <1>1, <2>2
<1>3. s \in Bijection(1..Len(s), Members(s))
  <2>1. s \in [1..Len(s) -> Members(s)]
    BY <1>1 DEF Members
  <2>2. \A m, n \in 1..Len(s) : s[m] = s[n] => m = n
    BY <1>1 DEF Distinct
  <2>3. \A x \in Members(s) : \E n \in 1..Len(s) : s[n] = x
    BY <1>1 DEF Members
  <2> QED BY <2>1, <2>2, <2>3 DEF Bijection, Injection, IsInjective, Surjection
<1>4. ExistsBijection(1..Len(s), Members(s))
  BY <1>3 DEF ExistsBijection
<1> QED BY <1>2, <1>4, FS_Bijection

(* The commands of a list of completions.                                  *)
LEMMA IdsOfList ==
  ASSUME NEW S, NEW s \in Seq(S), \A e \in S : e.command_id \in Ids
  PROVE  /\ CommandIds(s) \in Seq(Ids)
         /\ \A x \in S : CommandIds(Append(s, x)) = Append(CommandIds(s), x.command_id)
         /\ s # << >> => /\ CommandIds(s) # << >>
                         /\ CommandIds(Tail(s)) = Tail(CommandIds(s))
                         /\ Head(CommandIds(s)) = Head(s).command_id
<1> DEFINE c == CommandIds(s)
<1>1. c = [n \in 1..Len(s) |-> s[n].command_id] /\ \A n \in 1..Len(s) : s[n] \in S
  BY DEF CommandIds
<1>2. c \in Seq(Ids) /\ Len(c) = Len(s) /\ \A n \in 1..Len(s) : c[n] = s[n].command_id
  BY <1>1
<1>3. ASSUME NEW x \in S
      PROVE  CommandIds(Append(s, x)) = Append(c, x.command_id)
  <2> DEFINE a == Append(s, x)
  <2>1. Len(a) = Len(s) + 1 /\ DOMAIN a = 1..Len(a) /\ Len(s) \in Nat
        /\ \A n \in 1..Len(a) : a[n] \in S /\ a[n] = IF n <= Len(s) THEN s[n] ELSE x
    OBVIOUS
  <2>2. CommandIds(a) = [n \in 1..Len(a) |-> a[n].command_id]
    BY <2>1 DEF CommandIds
  <2>3. CommandIds(a) \in Seq(Ids) /\ Len(CommandIds(a)) = Len(a)
        /\ \A n \in 1..Len(a) : CommandIds(a)[n] = a[n].command_id
    BY <2>1, <2>2
  <2>4. Append(c, x.command_id) \in Seq(Ids) /\ Len(Append(c, x.command_id)) = Len(s) + 1
        /\ \A n \in 1..Len(s) + 1 :
             Append(c, x.command_id)[n] = IF n <= Len(s) THEN c[n] ELSE x.command_id
    BY <1>2, <2>1
  <2> HIDE DEF a, c
  <2>5. \A n \in 1..Len(a) : CommandIds(a)[n] = Append(c, x.command_id)[n]
    BY <1>2, <2>1, <2>3, <2>4
  <2>6. CommandIds(a) = Append(c, x.command_id)
    BY <2>1, <2>3, <2>4, <2>5, SeqEqual
  <2> QED BY <2>6 DEF a
<1>4. ASSUME s # << >>
      PROVE  c # << >> /\ CommandIds(Tail(s)) = Tail(c) /\ Head(c) = Head(s).command_id
  <2> DEFINE t == Tail(s)
  <2>1. Len(s) \in Nat \ {0} /\ Len(t) = Len(s) - 1 /\ DOMAIN t = 1..Len(t)
        /\ Head(s) = s[1] /\ \A n \in 1..Len(t) : t[n] \in S /\ t[n] = s[n + 1]
    BY <1>4
  <2> HIDE DEF t, c
  <2>2. CommandIds(t) = [n \in 1..Len(t) |-> t[n].command_id]
    BY <2>1 DEF CommandIds
  <2>3. CommandIds(t) \in Seq(Ids) /\ Len(CommandIds(t)) = Len(t)
        /\ \A n \in 1..Len(t) : CommandIds(t)[n] = t[n].command_id
    BY <2>1, <2>2
  <2>4. c # << >> /\ Head(c) = c[1]
    BY <1>2, <2>1
  <2>5. Tail(c) \in Seq(Ids) /\ Len(Tail(c)) = Len(c) - 1
        /\ \A n \in 1..Len(Tail(c)) : Tail(c)[n] = c[n + 1]
    BY <1>2, <2>4, HeadTailProperties
  <2>6. \A n \in 1..Len(t) : CommandIds(t)[n] = Tail(c)[n]
    BY <1>2, <2>1, <2>3, <2>5
  <2>7. CommandIds(t) = Tail(c)
    BY <1>2, <2>1, <2>3, <2>5, <2>6, SeqEqual
  <2>8. Head(c) = Head(s).command_id
    BY <1>2, <2>1, <2>4
  <2> QED BY <2>4, <2>7, <2>8 DEF t
<1> QED BY <1>2, <1>3, <1>4

-----------------------------------------------------------------------------
(* The FIFOs: a write appends to the entries, a read takes the first, the  *)
(* update leaves them alone.                                               *)

Completion == [command_id : Ids, observed_cycle : Nat]

LEMMA FifoFacts ==
  ASSUME NEW S, NEW f \in Fifo(S)
  PROVE  /\ f.items \in Seq(S) /\ f.written \in Seq(S) /\ f.read \in Nat
         /\ Entries(f) \in Seq(S) /\ Len(Entries(f)) = Len(f.items) + Len(f.written)
         /\ f.items = << >> /\ f.written = << >> => Entries(f) = << >>
<1>1. f.items \in Seq(S) /\ f.written \in Seq(S) /\ f.read \in Nat
  BY DEF Fifo
<1> QED BY <1>1, ConcatProperties, ConcatEmptySeq DEF Entries

LEMMA FifoWrite ==
  ASSUME NEW S, NEW f \in Fifo(S), NEW x \in S
  PROVE  /\ Write(f, x) \in Fifo(S) /\ Write(f, x).read = f.read
         /\ Entries(Write(f, x)) = Append(Entries(f), x)
<1> DEFINE w == f.written
           g == f.items
<1>1. g \in Seq(S) /\ w \in Seq(S) /\ f.read \in Nat
  BY FifoFacts
<1>2. Write(f, x).read = f.read /\ Entries(Write(f, x)) = g \o Append(w, x)
  BY DEF Write, Entries
<1>3. Write(f, x) \in Fifo(S)
  BY <1>1 DEF Write, Fifo
<1>4. Entries(f) = g \o w
  BY DEF Entries
<1> HIDE DEF g, w
<1>5. Append(w, x) = w \o <<x>> /\ <<x>> \in Seq(S)
  BY <1>1, AppendIsConcat
<1>6. g \o w \in Seq(S)
  BY <1>1, ConcatProperties
<1>7. Append(g \o w, x) = (g \o w) \o <<x>>
  BY <1>6, AppendIsConcat
<1>8. (g \o w) \o <<x>> = g \o (w \o <<x>>)
  BY <1>1, <1>5, ConcatAssociative
<1> QED BY <1>2, <1>3, <1>4, <1>5, <1>7, <1>8

LEMMA FifoRead ==
  ASSUME NEW S, NEW f \in Fifo(S), f.items # << >>
  PROVE  /\ Read(f) \in Fifo(S)
         /\ Entries(f) # << >> /\ Head(f.items) = Head(Entries(f)) /\ Head(f.items) \in S
         /\ Entries(Read(f)) = Tail(Entries(f))
<1> DEFINE w == f.written
           g == f.items
           e == g \o w
<1>1. g \in Seq(S) /\ w \in Seq(S) /\ f.read \in Nat /\ g # << >>
  BY FifoFacts
<1>2. Entries(f) = e /\ Entries(Read(f)) = Tail(g) \o w
  BY DEF Entries, Read
<1>3. Read(f) \in Fifo(S)
  BY <1>1 DEF Read, Fifo
<1> HIDE DEF g, w
<1>4. /\ e \in Seq(S) /\ Len(e) = Len(g) + Len(w)
      /\ \A n \in 1..Len(g) + Len(w) : e[n] = IF n <= Len(g) THEN g[n] ELSE w[n - Len(g)]
  BY <1>1, ConcatProperties
<1>5. /\ Head(g) \in S /\ Tail(g) \in Seq(S) /\ Len(Tail(g)) = Len(g) - 1
      /\ \A n \in 1..Len(g) - 1 : Tail(g)[n] = g[n + 1]
  BY <1>1, HeadTailProperties
<1>6. /\ Tail(g) \o w \in Seq(S) /\ Len(Tail(g) \o w) = Len(g) - 1 + Len(w)
      /\ \A n \in 1..Len(g) - 1 + Len(w) :
           (Tail(g) \o w)[n] = IF n <= Len(g) - 1 THEN Tail(g)[n] ELSE w[n - (Len(g) - 1)]
  BY <1>1, <1>5, ConcatProperties
<1>7. Len(g) \in Nat \ {0} /\ Len(w) \in Nat /\ Head(g) = g[1]
  BY <1>1
<1> HIDE DEF e
<1>8. e # << >> /\ Head(e) = e[1] /\ e[1] = g[1]
  BY <1>4, <1>7
<1>9. /\ Tail(e) \in Seq(S) /\ Len(Tail(e)) = Len(e) - 1
      /\ \A n \in 1..Len(e) - 1 : Tail(e)[n] = e[n + 1]
  BY <1>4, <1>8, HeadTailProperties
<1>10. ASSUME NEW n \in 1..Len(Tail(e))
       PROVE  Tail(e)[n] = (Tail(g) \o w)[n]
  <2>1. n \in 1..Len(g) - 1 + Len(w) /\ n + 1 \in 1..Len(g) + Len(w)
        /\ (n + 1) - Len(g) = n - (Len(g) - 1)
    BY <1>4, <1>7, <1>9
  <2>2. CASE n <= Len(g) - 1
    <3>1. n + 1 <= Len(g) /\ n \in 1..Len(g) - 1
      BY <1>7, <2>1, <2>2
    <3> QED BY <1>4, <1>5, <1>6, <1>9, <2>1, <2>2, <3>1
  <2>3. CASE ~(n <= Len(g) - 1)
    <3>1. ~(n + 1 <= Len(g))
      BY <1>7, <2>1, <2>3
    <3> QED BY <1>4, <1>6, <1>9, <2>1, <2>3, <3>1
  <2> QED BY <2>2, <2>3
<1>11. Tail(e) = Tail(g) \o w
  <2>1. Len(Tail(e)) = Len(Tail(g) \o w)
    BY <1>4, <1>6, <1>7, <1>9
  <2> QED BY <1>6, <1>9, <1>10, <2>1, SeqEqual
<1> QED BY <1>2, <1>3, <1>5, <1>7, <1>8, <1>11 DEF g, w

LEMMA FifoUpdate ==
  ASSUME NEW S, NEW f \in Fifo(S)
  PROVE  /\ Update(f) \in Fifo(S) /\ Entries(Update(f)) = Entries(f)
         /\ Update(f).read = 0
<1>1. f.items \o f.written \in Seq(S)
  BY FifoFacts, ConcatProperties
<1>2. (f.items \o f.written) \o << >> = f.items \o f.written
  BY <1>1, ConcatEmptySeq
<1> QED BY <1>1, <1>2 DEF Update, Entries, Fifo

-----------------------------------------------------------------------------
(* Cycles and durations.                                                   *)

LEMMA CeilDivType ==
  ASSUME NEW a \in Nat, NEW b \in Nat \ {0}
  PROVE  CeilDiv(a, b) \in Nat
<1> DEFINE c == a + b - 1
<1>1. c \in Nat
  OBVIOUS
<1> HIDE DEF c
<1>2. c \div b \in Nat
  BY <1>1, DivMod
<1> QED BY <1>2 DEF CeilDiv, c

LEMMA CycleType == ASSUME NEW t \in Nat PROVE Cycle(t) \in Nat
<1> DEFINE a == 2 * t + CycleTicks
           b == 2 * CycleTicks
<1>1. a \in Nat /\ b \in Nat \ {0}
  BY ComponentAssumption
<1> HIDE DEF a, b
<1>2. a \div b \in Nat
  BY <1>1, DivMod
<1> QED BY <1>2 DEF Cycle, a, b

(* A wait of whole cycles ends that many cycles later, however the time    *)
(* it starts at lies in its cycle.                                         *)
LEMMA CycleAfter ==
  ASSUME NEW t \in Nat, NEW d \in Nat
  PROVE  Cycle(t + d * CycleTicks) = Cycle(t) + d
<1> DEFINE a == 2 * t + CycleTicks
           b == 2 * CycleTicks
           q == a \div b
           w == d * CycleTicks
<1>1. a \in Nat /\ b \in Nat \ {0} /\ w \in Nat /\ b * d = 2 * w
  BY ComponentAssumption
<1>2. Cycle(t) = q /\ Cycle(t + w) = (2 * (t + w) + CycleTicks) \div b
  BY DEF Cycle
<1>3. 2 * (t + w) + CycleTicks = a + b * d
  BY <1>1, ComponentAssumption
<1> HIDE DEF a, b, w
<1>4. q \in Nat /\ b * q <= a /\ a < b * q + b
  BY <1>1
<1> HIDE DEF q
<1>5. b * (q + d) = b * q + b * d /\ b * q \in Nat /\ b * d \in Nat /\ q + d \in Nat
  BY <1>1, <1>4
<1>6. b * (q + d) <= a + b * d /\ a + b * d < b * (q + d) + b /\ a + b * d \in Nat
  BY <1>1, <1>4, <1>5
<1>7. (a + b * d) \div b = q + d
  BY <1>1, <1>5, <1>6, QuotientIs
<1> QED BY <1>2, <1>3, <1>7 DEF w

-----------------------------------------------------------------------------
(* Facts about one state.                                                  *)

LEMMA IdFacts ==
  ASSUME TypeOK
  PROVE  /\ Ids = 1..Len(commands) /\ Len(commands) \in Nat
         /\ None \notin Ids
         /\ \A k \in Ids : commands[k] \in Command /\ Need(k) \subseteq AllResources
<1>1. Ids = 1..Len(commands) /\ Len(commands) \in Nat
  BY DEF TypeOK, TableTypeOK, Ids
<1>2. \A k \in Ids : commands[k] \in Command
  BY <1>1 DEF TypeOK, TableTypeOK
<1> QED BY <1>1, <1>2, NeedsType DEF None, Need

LEMMA FiniteIds ==
  ASSUME TypeOK
  PROVE  /\ IsFiniteSet(Ids) /\ Cardinality(Ids) = Len(commands)
         /\ IsFiniteSet(ActiveIds) /\ IsFiniteSet(DoneIds) /\ IsFiniteSet(InFabric)
<1>0. Len(commands) \in Nat
  BY IdFacts
<1>1. IsFiniteSet(1..Len(commands)) /\ Cardinality(1..Len(commands)) = Len(commands)
  <2>1. 1 \in Int /\ Len(commands) \in Int
    BY <1>0
  <2>2. /\ IsFiniteSet(1..Len(commands))
        /\ Cardinality(1..Len(commands)) = IF 1 > Len(commands) THEN 0 ELSE Len(commands) - 1 + 1
    BY <2>1, FS_Interval
  <2> QED BY <1>0, <2>2
<1>2. IsFiniteSet(Ids) /\ Cardinality(Ids) = Len(commands)
  BY <1>1, IdFacts
<1>3. ActiveIds \in SUBSET Ids /\ DoneIds \in SUBSET Ids /\ InFabric \in SUBSET Ids
  BY DEF ActiveIds, DoneIds, InFabric, TypeOK
<1> QED BY <1>2, <1>3, FS_Subset

(* An unfinished command is at one of its stages, and the fabric rounds    *)
(* the stage's time to a number of cycles.                                 *)
LEMMA StageInRange ==
  ASSUME TypeOK, StageAgrees, NEW k \in Ids, ~Done(k)
  PROVE  /\ stage[k] \in 0..(StageCount(commands[k]) - 1)
         /\ stage[k] \in 0..3
         /\ StageCount(commands[k]) \in {2, 4}
         /\ Duration(k) \in Nat
<1>1. StageCount(commands[k]) \in {2, 4}
  BY StageFacts
<1>2. stage[k] \in 0..4 /\ stage[k] < StageCount(commands[k])
  BY DEF TypeOK, TableTypeOK, StageAgrees
<1>3. stage[k] \in 0..(StageCount(commands[k]) - 1) /\ stage[k] \in 0..3
  BY <1>1, <1>2
<1> DEFINE cycles == timing[StageOf(commands[k], stage[k])]
<1>4. StageOf(commands[k], stage[k]) \in StageNames
  BY <1>3, StageFacts
<1>5. cycles \in Nat
  BY <1>4 DEF TypeOK, Timing
<1> HIDE DEF cycles
<1>6. config.clock_ticks \in Nat \ {0} /\ CycleTicks \in Nat \ {0}
  BY ComponentAssumption DEF TypeOK, Config
<1>7. cycles * CycleTicks \in Nat
  BY <1>5, <1>6
<1>8. CeilDiv(cycles * CycleTicks, config.clock_ticks) \in Nat
  BY <1>6, <1>7, CeilDivType
<1> DEFINE n == CeilDiv(cycles * CycleTicks, config.clock_ticks)
<1>9. CeilDiv(n * config.clock_ticks, CycleTicks) \in Nat
  <2> HIDE DEF n
  <2>1. n \in Nat
    BY <1>8 DEF n
  <2>2. n * config.clock_ticks \in Nat
    BY <1>6, <2>1
  <2> QED BY <1>6, <2>2, CeilDivType
<1>10. Duration(k) \in Nat
  BY <1>9 DEF Duration, Quantize, cycles
<1> QED BY <1>1, <1>3, <1>10

(* A stage needs the unit it runs on.                                      *)
LEMMA UnitNeeded ==
  ASSUME NEW k
  PROVE  Unit(k) \in Need(k)
BY DEF Unit, Need, Needs

(* A blocked command finds its chip or its channel taken, and at a plane   *)
(* or compute stage always the chip: whoever holds the plane or the core   *)
(* holds the chip.                                                         *)
LEMMA BlockedChip ==
  ASSUME TypeOK, OwnersExact, NEW k \in Ids, Blocked(k)
  PROVE  owner[ChannelOf(commands[k])] # None \/ owner[ChipOf(commands[k])] # None
<1>1. PICK r \in Need(k) : owner[r] # None
  BY DEF Blocked
<1>2. CASE r = ChannelOf(commands[k])
  BY <1>1, <1>2
<1>3. CASE r # ChannelOf(commands[k])
  <2> DEFINE m == owner[r]
  <2>1. m \in ActiveIds /\ r \in Need(m)
    BY <1>1, IdFacts DEF OwnersExact
  <2>2. ChipOf(commands[k]) \in Need(m)
    BY <1>3, <2>1, SharedNeedSameChip, SameChipFacts, NeedsFacts DEF Need
  <2> QED BY <2>1, <2>2, IdFacts DEF OwnersExact, ActiveIds
<1> QED BY <1>2, <1>3

(* Stages under way are on different chips.                                *)
LEMMA ActiveChips ==
  ASSUME OwnersExact, NEW j \in ActiveIds, NEW k \in ActiveIds,
         ChipOf(commands[j]) = ChipOf(commands[k])
  PROVE  j = k
BY NeedsFacts DEF OwnersExact, Need

-----------------------------------------------------------------------------
(* What a write, a read and an update do to the places.                    *)

LEMMA IssueFifoSteps ==
  ASSUME TypeOK, Distinct(Entries(issue_fifo))
  PROVE  /\ \A k \in Ids : k \notin OnWay =>
              LET e == Entries(Write(issue_fifo, k))
              IN  Members(e) = OnWay \cup {k} /\ Distinct(e)
         /\ issue_fifo.items # << >> =>
              LET e == Entries(Read(issue_fifo))
                  k == Head(issue_fifo.items)
              IN  /\ k \in OnWay /\ k \in Ids
                  /\ Members(e) = OnWay \ {k} /\ Distinct(e)
         /\ Entries(Update(issue_fifo)) = Entries(issue_fifo)
<1>1. issue_fifo \in Fifo(Ids)
  BY DEF TypeOK
<1>2. Entries(issue_fifo) \in Seq(Ids)
  BY <1>1, FifoFacts
<1>3. ASSUME NEW k \in Ids, k \notin OnWay
      PROVE  LET e == Entries(Write(issue_fifo, k))
             IN  Members(e) = OnWay \cup {k} /\ Distinct(e)
  <2> DEFINE e == Entries(issue_fifo)
  <2>1. Entries(Write(issue_fifo, k)) = Append(e, k)
    BY <1>1, FifoWrite
  <2>2. Members(Append(e, k)) = Members(e) \cup {k}
        /\ (Distinct(e) /\ k \notin Members(e) => Distinct(Append(e, k)))
    BY <1>2, AppendMembers
  <2> QED BY <1>3, <2>1, <2>2 DEF OnWay
<1>4. ASSUME issue_fifo.items # << >>
      PROVE  LET e == Entries(Read(issue_fifo))
                 k == Head(issue_fifo.items)
             IN  /\ k \in OnWay /\ k \in Ids
                 /\ Members(e) = OnWay \ {k} /\ Distinct(e)
  BY <1>1, <1>2, <1>4, FifoRead, TailMembers DEF OnWay
<1> QED BY <1>1, <1>3, <1>4, FifoUpdate

LEMMA DoneFifoSteps ==
  ASSUME TypeOK, Distinct(CommandIds(Entries(done_fifo)))
  PROVE  /\ \A x \in Completion : x.command_id \notin OnWayBack =>
              LET e == Entries(Write(done_fifo, x))
              IN  /\ Members(e) = Written \cup {x}
                  /\ Members(CommandIds(e)) = OnWayBack \cup {x.command_id}
                  /\ Distinct(CommandIds(e))
         /\ done_fifo.items # << >> =>
              LET e == Entries(Read(done_fifo))
                  x == Head(done_fifo.items)
              IN  /\ x \in Completion /\ x \in Written /\ x.command_id \in OnWayBack
                  /\ Members(e) \subseteq Written
                  /\ Members(CommandIds(e)) = OnWayBack \ {x.command_id}
                  /\ Distinct(CommandIds(e))
         /\ Entries(Update(done_fifo)) = Entries(done_fifo)
<1> DEFINE d == Entries(done_fifo)
<1>1. done_fifo \in Fifo(Completion) /\ \A x \in Completion : x.command_id \in Ids
  BY DEF TypeOK, Completion
<1>2. d \in Seq(Completion)
  BY <1>1, FifoFacts
<1>3. CommandIds(d) \in Seq(Ids)
  BY <1>1, <1>2, IdsOfList
<1>4. ASSUME NEW x \in Completion, x.command_id \notin OnWayBack
      PROVE  LET e == Entries(Write(done_fifo, x))
             IN  /\ Members(e) = Written \cup {x}
                 /\ Members(CommandIds(e)) = OnWayBack \cup {x.command_id}
                 /\ Distinct(CommandIds(e))
  <2>1. Entries(Write(done_fifo, x)) = Append(d, x)
    BY <1>1, FifoWrite
  <2>2. CommandIds(Append(d, x)) = Append(CommandIds(d), x.command_id)
    BY <1>1, <1>2, IdsOfList
  <2>3. Members(Append(d, x)) = Members(d) \cup {x}
    BY <1>2, AppendMembers
  <2>4. x.command_id \in Ids
    BY <1>1
  <2> QED BY <1>3, <1>4, <2>1, <2>2, <2>3, <2>4, AppendMembers DEF OnWayBack, Written
<1>5. ASSUME done_fifo.items # << >>
      PROVE  LET e == Entries(Read(done_fifo))
                 x == Head(done_fifo.items)
             IN  /\ x \in Completion /\ x \in Written /\ x.command_id \in OnWayBack
                 /\ Members(e) \subseteq Written
                 /\ Members(CommandIds(e)) = OnWayBack \ {x.command_id}
                 /\ Distinct(CommandIds(e))
  <2>1. /\ d # << >> /\ Head(done_fifo.items) = Head(d) /\ Head(d) \in Completion
        /\ Entries(Read(done_fifo)) = Tail(d)
    BY <1>1, <1>5, FifoRead
  <2>2. CommandIds(d) # << >> /\ CommandIds(Tail(d)) = Tail(CommandIds(d))
        /\ Head(CommandIds(d)) = Head(d).command_id
    BY <1>1, <1>2, <2>1, IdsOfList
  <2>3. /\ Head(CommandIds(d)) \in Members(CommandIds(d))
        /\ Members(Tail(CommandIds(d))) = Members(CommandIds(d)) \ {Head(CommandIds(d))}
        /\ Distinct(Tail(CommandIds(d)))
    BY <1>3, <2>2, TailMembers
  <2>4. Head(d) \in Members(d) /\ Members(Tail(d)) \subseteq Members(d)
    <3> HIDE DEF d
    <3>1. Len(d) \in Nat \ {0} /\ Head(d) = d[1] /\ DOMAIN d = 1..Len(d)
          /\ DOMAIN Tail(d) = 1..Len(d) - 1 /\ \A n \in 1..Len(d) - 1 : Tail(d)[n] = d[n + 1]
      BY <1>2, <2>1
    <3>2. \A n \in 1..Len(d) - 1 : n + 1 \in DOMAIN d
      BY <3>1
    <3> QED BY <3>1, <3>2 DEF Members
  <2> QED BY <2>1, <2>2, <2>3, <2>4 DEF OnWayBack, Written
<1> QED BY <1>1, <1>4, <1>5, FifoUpdate

(* The command of a completion in a list is one of the list's commands.    *)
LEMMA MemberIds ==
  ASSUME NEW s, NEW e \in Members(s)
  PROVE  e.command_id \in Members(CommandIds(s))
BY DEF Members, CommandIds

-----------------------------------------------------------------------------
(* Init establishes the invariant.                                         *)

LEMMA InitTypeOK == Init => TypeOK
<1> SUFFICES ASSUME Init PROVE TypeOK
  OBVIOUS
<1>1. commands \in Seq(Command)
  <2>1. PICK p \in Platforms :
          IF PlatformSupported(p)
          THEN commands = BuildCommands(p) /\ pc = "dispatch"
          ELSE commands = << >> /\ pc = "unsupported"
    BY DEF Init
  <2>2. CASE PlatformSupported(p)
    BY <2>1, <2>2, BuildCommandsType, ComponentAssumption
  <2>3. CASE ~PlatformSupported(p)
    BY <2>1, <2>3
  <2> QED BY <2>2, <2>3
<1>2. /\ status = [k \in Ids |-> "WAITING"] /\ stage = [k \in Ids |-> 0]
      /\ stage_end = [k \in Ids |-> -1] /\ owner = [r \in AllResources |-> None]
  BY DEF Init, InitTable
<1>3. TableTypeOK
  <2>1. status \in [Ids -> {"WAITING", "ACTIVE", "DONE"}]
    BY <1>2
  <2>2. stage \in [Ids -> 0..4] /\ stage_end \in [Ids -> Int]
    BY <1>2
  <2>3. owner \in [AllResources -> Ids \cup {None}]
    BY <1>2
  <2> QED BY <1>1, <2>1, <2>2, <2>3 DEF TableTypeOK
<1>4. timing \in Timing /\ config \in Config
  BY ComponentAssumption DEF Init
<1>5. pc \in {"dispatch", "unsupported"}
  BY DEF Init
<1>6. issue_fifo \in Fifo(Ids) /\ done_fifo \in Fifo(Completion)
  BY DEF Init, EmptyFifo, Fifo
<1>7. wake = << >> /\ DOMAIN wake = {}
  BY DEF Init
<1> QED BY <1>3, <1>4, <1>5, <1>6, <1>7 DEF Init, TypeOK, Completion

LEMMA InitIInv == Init => IInv
<1> SUFFICES ASSUME Init PROVE IInv
  OBVIOUS
<1>1. TypeOK
  BY InitTypeOK
<1>2. ActiveIds = {} /\ DoneIds = {} /\ \A k \in Ids : Waiting(k) /\ stage[k] = 0
  BY DEF Init, InitTable, ActiveIds, Active, DoneIds, Done, Waiting
<1>3. OnWay = {} /\ InFabric = {} /\ Written = {} /\ OnWayBack = {}
  <2>1. DOMAIN wake = {}
    BY DEF Init
  <2>2. Entries(EmptyFifo) = << >>
    BY DEF Entries, EmptyFifo
  <2>3. Members(<< >>) = {} /\ Members(CommandIds(<< >>)) = {}
    BY DEF Members, CommandIds
  <2> QED BY <2>1, <2>2, <2>3 DEF Init, OnWay, InFabric, Written, OnWayBack
<1>4. PlacesSplit
  <2>1. Entries(issue_fifo) = << >> /\ CommandIds(Entries(done_fifo)) = << >>
    BY DEF Init, Entries, EmptyFifo, CommandIds
  <2>2. Distinct(<< >>)
    BY DEF Distinct
  <2> QED BY <1>2, <1>3, <2>1, <2>2 DEF PlacesSplit
<1>5. pc \in {"dispatch", "unsupported"}
  BY DEF Init
<1>6. OwnersExact
  BY <1>2 DEF Init, InitTable, OwnersExact
<1>7. ChipInOrder
  BY <1>2 DEF ChipInOrder, Started, Waiting, Active
<1>8. StageAgrees
  BY <1>2, StageFacts DEF StageAgrees, Done, Waiting
<1>9. PassBlocks
  BY <1>1, IdFacts DEF Init, PassBlocks
<1>10. CountsExact
  BY <1>2, <1>3, FS_EmptySet DEF Init, CountsExact, InFabric
<1>11. UnitsOfFabric
  BY <1>3 DEF Init, UnitsOfFabric
<1>12. Punctual
  BY <1>3 DEF Punctual
<1>13. UncutOnTime
  BY <1>3, <1>5 DEF Init, UncutOnTime, EmptyFifo
<1>14. IssuedActive /\ WideUncut /\ Verdict
  BY <1>5 DEF Init, IssuedActive, WideUncut, Uncut, Verdict
<1>15. AwaitsStage /\ AlarmsAhead
  BY <1>3, <1>5 DEF AwaitsStage, AlarmsAhead
<1> QED BY <1>1, <1>4, <1>6, <1>7, <1>8, <1>9, <1>10, <1>11, <1>12, <1>13, <1>14, <1>15
        DEF IInv

-----------------------------------------------------------------------------
(* The effect of the two steps that change the command states.             *)

LEMMA StartEffect ==
  ASSUME TypeOK, NEW k \in Ids, Start(k), UNCHANGED commands
  PROVE  /\ Ids' = Ids /\ stage' = stage /\ status[k] = "WAITING"
         /\ k \notin ActiveIds /\ ActiveIds' = ActiveIds \cup {k} /\ DoneIds' = DoneIds
         /\ status'[k] = "ACTIVE"
         /\ \A j \in Ids : j # k => status'[j] = status[j] /\ stage_end'[j] = stage_end[j]
         /\ stage_end'[k] = Cycle(now) + Duration(k)
         /\ \A r \in Need(k) : owner[r] = None /\ owner'[r] = k
         /\ \A r \in AllResources : r \notin Need(k) => owner'[r] = owner[r]
<1>1. Ids' = Ids /\ stage' = stage
  BY DEF Start, BeginStage, Ids
<1>2. status[k] = "WAITING" /\ \A r \in Need(k) : owner[r] = None
  BY DEF Start, FirstFrom, Ready, Issuable, Waiting, ResourcesFree
<1>3. /\ status' = [status EXCEPT ![k] = "ACTIVE"]
      /\ stage_end' = [stage_end EXCEPT ![k] = Cycle(now) + Duration(k)]
      /\ owner' = [r \in AllResources |-> IF r \in Need(k) THEN k ELSE owner[r]]
  BY DEF Start, BeginStage, Reserve
<1>4. /\ status'[k] = "ACTIVE" /\ stage_end'[k] = Cycle(now) + Duration(k)
      /\ \A j \in Ids : j # k => status'[j] = status[j] /\ stage_end'[j] = stage_end[j]
  BY <1>3 DEF TypeOK, TableTypeOK
<1>5. k \notin ActiveIds /\ ActiveIds' = ActiveIds \cup {k}
  BY <1>1, <1>2, <1>4 DEF ActiveIds, Active
<1>6. DoneIds' = DoneIds
  BY <1>1, <1>2, <1>4 DEF DoneIds, Done
<1>7. /\ \A r \in Need(k) : owner'[r] = k
      /\ \A r \in AllResources : r \notin Need(k) => owner'[r] = owner[r]
  BY <1>3, IdFacts
<1> QED BY <1>1, <1>2, <1>4, <1>5, <1>6, <1>7

LEMMA EndEffect ==
  ASSUME TypeOK, NEW k \in ActiveIds, EndStage(k), UNCHANGED commands
  PROVE  /\ Ids' = Ids /\ k \in Ids /\ stage_end' = stage_end
         /\ ActiveIds' = ActiveIds \ {k}
         /\ DoneIds' = IF LastStage(k) THEN DoneIds \cup {k} ELSE DoneIds
         /\ k \notin DoneIds
         /\ \A j \in Ids : j # k => status'[j] = status[j] /\ stage'[j] = stage[j]
         /\ stage'[k] = stage[k] + 1 /\ status'[k] # "ACTIVE"
         /\ status'[k] = "DONE" <=> stage[k] + 1 >= StageCount(commands[k])
<1>1. Ids' = Ids /\ k \in Ids /\ stage_end' = stage_end
  BY DEF EndStage, Ids, ActiveIds
<1>2. /\ stage' = [stage EXCEPT ![k] = @ + 1]
      /\ status' = [status EXCEPT ![k] = IF LastStage(k) THEN "DONE" ELSE "WAITING"]
  BY DEF EndStage
<1>3. /\ stage'[k] = stage[k] + 1 /\ status'[k] # "ACTIVE"
      /\ (status'[k] = "DONE" <=> LastStage(k))
      /\ \A j \in Ids : j # k => status'[j] = status[j] /\ stage'[j] = stage[j]
  BY <1>1, <1>2 DEF TypeOK, TableTypeOK
<1>4. ActiveIds' = ActiveIds \ {k}
  BY <1>1, <1>3 DEF ActiveIds, Active
<1>5. DoneIds' = IF LastStage(k) THEN DoneIds \cup {k} ELSE DoneIds
  BY <1>1, <1>3 DEF DoneIds, Done, ActiveIds, Active
<1>6. k \notin DoneIds
  BY DEF DoneIds, Done, ActiveIds, Active
<1> QED BY <1>1, <1>3, <1>4, <1>5, <1>6 DEF LastStage

(* A completion the controller reads is of a stage under way.              *)
LEMMA ReadEffect ==
  ASSUME TypeOK, PlacesSplit, done_fifo.items # << >>
  PROVE  /\ Head(done_fifo.items) \in Completion
         /\ Head(done_fifo.items).command_id \in ActiveIds
BY DoneFifoSteps DEF PlacesSplit

(* Steps that leave the commands, the FIFOs and the fabric alone.          *)
Quiet ==
  UNCHANGED <<inputs, scheduling, active_commands, completed_commands, timing_violations,
              fabric, fifos>>

LEMMA QuietSteps ==
  ASSUME CutRound \/ Rescan \/ EndRound \/ EndDrain \/ NextTime \/ UNCHANGED vars
  PROVE  Quiet
BY DEF CutRound, Rescan, EndRound, EndDrain, NextTime, vars, control, Quiet

LEMMA StepKinds ==
  ASSUME TypeOK, PlacesSplit, [Next]_vars
  PROVE  \/ \E k \in Ids : Start(k) /\ UNCHANGED commands
         \/ \E k \in ActiveIds : EndStage(k) /\ pc' \in {"delta", "drain"} /\ UNCHANGED commands
         \/ UNCHANGED <<commands, scheduling>>
<1>1. ASSUME ReadDone
      PROVE  \E k \in ActiveIds : EndStage(k) /\ pc' \in {"delta", "drain"} /\ UNCHANGED commands
  BY <1>1, ReadEffect DEF ReadDone, CompleteStage, inputs
<1>2. ASSUME WriteError
      PROVE  (\E k \in Ids : Start(k) /\ UNCHANGED commands) \/ UNCHANGED <<commands, scheduling>>
  BY <1>2 DEF WriteError, inputs
<1>3. ASSUME NEW k \in Ids, Issue(k)
      PROVE  Start(k) /\ UNCHANGED commands
  BY <1>3 DEF Issue, inputs
<1>4. ASSUME Fabric \/ NextDelta
      PROVE  UNCHANGED <<commands, scheduling>>
  BY <1>4 DEF Fabric, Dispatch, RunStage, NextDelta, inputs
<1>5. ASSUME CutRound \/ Rescan \/ EndRound \/ EndDrain \/ NextTime \/ UNCHANGED vars
      PROVE  UNCHANGED <<commands, scheduling>>
  BY <1>5, QuietSteps DEF Quiet, inputs
<1> QED BY <1>1, <1>2, <1>3, <1>4, <1>5 DEF Next, Controller, Terminated

-----------------------------------------------------------------------------
(* Every step preserves the types.                                         *)

(* The command states and the resource table.                              *)
LEMMA StepTable ==
  ASSUME TypeOK, StageAgrees, PlacesSplit, [Next]_vars
  PROVE  TableTypeOK' /\ Ids' = Ids
<1>1. TableTypeOK
  BY DEF TypeOK
<1>2. ASSUME NEW k \in Ids, Start(k), UNCHANGED commands
      PROVE  TableTypeOK' /\ Ids' = Ids
  <2>1. Ids' = Ids
    BY <1>2 DEF Ids
  <2>2. Duration(k) \in Nat /\ Cycle(now) \in Nat
    BY <1>2, StartEffect, StageInRange, CycleType DEF Done, TypeOK
  <2>3. stage_end' \in [Ids -> Int]
    BY <1>1, <1>2, <2>2 DEF Start, BeginStage, TableTypeOK
  <2>4. owner' \in [AllResources -> Ids \cup {None}]
    BY <1>1, <1>2 DEF Start, BeginStage, Reserve, TableTypeOK
  <2>5. status' \in [Ids -> {"WAITING", "ACTIVE", "DONE"}] /\ stage' \in [Ids -> 0..4]
    BY <1>1, <1>2 DEF Start, BeginStage, TableTypeOK
  <2> QED BY <1>1, <1>2, <2>1, <2>3, <2>4, <2>5 DEF TableTypeOK
<1>3. ASSUME NEW k \in ActiveIds, EndStage(k), UNCHANGED commands
      PROVE  TableTypeOK' /\ Ids' = Ids
  <2>1. Ids' = Ids /\ k \in Ids /\ stage_end' = stage_end
    BY <1>3, EndEffect
  <2>2. stage[k] \in 0..3
    BY <1>3, <2>1, StageInRange DEF ActiveIds, Active, Done
  <2>3. stage' \in [Ids -> 0..4]
    BY <1>1, <1>3, <2>1, <2>2 DEF EndStage, TableTypeOK
  <2>4. owner' \in [AllResources -> Ids \cup {None}]
    BY <1>1, <1>3 DEF EndStage, Release, TableTypeOK
  <2>5. status' \in [Ids -> {"WAITING", "ACTIVE", "DONE"}]
    BY <1>1, <1>3 DEF EndStage, TableTypeOK
  <2> QED BY <1>1, <1>3, <2>1, <2>3, <2>4, <2>5 DEF TableTypeOK
<1>4. CASE UNCHANGED <<commands, scheduling>>
  BY <1>1, <1>4 DEF scheduling, TableTypeOK, Ids
<1> QED BY <1>2, <1>3, <1>4, StepKinds

LEMMA StepTypeOK ==
  ASSUME TypeOK, StageAgrees, PlacesSplit, [Next]_vars
  PROVE  TypeOK'
<1> USE DEF TypeOK
<1> DEFINE Pcs == {"dispatch", "clock", "read", "delta", "drain", "ok", "failed",
                   "write_error", "unsupported"}
           Inputs == timing \in Timing /\ config \in Config
           Control == /\ now \in Nat /\ clock \in Nat /\ pc \in Pcs
                      /\ i \in Nat \ {0} /\ issued \in Nat
                      /\ issue_backpressure_stalls \in Nat /\ width_limited_dispatches \in Nat
           Counters == /\ active_commands \in Int /\ completed_commands \in Nat
                       /\ timing_violations \in Nat
           Fifos == issue_fifo \in Fifo(Ids) /\ done_fifo \in Fifo(Completion)
           Fabrics == /\ DOMAIN wake \subseteq Ids /\ \A k \in DOMAIN wake : wake[k] \in Nat
                      /\ busy_units \subseteq AllResources
                      /\ busy_violations \in Nat /\ fabric_issued \in Nat
                      /\ fabric_completed \in Nat
<1>1. TypeOK => Inputs /\ Control /\ Counters /\ Fifos /\ Fabrics
  BY DEF Completion
<1>2. TableTypeOK' /\ Ids' = Ids
  BY StepTable
<1>3. TableTypeOK' /\ Inputs' /\ Control' /\ Counters' /\ Fifos' /\ Fabrics' => TypeOK'
  BY DEF Completion
<1>4. Completion' = Completion
  BY <1>2 DEF Completion
<1>5. Inputs'
  BY DEF Next, Controller, Issue, CutRound, Rescan, EndRound, ReadDone, EndDrain, WriteError,
         Fabric, Dispatch, RunStage, NextDelta, NextTime, Terminated, vars, inputs
<1> SUFFICES Control' /\ Counters' /\ Fifos' /\ Fabrics'
  BY <1>2, <1>3, <1>5
<1>6. Inputs /\ Control /\ Counters /\ Fifos /\ Fabrics
  BY <1>1
<1> DEFINE Good == Control' /\ Counters' /\ Fifos' /\ Fabrics'
<1>7. ASSUME UNCHANGED fabric
      PROVE  Fabrics'
  BY <1>2, <1>6, <1>7 DEF fabric
<1>8. ASSUME UNCHANGED fifos
      PROVE  Fifos'
  BY <1>2, <1>4, <1>6, <1>8 DEF fifos
<1>9. ASSUME NEW k \in Ids, Issue(k)
      PROVE  Good
  <2>1. Control'
    <3>1. k + 1 \in Nat \ {0}
      BY IdFacts
    <3> QED BY <1>6, <1>9, <3>1 DEF Issue, stalls, Start
  <2>2. Counters'
    BY <1>6, <1>9 DEF Issue, Start
  <2>3. Fifos'
    BY <1>2, <1>4, <1>6, <1>9, FifoWrite DEF Issue
  <2>4. Fabrics'
    BY <1>7, <1>9 DEF Issue
  <2> QED BY <2>1, <2>2, <2>3, <2>4
<1>10. ASSUME CutRound \/ Rescan \/ EndRound \/ EndDrain \/ UNCHANGED vars
       PROVE  Good
  <2>1. Quiet
    BY <1>10, QuietSteps
  <2>2. Control'
    <3>1. CASE CutRound
      <4>1. now + config.clock_ticks \in Nat
        BY <1>6 DEF Config
      <4> QED BY <1>6, <3>1, <4>1 DEF CutRound
    <3>2. CASE Rescan
      BY <1>6, <3>2 DEF Rescan, stalls
    <3>3. CASE EndRound
      BY <1>6, <3>3 DEF EndRound, stalls
    <3>4. CASE EndDrain
      BY <1>6, <3>4 DEF EndDrain, stalls
    <3>5. CASE UNCHANGED vars
      BY <1>6, <3>5 DEF vars, control, stalls
    <3> QED BY <1>10, <3>1, <3>2, <3>3, <3>4, <3>5
  <2>3. Counters'
    BY <1>6, <2>1 DEF Quiet
  <2> QED BY <1>7, <1>8, <2>1, <2>2, <2>3 DEF Quiet
<1>11. ASSUME ReadDone
       PROVE  Good
  <2>1. Control'
    BY <1>6, <1>11 DEF ReadDone, stalls
  <2>2. Counters'
    BY <1>6, <1>11 DEF ReadDone, CompleteStage, CheckTime
  <2>3. Fifos'
    BY <1>2, <1>4, <1>6, <1>11, FifoRead DEF ReadDone
  <2> QED BY <1>7, <1>11, <2>1, <2>2, <2>3 DEF ReadDone
<1>12. ASSUME WriteError
       PROVE  Good
  <2>1. Control'
    BY <1>6, <1>12 DEF WriteError, stalls
  <2>2. Counters'
    BY <1>6, <1>12 DEF WriteError, Start, CheckTime
  <2>3. Fifos'
    BY <1>2, <1>4, <1>6, <1>12, FifoRead DEF WriteError
  <2> QED BY <1>7, <1>12, <2>1, <2>2, <2>3 DEF WriteError
<1>13. ASSUME Dispatch
       PROVE  Good
  <2> DEFINE k == Head(issue_fifo.items)
  <2>1. k \in OnWay /\ k \in ActiveIds /\ k \in Ids
    BY <1>13, IssueFifoSteps DEF Dispatch, PlacesSplit, ActiveIds
  <2>2. Control' /\ Counters'
    BY <1>6, <1>13 DEF Dispatch, control, stalls
  <2>3. Fifos'
    BY <1>2, <1>4, <1>6, <1>13, FifoRead DEF Dispatch
  <2>4. Fabrics'
    <3>1. now + Duration(k) * CycleTicks \in Nat
      <4>1. Duration(k) \in Nat
        BY <2>1, StageInRange DEF ActiveIds, Active, Done
      <4>2. Duration(k) * CycleTicks \in Nat
        <5> DEFINE d == Duration(k)
        <5>1. d \in Nat
          BY <4>1
        <5> HIDE DEF d
        <5>2. d * CycleTicks \in Nat
          BY <5>1, ComponentAssumption
        <5> QED BY <5>2 DEF d
      <4> QED BY <1>6, <4>2
    <3>2. Unit(k) \in AllResources
      BY <2>1, IdFacts, UnitNeeded
    <3> DEFINE end == now + Duration(k) * CycleTicks
    <3>3. /\ wake' = [j \in DOMAIN wake \cup {k} |-> IF j = k THEN end ELSE wake[j]]
          /\ busy_units' = busy_units \cup {Unit(k)}
          /\ fabric_issued' = fabric_issued + 1 /\ fabric_completed' = fabric_completed
          /\ busy_violations' \in {busy_violations, busy_violations + 1}
      BY <1>13 DEF Dispatch
    <3> HIDE DEF end, k
    <3> QED BY <1>2, <1>6, <2>1, <3>1, <3>2, <3>3 DEF end
  <2> QED BY <2>2, <2>3, <2>4
<1>14. ASSUME NEW k \in Ids, RunStage(k)
       PROVE  Good
  <2>1. Control' /\ Counters'
    BY <1>6, <1>14 DEF RunStage, control, stalls
  <2>2. [command_id |-> k, observed_cycle |-> Cycle(now)] \in Completion
    BY <1>6, CycleType DEF Completion
  <2>3. Fifos'
    BY <1>2, <1>4, <1>6, <1>14, <2>2, FifoWrite DEF RunStage
  <2>4. Fabrics'
    BY <1>2, <1>6, <1>14 DEF RunStage
  <2> QED BY <2>1, <2>3, <2>4
<1>15. ASSUME NextDelta
       PROVE  Good
  <2>1. Control' /\ Counters'
    BY <1>6, <1>15 DEF NextDelta, stalls
  <2>2. Fifos'
    BY <1>2, <1>4, <1>6, <1>15, FifoUpdate DEF NextDelta
  <2> QED BY <1>7, <1>15, <2>1, <2>2 DEF NextDelta
<1>16. ASSUME NextTime
       PROVE  Good
  <2>1. Quiet
    BY <1>16, QuietSteps
  <2>2. Alarms \subseteq Nat
    BY <1>6 DEF Alarms
  <2>3. Control' /\ Counters'
    BY <1>6, <1>16, <2>2 DEF NextTime, control, stalls
  <2> QED BY <1>7, <1>8, <2>1, <2>3 DEF Quiet
<1> QED BY <1>9, <1>10, <1>11, <1>12, <1>13, <1>14, <1>15, <1>16
        DEF Next, Controller, Fabric, Terminated

-----------------------------------------------------------------------------
(* Every step preserves the scheduling invariants.                         *)

LEMMA StepStageAgrees ==
  ASSUME TypeOK, StageAgrees, PlacesSplit, [Next]_vars
  PROVE  StageAgrees'
<1>1. ASSUME NEW k \in ActiveIds, EndStage(k), UNCHANGED commands
      PROVE  StageAgrees'
  <2>1. k \in Ids /\ ~Done(k)
    BY DEF ActiveIds, Active, Done
  <2>2. stage[k] \in 0..(StageCount(commands[k]) - 1) /\ StageCount(commands[k]) \in {2, 4}
    BY <2>1, StageInRange
  <2>3. /\ status'[k] = "DONE" => stage'[k] = StageCount(commands'[k])
        /\ status'[k] # "DONE" => stage'[k] < StageCount(commands'[k])
    BY <1>1, <2>2, EndEffect
  <2>4. \A j \in Ids : j # k =>
          /\ status'[j] = "DONE" => stage'[j] = StageCount(commands'[j])
          /\ status'[j] # "DONE" => stage'[j] < StageCount(commands'[j])
    BY <1>1, EndEffect DEF StageAgrees, Done
  <2> QED BY <1>1, <2>3, <2>4, EndEffect DEF StageAgrees, Done
<1>2. ASSUME NEW k \in Ids, Start(k), UNCHANGED commands
      PROVE  StageAgrees'
  BY <1>2, StartEffect DEF StageAgrees, Done
<1>3. CASE UNCHANGED <<commands, scheduling>>
  BY <1>3 DEF scheduling, StageAgrees, Done, Ids
<1> QED BY <1>1, <1>2, <1>3, StepKinds

LEMMA StepOwnersExact ==
  ASSUME TypeOK, OwnersExact, PlacesSplit, [Next]_vars
  PROVE  OwnersExact'
<1>1. ASSUME NEW k \in ActiveIds, EndStage(k), UNCHANGED commands
      PROVE  OwnersExact'
  <2> DEFINE held == {ChannelOf(commands[k]), ChipOf(commands[k]),
                      PlaneOf(commands[k]), ComputeOf(commands[k])}
  <2>1. \A r \in AllResources :
          owner'[r] = IF r \in held /\ owner[r] = k THEN None ELSE owner[r]
    BY <1>1 DEF EndStage, Release
  <2>2. Need(k) \subseteq held
    BY NeedsFacts DEF Need
  <2>3. \A j \in Ids : j # k => Need(j)' = Need(j)
    BY <1>1, EndEffect DEF Need
  <2> HIDE DEF held
  <2>4. ASSUME NEW j \in ActiveIds', NEW r \in Need(j)'
        PROVE  owner'[r] = j
    <3>1. j \in ActiveIds /\ j # k /\ j \in Ids /\ r \in Need(j)
      BY <1>1, <2>3, <2>4, EndEffect DEF ActiveIds
    <3>2. r \in AllResources /\ owner[r] = j
      BY <3>1, IdFacts DEF OwnersExact
    <3> QED BY <2>1, <3>1, <3>2
  <2>5. ASSUME NEW r \in AllResources, owner'[r] # None
        PROVE  (owner[r] \in ActiveIds /\ r \in Need(owner[r]))'
    <3>1. owner'[r] = owner[r] /\ ~(r \in held /\ owner[r] = k)
      BY <2>1, <2>5
    <3>2. PICK m \in Ids : m = owner[r] /\ m \in ActiveIds /\ r \in Need(m)
      BY <2>5, <3>1 DEF OwnersExact, ActiveIds
    <3>3. m # k
      BY <2>2, <3>1, <3>2
    <3>4. m \in ActiveIds' /\ Need(m)' = Need(m)
      BY <1>1, <2>3, <3>2, <3>3, EndEffect
    <3> QED BY <3>1, <3>2, <3>4 DEF Need
  <2> QED BY <2>4, <2>5 DEF OwnersExact
<1>2. ASSUME NEW k \in Ids, Start(k), UNCHANGED commands
      PROVE  OwnersExact'
  <2>0. \A j \in Ids : Need(j)' = Need(j)
    BY <1>2, StartEffect DEF Need
  <2>1. ASSUME NEW j \in ActiveIds', NEW r \in Need(j)'
        PROVE  owner'[r] = j
    <3>1. (j \in ActiveIds \/ j = k) /\ j \in Ids /\ r \in Need(j)
      BY <1>2, <2>0, <2>1, StartEffect DEF ActiveIds
    <3>2. CASE j = k
      BY <1>2, <3>1, <3>2, StartEffect
    <3>3. CASE j \in ActiveIds
      <4>1. r \in AllResources /\ owner[r] = j /\ j # None
        BY <3>1, <3>3, IdFacts DEF OwnersExact
      <4>2. r \notin Need(k)
        BY <1>2, <4>1, StartEffect
      <4> QED BY <1>2, <4>1, <4>2, StartEffect
    <3> QED BY <3>1, <3>2, <3>3
  <2>2. ASSUME NEW r \in AllResources, owner'[r] # None
        PROVE  (owner[r] \in ActiveIds /\ r \in Need(owner[r]))'
    <3>1. PICK m \in Ids : m = owner'[r] /\ m \in ActiveIds' /\ r \in Need(m)
      <4>1. CASE r \in Need(k)
        BY <1>2, <4>1, StartEffect
      <4>2. CASE r \notin Need(k)
        BY <1>2, <2>2, <4>2, StartEffect DEF OwnersExact, ActiveIds
      <4> QED BY <4>1, <4>2
    <3> QED BY <2>0, <3>1 DEF Need
  <2> QED BY <2>1, <2>2 DEF OwnersExact
<1>3. CASE UNCHANGED <<commands, scheduling>>
  <2>1. ActiveIds' = ActiveIds /\ owner' = owner /\ \A j : Need(j)' = Need(j)
    BY <1>3 DEF scheduling, ActiveIds, Active, Ids, Need
  <2> QED BY <2>1 DEF OwnersExact
<1> QED BY <1>1, <1>2, <1>3, StepKinds

(* Indices the round has reached or gone by.                               *)
LEMMA PassedIsBlocked ==
  ASSUME TypeOK, PassBlocks, pc = "dispatch", NEW j \in Ids, Waiting(j),
         j < i \/ j \notin Ready
  PROVE  Blocked(j)
<1>1. commands[j].arrival_cycle <= Cycle(now)
  <2>1. Cycle(now) \in Nat
    BY CycleType DEF TypeOK
  <2>2. commands[j].arrival_cycle = 0
    BY IdFacts DEF Command
  <2> QED BY <2>1, <2>2
<1>2. CASE j < i
  BY <1>2 DEF PassBlocks
<1>3. CASE j \notin Ready
  BY <1>1, <1>3 DEF Ready, Issuable, ResourcesFree, Blocked
<1> QED BY <1>2, <1>3

(* A command can only start when every earlier command of its chip is      *)
(* done.  One under way would hold the chip; one that waits was reached by *)
(* the round first and found blocked by a holder of the chip or of the     *)
(* channel, which the later command, still at its transfer of command and  *)
(* address, needs as well.                                                 *)
LEMMA StartInOrder ==
  ASSUME TypeOK, OwnersExact, ChipInOrder, PassBlocks, NEW k \in Ids, Start(k),
         NEW j \in Ids, j < k, SameChip(commands[j], commands[k])
  PROVE  Done(j)
<1>1. pc = "dispatch" /\ Waiting(k) /\ (\A r \in Need(k) : owner[r] = None)
      /\ \A l \in Ready : l >= i => k <= l
  BY DEF Start, FirstFrom, Ready, Issuable, ResourcesFree
<1>2. CASE Started(k)
  BY <1>2 DEF ChipInOrder
<1>3. CASE ~Started(k)
  <2>1. stage[k] = 0
    <3>1. stage[k] \in 0..4
      BY DEF TypeOK, TableTypeOK
    <3> QED BY <1>3, <3>1 DEF Started
  <2>2. Need(k) = {ChannelOf(commands[k]), ChipOf(commands[k])}
    BY <2>1, NeedsFacts DEF Need
  <2>3. owner[ChannelOf(commands[j])] = None /\ owner[ChipOf(commands[j])] = None
    BY <1>1, <2>2, SameChipFacts
  <2>4. ~Active(j)
    <3>1. ChipOf(commands[j]) \in Need(j)
      BY NeedsFacts DEF Need
    <3> QED BY <2>3, <3>1, IdFacts DEF OwnersExact, ActiveIds
  <2>5. ~Waiting(j)
    <3>1. SUFFICES ASSUME Waiting(j) PROVE FALSE
      OBVIOUS
    <3>2. j \in Int /\ k \in Int /\ i \in Int
      BY IdFacts DEF TypeOK, TableTypeOK
    <3>3. j < i \/ j \notin Ready
      BY <1>1, <3>2
    <3>4. Blocked(j)
      BY <1>1, <3>1, <3>3, PassedIsBlocked
    <3> QED BY <2>3, <3>4, BlockedChip
  <2> QED BY <2>4, <2>5 DEF TypeOK, TableTypeOK, Active, Waiting, Done
<1> QED BY <1>2, <1>3

LEMMA StepChipInOrder ==
  ASSUME TypeOK, OwnersExact, ChipInOrder, PassBlocks, PlacesSplit, [Next]_vars
  PROVE  ChipInOrder'
<1>1. ASSUME NEW k \in ActiveIds, EndStage(k), UNCHANGED commands
      PROVE  ChipInOrder'
  <2>1. \A m \in Ids : Started(m)' => Started(m)
    BY <1>1, EndEffect DEF Started, Active, ActiveIds
  <2>2. \A j \in Ids : Done(j) => Done(j)'
    BY <1>1, EndEffect DEF Done, Active, ActiveIds
  <2> QED BY <1>1, <2>1, <2>2, EndEffect DEF ChipInOrder
<1>2. ASSUME NEW k \in Ids, Start(k), UNCHANGED commands
      PROVE  ChipInOrder'
  <2>1. \A j \in Ids : Done(j) => Done(j)'
    BY <1>2, StartEffect DEF Done
  <2>2. \A m \in Ids : Started(m)' => Started(m) \/ m = k
    BY <1>2, StartEffect DEF Started, Active
  <2>3. ASSUME NEW j \in Ids, NEW m \in Ids, j < m,
               SameChip(commands[j], commands[m]), Started(m)'
        PROVE  Done(j)'
    <3>1. CASE m = k
      BY <1>2, <2>1, <2>3, <3>1, StartInOrder
    <3>2. CASE Started(m)
      BY <2>1, <2>3, <3>2 DEF ChipInOrder
    <3> QED BY <2>2, <2>3, <3>1, <3>2
  <2> QED BY <1>2, <2>3, StartEffect DEF ChipInOrder
<1>3. CASE UNCHANGED <<commands, scheduling>>
  BY <1>3 DEF scheduling, ChipInOrder, Started, Active, Done, Ids
<1> QED BY <1>1, <1>2, <1>3, StepKinds

LEMMA StepPassBlocks ==
  ASSUME TypeOK, PassBlocks, [Next]_vars
  PROVE  PassBlocks'
<1>1. ASSUME NEW k \in Ids, Issue(k)
      PROVE  PassBlocks'
  <2>1. Start(k) /\ pc = "dispatch" /\ i' = k + 1 /\ UNCHANGED commands
    BY <1>1 DEF Issue, Start, inputs
  <2>2. ASSUME NEW j \in Ids, Waiting(j)', j < k + 1
        PROVE  Blocked(j)'
    <3>1. j # k /\ Waiting(j)
      BY <2>1, <2>2, StartEffect DEF Waiting
    <3>2. j < i \/ j \notin Ready
      <4>1. j \in Int /\ k \in Int /\ i \in Int
        BY IdFacts DEF TypeOK
      <4>2. \A l \in Ready : l >= i => k <= l
        BY <2>1 DEF Start, FirstFrom
      <4> QED BY <2>2, <3>1, <4>1, <4>2
    <3>3. PICK r \in Need(j) : owner[r] # None
      BY <2>1, <3>1, <3>2, PassedIsBlocked DEF Blocked
    <3>4. owner'[r] = owner[r] /\ Need(j)' = Need(j)
      BY <2>1, <3>3, IdFacts, StartEffect DEF Need
    <3> QED BY <3>3, <3>4 DEF Blocked
  <2> QED BY <2>1, <2>2, StartEffect DEF PassBlocks
<1>2. ASSUME Rescan \/ EndDrain
      PROVE  PassBlocks'
  <2>1. i' = 1 /\ Ids' = Ids
    BY <1>2 DEF Rescan, EndDrain, inputs, Ids
  <2> QED BY <2>1, IdFacts DEF PassBlocks
<1>3. ASSUME CutRound \/ EndRound \/ ReadDone \/ WriteError \/ Fabric \/ NextDelta \/ NextTime
      PROVE  pc' # "dispatch"
  BY <1>3 DEF CutRound, EndRound, ReadDone, WriteError, Fabric, Dispatch, RunStage, NextDelta,
              NextTime, ControllerRuns, Runnable, control
<1>4. CASE UNCHANGED vars
  BY <1>4 DEF vars, inputs, control, scheduling, PassBlocks, Ids, Waiting, Blocked, Need
<1>5. ASSUME pc' # "dispatch"
      PROVE  PassBlocks'
  BY <1>5 DEF PassBlocks
<1> QED BY <1>1, <1>2, <1>3, <1>4, <1>5 DEF Next, Controller, Terminated

-----------------------------------------------------------------------------
(* The places.                                                             *)

DistinctPlaces == Distinct(Entries(issue_fifo)) /\ Distinct(CommandIds(Entries(done_fifo)))

LEMMA SamePlaces ==
  ASSUME Entries(issue_fifo') = Entries(issue_fifo), Entries(done_fifo') = Entries(done_fifo),
         wake' = wake
  PROVE  /\ OnWay' = OnWay /\ InFabric' = InFabric /\ Written' = Written
         /\ OnWayBack' = OnWayBack
         /\ DistinctPlaces => DistinctPlaces'
BY DEF OnWay, InFabric, Written, OnWayBack, DistinctPlaces

(* Steps that move no stage from one place to another.                     *)
Stays == Quiet \/ NextDelta

LEMMA StaysPlaces ==
  ASSUME TypeOK, PlacesSplit, Stays
  PROVE  /\ OnWay' = OnWay /\ InFabric' = InFabric /\ Written' = Written
         /\ OnWayBack' = OnWayBack /\ DistinctPlaces'
         /\ UNCHANGED <<inputs, scheduling, active_commands, completed_commands,
                        timing_violations, fabric>>
         /\ Ids' = Ids /\ ActiveIds' = ActiveIds /\ DoneIds' = DoneIds
<1>1. Entries(issue_fifo') = Entries(issue_fifo) /\ Entries(done_fifo') = Entries(done_fifo)
  BY IssueFifoSteps, DoneFifoSteps DEF Stays, Quiet, fifos, NextDelta, PlacesSplit
<1>2. UNCHANGED <<inputs, scheduling, active_commands, completed_commands,
                  timing_violations, fabric>>
  BY DEF Stays, Quiet, NextDelta
<1>3. Ids' = Ids /\ ActiveIds' = ActiveIds /\ DoneIds' = DoneIds
  BY <1>2 DEF inputs, scheduling, Ids, ActiveIds, Active, DoneIds, Done
<1> QED BY <1>1, <1>2, <1>3, SamePlaces DEF fabric, PlacesSplit, DistinctPlaces

LEMMA IssuePlaces ==
  ASSUME TypeOK, PlacesSplit, NEW k \in Ids, Issue(k)
  PROVE  /\ k \notin ActiveIds /\ ActiveIds' = ActiveIds \cup {k} /\ DoneIds' = DoneIds
         /\ OnWay' = OnWay \cup {k} /\ InFabric' = InFabric /\ Written' = Written
         /\ OnWayBack' = OnWayBack /\ DistinctPlaces'
<1>1. Start(k) /\ UNCHANGED commands /\ issue_fifo' = Write(issue_fifo, k)
      /\ done_fifo' = done_fifo /\ wake' = wake
  BY DEF Issue, inputs, fabric
<1>2. k \notin ActiveIds /\ ActiveIds' = ActiveIds \cup {k} /\ DoneIds' = DoneIds
  BY <1>1, StartEffect
<1>3. k \notin OnWay
  BY <1>2 DEF PlacesSplit
<1> QED BY <1>1, <1>2, <1>3, IssueFifoSteps
        DEF PlacesSplit, DistinctPlaces, OnWay, InFabric, Written, OnWayBack

LEMMA ReadPlaces ==
  ASSUME TypeOK, PlacesSplit, done_fifo.items # << >>, done_fifo' = Read(done_fifo),
         UNCHANGED <<issue_fifo, wake>>
  PROVE  LET e == Head(done_fifo.items)
         IN  /\ e \in Completion /\ e \in Written /\ e.command_id \in OnWayBack
             /\ e.command_id \in ActiveIds
             /\ OnWay' = OnWay /\ InFabric' = InFabric /\ Written' \subseteq Written
             /\ OnWayBack' = OnWayBack \ {e.command_id} /\ DistinctPlaces'
BY DoneFifoSteps DEF PlacesSplit, DistinctPlaces, OnWay, InFabric, Written, OnWayBack

LEMMA DispatchPlaces ==
  ASSUME TypeOK, PlacesSplit, Dispatch
  PROVE  LET k == Head(issue_fifo.items)
         IN  /\ k \in Ids /\ k \in OnWay /\ k \in ActiveIds /\ k \notin InFabric
             /\ OnWay' = OnWay \ {k} /\ InFabric' = InFabric \cup {k} /\ Written' = Written
             /\ OnWayBack' = OnWayBack /\ DistinctPlaces'
             /\ wake' = [j \in InFabric \cup {k} |->
                           IF j = k THEN now + Duration(k) * CycleTicks ELSE wake[j]]
             /\ UNCHANGED <<inputs, scheduling, now, control>>
<1> DEFINE k == Head(issue_fifo.items)
<1>1. /\ issue_fifo.items # << >> /\ issue_fifo' = Read(issue_fifo) /\ done_fifo' = done_fifo
      /\ wake' = [j \in InFabric \cup {k} |->
                    IF j = k THEN now + Duration(k) * CycleTicks ELSE wake[j]]
      /\ UNCHANGED <<inputs, scheduling, now, control>>
  BY DEF Dispatch, InFabric
<1>2. k \in Ids /\ k \in OnWay /\ k \in ActiveIds /\ k \notin InFabric
  BY <1>1, IssueFifoSteps DEF PlacesSplit
<1>3. OnWay' = OnWay \ {k} /\ Distinct(Entries(issue_fifo'))
  BY <1>1, IssueFifoSteps DEF PlacesSplit, OnWay
<1>4. InFabric' = InFabric \cup {k}
  BY <1>1 DEF InFabric
<1>5. Written' = Written /\ OnWayBack' = OnWayBack /\ Distinct(CommandIds(Entries(done_fifo')))
  BY <1>1 DEF PlacesSplit, Written, OnWayBack
<1> QED BY <1>1, <1>2, <1>3, <1>4, <1>5 DEF DistinctPlaces

LEMMA RunPlaces ==
  ASSUME TypeOK, PlacesSplit, NEW k \in Ids, RunStage(k)
  PROVE  /\ k \in InFabric /\ wake[k] = now
         /\ OnWay' = OnWay /\ InFabric' = InFabric \ {k}
         /\ Written' = Written \cup {[command_id |-> k, observed_cycle |-> Cycle(now)]}
         /\ OnWayBack' = OnWayBack \cup {k} /\ DistinctPlaces'
         /\ \A j \in InFabric' : wake'[j] = wake[j]
         /\ UNCHANGED <<inputs, scheduling, now, control>>
<1> DEFINE x == [command_id |-> k, observed_cycle |-> Cycle(now)]
<1>1. /\ k \in InFabric /\ wake[k] = now /\ issue_fifo' = issue_fifo
      /\ done_fifo' = Write(done_fifo, x)
      /\ wake' = [j \in InFabric \ {k} |-> wake[j]]
      /\ UNCHANGED <<inputs, scheduling, now, control>>
  BY DEF RunStage, InFabric
<1>2. x \in Completion /\ x.command_id = k
  BY CycleType DEF TypeOK, Completion
<1>3. k \notin OnWayBack
  BY <1>1 DEF PlacesSplit
<1> HIDE DEF x
<1>4. /\ Written' = Written \cup {x} /\ OnWayBack' = OnWayBack \cup {k}
      /\ Distinct(CommandIds(Entries(done_fifo')))
  BY <1>1, <1>2, <1>3, DoneFifoSteps DEF PlacesSplit, Written, OnWayBack
<1>5. OnWay' = OnWay /\ Distinct(Entries(issue_fifo'))
  BY <1>1 DEF OnWay, PlacesSplit
<1>6. InFabric' = InFabric \ {k} /\ \A j \in InFabric' : wake'[j] = wake[j]
  BY <1>1 DEF InFabric
<1> QED BY <1>1, <1>4, <1>5, <1>6 DEF DistinctPlaces, x

(* The kinds of steps the proofs below tell apart.                         *)
LEMMA StepCases ==
  ASSUME [Next]_vars
  PROVE  \/ \E k \in Ids : Issue(k)
         \/ ReadDone \/ WriteError
         \/ Dispatch /\ ~Stopped /\ ~ControllerRuns
         \/ \E k \in Ids : RunStage(k) /\ ~Stopped /\ ~ControllerRuns
         \/ Stays
BY QuietSteps DEF Next, Controller, Fabric, Terminated, Stays

LEMMA StepPlacesSplit ==
  ASSUME TypeOK, PlacesSplit, [Next]_vars
  PROVE  PlacesSplit'
<1> DEFINE Split ==
      /\ OnWay \cap InFabric = {} /\ OnWay \cap OnWayBack = {} /\ InFabric \cap OnWayBack = {}
      /\ OnWay \cup InFabric \cup OnWayBack \subseteq ActiveIds
    All == ActiveIds \subseteq OnWay \cup InFabric \cup OnWayBack
<1>1. Split /\ (pc # "write_error" => All) /\ DistinctPlaces
  BY DEF PlacesSplit, DistinctPlaces
<1>2. SUFFICES Split' /\ (pc' # "write_error" => All') /\ DistinctPlaces'
  BY DEF PlacesSplit, DistinctPlaces
<1>3. ASSUME NEW k \in Ids, Issue(k)
      PROVE  Split' /\ All' /\ DistinctPlaces'
  <2>1. pc # "write_error"
    BY <1>3 DEF Issue, Start
  <2> QED BY <1>1, <1>3, <2>1, IssuePlaces
<1>4. CASE ReadDone
  <2> DEFINE k == Head(done_fifo.items).command_id
  <2>1. /\ pc # "write_error" /\ done_fifo.items # << >> /\ done_fifo' = Read(done_fifo)
        /\ UNCHANGED <<issue_fifo, wake, commands>> /\ EndStage(k)
    BY <1>4 DEF ReadDone, CompleteStage, fabric, inputs
  <2>2. /\ k \in ActiveIds /\ OnWay' = OnWay /\ InFabric' = InFabric
        /\ k \in OnWayBack /\ OnWayBack' = OnWayBack \ {k} /\ DistinctPlaces'
    BY <2>1, ReadPlaces
  <2> HIDE DEF k
  <2>3. ActiveIds' = ActiveIds \ {k}
    BY <2>1, <2>2, EndEffect
  <2> QED BY <1>1, <2>1, <2>2, <2>3
<1>5. CASE WriteError
  <2>1. pc' = "write_error" /\ UNCHANGED <<commands, issue_fifo, wake>>
    BY <1>5 DEF WriteError, inputs, fabric
  <2>2. ASSUME NEW k \in Ids, Start(k), done_fifo' = done_fifo
        PROVE  Split' /\ DistinctPlaces'
    <3>1. ActiveIds' = ActiveIds \cup {k}
      BY <2>1, <2>2, StartEffect
    <3>2. OnWay' = OnWay /\ InFabric' = InFabric /\ OnWayBack' = OnWayBack /\ DistinctPlaces'
      BY <1>1, <2>1, <2>2, SamePlaces
    <3> QED BY <1>1, <3>1, <3>2
  <2>3. ASSUME done_fifo.items # << >>, done_fifo' = Read(done_fifo), UNCHANGED scheduling
        PROVE  Split' /\ DistinctPlaces'
    <3>1. ActiveIds' = ActiveIds
      BY <2>1, <2>3 DEF ActiveIds, Active, Ids, scheduling
    <3>2. OnWay' = OnWay /\ InFabric' = InFabric /\ OnWayBack' \subseteq OnWayBack /\ DistinctPlaces'
      BY <2>1, <2>3, ReadPlaces
    <3> QED BY <1>1, <3>1, <3>2
  <2> QED BY <1>5, <2>1, <2>2, <2>3 DEF WriteError
<1>6. CASE Dispatch
  <2> DEFINE k == Head(issue_fifo.items)
  <2>1. /\ k \in OnWay /\ OnWay' = OnWay \ {k} /\ InFabric' = InFabric \cup {k}
        /\ OnWayBack' = OnWayBack /\ DistinctPlaces'
        /\ UNCHANGED <<inputs, scheduling, now, control>>
    BY <1>6, DispatchPlaces
  <2>2. ActiveIds' = ActiveIds /\ pc' = pc
    BY <2>1 DEF inputs, scheduling, control, ActiveIds, Active, Ids
  <2> HIDE DEF k
  <2> QED BY <1>1, <2>1, <2>2
<1>7. ASSUME NEW k \in Ids, RunStage(k)
      PROVE  Split' /\ (pc' # "write_error" => All') /\ DistinctPlaces'
  <2>1. ActiveIds' = ActiveIds /\ pc' = pc
    BY <1>7, RunPlaces DEF inputs, scheduling, control, ActiveIds, Active, Ids
  <2> QED BY <1>1, <1>7, <2>1, RunPlaces
<1>8. CASE Stays
  <2>1. pc' # "write_error" => pc # "write_error"
    BY DEF Next, Controller, Fabric, NextDelta, NextTime, Terminated, Stopped, CutRound, Rescan,
           EndRound, EndDrain, Issue, Start, ReadDone, WriteError, Dispatch, RunStage, control, vars
  <2> QED BY <1>1, <1>8, <2>1, StaysPlaces
<1> QED BY <1>3, <1>4, <1>5, <1>6, <1>7, <1>8, StepCases

-----------------------------------------------------------------------------
(* The counts and the fabric's units.                                      *)

LEMMA StepCountsExact ==
  ASSUME TypeOK, CountsExact, PlacesSplit, [Next]_vars
  PROVE  CountsExact'
<1> DEFINE Fabrics == fabric_issued = fabric_completed + Cardinality(InFabric)
           Commands == /\ active_commands = Cardinality(ActiveIds)
                       /\ completed_commands = Cardinality(DoneIds)
<1>1. Commands /\ Fabrics
  BY DEF CountsExact, InFabric
<1>2. SUFFICES Commands' /\ Fabrics'
  BY DEF CountsExact, InFabric
<1>3. /\ IsFiniteSet(ActiveIds) /\ IsFiniteSet(DoneIds) /\ IsFiniteSet(InFabric)
      /\ Cardinality(ActiveIds) \in Nat /\ Cardinality(DoneIds) \in Nat
      /\ Cardinality(InFabric) \in Nat
  BY FiniteIds, FS_CardinalityType
<1>4. fabric_issued \in Nat /\ fabric_completed \in Nat
  BY DEF TypeOK
<1>5. ASSUME UNCHANGED fabric
      PROVE  Fabrics'
  BY <1>1, <1>5 DEF fabric, InFabric
<1>6. ASSUME NEW k \in Ids, Start(k), UNCHANGED commands,
             active_commands' = active_commands + 1, completed_commands' = completed_commands
      PROVE  Commands'
  <2>1. k \notin ActiveIds /\ ActiveIds' = ActiveIds \cup {k} /\ DoneIds' = DoneIds
    BY <1>6, StartEffect
  <2>2. Cardinality(ActiveIds \cup {k}) = Cardinality(ActiveIds) + 1
    BY <1>3, <2>1, FS_AddElement
  <2> QED BY <1>1, <1>6, <2>1, <2>2
<1>7. ASSUME NEW k \in Ids, Issue(k)
      PROVE  Commands' /\ Fabrics'
  BY <1>5, <1>6, <1>7 DEF Issue, Start, inputs
<1>8. CASE ReadDone
  <2> DEFINE k == Head(done_fifo.items).command_id
  <2>1. /\ EndStage(k) /\ UNCHANGED <<commands, fabric>> /\ k \in ActiveIds
        /\ active_commands' = active_commands - 1
        /\ completed_commands' = IF LastStage(k) THEN completed_commands + 1
                                                 ELSE completed_commands
    BY <1>8, ReadEffect DEF ReadDone, CompleteStage, inputs
  <2> HIDE DEF k
  <2>2. /\ ActiveIds' = ActiveIds \ {k} /\ k \notin DoneIds
        /\ DoneIds' = IF LastStage(k) THEN DoneIds \cup {k} ELSE DoneIds
    BY <2>1, EndEffect
  <2>3. Cardinality(ActiveIds \ {k}) = Cardinality(ActiveIds) - 1
    BY <1>3, <2>1, FS_RemoveElement
  <2>4. Cardinality(DoneIds \cup {k}) = Cardinality(DoneIds) + 1
    BY <1>3, <2>2, FS_AddElement
  <2> QED BY <1>1, <1>5, <2>1, <2>2, <2>3, <2>4
<1>9. CASE WriteError
  <2>1. UNCHANGED <<commands, completed_commands, fabric>>
    BY <1>9 DEF WriteError, inputs
  <2>2. ASSUME UNCHANGED <<scheduling, active_commands>>
        PROVE  Commands'
    BY <1>1, <2>1, <2>2 DEF scheduling, ActiveIds, Active, DoneIds, Done, Ids
  <2> QED BY <1>5, <1>6, <1>9, <2>1, <2>2 DEF WriteError, Start
<1>10. ASSUME UNCHANGED <<inputs, scheduling, control>>
       PROVE  Commands'
  BY <1>1, <1>10 DEF inputs, scheduling, control, ActiveIds, Active, DoneIds, Done, Ids
<1>11. CASE Dispatch
  <2> DEFINE k == Head(issue_fifo.items)
  <2>1. /\ k \notin InFabric /\ InFabric' = InFabric \cup {k}
        /\ fabric_issued' = fabric_issued + 1 /\ fabric_completed' = fabric_completed
    BY <1>11, DispatchPlaces DEF Dispatch
  <2> HIDE DEF k
  <2>2. Cardinality(InFabric \cup {k}) = Cardinality(InFabric) + 1
    BY <1>3, <2>1, FS_AddElement
  <2> QED BY <1>1, <1>3, <1>4, <1>10, <1>11, <2>1, <2>2 DEF Dispatch
<1>12. ASSUME NEW k \in Ids, RunStage(k)
       PROVE  Commands' /\ Fabrics'
  <2>1. /\ k \in InFabric /\ InFabric' = InFabric \ {k}
        /\ fabric_issued' = fabric_issued /\ fabric_completed' = fabric_completed + 1
    BY <1>12, RunPlaces DEF RunStage
  <2>2. Cardinality(InFabric \ {k}) = Cardinality(InFabric) - 1
    BY <1>3, <2>1, FS_RemoveElement
  <2> QED BY <1>1, <1>3, <1>4, <1>10, <1>12, <2>1, <2>2 DEF RunStage
<1>13. CASE Stays
  BY <1>1, <1>5, <1>13, StaysPlaces
<1> QED BY <1>7, <1>8, <1>9, <1>11, <1>12, <1>13, StepCases

(* The unit of a stage stays the same while the stage is under way.        *)
LEMMA SameStage ==
  ASSUME UNCHANGED inputs, NEW k, stage'[k] = stage[k]
  PROVE  Unit(k)' = Unit(k) /\ Duration(k)' = Duration(k)
BY DEF inputs, Unit, Duration, Quantize, CeilDiv

(* Two stages under way run on different units.                            *)
LEMMA UnitsDiffer ==
  ASSUME OwnersExact, NEW j \in ActiveIds, NEW k \in ActiveIds, Unit(j) = Unit(k)
  PROVE  j = k
BY UnitNeeded DEF OwnersExact

(* Stages in one of the places keep their stage index and their end.       *)
LEMMA PlacedStagesStay ==
  ASSUME TypeOK, PlacesSplit, [Next]_vars, NEW k \in ActiveIds, k \in ActiveIds'
  PROVE  /\ stage'[k] = stage[k] /\ stage_end'[k] = stage_end[k] /\ UNCHANGED inputs
         /\ Unit(k)' = Unit(k) /\ Duration(k)' = Duration(k)
<1>1. UNCHANGED inputs
  BY DEF Next, Controller, Issue, CutRound, Rescan, EndRound, ReadDone, EndDrain, WriteError,
         Fabric, Dispatch, RunStage, NextDelta, NextTime, Terminated, vars
<1>2. stage'[k] = stage[k] /\ stage_end'[k] = stage_end[k]
  <2>1. k \in Ids
    BY DEF ActiveIds
  <2>2. ASSUME NEW j \in Ids, Start(j), UNCHANGED commands
        PROVE  stage'[k] = stage[k] /\ stage_end'[k] = stage_end[k]
    BY <2>1, <2>2, StartEffect
  <2>3. ASSUME NEW j \in ActiveIds, EndStage(j), UNCHANGED commands
        PROVE  stage'[k] = stage[k] /\ stage_end'[k] = stage_end[k]
    BY <2>1, <2>3, EndEffect
  <2> QED BY <2>2, <2>3, StepKinds DEF scheduling
<1> QED BY <1>1, <1>2, SameStage

LEMMA StepUnitsOfFabric ==
  ASSUME TypeOK, OwnersExact, PlacesSplit, UnitsOfFabric, [Next]_vars
  PROVE  UnitsOfFabric'
<1>1. PlacesSplit'
  BY StepPlacesSplit
<1>2. \A k \in InFabric \cap InFabric' : Unit(k)' = Unit(k)
  BY <1>1, PlacedStagesStay DEF PlacesSplit
<1>3. ASSUME InFabric' = InFabric, UNCHANGED <<busy_units, busy_violations>>
      PROVE  UnitsOfFabric'
  BY <1>2, <1>3 DEF UnitsOfFabric
<1>4. CASE Dispatch
  <2>0. PICK k : k = Head(issue_fifo.items)
    OBVIOUS
  <2>1. k \in ActiveIds /\ k \notin InFabric /\ InFabric' = InFabric \cup {k}
        /\ UNCHANGED <<inputs, stage>>
    BY <1>4, <2>0, DispatchPlaces DEF scheduling
  <2>2. /\ busy_units' = busy_units \cup {Unit(k)}
        /\ busy_violations' = IF Unit(k) \in busy_units THEN busy_violations + 1
                                                         ELSE busy_violations
    BY <1>4, <2>0 DEF Dispatch
  <2>3. Unit(k)' = Unit(k)
    BY <2>1, SameStage
  <2>4. Unit(k) \notin busy_units
    BY <2>1, UnitsDiffer DEF UnitsOfFabric, PlacesSplit
  <2> QED BY <1>2, <2>1, <2>2, <2>3, <2>4 DEF UnitsOfFabric
<1>5. ASSUME NEW k \in Ids, RunStage(k)
      PROVE  UnitsOfFabric'
  <2>1. k \in InFabric /\ InFabric' = InFabric \ {k}
    BY <1>5, RunPlaces
  <2>2. busy_units' = busy_units \ {Unit(k)} /\ busy_violations' = busy_violations
    BY <1>5 DEF RunStage
  <2>3. \A j \in InFabric : Unit(j) = Unit(k) => j = k
    BY <2>1, UnitsDiffer DEF PlacesSplit
  <2> QED BY <1>2, <2>1, <2>2, <2>3 DEF UnitsOfFabric
<1>6. ASSUME ReadDone \/ WriteError \/ Stays \/ \E k \in Ids : Issue(k)
      PROVE  UNCHANGED fabric
  BY <1>6, StaysPlaces DEF ReadDone, WriteError, Issue
<1> QED BY <1>3, <1>4, <1>5, <1>6, StepCases DEF fabric, InFabric

-----------------------------------------------------------------------------
(* Times.                                                                  *)

(* Time moves when nothing is on its way to the fabric, and only a         *)
(* controller that waits for its clock leaves completions behind.          *)
LEMMA TimeMoves ==
  ASSUME TypeOK, [Next]_vars, now' # now
  PROVE  OnWay = {} /\ (pc = "clock" \/ Written = {})
<1>1. NextTime
  BY DEF Next, Controller, Issue, CutRound, Rescan, EndRound, ReadDone, EndDrain, WriteError,
         Fabric, Dispatch, RunStage, NextDelta, Terminated, vars
<1>2. ~Stopped /\ ~Runnable /\ ~Requests
  BY <1>1 DEF NextTime
<1>3. issue_fifo.items = << >> /\ issue_fifo.written = << >> /\ done_fifo.written = << >>
  BY <1>2 DEF Runnable, Requests, Pending
<1>4. issue_fifo \in Fifo(Ids) /\ done_fifo \in Fifo(Completion)
  BY DEF TypeOK, Completion
<1>5. Members(<< >>) = {}
  BY DEF Members
<1>6. OnWay = {}
  BY <1>3, <1>4, <1>5, FifoFacts DEF OnWay
<1>7. CASE pc # "clock"
  <2>1. pc = "read"
    BY <1>2, <1>7 DEF Stopped, Runnable, Requests, TypeOK
  <2>2. done_fifo.items = << >>
    BY <1>2, <2>1 DEF Runnable
  <2> QED BY <1>3, <1>4, <1>5, <1>6, <2>2, FifoFacts DEF Written
<1> QED BY <1>6, <1>7

LEMMA StepPunctual ==
  ASSUME TypeOK, StageAgrees, PlacesSplit, Punctual, [Next]_vars
  PROVE  Punctual'
<1>1. PlacesSplit'
  BY StepPlacesSplit
<1>2. \A k \in OnWay \cup InFabric \cup OnWayBack : k \in ActiveIds
  BY DEF PlacesSplit
<1>3. \A k \in OnWay' \cup InFabric' \cup OnWayBack' : k \in ActiveIds'
  BY <1>1 DEF PlacesSplit
<1> DEFINE Expected(k) == stage_end[k] = Cycle(now) + Duration(k)
<1>4. \A k \in OnWay \cap OnWay' : stage_end'[k] = Cycle(now') + Duration(k)'
  <2>1. OnWay # {} => now' = now
    BY TimeMoves
  <2> QED BY <1>2, <1>3, <2>1, PlacedStagesStay DEF Punctual
<1>5. \A k \in InFabric \cap InFabric' : wake'[k] = wake[k] => stage_end'[k] = Cycle(wake'[k])
  BY <1>2, <1>3, PlacedStagesStay DEF Punctual
<1>6. \A e \in Written \cap Written' : e.observed_cycle = stage_end'[e.command_id]
  <2>1. \A e \in Written : e.command_id \in OnWayBack
    BY MemberIds DEF Written, OnWayBack
  <2>2. \A e \in Written' : e.command_id \in OnWayBack'
    BY MemberIds DEF Written, OnWayBack
  <2> QED BY <1>2, <1>3, <2>1, <2>2, PlacedStagesStay DEF Punctual
<1>7. SUFFICES /\ \A k \in OnWay' : k \notin OnWay => stage_end'[k] = Cycle(now') + Duration(k)'
               /\ \A k \in InFabric' : k \notin InFabric \/ wake'[k] # wake[k] =>
                                        stage_end'[k] = Cycle(wake'[k])
               /\ \A e \in Written' : e \notin Written =>
                                        e.observed_cycle = stage_end'[e.command_id]
  BY <1>4, <1>5, <1>6 DEF Punctual
<1>8. ASSUME NEW k \in Ids, Issue(k)
      PROVE  /\ OnWay' = OnWay \cup {k} /\ InFabric' = InFabric /\ wake' = wake
             /\ Written' = Written
             /\ stage_end'[k] = Cycle(now') + Duration(k)'
  <2>1. Start(k) /\ UNCHANGED <<commands, inputs, now, wake>>
    BY <1>8 DEF Issue, inputs, fabric
  <2>2. stage' = stage /\ stage_end'[k] = Cycle(now) + Duration(k)
    BY <2>1, StartEffect
  <2>3. Duration(k)' = Duration(k)
    BY <2>1, <2>2, SameStage
  <2> QED BY <1>8, <2>1, <2>2, <2>3, IssuePlaces
<1>9. ASSUME ReadDone \/ WriteError
      PROVE  OnWay' = OnWay /\ InFabric' = InFabric /\ wake' = wake /\ Written' \subseteq Written
  <2>1. UNCHANGED <<issue_fifo, wake>>
    BY <1>9 DEF ReadDone, WriteError, fabric
  <2>2. CASE done_fifo' = done_fifo
    BY <2>1, <2>2, SamePlaces
  <2>3. CASE done_fifo' # done_fifo
    <3>1. done_fifo.items # << >> /\ done_fifo' = Read(done_fifo)
      BY <1>9, <2>3 DEF ReadDone, WriteError
    <3> QED BY <2>1, <3>1, ReadPlaces
  <2> QED BY <2>2, <2>3
<1>10. CASE Dispatch
  <2>1. PICK k : k = Head(issue_fifo.items)
    OBVIOUS
  <2>2. /\ k \in Ids /\ k \in OnWay /\ k \in ActiveIds /\ k \notin InFabric
        /\ OnWay' = OnWay \ {k} /\ InFabric' = InFabric \cup {k} /\ Written' = Written
        /\ wake' = [j \in InFabric \cup {k} |->
                      IF j = k THEN now + Duration(k) * CycleTicks ELSE wake[j]]
        /\ stage_end' = stage_end
    BY <1>10, <2>1, DispatchPlaces DEF scheduling
  <2>3. Duration(k) \in Nat
    BY <2>2, StageInRange DEF ActiveIds, Active, Done
  <2>4. stage_end[k] = Cycle(now) + Duration(k)
    BY <2>2 DEF Punctual
  <2> DEFINE d == Duration(k)
  <2> HIDE DEF d
  <2>5. wake'[k] = now + d * CycleTicks /\ \A j \in InFabric : wake'[j] = wake[j]
    BY <2>2 DEF d
  <2>6. Cycle(now + d * CycleTicks) = Cycle(now) + d
    BY <2>3, CycleAfter DEF d, TypeOK
  <2>7. stage_end'[k] = Cycle(wake'[k])
    BY <2>2, <2>4, <2>5, <2>6 DEF d
  <2> QED BY <2>2, <2>5, <2>7
<1>11. ASSUME NEW k \in Ids, RunStage(k)
       PROVE  /\ OnWay' = OnWay /\ InFabric' \subseteq InFabric
              /\ \A j \in InFabric' : wake'[j] = wake[j]
              /\ \A e \in Written' : e \notin Written =>
                                       e.observed_cycle = stage_end'[e.command_id]
  <2> DEFINE x == [command_id |-> k, observed_cycle |-> Cycle(now)]
  <2>1. /\ k \in InFabric /\ wake[k] = now /\ Written' = Written \cup {x}
        /\ stage_end' = stage_end
    BY <1>11, RunPlaces DEF scheduling
  <2>2. x.command_id = k /\ x.observed_cycle = Cycle(now)
    OBVIOUS
  <2> HIDE DEF x
  <2>3. x.observed_cycle = stage_end'[x.command_id]
    BY <2>1, <2>2 DEF Punctual
  <2> QED BY <1>11, <2>1, <2>3, RunPlaces
<1>12. CASE Stays
  BY <1>12, StaysPlaces DEF fabric
<1> QED BY <1>8, <1>9, <1>10, <1>11, <1>12, StepCases

(* The controller checks a completion when it reads it.                    *)
LEMMA ChecksPass ==
  ASSUME TypeOK, PlacesSplit, Punctual, UncutOnTime, Uncut, done_fifo.items # << >>,
         CheckTime(Head(done_fifo.items))
  PROVE  timing_violations' = 0
<1> DEFINE e == Head(done_fifo.items)
<1>1. e \in Written
  BY DoneFifoSteps DEF PlacesSplit
<1>2. e.observed_cycle = stage_end[e.command_id] /\ e.observed_cycle = Cycle(now)
  BY <1>1 DEF Punctual, UncutOnTime
<1> QED BY <1>2 DEF CheckTime, UncutOnTime

LEMMA UncutBefore ==
  ASSUME TypeOK, [Next]_vars, Uncut'
  PROVE  Uncut /\ ~CutRound
<1>1. CASE CutRound
  BY <1>1 DEF CutRound, Uncut, TypeOK
<1>2. CASE ~CutRound
  <2>1. UNCHANGED stalls
    BY <1>2 DEF Next, Controller, Issue, Rescan, EndRound, ReadDone, EndDrain, WriteError, Fabric,
                Dispatch, RunStage, NextDelta, NextTime, Terminated, vars, control
  <2> QED BY <1>2, <2>1 DEF stalls, Uncut
<1> QED BY <1>1, <1>2

LEMMA StepUncutOnTime ==
  ASSUME TypeOK, PlacesSplit, Punctual, UncutOnTime, [Next]_vars
  PROVE  UncutOnTime'
<1> SUFFICES ASSUME Uncut'
             PROVE  /\ pc' # "clock" /\ timing_violations' = 0
                    /\ pc' \in {"dispatch", "drain"} => issue_fifo'.read = 0
                    /\ \A e \in Written' : e.observed_cycle = Cycle(now')
  BY DEF UncutOnTime
<1>1. Uncut /\ ~CutRound
  BY UncutBefore
<1>2. /\ pc # "clock" /\ timing_violations = 0
      /\ pc \in {"dispatch", "drain"} => issue_fifo.read = 0
      /\ \A e \in Written : e.observed_cycle = Cycle(now)
  BY <1>1 DEF UncutOnTime
<1>3. pc' # "clock"
  BY <1>1, <1>2 DEF Next, Controller, Issue, Rescan, EndRound, ReadDone, EndDrain, WriteError,
     Fabric, Dispatch, RunStage, NextDelta, NextTime, Terminated, vars, control
<1>4. timing_violations' = 0
  <2>1. CASE ReadDone
    BY <1>1, <2>1, ChecksPass DEF ReadDone, CompleteStage
  <2>2. CASE WriteError
    BY <1>1, <1>2, <2>2, ChecksPass DEF WriteError
  <2>3. ASSUME ~ReadDone, ~WriteError
        PROVE  UNCHANGED timing_violations
    BY <2>3 DEF Next, Controller, Issue, CutRound, Rescan, EndRound, EndDrain,
       Fabric, Dispatch, RunStage, NextDelta, NextTime, Terminated, vars, control
  <2> QED BY <1>2, <2>1, <2>2, <2>3
<1>5. ASSUME pc' \in {"dispatch", "drain"}
      PROVE  issue_fifo'.read = 0
  <2>1. ASSUME NEW k \in Ids, Issue(k)
        PROVE  issue_fifo'.read = 0
    BY <1>2, <2>1 DEF Issue, Start, Write
  <2>2. CASE ReadDone \/ EndDrain
    <3>1. pc = "drain" /\ issue_fifo' = issue_fifo
      BY <1>5, <2>2 DEF ReadDone, EndDrain, fifos
    <3> QED BY <1>2, <3>1
  <2>3. CASE NextDelta
    BY <2>3 DEF NextDelta, Update
  <2>4. CASE UNCHANGED vars
    BY <1>2, <1>5, <2>4 DEF vars, control, fifos
  <2>5. ASSUME CutRound \/ Rescan \/ EndRound \/ WriteError \/ Fabric \/ NextTime
        PROVE  FALSE
    BY <1>1, <1>2, <1>5, <2>5 DEF CutRound, Rescan, EndRound, WriteError, Fabric, Dispatch,
       RunStage, NextTime, ControllerRuns, Runnable, control
  <2> QED BY <2>1, <2>2, <2>3, <2>4, <2>5 DEF Next, Controller, Terminated
<1>6. \A e \in Written' : e.observed_cycle = Cycle(now')
  <2>1. CASE now' # now
    <3>1. Written = {}
      BY <1>2, <2>1, TimeMoves
    <3>2. Written' = Written
      BY <2>1, StaysPlaces DEF Stays, Quiet, Next, Controller, Issue, CutRound, Rescan, EndRound,
         ReadDone, EndDrain, WriteError, Fabric, Dispatch, RunStage, NextDelta, NextTime,
         Terminated, vars, control
    <3> QED BY <3>1, <3>2
  <2>2. CASE now' = now
    <3>1. ASSUME NEW k \in Ids, RunStage(k)
          PROVE  \A e \in Written' : e.observed_cycle = Cycle(now)
      BY <1>2, <3>1, RunPlaces
    <3>2. ASSUME ReadDone \/ WriteError
          PROVE  Written' \subseteq Written
      <4>1. UNCHANGED <<issue_fifo, wake>>
        BY <3>2 DEF ReadDone, WriteError, fabric
      <4>2. CASE done_fifo' = done_fifo
        BY <4>1, <4>2, SamePlaces
      <4>3. CASE done_fifo' # done_fifo
        <5>1. done_fifo.items # << >> /\ done_fifo' = Read(done_fifo)
          BY <3>2, <4>3 DEF ReadDone, WriteError
        <5> QED BY <4>1, <5>1, ReadPlaces
      <4> QED BY <4>2, <4>3
    <3>3. ASSUME Stays \/ Dispatch \/ \E k \in Ids : Issue(k)
          PROVE  Written' = Written
      BY <3>3, StaysPlaces, DispatchPlaces, IssuePlaces
    <3> QED BY <1>2, <2>2, <3>1, <3>2, <3>3, StepCases
  <2> QED BY <2>1, <2>2
<1> QED BY <1>3, <1>4, <1>5, <1>6

-----------------------------------------------------------------------------
(* Rounds that offer every chip a place are never cut.                     *)

LEMMA StepIssuedActive ==
  ASSUME TypeOK, CountsExact, IssuedActive, [Next]_vars
  PROVE  IssuedActive'
<1>1. active_commands \in Nat
  BY FiniteIds, FS_CardinalityType DEF CountsExact
<1>2. ASSUME NEW k \in Ids, Issue(k)
      PROVE  IssuedActive'
  BY <1>2 DEF Issue, Start, IssuedActive, TypeOK
<1>3. ASSUME Rescan \/ EndDrain
      PROVE  IssuedActive'
  BY <1>1, <1>3 DEF Rescan, EndDrain, IssuedActive
<1>4. ASSUME CutRound \/ EndRound \/ ReadDone \/ WriteError \/ Fabric \/ NextDelta \/ NextTime
      PROVE  pc' # "dispatch"
  BY <1>4 DEF CutRound, EndRound, ReadDone, WriteError, Fabric, Dispatch, RunStage, NextDelta,
              NextTime, ControllerRuns, Runnable, control
<1>5. CASE UNCHANGED vars
  BY <1>5 DEF vars, control, IssuedActive
<1>6. ASSUME pc' # "dispatch"
      PROVE  IssuedActive'
  BY <1>6 DEF IssuedActive
<1> QED BY <1>2, <1>3, <1>4, <1>5, <1>6 DEF Next, Controller, Terminated

LEMMA FiniteChips == ASSUME TypeOK PROVE IsFiniteSet(ChipsUsed)
<1> DEFINE chip == [j \in Ids |-> <<commands[j].channel, commands[j].chip>>]
<1>1. chip \in Surjection(Ids, ChipsUsed)
  BY DEF Surjection, ChipsUsed
<1> QED BY <1>1, FiniteIds, FS_Surjection

(* A command that could start is on a chip where nothing runs.             *)
LEMMA ChipsSuffice ==
  ASSUME TypeOK, OwnersExact, NEW k \in Ready
  PROVE  Cardinality(ActiveIds) + 1 <= Cardinality(ChipsUsed)
<1> DEFINE A == ActiveIds \cup {k}
           chip == [j \in A |-> <<commands[j].channel, commands[j].chip>>]
<1>1. k \in Ids /\ Waiting(k) /\ \A r \in Need(k) : owner[r] = None
  BY DEF Ready, Issuable, ResourcesFree
<1>2. k \notin ActiveIds /\ A \subseteq Ids
  BY <1>1 DEF ActiveIds, Active, Waiting
<1>3. IsFiniteSet(ChipsUsed)
  BY FiniteChips
<1>4. chip \in [A -> ChipsUsed]
  BY <1>2 DEF ChipsUsed
<1>5. ASSUME NEW j \in A, NEW m \in A, chip[j] = chip[m]
      PROVE  j = m
  <2>1. ChipOf(commands[j]) = ChipOf(commands[m])
    BY <1>5 DEF ChipOf
  <2>2. \A n \in ActiveIds : owner[ChipOf(commands[n])] = n /\ n # None
    BY NeedsFacts, IdFacts DEF OwnersExact, Need, ActiveIds
  <2>3. owner[ChipOf(commands[k])] = None
    BY <1>1, NeedsFacts DEF Need
  <2> QED BY <2>1, <2>2, <2>3
<1>6. chip \in Injection(A, ChipsUsed)
  BY <1>4, <1>5 DEF Injection, IsInjective
<1>7. Cardinality(A) <= Cardinality(ChipsUsed)
  BY <1>3, <1>6, FS_Injection DEF ExistsInjection
<1>8. Cardinality(A) = Cardinality(ActiveIds) + 1
  BY <1>2, FiniteIds, FS_AddElement
<1> QED BY <1>7, <1>8

LEMMA StepWideUncut ==
  ASSUME IInv, [Next]_vars
  PROVE  WideUncut'
<1> USE DEF IInv
<1> SUFFICES ASSUME WideEnough' PROVE Uncut'
  BY DEF WideUncut
<1>1. WideEnough
  <2>1. UNCHANGED inputs
    BY DEF Next, Controller, Issue, CutRound, Rescan, EndRound, ReadDone, EndDrain, WriteError,
           Fabric, Dispatch, RunStage, NextDelta, NextTime, Terminated, vars
  <2> QED BY <2>1 DEF inputs, WideEnough, ChipsUsed, Ids
<1>2. Uncut
  BY <1>1 DEF WideUncut
<1>3. ~CutRound
  <2> SUFFICES ASSUME CutRound PROVE FALSE
    OBVIOUS
  <2>1. pc = "dispatch" /\ (RoundFull \/ FifoFull) /\ ~NoneFrom(i, Ready)
    BY DEF CutRound
  <2>2. PICK k \in Ready : TRUE
    BY <2>1 DEF NoneFrom
  <2> DEFINE active == Cardinality(ActiveIds)
             chips == Cardinality(ChipsUsed)
  <2>3. active + 1 <= chips
    BY <2>2, ChipsSuffice
  <2>4. active \in Nat /\ active_commands = active
    BY FiniteIds, FS_CardinalityType DEF CountsExact
  <2>5. config.issue_width >= chips /\ config.queue_depth >= chips
    BY <1>1 DEF WideEnough
  <2>6. config.issue_width \in Nat /\ config.queue_depth \in Nat /\ issued \in Nat
    BY DEF TypeOK, Config
  <2>7. chips \in Int
    BY FiniteChips, FS_CardinalityType
  <2> HIDE DEF active, chips
  <2>8. ~RoundFull
    <3>1. issued <= active
      BY <2>1, <2>4 DEF IssuedActive
    <3> QED BY <2>3, <2>4, <2>5, <2>6, <2>7, <3>1 DEF RoundFull
  <2>9. ~FifoFull
    <3>1. issue_fifo.read = 0
      BY <1>2, <2>1 DEF UncutOnTime
    <3>2. issue_fifo \in Fifo(Ids)
      BY DEF TypeOK
    <3>3. /\ Entries(issue_fifo) \in Seq(Ids)
          /\ Len(Entries(issue_fifo)) = Len(issue_fifo.items) + Len(issue_fifo.written)
          /\ Len(issue_fifo.items) \in Nat /\ Len(issue_fifo.written) \in Nat
      BY <3>2, FifoFacts, LenProperties
    <3>4. Len(Entries(issue_fifo)) = Cardinality(OnWay)
      BY <3>3, LengthDistinct DEF PlacesSplit, OnWay
    <3>5. Cardinality(OnWay) <= active
      BY FiniteIds, FS_Subset DEF PlacesSplit, active
    <3>6. Cardinality(OnWay) \in Int
      BY <3>3, <3>4
    <3> DEFINE items == Len(issue_fifo.items)
               written == Len(issue_fifo.written)
               depth == config.queue_depth
    <3>7. FifoFull <=> depth - items - 0 - written <= 0
      BY <3>1 DEF FifoFull, NumFree
    <3>8. items \in Nat /\ written \in Nat /\ depth \in Nat
      BY <2>6, <3>3
    <3>9. chips <= depth
      BY <2>5, <2>6, <2>7
    <3>10. items + written <= active
      BY <3>3, <3>4, <3>5
    <3> HIDE DEF items, written, depth
    <3> QED BY <2>3, <2>4, <2>7, <3>7, <3>8, <3>9, <3>10
  <2> QED BY <2>1, <2>8, <2>9
<1>4. UNCHANGED stalls
  BY <1>3 DEF Next, Controller, Issue, Rescan, EndRound, ReadDone, EndDrain, WriteError, Fabric,
              Dispatch, RunStage, NextDelta, NextTime, Terminated, vars, control
<1> QED BY <1>2, <1>4 DEF stalls, Uncut

LEMMA StepVerdict ==
  ASSUME TypeOK, Verdict, [Next]_vars
  PROVE  Verdict'
<1>1. CASE EndRound
  BY <1>1 DEF EndRound, Verdict, TypeOK, TableTypeOK, inputs
<1>2. CASE UNCHANGED vars
  BY <1>2 DEF vars, inputs, control, Verdict
<1>3. ASSUME ~EndRound, ~UNCHANGED vars
      PROVE  pc' \notin {"ok", "failed"}
  BY <1>3 DEF Next, Controller, Issue, Start, CutRound, Rescan, ReadDone, EndDrain, WriteError,
     Fabric, Dispatch, RunStage, NextDelta, NextTime, Terminated, Stopped, control
<1> QED BY <1>1, <1>2, <1>3 DEF Verdict

(* When a round ends with commands left, some stage is under way: a        *)
(* command that waits was gone by, so a stage under way holds what it      *)
(* needs.                                                                  *)
LEMMA SomethingRuns ==
  ASSUME TypeOK, OwnersExact, PassBlocks, CountsExact,
         pc = "dispatch", NoneFrom(i, Ready), completed_commands < Len(commands)
  PROVE  ActiveIds # {}
<1>1. PICK j \in Ids : ~Done(j)
  <2> SUFFICES ASSUME \A j \in Ids : Done(j) PROVE FALSE
    OBVIOUS
  <2>1. DoneIds = Ids
    BY DEF DoneIds
  <2>2. completed_commands = Len(commands) /\ Len(commands) \in Nat
    BY <2>1, FiniteIds, IdFacts DEF CountsExact
  <2> QED BY <2>2
<1>2. CASE Active(j)
  BY <1>2 DEF ActiveIds
<1>3. CASE ~Active(j)
  <2>1. Waiting(j)
    BY <1>1, <1>3 DEF TypeOK, TableTypeOK, Active, Waiting, Done
  <2>2. j < i \/ j \notin Ready
    <3>1. j \in Int /\ i \in Int
      BY IdFacts DEF TypeOK
    <3> QED BY <3>1 DEF NoneFrom
  <2>3. PICK r \in Need(j) : owner[r] # None
    BY <2>1, <2>2, PassedIsBlocked DEF Blocked
  <2>4. r \in AllResources
    BY <2>3, IdFacts
  <2> QED BY <2>3, <2>4 DEF OwnersExact
<1> QED BY <1>2, <1>3

LEMMA StepAwaitsStage ==
  ASSUME TypeOK, OwnersExact, PassBlocks, CountsExact, PlacesSplit, AwaitsStage, [Next]_vars
  PROVE  AwaitsStage'
<1>1. CASE EndRound
  <2>1. ActiveIds' = ActiveIds
    BY <1>1, StaysPlaces, QuietSteps DEF Stays
  <2>2. pc = "dispatch" /\ NoneFrom(i, Ready)
        /\ (pc' = "read" => completed_commands < Len(commands))
    BY <1>1 DEF EndRound
  <2> QED BY <2>1, <2>2, SomethingRuns DEF AwaitsStage
<1>2. ASSUME Dispatch \/ (\E k \in Ids : RunStage(k)) \/ NextDelta \/ NextTime \/ UNCHANGED vars
      PROVE  ActiveIds' = ActiveIds /\ (pc' = "read" => pc = "read")
  <2>1. UNCHANGED <<inputs, scheduling>> /\ (pc' = "read" => pc = "read")
    BY <1>2 DEF Dispatch, RunStage, NextDelta, NextTime, vars, control
  <2> QED BY <2>1 DEF inputs, scheduling, ActiveIds, Active, Ids
<1>3. ASSUME (\E k \in Ids : Issue(k)) \/ CutRound \/ Rescan \/ ReadDone \/ EndDrain \/ WriteError
      PROVE  pc' # "read"
  BY <1>3 DEF Issue, Start, CutRound, Rescan, ReadDone, EndDrain, WriteError
<1> QED BY <1>1, <1>2, <1>3 DEF Next, Controller, Fabric, Terminated, AwaitsStage

LEMMA StepAlarmsAhead ==
  ASSUME TypeOK, StageAgrees, PlacesSplit, AlarmsAhead, [Next]_vars
  PROVE  AlarmsAhead' /\ now' >= now
<1>1. now \in Nat /\ clock \in Nat /\ CycleTicks \in Nat /\ config.clock_ticks \in Nat
      /\ \A k \in InFabric : wake[k] \in Nat
  BY ComponentAssumption DEF TypeOK, Config, InFabric
<1>2. CASE Dispatch
  <2> DEFINE k == Head(issue_fifo.items)
             end == now + Duration(k) * CycleTicks
  <2>1. /\ k \in ActiveIds /\ InFabric' = InFabric \cup {k}
        /\ wake' = [j \in InFabric \cup {k} |-> IF j = k THEN end ELSE wake[j]]
        /\ UNCHANGED <<now, control>>
    BY <1>2, DispatchPlaces
  <2>2. Duration(k) \in Nat
    <3>1. k \in Ids /\ ~Done(k)
      BY <2>1 DEF ActiveIds, Active, Done
    <3> QED BY <3>1, StageInRange
  <2> HIDE DEF k
  <2>3. end >= now
    <3>1. Duration(k) * CycleTicks \in Nat
      BY <1>1, <2>2
    <3> QED BY <1>1, <3>1
  <2> HIDE DEF end
  <2>4. \A j \in InFabric' : wake'[j] >= now'
    BY <2>1, <2>3 DEF AlarmsAhead
  <2> QED BY <1>1, <2>1, <2>4 DEF control, AlarmsAhead
<1>3. ASSUME NEW k \in Ids, RunStage(k)
      PROVE  AlarmsAhead' /\ now' >= now
  <2>1. /\ InFabric' \subseteq InFabric /\ \A j \in InFabric' : wake'[j] = wake[j]
        /\ UNCHANGED <<now, control>>
    BY <1>3, RunPlaces
  <2> QED BY <1>1, <2>1 DEF control, AlarmsAhead
<1>4. CASE NextTime
  <2>1. PICK t \in Alarms : (\A u \in Alarms : t <= u) /\ now' = t
    BY <1>4 DEF NextTime
  <2>2. \A k \in InFabric : wake[k] \in Alarms
    BY DEF Alarms, InFabric
  <2>3. pc = "clock" => clock \in Alarms
    BY DEF Alarms
  <2>4. t \in Nat /\ t >= now
    BY <1>1, <2>1 DEF Alarms, AlarmsAhead, InFabric
  <2>5. UNCHANGED <<wake, pc, clock>>
    BY <1>4 DEF NextTime, control, fabric
  <2> QED BY <1>1, <2>1, <2>2, <2>3, <2>4, <2>5 DEF AlarmsAhead, InFabric
<1>5. CASE CutRound
  <2>1. UNCHANGED <<wake, now>> /\ clock' = now + config.clock_ticks
    BY <1>5 DEF CutRound, fabric
  <2> QED BY <1>1, <2>1 DEF AlarmsAhead, InFabric
<1>6. ASSUME \/ \E k \in Ids : Issue(k)
             \/ Rescan \/ EndRound \/ ReadDone \/ EndDrain \/ WriteError \/ NextDelta
             \/ UNCHANGED vars
      PROVE  AlarmsAhead' /\ now' >= now
  <2>1. UNCHANGED <<wake, now>> /\ (pc' = "clock" => pc = "clock" /\ clock' = clock)
    BY <1>6 DEF Issue, Start, Rescan, EndRound, ReadDone, EndDrain, WriteError, NextDelta, vars,
                fabric, control
  <2> QED BY <1>1, <2>1 DEF AlarmsAhead, InFabric
<1> QED BY <1>2, <1>3, <1>4, <1>5, <1>6 DEF Next, Controller, Fabric, Terminated

LEMMA StepIInv ==
  ASSUME IInv, [Next]_vars
  PROVE  IInv'
<1>1. /\ TypeOK /\ StageAgrees /\ OwnersExact /\ ChipInOrder /\ PassBlocks /\ CountsExact
      /\ PlacesSplit /\ UnitsOfFabric /\ Punctual /\ UncutOnTime /\ IssuedActive /\ Verdict
      /\ AwaitsStage /\ AlarmsAhead
  BY DEF IInv
<1>2. TypeOK' /\ StageAgrees' /\ OwnersExact' /\ ChipInOrder' /\ PassBlocks'
  BY <1>1, StepTypeOK, StepStageAgrees, StepOwnersExact, StepChipInOrder, StepPassBlocks
<1>3. CountsExact' /\ PlacesSplit' /\ UnitsOfFabric'
  BY <1>1, StepCountsExact, StepPlacesSplit, StepUnitsOfFabric
<1>4. Punctual' /\ UncutOnTime' /\ IssuedActive'
  BY <1>1, StepPunctual, StepUncutOnTime, StepIssuedActive
<1>5. Verdict'
  BY <1>1, StepVerdict
<1>6. AwaitsStage' /\ AlarmsAhead'
  BY <1>1, StepAwaitsStage, StepAlarmsAhead
<1> QED BY <1>2, <1>3, <1>4, <1>5, <1>6, StepWideUncut DEF IInv

-----------------------------------------------------------------------------
(* What the invariant says of every state.                                 *)

LEMMA PlacesExact == IInv => OnePlace
<1> SUFFICES ASSUME IInv, ~Stopped, NEW k \in Ids
             PROVE  Places(k) = IF Active(k) THEN 1 ELSE 0
  BY DEF OnePlace
<1> DEFINE done == Entries(done_fifo)
           back == CommandIds(done)
<1>1. PlacesSplit /\ pc # "write_error"
  BY DEF IInv, Stopped
<1>2. Times(Entries(issue_fifo), k) = IF k \in OnWay THEN 1 ELSE 0
  BY <1>1, TimesDistinct DEF PlacesSplit, OnWay
<1>3. Times(back, k) = IF k \in OnWayBack THEN 1 ELSE 0
  BY <1>1, TimesDistinct DEF PlacesSplit, OnWayBack
<1>4. Cardinality({n \in DOMAIN done : done[n].command_id = k}) = Times(back, k)
  <2>1. {n \in DOMAIN done : done[n].command_id = k} = {n \in DOMAIN back : back[n] = k}
    BY DEF CommandIds
  <2> QED BY <2>1 DEF Times
<1>5. Active(k) <=> k \in OnWay \cup InFabric \cup OnWayBack
  BY <1>1 DEF PlacesSplit, ActiveIds
<1>6. /\ k \in OnWay => k \notin InFabric /\ k \notin OnWayBack
      /\ k \in InFabric => k \notin OnWayBack
  BY <1>1 DEF PlacesSplit
<1>7. Places(k) = (IF k \in OnWay THEN 1 ELSE 0) + (IF k \in InFabric THEN 1 ELSE 0)
                    + (IF k \in OnWayBack THEN 1 ELSE 0)
  BY <1>2, <1>3, <1>4 DEF Places, InFabric
<1> QED BY <1>5, <1>6, <1>7

LEMMA UnitsAreHeld == IInv => UnitsExact
<1> SUFFICES ASSUME IInv PROVE UnitsExact
  OBVIOUS
<1>1. \A k \in InFabric : k \in ActiveIds /\ Unit(k) \in Need(k)
  BY UnitNeeded DEF IInv, PlacesSplit
<1> QED BY <1>1 DEF IInv, UnitsOfFabric, UnitsExact, OwnersExact, InFabric

LEMMA CutsCount == IInv => LateOnlyIfCut
<1> SUFFICES ASSUME IInv PROVE LateOnlyIfCut
  OBVIOUS
<1>1. issue_backpressure_stalls \in Nat /\ width_limited_dispatches \in Nat
      /\ timing_violations \in Nat
  BY DEF IInv, TypeOK
<1>2. (Uncut => timing_violations = 0) /\ (WideEnough => Uncut)
  BY DEF IInv, UncutOnTime, WideUncut
<1> QED BY <1>1, <1>2 DEF LateOnlyIfCut, Uncut

(* A sequence without members is empty.                                    *)
LEMMA NoMembers == ASSUME NEW S, NEW s \in Seq(S), Members(s) = {} PROVE s = << >>
<1> SUFFICES ASSUME s # << >> PROVE FALSE
  OBVIOUS
<1>1. Len(s) \in Nat /\ DOMAIN s = 1..Len(s) /\ Len(s) # 0
  BY EmptySeq, LenProperties
<1>2. s[1] \in {s[n] : n \in DOMAIN s}
  BY <1>1
<1> QED BY <1>2 DEF Members

(* Nothing to do, nothing to wake: then no stage is in any place, and the  *)
(* controller would wait for one only while there is one.                  *)
LEMMA NeverStarved == IInv /\ Starved => Stopped
<1> SUFFICES ASSUME IInv, Starved, ~Stopped PROVE FALSE
  OBVIOUS
<1>1. TypeOK /\ PlacesSplit /\ AwaitsStage
  BY DEF IInv
<1>2. pc = "read"
  BY <1>1 DEF Starved, Stopped, Runnable, Requests, Alarms, TypeOK
<1>3. /\ issue_fifo.items = << >> /\ issue_fifo.written = << >>
      /\ done_fifo.items = << >> /\ done_fifo.written = << >>
  BY <1>2 DEF Starved, Runnable, Requests, Pending
<1>4. InFabric = {}
  BY DEF Starved, Alarms, InFabric
<1>5. Entries(issue_fifo) = << >> /\ Entries(done_fifo) = << >>
  BY <1>1, <1>3, FifoFacts DEF TypeOK
<1>6. OnWay = {} /\ OnWayBack = {}
  BY <1>5 DEF OnWay, OnWayBack, Members, CommandIds
<1> QED BY <1>1, <1>2, <1>4, <1>6 DEF PlacesSplit, AwaitsStage

LEMMA NothingLeft == IInv => StopsClean
<1> SUFFICES ASSUME IInv, pc \in {"ok", "failed"}
             PROVE  /\ pc = "ok" <=> timing_violations = 0
                    /\ \A k \in Ids : Done(k)
                    /\ active_commands = 0 /\ DOMAIN wake = {}
                    /\ Entries(issue_fifo) = << >> /\ Entries(done_fifo) = << >>
                    /\ fabric_issued = fabric_completed /\ busy_violations = 0
  BY NeverStarved DEF StopsClean
<1>1. /\ TypeOK /\ PlacesSplit /\ CountsExact /\ busy_violations = 0
      /\ completed_commands >= Len(commands)
      /\ pc = "ok" <=> active_commands = 0 /\ timing_violations = 0
  BY DEF IInv, UnitsOfFabric, Verdict
<1>2. DoneIds = Ids
  <2>1. DoneIds \in SUBSET Ids /\ IsFiniteSet(Ids) /\ Cardinality(Ids) = Len(commands)
        /\ Len(commands) \in Nat
    BY <1>1, FiniteIds, IdFacts DEF DoneIds
  <2>2. Cardinality(DoneIds) <= Cardinality(Ids) /\ Cardinality(DoneIds) \in Nat
    BY <2>1, FS_Subset, FS_CardinalityType
  <2>3. Cardinality(DoneIds) = Cardinality(Ids)
    BY <1>1, <2>1, <2>2 DEF CountsExact
  <2> QED BY <2>1, <2>3, FS_Subset
<1>3. \A k \in Ids : Done(k)
  BY <1>2 DEF DoneIds
<1>4. ActiveIds = {}
  BY <1>3 DEF ActiveIds, Active, Done
<1>5. OnWay = {} /\ InFabric = {} /\ OnWayBack = {}
  BY <1>1, <1>4 DEF PlacesSplit
<1>6. active_commands = 0 /\ fabric_issued = fabric_completed
  <2>1. Cardinality({}) = 0
    BY FS_EmptySet
  <2>2. fabric_completed \in Nat
    BY <1>1 DEF TypeOK
  <2> QED BY <1>1, <1>4, <1>5, <2>1, <2>2 DEF CountsExact, InFabric
<1>8. Entries(issue_fifo) = << >>
  <2>1. Entries(issue_fifo) \in Seq(Ids)
    BY <1>1, FifoFacts DEF TypeOK
  <2> QED BY <1>5, <2>1, NoMembers DEF OnWay
<1>9. Entries(done_fifo) = << >>
  <2>1. Entries(done_fifo) \in Seq(Completion)
    BY <1>1, FifoFacts DEF TypeOK, Completion
  <2>2. Members(Entries(done_fifo)) = {}
    BY <1>5, MemberIds DEF OnWayBack
  <2> QED BY <2>1, <2>2, NoMembers
<1> QED BY <1>1, <1>3, <1>5, <1>6, <1>8, <1>9 DEF InFabric

-----------------------------------------------------------------------------
(* The invariant holds in every reachable state.                           *)
THEOREM Invariance == Spec => []IInv
<1>1. Init => IInv
  BY InitIInv
<1>2. IInv /\ [Next]_vars => IInv'
  BY StepIInv
<1> QED BY <1>1, <1>2, PTL DEF Spec

(* Every variable keeps its type in every state of the simulation.         *)
THEOREM TypeCorrect == Spec => []TypeOK
<1>1. IInv => TypeOK
  BY DEF IInv
<1> QED BY <1>1, Invariance, PTL

(* Between the controller and the fabric no stage is lost or doubled.      *)
THEOREM OnePlaceEach == Spec => []OnePlace
<1> QED BY PlacesExact, Invariance, PTL

(* Stages under way hold exactly the resources they need, although the     *)
(* fabric frees its units before the controller releases them; and the     *)
(* fabric's busy set is exact, so that it never finds a unit busy.         *)
THEOREM UnitsCorrect == Spec => []UnitsExact
<1> QED BY UnitsAreHeld, Invariance, PTL

(* Completions are late only when a round was cut, and none is cut when    *)
(* width and depth offer every chip a place.                               *)
THEOREM OnTimeUnlessCut == Spec => []LateOnlyIfCut
<1> QED BY CutsCount, Invariance, PTL

(* The kernel never runs out of events before the controller stops it, and *)
(* a simulation that ends by itself has left nothing behind and fails only *)
(* by its timing check.                                                    *)
THEOREM EndsClean == Spec => []StopsClean
<1> QED BY NothingLeft, Invariance, PTL

(* Simulated time never runs backwards: every wait ends now or later, and  *)
(* the kernel moves to the earliest of the ends.                           *)
THEOREM TimeForward == Spec => [][now' >= now]_vars
<1>1. IInv /\ [Next]_vars => [now' >= now]_vars
  BY StepAlarmsAhead DEF IInv
<1> QED BY <1>1, Invariance, PTL DEF Spec

-----------------------------------------------------------------------------
(* The component model implements the chip service.                        *)

(* The service speaks of the same stages and resources: its copies of the  *)
(* shared definitions are equal to the originals.                          *)
LEMMA ServiceTerms ==
  /\ \A c : Service!StageCount(c) = StageCount(c)
  /\ \A c, s : Service!Needs(c, s) = Needs(c, s)
  /\ \A c, d : Service!SameChip(c, d) <=> SameChip(c, d)
  /\ \A p : Service!PlatformSupported(p) <=> PlatformSupported(p)
  /\ \A p : Service!BuildCommands(p) = BuildCommands(p)
<1>1. \A o : Service!StagesOf(o) = StagesOf(o)
  BY DEF Service!StagesOf, StagesOf
<1>2. \A c : Service!StageCount(c) = StageCount(c)
  BY <1>1 DEF Service!StageCount, StageCount
<1>3. \A c, s : Service!Needs(c, s) = Needs(c, s)
  <2>1. \A c, s : Service!StageOf(c, s) = StageOf(c, s)
    BY <1>1 DEF Service!StageOf, StageOf
  <2>2. \A g : Service!IsTransfer(g) <=> IsTransfer(g)
    BY DEF Service!IsTransfer, IsTransfer
  <2>3. \A c : /\ Service!ChannelOf(c) = ChannelOf(c) /\ Service!ChipOf(c) = ChipOf(c)
               /\ Service!PlaneOf(c) = PlaneOf(c) /\ Service!ComputeOf(c) = ComputeOf(c)
    BY DEF Service!ChannelOf, ChannelOf, Service!ChipOf, ChipOf,
           Service!PlaneOf, PlaneOf, Service!ComputeOf, ComputeOf
  <2> QED BY <2>1, <2>2, <2>3 DEF Service!Needs, Needs
<1>4. \A c, d : Service!SameChip(c, d) <=> SameChip(c, d)
  BY DEF Service!SameChip, SameChip
<1>5. \A p : Service!PlatformSupported(p) <=> PlatformSupported(p)
  BY DEF Service!PlatformSupported, PlatformSupported
<1>6. \A p : Service!BuildCommands(p) = BuildCommands(p)
  <2>1. \A p, n : Service!CommandAt(p, n) = CommandAt(p, n)
    BY DEF Service!CommandAt, CommandAt
  <2>2. \A p : Service!CommandCount(p) = CommandCount(p)
    BY DEF Service!CommandCount, CommandCount
  <2> QED BY <2>1, <2>2 DEF Service!BuildCommands, BuildCommands
<1> QED BY <1>2, <1>3, <1>4, <1>5, <1>6

LEMMA ServiceInit == Init => Service!Init
<1> SUFFICES ASSUME Init PROVE Service!Init
  OBVIOUS
<1>1. commands \in {BuildCommands(p) : p \in {q \in Platforms : PlatformSupported(q)}}
                     \cup {<< >>}
  BY DEF Init
<1>2. stage = [k \in DOMAIN commands |-> 0]
  BY DEF Init, InitTable, Ids
<1>3. ActiveIds = {}
  BY DEF Init, InitTable, ActiveIds, Active
<1> QED BY <1>1, <1>2, <1>3, ServiceTerms DEF Service!Init

LEMMA ServiceStep ==
  ASSUME IInv, [Next]_vars
  PROVE  [Service!Next]_(Service!service)
<1> USE DEF IInv
<1>1. ASSUME NEW k \in ActiveIds, EndStage(k), UNCHANGED commands
      PROVE  Service!Finish(k)
  <2>1. stage' = [stage EXCEPT ![k] = @ + 1]
    BY <1>1 DEF EndStage
  <2> QED BY <1>1, <2>1, EndEffect DEF Service!Finish
<1>2. ASSUME NEW k \in Ids, Start(k), UNCHANGED commands
      PROVE  Service!Start(k)
  <2>1. k \notin ActiveIds /\ ActiveIds' = ActiveIds \cup {k} /\ stage' = stage
    BY <1>2, StartEffect
  <2>2. ~Service!Ended(k)
    <3>1. stage[k] \in 0..(StageCount(commands[k]) - 1) /\ StageCount(commands[k]) \in {2, 4}
      BY <1>2, StartEffect, StageInRange DEF Done
    <3> QED BY <3>1, ServiceTerms DEF Service!Ended
  <2>3. \A j \in ActiveIds :
          Needs(commands[j], stage[j]) \cap Needs(commands[k], stage[k]) = {}
    <3>1. ASSUME NEW j \in ActiveIds, NEW r \in Need(j), r \in Need(k)
          PROVE  FALSE
      <4>1. owner[r] = j /\ owner[r] = None
        BY <1>2, <3>1, StartEffect DEF OwnersExact
      <4> QED BY <4>1, IdFacts DEF ActiveIds
    <3> QED BY <3>1 DEF Need
  <2>4. \A j \in Ids : j < k /\ SameChip(commands[j], commands[k]) => Service!Ended(j)
    BY <1>2, StartInOrder, ServiceTerms DEF Service!Ended, StageAgrees
  <2> QED BY <1>2, <2>1, <2>2, <2>3, <2>4, ServiceTerms DEF Service!Start, Ids
<1>3. CASE UNCHANGED <<commands, scheduling>>
  BY <1>3 DEF scheduling, Service!service, ActiveIds, Active, Ids
<1> QED BY <1>1, <1>2, <1>3, StepKinds DEF Service!Next, ActiveIds, Ids

(* Every simulation, its commands under way taken as the service's running *)
(* commands, is a behaviour of the chip service, whatever the issue width, *)
(* the queue depth and the module clock.                                   *)
THEOREM Implements == Spec => ImplementsService
<1>1. Init => Service!Init
  BY ServiceInit
<1>2. IInv /\ [Next]_vars => [Service!Next]_(Service!service)
  BY ServiceStep
<1> QED BY <1>1, <1>2, Invariance, PTL DEF Spec, ImplementsService, Service!Spec

=============================================================================
