----------------------------- MODULE AuditRunProofs -----------------------------
(***************************************************************************)
(* The audit's verdicts are sound and its alarms are real, for every list  *)
(* of targets and files, any number of jobs and any number of failing      *)
(* writes.                                                                 *)
(***************************************************************************)
EXTENDS AuditRun, FiniteSetTheorems, TLAPS

Content == {"absent", "old", "torn", "new"}
Files   == ToSet(Outputs)
Places  == {"waiting", "open", "rows", "close", "check", "emit", "stats", "read", "look",
            "passed", "failed"}

(* Where a target is after the simulator has written all files.            *)
Checking == {"check", "emit", "stats", "read", "look", "passed"}

Active(t)  == pc[t] \notin Ended
Writing(t) == pc[t] \in {"rows", "close"}

AuditTypes ==
  /\ jobs \in 1..MaxJobs /\ faults \in Nat
  /\ disk \in [Files -> [content : Content, by : Int]]
  /\ own \in [Jobs -> [{"trace", "stats", "compare"} -> Content]]
  /\ pc \in [Jobs -> Places]
  /\ file \in [Jobs -> 1..Len(Outputs) + 1]
  /\ lost \in [Jobs -> BOOLEAN]
  /\ differ \in [Jobs -> SUBSET ToSet(Metrics)]
  /\ seen \in [Jobs -> Seq({"missing", "old", "new"})]

(* The simulator's next file, by where a target is.                        *)
FilesInTurn ==
  \A t \in Jobs :
    /\ pc[t] \in {"open", "rows", "close"} => file[t] <= Len(Outputs)
    /\ pc[t] \in Checking => file[t] = Len(Outputs) + 1
    /\ pc[t] = "waiting" => file[t] = 1

(* What a simulator has opened holds nothing of earlier runs any more.     *)
OfThisMake ==
  \A t \in Jobs :
    /\ Writing(t) => disk[Output(t)].content \in {"torn", "new"}
    /\ \A k \in 1..file[t] - 1 : disk[Outputs[k]].content \in {"torn", "new"}

(* Rows are lost only in a file whose writer does not look.                *)
LostUnchecked ==
  \A t \in Jobs :
    /\ pc[t] = "rows" => lost[t] = FALSE
    /\ pc[t] = "close" /\ lost[t] = TRUE => Kind[Output(t)] = "unchecked" /\ faults > 0

(* A file that is not whole lost rows so, or will still be closed by the   *)
(* one that opened it last, or a target has failed.                        *)
TornForAReason ==
  \A f \in Files : disk[f].content = "torn" =>
    \/ Kind[f] = "unchecked" /\ faults > 0
    \/ \E t \in Jobs : Writing(t) /\ Output(t) = f /\ disk[f].by = t
    \/ \E t \in Jobs : pc[t] = "failed"

(* With one job, one target at a time is under way, and no other touches   *)
(* the statistics that it wrote.                                           *)
OneAtATime ==
  jobs = 1 =>
    /\ \A t, u \in Jobs : Active(t) /\ Active(u) => t = u
    /\ \A t \in Jobs :
         Active(t) /\ (\E k \in 1..file[t] - 1 : Outputs[k] = EventStats) =>
           \/ disk[EventStats].content = "new"
           \/ Writing(t) /\ Output(t) = EventStats

(* The metrics that a target has read so far are of this make.             *)
ReadsOfThisMake(t) ==
  /\ pc[t] \notin {"read", "look", "passed", "failed"} => seen[t] = << >>
  /\ Len(seen[t]) <= Len(MetricsOf(Targets[t]))
  /\ pc[t] \in {"look", "passed"} => AllRead(t)
  /\ \A n \in DOMAIN seen[t] : seen[t][n] # "old" /\ (jobs = 1 => seen[t][n] = "new")
  /\ differ[t] \subseteq ToSet(MetricsOf(Targets[t]))

(* What a checker has written of its own.                                  *)
OwnWritten(t) ==
  /\ pc[t] = "emit" => Targets[t] = Component
  /\ pc[t] \in {"stats", "read", "look", "passed"} =>
       own[t].trace = "new" \/ (Targets[t] = Component /\ faults > 0)
  /\ pc[t] \in {"read", "look", "passed"} => own[t].stats = "new"
  /\ pc[t] \in {"look", "passed"} => own[t].compare = "new"

(* A target passes only when nothing was found, and fails with all metrics *)
(* read only when something was.                                           *)
PassedClean(t) == pc[t] = "passed" => NotPass(t) = {}
FailedForAReason(t) ==
  pc[t] = "failed" /\ AllRead(t) =>
    \/ differ[t] # {}
    \/ faults > 0
    \/ jobs > 1 /\ \E n \in DOMAIN seen[t] : seen[t][n] = "missing"

CheckOf(t) == ReadsOfThisMake(t) /\ OwnWritten(t) /\ PassedClean(t) /\ FailedForAReason(t)

FilesInv  == FilesInTurn /\ OfThisMake /\ LostUnchecked /\ TornForAReason /\ OneAtATime
ChecksInv == \A t \in Jobs : CheckOf(t)

IInv == AuditTypes /\ FilesInv /\ ChecksInv

-----------------------------------------------------------------------------
(* Facts about the constants.                                              *)

(* The files, the targets and the metrics are lists.                       *)
LEMMA ListFacts ==
  /\ Len(Outputs) \in Nat \ {0} /\ DOMAIN Outputs = 1..Len(Outputs)
  /\ \A k \in 1..Len(Outputs) : Outputs[k] \in Files /\ Kind[Outputs[k]] \in {"checked", "unchecked", "small"}
  /\ \E k \in 1..Len(Outputs) : Outputs[k] = EventStats
  /\ EventStats \in Files /\ Kind[EventStats] = "small"
  /\ Jobs = 1..Len(Targets) /\ Len(Targets) \in Nat \ {0} /\ Jobs # {} /\ IsFiniteSet(Jobs)
  /\ Jobs \subseteq Int
<1>1. /\ Outputs \in Seq(Files) /\ Kind \in [Files -> {"checked", "unchecked", "small"}]
      /\ \E n \in DOMAIN Outputs : Outputs[n] = EventStats
      /\ Kind[EventStats] = "small"
  BY AuditRunAssumption DEF Files
<1>2. DOMAIN Outputs = 1..Len(Outputs) /\ Len(Outputs) \in Nat
  BY <1>1
<1>3. \A k \in 1..Len(Outputs) : Outputs[k] \in Files
  BY <1>1
<1>4. Targets \in Seq(ToSet(Targets)) /\ Targets # << >>
  BY AuditRunAssumption
<1>5. Jobs = 1..Len(Targets) /\ Len(Targets) \in Nat \ {0}
  BY <1>4 DEF Jobs
<1>6. IsFiniteSet(1..Len(Targets))
  <2>1. 1 \in Int /\ Len(Targets) \in Int
    BY <1>5
  <2> QED BY <2>1, FS_Interval
<1>7. Len(Outputs) # 0 /\ EventStats \in Files
  BY <1>1, <1>2, <1>3
<1>8. \A k \in 1..Len(Outputs) : Kind[Outputs[k]] \in {"checked", "unchecked", "small"}
  BY <1>1, <1>3
<1>9. 1 \in Jobs /\ Jobs \subseteq Int
  BY <1>5
<1> QED BY <1>1, <1>2, <1>3, <1>5, <1>6, <1>7, <1>8, <1>9

LEMMA MetricFacts ==
  ASSUME NEW target
  PROVE  /\ Len(MetricsOf(target)) \in {3, 4} /\ Len(Metrics) = 4
         /\ \A n \in 1..Len(MetricsOf(target)) : MetricsOf(target)[n] = Metrics[n]
         /\ ToSet(MetricsOf(target)) = {Metrics[n] : n \in 1..Len(MetricsOf(target))}
         /\ ToSet(MetricsOf(target)) \subseteq ToSet(Metrics)
<1> DEFINE Names == {"events", "completed_commands", "last_event_cycle", "last_event_ns"}
<1>1. Metrics \in Seq(Names) /\ Len(Metrics) = 4 /\ DOMAIN Metrics = 1..4
  BY DEF Metrics
<1> HIDE DEF Names
<1>2. CASE target = Component
  <2>1. MetricsOf(target) = Metrics
    BY <1>2 DEF MetricsOf
  <2> QED BY <1>1, <2>1 DEF ToSet
<1>3. CASE target # Component
  <2>1. MetricsOf(target) = SubSeq(Metrics, 1, 3)
    BY <1>3 DEF MetricsOf
  <2>2. Len(SubSeq(Metrics, 1, 3)) = 3 /\ DOMAIN SubSeq(Metrics, 1, 3) = 1..3
    BY <1>1
  <2>3. \A n \in 1..3 : SubSeq(Metrics, 1, 3)[n] = Metrics[n]
    BY <1>1
  <2> QED BY <1>1, <2>1, <2>2, <2>3 DEF ToSet
<1> QED BY <1>2, <1>3

-----------------------------------------------------------------------------
(* The initial states satisfy the invariant.                               *)
LEMMA InitIInv == Init => IInv
<1> SUFFICES ASSUME Init PROVE IInv
  OBVIOUS
<1>1. PICK content \in {"absent", "old"} :
        /\ disk = [f \in Files |-> [content |-> content, by |-> 0]]
        /\ own = [t \in Jobs |-> [f \in {"trace", "stats", "compare"} |-> content]]
  BY DEF Init, Files
<1>2. /\ jobs \in 1..MaxJobs /\ faults = 0
      /\ pc = [t \in Jobs |-> "waiting"] /\ file = [t \in Jobs |-> 1]
      /\ lost = [t \in Jobs |-> FALSE]
      /\ differ = [t \in Jobs |-> {}] /\ seen = [t \in Jobs |-> << >>]
  BY DEF Init
<1>3. AuditTypes
  <2>1. disk \in [Files -> [content : Content, by : Int]]
    BY <1>1 DEF Content
  <2>2. own \in [Jobs -> [{"trace", "stats", "compare"} -> Content]]
    BY <1>1 DEF Content
  <2>3. pc \in [Jobs -> Places] /\ file \in [Jobs -> 1..Len(Outputs) + 1]
    BY <1>2, ListFacts DEF Places
  <2>4. /\ lost \in [Jobs -> BOOLEAN] /\ differ \in [Jobs -> SUBSET ToSet(Metrics)]
        /\ seen \in [Jobs -> Seq({"missing", "old", "new"})]
    BY <1>2
  <2> QED BY <1>2, <2>1, <2>2, <2>3, <2>4 DEF AuditTypes
<1>4. FilesInv
  <2>1. FilesInTurn
    BY <1>2 DEF FilesInTurn, Checking
  <2>2. OfThisMake /\ LostUnchecked /\ OneAtATime
    BY <1>2 DEF OfThisMake, LostUnchecked, OneAtATime, Writing, Active, Ended
  <2>3. TornForAReason
    BY <1>1 DEF TornForAReason
  <2> QED BY <2>1, <2>2, <2>3 DEF FilesInv
<1>5. ASSUME NEW t \in Jobs
      PROVE  CheckOf(t)
  <2>1. seen[t] = << >> /\ pc[t] = "waiting" /\ differ[t] = {}
    BY <1>2
  <2>2. ReadsOfThisMake(t)
    <3>1. Len(MetricsOf(Targets[t])) \in Nat
      BY MetricFacts
    <3>2. Len(seen[t]) <= Len(MetricsOf(Targets[t]))
      BY <2>1, <3>1
    <3> QED BY <2>1, <3>2 DEF ReadsOfThisMake
  <2>3. OwnWritten(t) /\ PassedClean(t) /\ FailedForAReason(t)
    BY <2>1 DEF OwnWritten, PassedClean, FailedForAReason
  <2> QED BY <2>2, <2>3 DEF CheckOf
<1> QED BY <1>3, <1>4, <1>5 DEF IInv, ChecksInv

-----------------------------------------------------------------------------
(* What each half of the audit leaves alone of the other.                  *)

(* Once its files are written, a target does not touch what is said of     *)
(* them.                                                                   *)
LEMMA FilesKept ==
  ASSUME AuditTypes, FilesInv, NEW t \in Jobs,
         pc[t] \in {"check", "emit", "stats", "read", "look"},
         NEW q \in {"emit", "stats", "read", "look", "passed", "failed"},
         pc' = [pc EXCEPT ![t] = q],
         UNCHANGED <<jobs, disk, file, lost>>, faults' \in Nat, faults' >= faults
  PROVE  FilesInv'
<1>1. /\ jobs' = jobs /\ disk' = disk /\ file' = file /\ lost' = lost
      /\ faults \in Nat
      /\ pc \in [Jobs -> Places] /\ pc'[t] = q /\ \A u \in Jobs : u # t => pc'[u] = pc[u]
  BY DEF AuditTypes
<1>2. /\ \A u \in Jobs : Writing(u)' <=> Writing(u)
      /\ \A u \in Jobs : Active(u)' => Active(u)
      /\ \A u \in Jobs : Output(u)' = Output(u)
      /\ \A u \in Jobs : pc[u] = "failed" => pc'[u] = "failed"
  BY <1>1 DEF Writing, Active, Ended, Output
<1>3. FilesInTurn'
  BY <1>1 DEF FilesInv, FilesInTurn, Checking
<1>4. OfThisMake'
  BY <1>1, <1>2 DEF FilesInv, OfThisMake
<1>5. LostUnchecked'
  BY <1>1, <1>2 DEF FilesInv, LostUnchecked
<1>6. TornForAReason'
  BY <1>1, <1>2 DEF FilesInv, TornForAReason
<1>7. OneAtATime'
  BY <1>1, <1>2 DEF FilesInv, OneAtATime
<1> QED BY <1>3, <1>4, <1>5, <1>6, <1>7 DEF FilesInv

(* A checker that has read nothing has not read everything.                *)
LEMMA NothingRead ==
  ASSUME NEW t, seen[t] = << >>
  PROVE  ~AllRead(t)
<1> DEFINE n == Len(MetricsOf(Targets[t]))
<1>1. n \in {3, 4}
  BY MetricFacts
<1>2. Len(seen[t]) = 0
  OBVIOUS
<1>3. AllRead(t) <=> Len(seen[t]) = n
  BY DEF AllRead
<1> HIDE DEF n
<1> QED BY <1>1, <1>2, <1>3

(* Until then, it does not touch what is said of the checks.               *)
LEMMA ChecksKept ==
  ASSUME AuditTypes, ChecksInv, NEW t \in Jobs,
         pc[t] \in {"waiting", "open", "rows", "close"},
         NEW q \in {"open", "rows", "close", "check", "failed"},
         pc' = [pc EXCEPT ![t] = q],
         UNCHANGED <<jobs, own, differ, seen>>, faults' \in Nat, faults' >= faults
  PROVE  ChecksInv'
<1>1. /\ jobs' = jobs /\ own' = own /\ differ' = differ /\ seen' = seen
      /\ faults \in Nat
      /\ pc \in [Jobs -> Places] /\ pc'[t] = q /\ \A u \in Jobs : u # t => pc'[u] = pc[u]
  BY DEF AuditTypes
<1>2. /\ \A u \in Jobs : AllRead(u)' <=> AllRead(u)
      /\ \A u \in Jobs : NotPass(u)' = NotPass(u)
  BY <1>1 DEF AllRead, NotPass
<1>3. seen[t] = << >> /\ ~AllRead(t)
  BY NothingRead DEF ChecksInv, CheckOf, ReadsOfThisMake
<1>4. ASSUME NEW u \in Jobs
      PROVE  CheckOf(u)'
  <2>1. CheckOf(u)
    BY DEF ChecksInv
  <2>2. ReadsOfThisMake(u)'
    BY <1>1, <1>2, <1>3, <2>1 DEF CheckOf, ReadsOfThisMake
  <2>3. OwnWritten(u)'
    BY <1>1, <2>1 DEF CheckOf, OwnWritten
  <2>4. PassedClean(u)'
    BY <1>1, <1>2, <2>1 DEF CheckOf, PassedClean
  <2>5. FailedForAReason(u)'
    BY <1>1, <1>2, <1>3, <2>1 DEF CheckOf, FailedForAReason
  <2> QED BY <2>2, <2>3, <2>4, <2>5 DEF CheckOf
<1> QED BY <1>4 DEF ChecksInv

-----------------------------------------------------------------------------
(* The simulator's steps.                                                  *)

(* What any step of a target does to the places.                           *)
LEMMA GotoFacts ==
  ASSUME AuditTypes, NEW t \in Jobs, NEW q \in Places, Goto(t, q)
  PROVE  /\ pc' = [pc EXCEPT ![t] = q] /\ pc' \in [Jobs -> Places]
         /\ pc'[t] = q /\ \A u \in Jobs : u # t => pc'[u] = pc[u]
BY DEF AuditTypes, Goto

(* The next target is started.                                             *)
LEMMA BeginIInv ==
  ASSUME IInv, NEW t \in Jobs, Begin(t)
  PROVE  IInv'
<1>1. /\ pc[t] = "waiting" /\ Goto(t, "open")
      /\ UNCHANGED <<jobs, faults, disk, own, file, lost, differ, seen>>
      /\ Cardinality({u \in Jobs : pc[u] \notin Ended}) < jobs
  BY DEF Begin, At
<1>2. AuditTypes /\ FilesInv /\ ChecksInv
  BY DEF IInv
<1>3. /\ pc' = [pc EXCEPT ![t] = "open"] /\ pc' \in [Jobs -> Places]
      /\ pc'[t] = "open" /\ \A u \in Jobs : u # t => pc'[u] = pc[u]
  BY <1>1, <1>2, GotoFacts DEF Places
<1>4. AuditTypes'
  BY <1>1, <1>2, <1>3 DEF AuditTypes
<1>5. ChecksInv'
  <2>1. faults' \in Nat /\ faults' >= faults
    BY <1>1, <1>2 DEF AuditTypes
  <2>2. UNCHANGED <<jobs, own, differ, seen>>
    BY <1>1
  <2> QED BY <1>1, <1>2, <1>3, <2>1, <2>2, ChecksKept
<1>6. FilesInTurn'
  BY <1>1, <1>2, <1>3, ListFacts DEF FilesInv, FilesInTurn, Checking
<1>7. /\ \A u \in Jobs : Writing(u)' <=> Writing(u)
      /\ \A u \in Jobs : Output(u)' = Output(u)
      /\ \A u \in Jobs : pc[u] = "failed" => pc'[u] = "failed"
  BY <1>1, <1>3 DEF Writing, Output
<1>8. OfThisMake' /\ LostUnchecked' /\ TornForAReason'
  <2>1. OfThisMake'
    BY <1>1, <1>2, <1>7 DEF FilesInv, OfThisMake
  <2>2. LostUnchecked'
    BY <1>1, <1>2, <1>3, <1>7 DEF FilesInv, LostUnchecked
  <2>3. TornForAReason'
    BY <1>1, <1>2, <1>7 DEF FilesInv, TornForAReason
  <2> QED BY <2>1, <2>2, <2>3
<1>9. OneAtATime'
  <2> SUFFICES ASSUME jobs = 1
               PROVE  /\ \A u, v \in Jobs : Active(u)' /\ Active(v)' => u = v
                      /\ \A u \in Jobs :
                           Active(u)' => ~\E k \in 1..file[u] - 1 : Outputs[k] = EventStats
    BY <1>1 DEF OneAtATime
  <2> DEFINE Now == {u \in Jobs : pc[u] \notin Ended}
  <2>1. IsFiniteSet(Now) /\ Cardinality(Now) \in Nat
    BY ListFacts, FS_Subset, FS_CardinalityType
  <2>2. Cardinality(Now) = 0
    BY <1>1, <2>1
  <2>3. Now = {}
    BY <2>1, <2>2, FS_EmptySet
  <2>4. \A u \in Jobs : Active(u)' => u = t
    BY <1>3, <2>3 DEF Active
  <2>5. file[t] = 1
    BY <1>1, <1>2 DEF FilesInv, FilesInTurn
  <2> QED BY <2>4, <2>5
<1> QED BY <1>4, <1>5, <1>6, <1>8, <1>9 DEF IInv, FilesInv

(* What holds of files while a target is at one.                           *)
LEMMA WriterFacts ==
  ASSUME AuditTypes, FilesInv, NEW t \in Jobs, pc[t] \in {"open", "rows", "close"}
  PROVE  /\ file[t] \in 1..Len(Outputs) /\ Output(t) \in Files /\ Len(Outputs) \in Nat
         /\ Output(t) = Outputs[file[t]]
         /\ Active(t) /\ (Writing(t) <=> pc[t] # "open")
<1>1. file[t] \in 1..Len(Outputs) + 1 /\ file[t] <= Len(Outputs) /\ Len(Outputs) \in Nat
  BY ListFacts DEF AuditTypes, FilesInv, FilesInTurn
<1>2. file[t] \in 1..Len(Outputs)
  BY <1>1
<1> QED BY <1>1, <1>2, ListFacts DEF Output, Active, Writing, Ended

(* A write of the simulator fails, and its target with it.                 *)
LEMMA WriterFails ==
  ASSUME IInv, NEW t \in Jobs, pc[t] \in {"open", "rows", "close"}, Fault, Goto(t, "failed"),
         UNCHANGED <<jobs, disk, own, file, differ, seen>>,
         lost' \in [Jobs -> BOOLEAN], \A u \in Jobs : u # t => lost'[u] = lost[u]
  PROVE  IInv'
<1>1. AuditTypes /\ FilesInv /\ ChecksInv
  BY DEF IInv
<1>2. /\ pc' = [pc EXCEPT ![t] = "failed"] /\ pc' \in [Jobs -> Places]
      /\ pc'[t] = "failed" /\ \A u \in Jobs : u # t => pc'[u] = pc[u]
  BY <1>1, GotoFacts DEF Places
<1>3. faults' \in Nat /\ faults' >= faults /\ (faults > 0 => faults' > 0)
  BY <1>1 DEF Fault, AuditTypes
<1>4. AuditTypes'
  BY <1>1, <1>2, <1>3 DEF AuditTypes
<1>5. ChecksInv'
  BY <1>1, <1>2, <1>3, ChecksKept
<1>6. /\ \A u \in Jobs : u # t => (Writing(u)' <=> Writing(u)) /\ (Active(u)' <=> Active(u))
      /\ ~Writing(t)' /\ ~Active(t)'
      /\ \A u \in Jobs : Output(u)' = Output(u)
  BY <1>2 DEF Writing, Output, Active, Ended
<1>7. FilesInTurn'
  BY <1>1, <1>2 DEF FilesInv, FilesInTurn, Checking
<1>8. OfThisMake'
  BY <1>1, <1>6 DEF FilesInv, OfThisMake
<1>9. LostUnchecked'
  BY <1>1, <1>2, <1>3, <1>6 DEF FilesInv, LostUnchecked
<1>10. TornForAReason'
  BY <1>2 DEF TornForAReason
<1>11. OneAtATime'
  BY <1>1, <1>6 DEF FilesInv, OneAtATime
<1> QED BY <1>4, <1>5, <1>7, <1>8, <1>9, <1>10, <1>11 DEF IInv, FilesInv

(* A file is opened, and emptied.                                          *)
LEMMA OpenIInv ==
  ASSUME IInv, NEW t \in Jobs, OpenOutput(t)
  PROVE  IInv'
<1> DEFINE f == Output(t)
<1>1. /\ pc[t] = "open" /\ lost' = [lost EXCEPT ![t] = FALSE]
      /\ UNCHANGED <<jobs, own, file, differ, seen>>
  BY DEF OpenOutput, At
<1>2. AuditTypes /\ FilesInv /\ ChecksInv
  BY DEF IInv
<1>3. /\ lost' \in [Jobs -> BOOLEAN] /\ lost'[t] = FALSE
      /\ \A u \in Jobs : u # t => lost'[u] = lost[u]
  BY <1>1, <1>2 DEF AuditTypes
<1>4. CASE Fault /\ Goto(t, "failed") /\ UNCHANGED disk
  BY <1>1, <1>3, <1>4, WriterFails
<1>5. CASE /\ disk' = [disk EXCEPT ![f] = [content |-> "torn", by |-> t]]
           /\ Goto(t, "rows") /\ UNCHANGED faults
  <2>1. /\ pc' = [pc EXCEPT ![t] = "rows"] /\ pc' \in [Jobs -> Places]
        /\ pc'[t] = "rows" /\ \A u \in Jobs : u # t => pc'[u] = pc[u]
    BY <1>2, <1>5, GotoFacts DEF Places
  <2>2. /\ file[t] \in 1..Len(Outputs) /\ f \in Files /\ Active(t)
        /\ Len(Outputs) \in Nat /\ f = Outputs[file[t]]
    BY <1>1, <1>2, WriterFacts
  <2> HIDE DEF f
  <2>3. /\ disk' \in [Files -> [content : Content, by : Int]]
        /\ disk'[f].content = "torn" /\ disk'[f].by = t
        /\ \A g \in Files : g # f => disk'[g] = disk[g]
    <3>1. t \in Int /\ "torn" \in Content
      BY ListFacts DEF Content
    <3> QED BY <1>2, <1>5, <2>2, <3>1 DEF AuditTypes
  <2>4. AuditTypes'
    BY <1>1, <1>2, <1>3, <1>5, <2>1, <2>3 DEF AuditTypes
  <2>5. ChecksInv'
    <3>1. faults' \in Nat /\ faults' >= faults
      BY <1>2, <1>5 DEF AuditTypes
    <3>2. UNCHANGED <<jobs, own, differ, seen>>
      BY <1>1
    <3> QED BY <1>1, <1>2, <2>1, <3>1, <3>2, ChecksKept
  <2>6. /\ \A u \in Jobs : u # t => (Writing(u)' <=> Writing(u))
        /\ Writing(t)' /\ ~Writing(t)
        /\ \A u \in Jobs : Active(u)' <=> Active(u)
        /\ \A u \in Jobs : Output(u)' = Output(u)
        /\ \A u \in Jobs : pc[u] = "failed" => pc'[u] = "failed"
    BY <1>1, <2>1 DEF Writing, Output, Active, Ended
  <2>7. FilesInTurn'
    BY <1>1, <1>2, <2>1, <2>2 DEF FilesInv, FilesInTurn, Checking
  <2>8. OfThisMake'
    <3>1. \A g \in Files : disk[g].content \in {"torn", "new"} => disk'[g].content \in {"torn", "new"}
      BY <2>3
    <3>2. ASSUME NEW u \in Jobs, NEW k \in 1..file[u] - 1
          PROVE  Outputs[k] \in Files
      <4>1. k \in 1..Len(Outputs)
        BY <1>2, <2>2 DEF AuditTypes
      <4> QED BY <4>1, ListFacts
    <3>3. ASSUME NEW u \in Jobs, Writing(u)
          PROVE  Output(u) \in Files
      BY <1>2, <3>3, WriterFacts DEF Writing
    <3>4. \A u \in Jobs : Writing(u)' => disk'[Output(u)'].content \in {"torn", "new"}
      BY <1>2, <2>2, <2>3, <2>6, <3>1, <3>3 DEF FilesInv, OfThisMake, f
    <3>5. \A u \in Jobs : \A k \in 1..file[u] - 1 : disk'[Outputs[k]].content \in {"torn", "new"}
      BY <1>2, <3>1, <3>2 DEF FilesInv, OfThisMake
    <3> QED BY <1>1, <3>4, <3>5 DEF OfThisMake
  <2>9. LostUnchecked'
    BY <1>2, <1>3, <1>5, <2>1, <2>6 DEF FilesInv, LostUnchecked
  <2>10. TornForAReason'
    <3> SUFFICES ASSUME NEW g \in Files, disk'[g].content = "torn"
                 PROVE  \/ Kind[g] = "unchecked" /\ faults' > 0
                        \/ \E u \in Jobs : Writing(u)' /\ Output(u)' = g /\ disk'[g].by = u
                        \/ \E u \in Jobs : pc'[u] = "failed"
      BY DEF TornForAReason
    <3>1. CASE g = f
      BY <2>3, <2>6, <3>1 DEF f
    <3>2. CASE g # f
      BY <1>2, <1>5, <2>3, <2>6, <3>2 DEF FilesInv, TornForAReason
    <3> QED BY <3>1, <3>2
  <2>11. OneAtATime'
    <3>1. CASE f = EventStats
      BY <1>1, <1>2, <2>2, <2>6, <3>1 DEF FilesInv, OneAtATime, f
    <3>2. CASE f # EventStats
      <4>1. disk'[EventStats] = disk[EventStats]
        BY <2>3, <3>2, ListFacts
      <4> QED BY <1>1, <1>2, <2>6, <4>1 DEF FilesInv, OneAtATime
    <3> QED BY <3>1, <3>2
  <2> QED BY <2>4, <2>5, <2>7, <2>8, <2>9, <2>10, <2>11 DEF IInv, FilesInv
<1> QED BY <1>4, <1>5 DEF OpenOutput

(* The rows of a file are printed.                                         *)
LEMMA RowsIInv ==
  ASSUME IInv, NEW t \in Jobs, WriteRows(t)
  PROVE  IInv'
<1>1. pc[t] = "rows" /\ UNCHANGED <<jobs, disk, own, file, differ, seen>>
  BY DEF WriteRows, At
<1>2. AuditTypes /\ FilesInv /\ ChecksInv
  BY DEF IInv
<1>3. CASE Fault /\ Goto(t, "failed") /\ UNCHANGED lost
  <2>1. lost' \in [Jobs -> BOOLEAN] /\ \A u \in Jobs : lost'[u] = lost[u]
    BY <1>2, <1>3 DEF AuditTypes
  <2> QED BY <1>1, <1>3, <2>1, WriterFails
<1>4. ASSUME Goto(t, "close"),
             faults' \in Nat, faults' >= faults,
             lost' \in [Jobs -> BOOLEAN], \A u \in Jobs : u # t => lost'[u] = lost[u],
             lost'[t] = TRUE => Kind[Output(t)] = "unchecked" /\ faults' > 0
      PROVE  IInv'
  <2>1. /\ pc' = [pc EXCEPT ![t] = "close"] /\ pc' \in [Jobs -> Places]
        /\ pc'[t] = "close" /\ \A u \in Jobs : u # t => pc'[u] = pc[u]
    BY <1>2, <1>4, GotoFacts DEF Places
  <2>2. AuditTypes'
    BY <1>1, <1>2, <1>4, <2>1 DEF AuditTypes
  <2>3. ChecksInv'
    <3>1. UNCHANGED <<jobs, own, differ, seen>>
      BY <1>1
    <3> QED BY <1>1, <1>2, <1>4, <2>1, <3>1, ChecksKept
  <2>4. /\ \A u \in Jobs : Writing(u)' <=> Writing(u)
        /\ \A u \in Jobs : Active(u)' <=> Active(u)
        /\ \A u \in Jobs : Output(u)' = Output(u)
        /\ \A u \in Jobs : pc[u] = "failed" => pc'[u] = "failed"
        /\ (faults > 0 => faults' > 0)
    BY <1>1, <1>2, <1>4, <2>1 DEF Writing, Output, Active, Ended, AuditTypes
  <2>5. FilesInTurn'
    BY <1>1, <1>2, <2>1 DEF FilesInv, FilesInTurn, Checking
  <2>6. OfThisMake'
    BY <1>1, <1>2, <2>4 DEF FilesInv, OfThisMake
  <2>7. LostUnchecked'
    BY <1>2, <1>4, <2>1, <2>4 DEF FilesInv, LostUnchecked
  <2>8. TornForAReason'
    BY <1>1, <1>2, <2>4 DEF FilesInv, TornForAReason
  <2>9. OneAtATime'
    BY <1>1, <1>2, <2>4 DEF FilesInv, OneAtATime
  <2> QED BY <2>2, <2>3, <2>5, <2>6, <2>7, <2>8, <2>9 DEF IInv, FilesInv
<1>5. CASE Goto(t, "close") /\ UNCHANGED <<faults, lost>>
  <2>1. faults' \in Nat /\ faults' >= faults
    BY <1>2, <1>5 DEF AuditTypes
  <2>2. lost' \in [Jobs -> BOOLEAN] /\ \A u \in Jobs : lost'[u] = lost[u]
    BY <1>2, <1>5 DEF AuditTypes
  <2>3. lost'[t] = FALSE
    BY <1>1, <1>2, <2>2 DEF FilesInv, LostUnchecked
  <2> QED BY <1>4, <1>5, <2>1, <2>2, <2>3
<1>6. CASE /\ Kind[Output(t)] = "unchecked" /\ Fault /\ Goto(t, "close")
           /\ lost' = [lost EXCEPT ![t] = TRUE]
  <2>1. faults' \in Nat /\ faults' >= faults /\ faults' > 0
    BY <1>2, <1>6 DEF AuditTypes, Fault
  <2>2. lost' \in [Jobs -> BOOLEAN] /\ \A u \in Jobs : u # t => lost'[u] = lost[u]
    BY <1>2, <1>6 DEF AuditTypes
  <2> QED BY <1>4, <1>6, <2>1, <2>2
<1> QED BY <1>3, <1>5, <1>6 DEF WriteRows

(* A file is closed, which puts its small rest on disk.                    *)
LEMMA CloseIInv ==
  ASSUME IInv, NEW t \in Jobs, CloseOutput(t)
  PROVE  IInv'
<1> DEFINE f == Output(t)
<1>1. pc[t] = "close" /\ UNCHANGED <<jobs, own, lost, differ, seen>>
  BY DEF CloseOutput, At
<1>2. AuditTypes /\ FilesInv /\ ChecksInv
  BY DEF IInv
<1>3. CASE Fault /\ Goto(t, "failed") /\ UNCHANGED <<disk, file>>
  <2>1. lost' \in [Jobs -> BOOLEAN] /\ \A u \in Jobs : lost'[u] = lost[u]
    BY <1>1, <1>2 DEF AuditTypes
  <2> QED BY <1>1, <1>3, <2>1, WriterFails
<1>4. ASSUME NEW content \in Written(t, f), disk' = [disk EXCEPT ![f].content = content],
             file' = [file EXCEPT ![t] = @ + 1], Goto(t, AfterOutput(t)), UNCHANGED faults
      PROVE  IInv'
  <2> DEFINE q == AfterOutput(t)
  <2>1. /\ file[t] \in 1..Len(Outputs) /\ f \in Files /\ Active(t)
        /\ Len(Outputs) \in Nat /\ f = Outputs[file[t]]
    BY <1>1, <1>2, WriterFacts
  <2>2. /\ file' \in [Jobs -> 1..Len(Outputs) + 1] /\ file'[t] = file[t] + 1
        /\ \A u \in Jobs : u # t => file'[u] = file[u]
    BY <1>2, <1>4, <2>1 DEF AuditTypes
  <2>3. /\ q \in {"check", "open"}
        /\ q = "check" => file[t] + 1 = Len(Outputs) + 1
        /\ q = "open" => file[t] + 1 <= Len(Outputs)
    BY <2>1 DEF AfterOutput
  <2> HIDE DEF q
  <2>4. /\ pc' = [pc EXCEPT ![t] = q] /\ pc' \in [Jobs -> Places]
        /\ pc'[t] = q /\ \A u \in Jobs : u # t => pc'[u] = pc[u]
    <3>1. q \in Places /\ Goto(t, q)
      BY <1>4, <2>3 DEF Places, q
    <3> QED BY <1>2, <3>1, GotoFacts
  <2>5. /\ content \in {"torn", "new"}
        /\ content = "torn" =>
             \/ Kind[f] = "unchecked" /\ faults > 0
             \/ disk[f].content = "torn" /\ disk[f].by # t
        /\ f = EventStats => content = "new"
    <3>1. lost[t] = TRUE => Kind[f] = "unchecked" /\ faults > 0
      BY <1>1, <1>2 DEF FilesInv, LostUnchecked
    <3>2. disk[f].content \in {"torn", "new"}
      BY <1>1, <1>2 DEF FilesInv, OfThisMake, Writing
    <3>3. lost[t] \in BOOLEAN
      BY <1>2 DEF AuditTypes
    <3>4. CASE lost[t] = TRUE
      BY <1>4, <3>1, <3>4, ListFacts DEF Written
    <3>5. CASE lost[t] = FALSE
      <4>1. content \in IF Kind[f] = "small" \/ disk[f].by = t \/ disk[f].content = "new"
                        THEN {"new"} ELSE {"new", "torn"}
        BY <1>4, <3>5 DEF Written
      <4> QED BY <3>2, <4>1, ListFacts
    <3> QED BY <3>3, <3>4, <3>5
  <2> HIDE DEF f
  <2>6. /\ disk' \in [Files -> [content : Content, by : Int]]
        /\ disk'[f].content = content /\ disk'[f].by = disk[f].by
        /\ \A g \in Files : g # f => disk'[g] = disk[g]
    <3>1. content \in Content
      BY <2>5 DEF Content
    <3> QED BY <1>2, <1>4, <2>1, <3>1 DEF AuditTypes
  <2>7. AuditTypes'
    BY <1>1, <1>2, <1>4, <2>2, <2>4, <2>6 DEF AuditTypes
  <2>8. ChecksInv'
    <3>1. faults' \in Nat /\ faults' >= faults
      BY <1>2, <1>4 DEF AuditTypes
    <3>2. UNCHANGED <<jobs, own, differ, seen>>
      BY <1>1
    <3> QED BY <1>1, <1>2, <2>3, <2>4, <3>1, <3>2, ChecksKept
  <2>9. /\ \A u \in Jobs : u # t => (Writing(u)' <=> Writing(u)) /\ Output(u)' = Output(u)
        /\ ~Writing(t)'
        /\ \A u \in Jobs : Active(u)' <=> Active(u)
        /\ \A u \in Jobs : pc[u] = "failed" => pc'[u] = "failed"
    BY <1>1, <2>2, <2>3, <2>4 DEF Writing, Output, Active, Ended
  <2>10. FilesInTurn'
    BY <1>2, <2>2, <2>3, <2>4 DEF FilesInv, FilesInTurn, Checking
  <2>11. OfThisMake'
    <3>1. \A g \in Files : disk[g].content \in {"torn", "new"} => disk'[g].content \in {"torn", "new"}
      BY <2>5, <2>6
    <3>2. ASSUME NEW u \in Jobs, NEW k \in 1..file[u] - 1
          PROVE  Outputs[k] \in Files /\ disk'[Outputs[k]].content \in {"torn", "new"}
      <4>1. k \in 1..Len(Outputs)
        BY <1>2, <2>1 DEF AuditTypes
      <4>2. Outputs[k] \in Files
        BY <4>1, ListFacts
      <4> QED BY <1>2, <3>1, <4>2 DEF FilesInv, OfThisMake
    <3>3. \A u \in Jobs : Writing(u) => Output(u) \in Files
      BY <1>2, WriterFacts DEF Writing
    <3>4. \A u \in Jobs : Writing(u)' => disk'[Output(u)'].content \in {"torn", "new"}
      BY <1>2, <2>9, <3>1, <3>3 DEF FilesInv, OfThisMake
    <3>5. ASSUME NEW u \in Jobs, NEW k \in 1..file'[u] - 1
          PROVE  disk'[Outputs[k]].content \in {"torn", "new"}
      <4>1. CASE u # t \/ k # file[t]
        <5>1. k \in 1..file[u] - 1
          BY <1>2, <2>2, <4>1 DEF AuditTypes
        <5> QED BY <3>2, <5>1
      <4>2. CASE k = file[t]
        BY <2>1, <2>5, <2>6, <4>2
      <4> QED BY <4>1, <4>2
    <3> QED BY <3>4, <3>5 DEF OfThisMake
  <2>12. LostUnchecked'
    BY <1>1, <1>2, <1>4, <2>3, <2>4, <2>9 DEF FilesInv, LostUnchecked
  <2>13. TornForAReason'
    <3> SUFFICES ASSUME NEW g \in Files, disk'[g].content = "torn"
                 PROVE  \/ Kind[g] = "unchecked" /\ faults' > 0
                        \/ \E u \in Jobs : Writing(u)' /\ Output(u)' = g /\ disk'[g].by = u
                        \/ \E u \in Jobs : pc'[u] = "failed"
      BY DEF TornForAReason
    <3>1. CASE g = f /\ Kind[f] = "unchecked" /\ faults > 0
      BY <1>4, <3>1
    <3>2. CASE g = f /\ disk[f].content = "torn" /\ disk[f].by # t
      <4>1. \/ Kind[f] = "unchecked" /\ faults > 0
            \/ \E u \in Jobs : Writing(u) /\ Output(u) = f /\ disk[f].by = u
            \/ \E u \in Jobs : pc[u] = "failed"
        BY <1>2, <2>1, <3>2 DEF FilesInv, TornForAReason
      <4>2. ASSUME NEW u \in Jobs, Writing(u), Output(u) = f, disk[f].by = u
            PROVE  Writing(u)' /\ Output(u)' = g /\ disk'[g].by = u
        BY <2>6, <2>9, <3>2, <4>2
      <4> QED BY <1>4, <2>9, <3>2, <4>1, <4>2
    <3>3. CASE g # f
      <4>1. disk'[g] = disk[g]
        BY <2>6, <3>3
      <4>2. ASSUME NEW u \in Jobs, Writing(u), Output(u) = g
            PROVE  Writing(u)' /\ Output(u)' = g
        BY <2>9, <3>3, <4>2 DEF f
      <4> QED BY <1>2, <1>4, <2>9, <3>3, <4>1, <4>2 DEF FilesInv, TornForAReason
    <3> QED BY <2>5, <2>6, <3>1, <3>2, <3>3
  <2>14. OneAtATime'
    <3> SUFFICES ASSUME jobs = 1, NEW u \in Jobs, Active(u),
                        NEW k \in 1..file'[u] - 1, Outputs[k] = EventStats
                 PROVE  disk'[EventStats].content = "new"
      BY <1>1, <1>2, <2>9 DEF FilesInv, OneAtATime
    <3>1. u = t
      BY <1>2, <2>1 DEF FilesInv, OneAtATime
    <3>2. CASE f = EventStats
      BY <2>5, <2>6, <3>2
    <3>3. CASE f # EventStats
      <4>1. disk'[EventStats] = disk[EventStats]
        BY <2>6, <3>3, ListFacts
      <4>2. k \in 1..file[t] - 1
        BY <2>1, <2>2, <3>1, <3>3
      <4> QED BY <1>2, <2>1, <3>1, <3>3, <4>1, <4>2 DEF FilesInv, OneAtATime, f
    <3> QED BY <3>2, <3>3
  <2> QED BY <2>7, <2>8, <2>10, <2>11, <2>12, <2>13, <2>14 DEF IInv, FilesInv
<1>5. CASE /\ \E content \in Written(t, f) : disk' = [disk EXCEPT ![f].content = content]
           /\ file' = [file EXCEPT ![t] = @ + 1]
           /\ Goto(t, AfterOutput(t))
           /\ UNCHANGED faults
  BY <1>4, <1>5
<1> QED BY <1>3, <1>5 DEF CloseOutput

-----------------------------------------------------------------------------
(* The checkers' steps.                                                    *)

(* A step of a checker keeps the invariant if it keeps what is said of its *)
(* own target.                                                             *)
LEMMA CheckerStep ==
  ASSUME IInv, NEW t \in Jobs,
         pc[t] \in {"check", "emit", "stats", "read", "look"},
         NEW q \in {"emit", "stats", "read", "look", "passed", "failed"}, Goto(t, q),
         UNCHANGED <<jobs, disk, file, lost>>, faults' \in Nat, faults' >= faults,
         own' \in [Jobs -> [{"trace", "stats", "compare"} -> Content]],
         differ' \in [Jobs -> SUBSET ToSet(Metrics)],
         seen' \in [Jobs -> Seq({"missing", "old", "new"})],
         \A u \in Jobs : u # t => own'[u] = own[u] /\ differ'[u] = differ[u] /\ seen'[u] = seen[u],
         CheckOf(t)'
  PROVE  IInv'
<1>1. AuditTypes /\ FilesInv /\ ChecksInv
  BY DEF IInv
<1>2. /\ pc' = [pc EXCEPT ![t] = q] /\ pc' \in [Jobs -> Places]
      /\ pc'[t] = q /\ \A u \in Jobs : u # t => pc'[u] = pc[u]
  BY <1>1, GotoFacts DEF Places
<1>3. AuditTypes'
  BY <1>1, <1>2 DEF AuditTypes
<1>4. FilesInv'
  BY <1>1, <1>2, FilesKept
<1>5. ASSUME NEW u \in Jobs, u # t
      PROVE  CheckOf(u)'
  <2>1. /\ CheckOf(u) /\ pc'[u] = pc[u] /\ own'[u] = own[u] /\ differ'[u] = differ[u]
        /\ seen'[u] = seen[u] /\ jobs' = jobs /\ faults \in Nat
    BY <1>1, <1>2, <1>5 DEF ChecksInv, AuditTypes
  <2>2. (AllRead(u)' <=> AllRead(u)) /\ NotPass(u)' = NotPass(u)
    BY <2>1 DEF AllRead, NotPass
  <2>3. ReadsOfThisMake(u)'
    BY <2>1, <2>2 DEF CheckOf, ReadsOfThisMake
  <2>4. OwnWritten(u)'
    BY <2>1 DEF CheckOf, OwnWritten
  <2>5. PassedClean(u)'
    BY <2>1, <2>2 DEF CheckOf, PassedClean
  <2>6. FailedForAReason(u)'
    BY <2>1, <2>2 DEF CheckOf, FailedForAReason
  <2> QED BY <2>3, <2>4, <2>5, <2>6 DEF CheckOf
<1> QED BY <1>3, <1>4, <1>5 DEF IInv, ChecksInv

(* A target that goes on, or fails, with nothing read.                     *)
LEMMA EarlyStep ==
  ASSUME IInv, NEW t \in Jobs, pc[t] \in {"check", "emit", "stats"},
         NEW q \in {"emit", "stats", "read", "failed"}, Goto(t, q),
         UNCHANGED <<jobs, disk, file, lost, seen>>, faults' \in Nat, faults' >= faults,
         own' \in [Jobs -> [{"trace", "stats", "compare"} -> Content]],
         differ' \in [Jobs -> SUBSET ToSet(Metrics)],
         \A u \in Jobs : u # t => own'[u] = own[u] /\ differ'[u] = differ[u],
         differ'[t] \subseteq ToSet(MetricsOf(Targets[t])),
         q = "emit" => Targets[t] = Component,
         q \in {"stats", "read"} =>
           own'[t].trace = "new" \/ (Targets[t] = Component /\ faults' > 0),
         q = "read" => own'[t].stats = "new"
  PROVE  IInv'
<1>1. AuditTypes /\ CheckOf(t)
  BY DEF IInv, ChecksInv
<1>2. pc'[t] = q
  BY <1>1, GotoFacts DEF Places
<1>3. seen[t] = << >> /\ Len(seen[t]) <= Len(MetricsOf(Targets[t]))
  BY <1>1 DEF CheckOf, ReadsOfThisMake
<1>4. ~AllRead(t)'
  <2>1. ~AllRead(t)
    BY <1>3, NothingRead
  <2> QED BY <2>1 DEF AllRead
<1>5. ReadsOfThisMake(t)'
  <2>1. pc'[t] \notin {"look", "passed"}
    BY <1>2
  <2>2. seen'[t] = << >> /\ DOMAIN seen'[t] = {}
    BY <1>3
  <2>3. Len(seen'[t]) <= Len(MetricsOf(Targets[t]))
    BY <1>3
  <2> QED BY <2>1, <2>2, <2>3 DEF ReadsOfThisMake
<1>6. OwnWritten(t)' /\ PassedClean(t)' /\ FailedForAReason(t)'
  BY <1>2, <1>4 DEF OwnWritten, PassedClean, FailedForAReason
<1>7. seen' \in [Jobs -> Seq({"missing", "old", "new"})] /\ \A u \in Jobs : seen'[u] = seen[u]
  BY <1>1 DEF AuditTypes
<1> QED BY <1>5, <1>6, <1>7, CheckerStep DEF CheckOf

(* Nothing but the overlay of the component model changes.                 *)
LEMMA QuietIInv ==
  ASSUME IInv, UNCHANGED <<jobs, faults, disk, own, pc, file, lost, differ, seen>>
  PROVE  IInv'
<1>1. AuditTypes'
  BY DEF IInv, AuditTypes
<1>2. FilesInTurn' /\ OfThisMake' /\ LostUnchecked'
  BY DEF IInv, FilesInv, FilesInTurn, OfThisMake, LostUnchecked, Writing, Output
<1>3. TornForAReason' /\ OneAtATime'
  BY DEF IInv, FilesInv, TornForAReason, OneAtATime, Writing, Output, Active
<1>4. ASSUME NEW t \in Jobs
      PROVE  CheckOf(t)'
  <2>1. CheckOf(t)
    BY DEF IInv, ChecksInv
  <2> QED BY <2>1 DEF CheckOf, ReadsOfThisMake, OwnWritten, PassedClean, FailedForAReason,
                      AllRead, NotPass
<1> QED BY <1>1, <1>2, <1>3, <1>4 DEF IInv, FilesInv, ChecksInv

(* Writing a file of its own, a checker goes on with the file written or   *)
(* fails.                                                                  *)
LEMMA WriteOwnFacts ==
  ASSUME AuditTypes, NEW t \in Jobs, NEW f \in {"trace", "stats", "compare"}, NEW next,
         WriteOwn(t, f, next)
  PROVE  /\ own' \in [Jobs -> [{"trace", "stats", "compare"} -> Content]]
         /\ \A u \in Jobs : u # t => own'[u] = own[u]
         /\ \A g \in {"trace", "stats", "compare"} : g # f => own'[t][g] = own[t][g]
         /\ faults' \in Nat /\ faults' >= faults
         /\ \/ Goto(t, next) /\ own'[t][f] = "new"
            \/ Goto(t, "failed") /\ faults' > 0
<1>1. ASSUME NEW c \in Content, own' = [own EXCEPT ![t][f] = c]
      PROVE  /\ own' \in [Jobs -> [{"trace", "stats", "compare"} -> Content]]
             /\ \A u \in Jobs : u # t => own'[u] = own[u]
             /\ \A g \in {"trace", "stats", "compare"} : g # f => own'[t][g] = own[t][g]
             /\ own'[t][f] = c
  BY <1>1 DEF AuditTypes
<1>2. CASE own' = [own EXCEPT ![t][f] = "new"] /\ Goto(t, next) /\ UNCHANGED faults
  <2>1. "new" \in Content /\ faults' \in Nat /\ faults' >= faults
    BY <1>2 DEF Content, AuditTypes
  <2> QED BY <1>1, <1>2, <2>1
<1>3. CASE /\ Fault /\ Goto(t, "failed")
           /\ \E c \in {own[t][f], "torn"} : own' = [own EXCEPT ![t][f] = c]
  <2>1. PICK c \in {own[t][f], "torn"} : own' = [own EXCEPT ![t][f] = c]
    BY <1>3
  <2>2. c \in Content
    <3>1. own[t][f] \in Content
      BY DEF AuditTypes
    <3>2. "torn" \in Content
      BY DEF Content
    <3> QED BY <2>1, <3>1, <3>2
  <2>3. faults' \in Nat /\ faults' >= faults /\ faults' > 0
    BY <1>3 DEF Fault, AuditTypes
  <2> QED BY <1>1, <1>3, <2>1, <2>2, <2>3
<1> QED BY <1>2, <1>3 DEF WriteOwn

(* The checkers of the event loop.                                         *)
LEMMA RunCheckerIInv ==
  ASSUME IInv, NEW t \in Jobs, RunChecker(t)
  PROVE  IInv'
<1>1. pc[t] = "check" /\ UNCHANGED <<jobs, disk, file, lost, seen>>
  BY DEF RunChecker, At
<1>2. AuditTypes /\ differ[t] \subseteq ToSet(MetricsOf(Targets[t]))
  BY DEF IInv, ChecksInv, CheckOf, ReadsOfThisMake
<1>3. CASE /\ WriteOwn(t, "trace", "stats")
           /\ \E D \in Differences :
                differ' = [differ EXCEPT ![t] = D \cap ToSet(MetricsOf(Targets[t]))]
  <2>1. PICK D \in Differences :
               differ' = [differ EXCEPT ![t] = D \cap ToSet(MetricsOf(Targets[t]))]
    BY <1>3
  <2>2. D \cap ToSet(MetricsOf(Targets[t])) \subseteq ToSet(Metrics)
    BY MetricFacts
  <2>3. /\ differ' \in [Jobs -> SUBSET ToSet(Metrics)]
        /\ \A u \in Jobs : u # t => differ'[u] = differ[u]
        /\ differ'[t] \subseteq ToSet(MetricsOf(Targets[t]))
    BY <1>2, <2>1, <2>2 DEF AuditTypes
  <2>4. /\ own' \in [Jobs -> [{"trace", "stats", "compare"} -> Content]]
        /\ \A u \in Jobs : u # t => own'[u] = own[u]
        /\ faults' \in Nat /\ faults' >= faults
        /\ \/ Goto(t, "stats") /\ own'[t].trace = "new"
           \/ Goto(t, "failed") /\ faults' > 0
    BY <1>2, <1>3, WriteOwnFacts
  <2>5. CASE Goto(t, "stats") /\ own'[t].trace = "new"
    BY <1>1, <2>3, <2>4, <2>5, EarlyStep
  <2>6. CASE Goto(t, "failed")
    BY <1>1, <2>3, <2>4, <2>6, EarlyStep
  <2> QED BY <2>4, <2>5, <2>6
<1>4. CASE Goto(t, "failed") /\ UNCHANGED <<faults, own, differ>>
  <2>1. /\ own' \in [Jobs -> [{"trace", "stats", "compare"} -> Content]]
        /\ differ' \in [Jobs -> SUBSET ToSet(Metrics)]
        /\ faults' \in Nat /\ faults' >= faults
    BY <1>2, <1>4 DEF AuditTypes
  <2> QED BY <1>1, <1>2, <1>4, <2>1, EarlyStep
<1> QED BY <1>3, <1>4 DEF RunChecker

(* The component model.                                                    *)
LEMMA RunComponentIInv ==
  ASSUME IInv, NEW t \in Jobs, RunComponent(t)
  PROVE  IInv'
<1>1. /\ pc[t] = "check" /\ Targets[t] = Component
      /\ own' = [own EXCEPT ![t].trace = "torn"]
      /\ UNCHANGED <<jobs, faults, disk, file, lost, seen>>
  BY DEF RunComponent, At
<1>2. AuditTypes /\ differ[t] \subseteq ToSet(MetricsOf(Targets[t]))
  BY DEF IInv, ChecksInv, CheckOf, ReadsOfThisMake
<1>3. /\ own' \in [Jobs -> [{"trace", "stats", "compare"} -> Content]]
      /\ \A u \in Jobs : u # t => own'[u] = own[u]
      /\ faults' \in Nat /\ faults' >= faults
  <2>1. "torn" \in Content /\ faults' \in Nat /\ faults' >= faults
    BY <1>1, <1>2 DEF Content, AuditTypes
  <2>2. /\ own' \in [Jobs -> [{"trace", "stats", "compare"} -> Content]]
        /\ \A u \in Jobs : u # t => own'[u] = own[u]
    BY <1>1, <1>2, <2>1 DEF AuditTypes
  <2> QED BY <2>1, <2>2
<1>4. CASE Goto(t, "emit") /\ \E D \in Differences : differ' = [differ EXCEPT ![t] = D]
  <2>1. PICK D \in Differences : differ' = [differ EXCEPT ![t] = D]
    BY <1>4
  <2>2. D \subseteq ToSet(Metrics) /\ MetricsOf(Targets[t]) = Metrics
    BY <1>1, AuditRunAssumption DEF MetricsOf
  <2>3. /\ differ' \in [Jobs -> SUBSET ToSet(Metrics)]
        /\ \A u \in Jobs : u # t => differ'[u] = differ[u]
        /\ differ'[t] \subseteq ToSet(MetricsOf(Targets[t]))
    BY <1>2, <2>1, <2>2 DEF AuditTypes
  <2> QED BY <1>1, <1>3, <1>4, <2>3, EarlyStep
<1>5. CASE Goto(t, "failed") /\ UNCHANGED differ
  <2>1. differ' \in [Jobs -> SUBSET ToSet(Metrics)]
    BY <1>2, <1>5 DEF AuditTypes
  <2> QED BY <1>1, <1>2, <1>3, <1>5, <2>1, EarlyStep
<1> QED BY <1>4, <1>5 DEF RunComponent

(* Its Engram rows and the end of its trace.                               *)
LEMMA EmitIInv ==
  ASSUME IInv, NEW t \in Jobs, EmitEvent(t) \/ CloseTrace(t)
  PROVE  IInv'
<1>1. /\ pc[t] = "emit" /\ UNCHANGED <<jobs, disk, file, lost, differ, seen>>
  BY DEF EmitEvent, CloseTrace, At
<1>2. AuditTypes /\ FilesInv /\ ChecksInv /\ differ[t] \subseteq ToSet(MetricsOf(Targets[t]))
  BY DEF IInv, ChecksInv, CheckOf, ReadsOfThisMake
<1>3. /\ differ' \in [Jobs -> SUBSET ToSet(Metrics)]
      /\ \A u \in Jobs : differ'[u] = differ[u]
  BY <1>1, <1>2 DEF AuditTypes
<1>4. CASE UNCHANGED <<own, faults, pc>>
  <2>1. UNCHANGED <<jobs, faults, disk, own, pc, file, lost, differ, seen>>
    BY <1>1, <1>4
  <2> QED BY <2>1, QuietIInv
<1>5. CASE Fault /\ Goto(t, "failed") /\ UNCHANGED own
  <2>1. faults' \in Nat /\ faults' >= faults
    BY <1>2, <1>5 DEF Fault, AuditTypes
  <2>2. /\ own' \in [Jobs -> [{"trace", "stats", "compare"} -> Content]]
        /\ \A u \in Jobs : own'[u] = own[u]
    BY <1>2, <1>5 DEF AuditTypes
  <2> QED BY <1>1, <1>2, <1>3, <1>5, <2>1, <2>2, EarlyStep
<1>6. CASE /\ Goto(t, "stats")
           /\ own' = [own EXCEPT ![t].trace = "new"] /\ UNCHANGED faults
  <2>1. faults' \in Nat /\ faults' >= faults /\ "new" \in Content
    BY <1>2, <1>6 DEF AuditTypes, Content
  <2>2. /\ own' \in [Jobs -> [{"trace", "stats", "compare"} -> Content]]
        /\ \A u \in Jobs : u # t => own'[u] = own[u]
        /\ own'[t].trace = "new"
    BY <1>2, <1>6, <2>1 DEF AuditTypes
  <2> QED BY <1>1, <1>2, <1>3, <1>6, <2>1, <2>2, EarlyStep
<1>7. CASE CloseTrace(t) /\ Goto(t, "stats") /\ Fault /\ UNCHANGED own
  <2>1. faults' \in Nat /\ faults' >= faults /\ faults' > 0
    BY <1>2, <1>7 DEF Fault, AuditTypes
  <2>2. /\ own' \in [Jobs -> [{"trace", "stats", "compare"} -> Content]]
        /\ \A u \in Jobs : own'[u] = own[u]
    BY <1>2, <1>7 DEF AuditTypes
  <2>3. Targets[t] = Component
    BY <1>1, <1>2 DEF ChecksInv, CheckOf, OwnWritten
  <2> QED BY <1>1, <1>2, <1>3, <1>7, <2>1, <2>2, <2>3, EarlyStep
<1> QED BY <1>4, <1>5, <1>6, <1>7 DEF EmitEvent, CloseTrace

(* The statistics of the checker's own.                                    *)
LEMMA StatsIInv ==
  ASSUME IInv, NEW t \in Jobs, WriteStats(t)
  PROVE  IInv'
<1>1. /\ pc[t] = "stats" /\ WriteOwn(t, "stats", "read")
      /\ UNCHANGED <<jobs, disk, file, lost, differ, seen>>
  BY DEF WriteStats, At
<1>2. /\ AuditTypes /\ differ[t] \subseteq ToSet(MetricsOf(Targets[t]))
      /\ own[t].trace = "new" \/ (Targets[t] = Component /\ faults > 0)
  BY <1>1 DEF IInv, ChecksInv, CheckOf, ReadsOfThisMake, OwnWritten
<1>3. /\ own' \in [Jobs -> [{"trace", "stats", "compare"} -> Content]]
      /\ \A u \in Jobs : u # t => own'[u] = own[u]
      /\ own'[t].trace = own[t].trace
      /\ faults' \in Nat /\ faults' >= faults
      /\ \/ Goto(t, "read") /\ own'[t].stats = "new"
         \/ Goto(t, "failed") /\ faults' > 0
  BY <1>1, <1>2, WriteOwnFacts
<1>4. /\ differ' \in [Jobs -> SUBSET ToSet(Metrics)]
      /\ \A u \in Jobs : differ'[u] = differ[u]
      /\ own'[t].trace = "new" \/ (Targets[t] = Component /\ faults' > 0)
  BY <1>1, <1>2, <1>3 DEF AuditTypes
<1>5. CASE Goto(t, "read") /\ own'[t].stats = "new"
  BY <1>1, <1>2, <1>3, <1>4, <1>5, EarlyStep
<1>6. CASE Goto(t, "failed")
  BY <1>1, <1>2, <1>3, <1>4, <1>6, EarlyStep
<1> QED BY <1>3, <1>5, <1>6

(* A metric is read from the simulator's statistics.  All files of this    *)
(* target are written, so what is read is not of an earlier run.           *)
LEMMA ReadIInv ==
  ASSUME IInv, NEW t \in Jobs, ReadMetric(t)
  PROVE  IInv'
<1>1. /\ pc[t] = "read" /\ ~AllRead(t)
      /\ UNCHANGED <<jobs, faults, disk, own, pc, file, lost, differ>>
  BY DEF ReadMetric, At
<1>2. AuditTypes /\ FilesInv /\ CheckOf(t)
  BY DEF IInv, ChecksInv
<1>3. /\ disk[EventStats].content \in {"torn", "new"}
      /\ jobs = 1 => disk[EventStats].content = "new"
  <2>1. PICK k \in 1..Len(Outputs) : Outputs[k] = EventStats
    BY ListFacts
  <2>2. file[t] = Len(Outputs) + 1
    BY <1>1, <1>2 DEF FilesInv, FilesInTurn, Checking
  <2>3. k \in 1..file[t] - 1
    BY <2>2, ListFacts
  <2>4. Active(t) /\ ~Writing(t)
    BY <1>1 DEF Active, Writing, Ended
  <2> QED BY <1>2, <2>1, <2>3, <2>4 DEF FilesInv, OfThisMake, OneAtATime
<1>4. PICK value \in {"missing", "new"} :
        /\ jobs = 1 => value = "new"
        /\ seen' = [seen EXCEPT ![t] = Append(@, value)]
  <2>1. CASE disk[EventStats].content = "torn"
    BY <1>3, <2>1 DEF ReadMetric
  <2>2. CASE disk[EventStats].content = "new"
    BY <2>2 DEF ReadMetric
  <2> QED BY <1>3, <2>1, <2>2
<1>5. /\ seen' \in [Jobs -> Seq({"missing", "old", "new"})]
      /\ \A u \in Jobs : u # t => seen'[u] = seen[u]
      /\ seen'[t] = Append(seen[t], value)
      /\ seen[t] \in Seq({"missing", "old", "new"})
  BY <1>2, <1>4 DEF AuditTypes
<1> DEFINE n == Len(MetricsOf(Targets[t]))
           m == Len(seen[t])
<1>6. n \in {3, 4} /\ m \in Nat /\ m < n
  <2>1. n \in {3, 4} /\ m \in Nat
    BY <1>5, MetricFacts
  <2>2. m <= n /\ m # n
    BY <1>1, <1>2 DEF CheckOf, ReadsOfThisMake, AllRead
  <2> HIDE DEF n, m
  <2> QED BY <2>1, <2>2
<1>7. Len(seen'[t]) <= n
  <2>1. Len(seen'[t]) = m + 1
    BY <1>5
  <2> HIDE DEF n, m
  <2> QED BY <1>6, <2>1
<1>8. \A i \in DOMAIN seen'[t] : seen'[t][i] # "old" /\ (jobs' = 1 => seen'[t][i] = "new")
  BY <1>1, <1>2, <1>4, <1>5 DEF CheckOf, ReadsOfThisMake
<1> HIDE DEF m
<1>9. ReadsOfThisMake(t)'
  BY <1>1, <1>2, <1>7, <1>8 DEF CheckOf, ReadsOfThisMake
<1>10. OwnWritten(t)' /\ PassedClean(t)' /\ FailedForAReason(t)'
  BY <1>1, <1>2 DEF CheckOf, OwnWritten, PassedClean, FailedForAReason
<1>11. /\ Goto(t, "read") /\ faults' \in Nat /\ faults' >= faults
       /\ own' \in [Jobs -> [{"trace", "stats", "compare"} -> Content]]
       /\ differ' \in [Jobs -> SUBSET ToSet(Metrics)]
       /\ \A u \in Jobs : u # t => own'[u] = own[u] /\ differ'[u] = differ[u]
  BY <1>1, <1>2 DEF AuditTypes, Goto
<1> QED BY <1>1, <1>5, <1>9, <1>10, <1>11, CheckerStep DEF CheckOf

(* The comparison is written when everything is read.                      *)
LEMMA CompareIInv ==
  ASSUME IInv, NEW t \in Jobs, WriteCompare(t)
  PROVE  IInv'
<1>1. /\ pc[t] = "read" /\ AllRead(t) /\ WriteOwn(t, "compare", "look")
      /\ UNCHANGED <<jobs, disk, file, lost, differ, seen>>
  BY DEF WriteCompare, At
<1>2. AuditTypes /\ CheckOf(t)
  BY DEF IInv, ChecksInv
<1>3. /\ own' \in [Jobs -> [{"trace", "stats", "compare"} -> Content]]
      /\ \A u \in Jobs : u # t => own'[u] = own[u]
      /\ own'[t].trace = own[t].trace /\ own'[t].stats = own[t].stats
      /\ faults' \in Nat /\ faults' >= faults
      /\ \/ Goto(t, "look") /\ own'[t].compare = "new"
         \/ Goto(t, "failed") /\ faults' > 0
  BY <1>1, <1>2, WriteOwnFacts
<1>4. /\ differ' \in [Jobs -> SUBSET ToSet(Metrics)]
      /\ seen' \in [Jobs -> Seq({"missing", "old", "new"})]
      /\ \A u \in Jobs : differ'[u] = differ[u] /\ seen'[u] = seen[u]
      /\ AllRead(t)' /\ jobs' = jobs /\ faults \in Nat
  BY <1>1, <1>2 DEF AuditTypes, AllRead
<1>5. CASE Goto(t, "look") /\ own'[t].compare = "new"
  <2>1. pc'[t] = "look"
    BY <1>2, <1>5, GotoFacts DEF Places
  <2>2. ReadsOfThisMake(t)'
    BY <1>2, <1>4, <2>1 DEF CheckOf, ReadsOfThisMake
  <2>3. OwnWritten(t)'
    BY <1>1, <1>2, <1>3, <1>4, <1>5, <2>1 DEF CheckOf, OwnWritten
  <2>4. PassedClean(t)' /\ FailedForAReason(t)'
    BY <2>1 DEF PassedClean, FailedForAReason
  <2> QED BY <1>1, <1>3, <1>4, <1>5, <2>2, <2>3, <2>4, CheckerStep DEF CheckOf
<1>6. CASE Goto(t, "failed") /\ faults' > 0
  <2>1. pc'[t] = "failed"
    BY <1>2, <1>6, GotoFacts DEF Places
  <2>2. ReadsOfThisMake(t)'
    BY <1>2, <1>4, <2>1 DEF CheckOf, ReadsOfThisMake
  <2>3. OwnWritten(t)' /\ PassedClean(t)' /\ FailedForAReason(t)'
    BY <1>6, <2>1 DEF OwnWritten, PassedClean, FailedForAReason
  <2> QED BY <1>1, <1>3, <1>4, <1>6, <2>2, <2>3, CheckerStep DEF CheckOf
<1> QED BY <1>3, <1>5, <1>6

(* The recipe looks at the comparison and at the trace.                    *)
LEMMA LookIInv ==
  ASSUME IInv, NEW t \in Jobs, Look(t)
  PROVE  IInv'
<1>1. pc[t] = "look" /\ UNCHANGED <<jobs, faults, disk, own, file, lost, differ, seen>>
  BY DEF Look, At
<1>2. AuditTypes /\ CheckOf(t)
  BY DEF IInv, ChecksInv
<1>3. PICK empty \in IF own[t].trace = "torn" THEN BOOLEAN ELSE {FALSE} :
        Goto(t, IF NotPass(t) = {} /\ ~empty THEN "passed" ELSE "failed")
  BY DEF Look
<1>4. /\ own' \in [Jobs -> [{"trace", "stats", "compare"} -> Content]]
      /\ differ' \in [Jobs -> SUBSET ToSet(Metrics)]
      /\ seen' \in [Jobs -> Seq({"missing", "old", "new"})]
      /\ \A u \in Jobs : own'[u] = own[u] /\ differ'[u] = differ[u] /\ seen'[u] = seen[u]
      /\ faults' \in Nat /\ faults' >= faults /\ faults' = faults /\ jobs' = jobs
      /\ (AllRead(t)' <=> AllRead(t)) /\ NotPass(t)' = NotPass(t)
  BY <1>1, <1>2 DEF AuditTypes, AllRead, NotPass
<1>5. CASE NotPass(t) = {} /\ ~empty
  <2>1. Goto(t, "passed") /\ pc'[t] = "passed"
    BY <1>2, <1>3, <1>5, GotoFacts DEF Places
  <2>2. ReadsOfThisMake(t)'
    BY <1>1, <1>2, <1>4, <2>1 DEF CheckOf, ReadsOfThisMake
  <2>3. OwnWritten(t)'
    BY <1>1, <1>2, <1>4, <2>1 DEF CheckOf, OwnWritten
  <2>4. PassedClean(t)' /\ FailedForAReason(t)'
    BY <1>4, <1>5, <2>1 DEF PassedClean, FailedForAReason
  <2> QED BY <1>1, <1>4, <2>1, <2>2, <2>3, <2>4, CheckerStep DEF CheckOf
<1>6. CASE ~(NotPass(t) = {} /\ ~empty)
  <2>1. Goto(t, "failed") /\ pc'[t] = "failed"
    BY <1>2, <1>3, <1>6, GotoFacts DEF Places
  <2>2. ReadsOfThisMake(t)'
    BY <1>1, <1>2, <1>4, <2>1 DEF CheckOf, ReadsOfThisMake
  <2>3. OwnWritten(t)' /\ PassedClean(t)'
    BY <2>1 DEF OwnWritten, PassedClean
  <2>4. \/ differ[t] # {}
        \/ faults > 0
        \/ jobs > 1 /\ \E n \in DOMAIN seen[t] : seen[t][n] = "missing"
    <3>1. CASE NotPass(t) # {}
      <4>1. PICK n \in DOMAIN seen[t] : seen[t][n] = "missing" \/ Metrics[n] \in differ[t]
        BY <3>1 DEF NotPass
      <4>2. CASE Metrics[n] \in differ[t]
        BY <4>2
      <4>3. CASE seen[t][n] = "missing"
        <5>1. jobs # 1 /\ jobs \in 1..MaxJobs
          BY <1>2, <4>3 DEF CheckOf, ReadsOfThisMake, AuditTypes
        <5> QED BY <4>3, <5>1, AuditRunAssumption
      <4> QED BY <4>1, <4>2, <4>3
    <3>2. CASE empty
      <4>1. own[t].trace = "torn"
        BY <1>3, <3>2
      <4> QED BY <1>1, <1>2, <4>1 DEF CheckOf, OwnWritten
    <3> QED BY <1>3, <1>6, <3>1, <3>2
  <2>5. FailedForAReason(t)'
    BY <1>4, <2>4 DEF FailedForAReason
  <2> QED BY <1>1, <1>4, <2>1, <2>2, <2>3, <2>5, CheckerStep DEF CheckOf
<1> QED BY <1>5, <1>6

-----------------------------------------------------------------------------
(* The overlay.                                                            *)

(* A finite set of integers that is not empty has a greatest: the one with *)
(* the fewest above it.                                                    *)
LEMMA GreatestIs ==
  ASSUME NEW S \in SUBSET Int, IsFiniteSet(S), S # {}
  PROVE  Max(S) \in S /\ \A y \in S : y <= Max(S)
<1> DEFINE Above(x) == {y \in S : y > x}
           T == {Above(x) : x \in S}
           R == StrictSubsetOrdering(S)
<1>1. IsWellFoundedOn(R, FiniteSubsetsOf(S))
  BY FS_StrictSubsetOrderingWellFounded
<1>2. T \subseteq FiniteSubsetsOf(S) /\ T # {}
  <2>1. \A x \in S : Above(x) \in SUBSET S /\ IsFiniteSet(Above(x))
    BY FS_Subset
  <2> QED BY <2>1 DEF FiniteSubsetsOf
<1>3. PICK U \in T : \A V \in T : <<V, U>> \notin R
  <2> HIDE DEF T, R
  <2> QED BY <1>1, <1>2, WFMin
<1>4. PICK x \in S : U = Above(x)
  OBVIOUS
<1>5. ASSUME NEW y \in S, y > x
      PROVE  FALSE
  <2>1. Above(y) \subseteq Above(x) /\ y \in Above(x) /\ y \notin Above(y)
    <3>1. x \in Int /\ y \in Int /\ ~(y > y)
      OBVIOUS
    <3>2. \A z \in S : z > y => z > x
      BY <1>5
    <3> QED BY <1>5, <3>1, <3>2
  <2>2. <<Above(y), Above(x)>> \in R
    BY <2>1 DEF StrictSubsetOrdering
  <2> QED BY <1>3, <1>4, <2>2
<1>6. \A y \in S : x >= y
  BY <1>5
<1>7. Max(S) \in S /\ \A y \in S : Max(S) >= y
  BY <1>6 DEF Max
<1> QED BY <1>7

(* What the loading of a file keeps of it: its platform's lines.           *)
LEMMA LinesFacts ==
  ASSUME NEW f, EventFile(f), f[1].required
  PROVE  /\ IsFiniteSet(PlatformRows(f)) /\ PlatformRows(f) \subseteq 2..Len(f)
         /\ WholeRows(f) \subseteq PlatformRows(f) /\ IsFiniteSet(WholeRows(f))
         /\ WholeRows(f) = {n \in 2..Len(f) : /\ f[n].fields >= f[1].platform
                                              /\ f[n].platform = Platform
                                              /\ f[n].fields >= f[1].fields}
         /\ {n \in 2..Len(f) : f[n].fields >= f[1].platform /\ f[n].platform = Platform}
              \subseteq PlatformRows(f)
         /\ \A n \in WholeRows(f) : /\ Event(f[n]).lookup_start \in Nat
                                    /\ Event(f[n]).visible_wait \in Nat
                                    /\ Event(f[n]).visible_wait = Cycle(f[n].visible)
<1>1. /\ f \in Seq(ToSet(f)) /\ Len(f) \in Nat \ {0}
      /\ \A n \in 1..Len(f) : f[n].fields \in Nat
      /\ f[1].platform \in 1..f[1].fields /\ f[1].fields \in Nat
      /\ \A n \in 2..Len(f) : f[n].start \in Int /\ f[n].visible \in Int
  <2>1. f \in Seq(ToSet(f)) /\ f # << >>
    BY DEF EventFile
  <2>2. Len(f) \in Nat \ {0}
    BY <2>1
  <2> QED BY <2>1, <2>2 DEF EventFile
<1>2. IsFiniteSet(2..Len(f)) /\ PlatformRows(f) \subseteq 2..Len(f)
  <2>1. 2 \in Int /\ Len(f) \in Int
    BY <1>1
  <2> QED BY <2>1, FS_Interval DEF PlatformRows
<1>3. WholeRows(f) \subseteq PlatformRows(f)
  BY DEF WholeRows
<1>4. IsFiniteSet(PlatformRows(f)) /\ IsFiniteSet(WholeRows(f))
  BY <1>2, <1>3, FS_Subset
<1>5. \A n \in 2..Len(f) : f[n].fields >= f[1].platform =>
        (n \in PlatformRows(f) <=> f[n].platform = Platform)
  BY <1>1 DEF PlatformRows, PlatformOf
<1>6. \A n \in 2..Len(f) : f[n].fields >= f[1].fields => f[n].fields >= f[1].platform
  BY <1>1
<1>7. \A n \in 2..Len(f) :
        n \in WholeRows(f) <=> /\ f[n].fields >= f[1].platform
                               /\ f[n].platform = Platform
                               /\ f[n].fields >= f[1].fields
  BY <1>2, <1>5, <1>6 DEF WholeRows
<1>8. \A n \in 2..Len(f) : /\ Event(f[n]).lookup_start \in Nat
                           /\ Event(f[n]).visible_wait \in Nat
                           /\ Event(f[n]).visible_wait = Cycle(f[n].visible)
  BY <1>1 DEF Event, Cycle
<1> QED BY <1>2, <1>3, <1>4, <1>5, <1>7, <1>8

(* The sort leaves each line that has all columns at one place.            *)
LEMMA SortedFacts ==
  ASSUME NEW f, EventFile(f), f[1].required, NEW s \in Sorted(f), ~NoEvents(f)
  PROVE  /\ Len(s) = Cardinality(WholeRows(f)) /\ Len(s) \in Nat
         /\ s \in Seq(WholeRows(f)) /\ DOMAIN s = 1..Len(s)
         /\ \A i, j \in 1..Len(s) : i # j => s[i] # s[j]
         /\ \A n \in WholeRows(f) : \E i \in 1..Len(s) : s[i] = n
         /\ \A i, j \in 1..Len(s) : i < j =>
              Event(f[s[i]]).lookup_start <= Event(f[s[j]]).lookup_start
<1> DEFINE W == WholeRows(f)
           c == Cardinality(W)
<1>1. IsFiniteSet(W) /\ c \in Nat
  BY LinesFacts, FS_CardinalityType
<1>2. /\ s \in [1..c -> W] /\ \A i, j \in 1..c : i # j => s[i] # s[j]
      /\ \A i, j \in DOMAIN s : i < j => ~Before(Event(f[s[j]]), Event(f[s[i]]))
  BY DEF Sorted, SetToSeqs
<1> HIDE DEF c
<1>3. s \in Seq(W) /\ Len(s) = c /\ DOMAIN s = 1..c
  BY <1>1, <1>2
<1>4. s \in Injection(1..c, W)
  BY <1>2 DEF Injection, IsInjective
<1>5. Cardinality(1..c) = c
  <2>1. 1 \in Int /\ c \in Int
    BY <1>1
  <2>2. Cardinality(1..c) = IF 1 > c THEN 0 ELSE c - 1 + 1
    BY <2>1, FS_Interval
  <2> QED BY <1>1, <2>2
<1>6. s \in Surjection(1..c, W)
  BY <1>1, <1>4, <1>5, FS_Injection DEF c
<1>7. \A n \in W : \E i \in 1..c : s[i] = n
  BY <1>6 DEF Surjection
<1>8. ASSUME NEW i \in 1..c, NEW j \in 1..c, i < j
      PROVE  Event(f[s[i]]).lookup_start <= Event(f[s[j]]).lookup_start
  <2>1. ~(Event(f[s[j]]).lookup_start < Event(f[s[i]]).lookup_start)
    BY <1>2, <1>3, <1>8 DEF Before
  <2>2. s[i] \in W /\ s[j] \in W
    BY <1>2
  <2>3. Event(f[s[i]]).lookup_start \in Nat /\ Event(f[s[j]]).lookup_start \in Nat
    BY <2>2, LinesFacts
  <2> QED BY <2>1, <2>3
<1> QED BY <1>1, <1>2, <1>3, <1>7, <1>8 DEF c

RowType == [event_id : Int, event_cycle : Nat, source : Nat, duration : Int]
WrittenUpTo(s, k) ==
  /\ engram.rows \in Seq(RowType) /\ Len(engram.rows) = k
  /\ engram.left \in Seq(Nat) /\ Len(s) = k + Len(engram.left)
  /\ \A i \in 1..k : engram.rows[i] = TraceRow(engram.file, s[i], StageEvents + (i - 1))
  /\ \A i \in 1..Len(engram.left) : engram.left[i] = s[k + i]

(* The rows written are those of the first lines of an order that the sort *)
(* may leave, numbered on from the stages; the lines left are its rest.    *)
OverlayInv ==
  /\ engram = [file |-> engram.file, left |-> engram.left, rows |-> engram.rows]
  /\ ~NoEvents(engram.file) =>
       /\ EventFile(engram.file) /\ engram.file[1].required
       /\ \E s \in Sorted(engram.file), k \in Nat : WrittenUpTo(s, k)

(* Before a file is loaded there is nothing, then its lines in some order. *)
LEMMA InitOverlay == Init => OverlayInv
BY DEF Init, NoOverlay, OverlayInv, NoEvents

LEMMA LoadOverlay ==
  ASSUME NEW t \in Jobs, RunComponent(t), OverlayInv
  PROVE  OverlayInv'
<1>1. CASE UNCHANGED engram
  BY <1>1 DEF OverlayInv, WrittenUpTo
<1>2. CASE ~UNCHANGED engram
  <2>1. PICK f \in EventFiles :
          /\ ~LoadFails(f)
          /\ \E s \in Sorted(f) : engram' = [file |-> f, left |-> s, rows |-> << >>]
    BY <1>2 DEF RunComponent
  <2>2. PICK s \in Sorted(f) : engram' = [file |-> f, left |-> s, rows |-> << >>]
    BY <2>1
  <2>3. CASE NoEvents(f)
    BY <2>2, <2>3 DEF OverlayInv
  <2>4. CASE ~NoEvents(f)
    <3>1. EventFile(f) /\ f[1].required
      BY <2>1, <2>4, AuditRunAssumption DEF LoadFails, NoEvents
    <3>2. s \in Seq(WholeRows(f)) /\ Len(s) \in Nat
      BY <2>4, <3>1, SortedFacts
    <3>3. WholeRows(f) \subseteq Nat
      BY <3>1, LinesFacts
    <3>4. s \in Seq(Nat)
      BY <3>2, <3>3
    <3>5. /\ engram'.file = f /\ engram'.left = s /\ engram'.rows = << >>
          /\ Len(engram'.rows) = 0 /\ Len(s) = 0 + Len(s)
          /\ engram' = [file |-> f, left |-> s, rows |-> << >>] /\ engram'.rows \in Seq(RowType)
      BY <2>2, <3>2
    <3>6. \A i \in 1..Len(s) : s[i] = s[0 + i]
      OBVIOUS
    <3>7. \A i \in 1..0 : engram'.rows[i] = TraceRow(f, s[i], StageEvents + (i - 1))
      OBVIOUS
    <3>8. WrittenUpTo(s, 0)'
      BY <3>4, <3>5, <3>6, <3>7 DEF WrittenUpTo
    <3> QED BY <3>1, <3>5, <3>8 DEF OverlayInv
  <2> QED BY <2>3, <2>4
<1> QED BY <1>1, <1>2

(* What a sequence is after its end grows or its head is taken.            *)
LEMMA AppendFacts ==
  ASSUME NEW S, NEW s \in Seq(S), NEW x \in S
  PROVE  /\ Append(s, x) \in Seq(S) /\ Len(Append(s, x)) = Len(s) + 1 /\ Len(s) \in Nat
         /\ \A i \in 1..Len(s) : Append(s, x)[i] = s[i]
         /\ Append(s, x)[Len(s) + 1] = x
OBVIOUS

LEMMA TailFacts ==
  ASSUME NEW S, NEW s \in Seq(S), s # << >>
  PROVE  /\ Len(s) \in Nat \ {0} /\ Head(s) = s[1]
         /\ Tail(s) \in Seq(S) /\ Len(Tail(s)) = Len(s) - 1
         /\ \A i \in 1..Len(s) - 1 : Tail(s)[i] = s[i + 1]
OBVIOUS

(* A row is written for the first of the lines left.                       *)
LEMMA EmitOverlay ==
  ASSUME NEW t \in Jobs, EmitEvent(t), OverlayInv
  PROVE  OverlayInv'
<1> DEFINE f == engram.file
<1>1. CASE UNCHANGED engram
  BY <1>1 DEF OverlayInv, WrittenUpTo
<1>2. CASE ~UNCHANGED engram
  <2> DEFINE row == TraceRow(f, Head(engram.left), StageEvents + Len(engram.rows))
  <2>1. /\ engram' = [engram EXCEPT !.rows = Append(@, row), !.left = Tail(@)]
        /\ engram.left # << >>
    BY <1>2 DEF EmitEvent
  <2>2. /\ engram'.file = f /\ engram'.rows = Append(engram.rows, row)
        /\ engram'.left = Tail(engram.left)
        /\ engram' = [file |-> engram'.file, left |-> engram'.left, rows |-> engram'.rows]
    <3> HIDE DEF row
    <3>1. engram = [file |-> engram.file, left |-> engram.left, rows |-> engram.rows]
      BY DEF OverlayInv
    <3> QED BY <2>1, <3>1
  <2>3. CASE NoEvents(f)
    BY <2>2, <2>3 DEF OverlayInv
  <2>4. CASE ~NoEvents(f)
    <3>1. /\ EventFile(f) /\ f[1].required
          /\ \E s \in Sorted(f), k \in Nat : WrittenUpTo(s, k)
      BY <2>4 DEF OverlayInv
    <3>2. PICK s \in Sorted(f), k \in Nat : WrittenUpTo(s, k)
      BY <3>1
    <3>3. /\ engram.rows \in Seq(RowType) /\ Len(engram.rows) = k
          /\ engram.left \in Seq(Nat) /\ Len(s) = k + Len(engram.left)
          /\ \A i \in 1..k : engram.rows[i] = TraceRow(f, s[i], StageEvents + (i - 1))
          /\ \A i \in 1..Len(engram.left) : engram.left[i] = s[k + i]
      BY <3>2 DEF WrittenUpTo
    <3>4. /\ Len(engram.left) \in Nat \ {0} /\ Head(engram.left) = engram.left[1]
          /\ Tail(engram.left) \in Seq(Nat) /\ Len(Tail(engram.left)) = Len(engram.left) - 1
          /\ \A i \in 1..Len(engram.left) - 1 : Tail(engram.left)[i] = engram.left[i + 1]
      BY <2>1, <3>3, TailFacts
    <3>5. Head(engram.left) = s[k + 1] /\ k + 1 \in 1..Len(s)
      BY <3>3, <3>4
    <3>6. /\ s[k + 1] \in WholeRows(f) /\ s[k + 1] \in Nat
          /\ Event(f[s[k + 1]]).lookup_start \in Nat
          /\ Event(f[s[k + 1]]).lookup_ready \in Int
      <4>1. s \in Seq(WholeRows(f)) /\ WholeRows(f) \subseteq 2..Len(f)
        BY <2>4, <3>1, SortedFacts, LinesFacts
      <4>2. s[k + 1] \in WholeRows(f) /\ s[k + 1] \in 2..Len(f)
        BY <3>5, <4>1
      <4>3. f[s[k + 1]].ready \in Int
        BY <3>1, <4>2 DEF EventFile
      <4>4. Event(f[s[k + 1]]).lookup_ready \in Int
        BY <4>3 DEF Event, Cycle
      <4>5. Event(f[s[k + 1]]).lookup_start \in Nat
        BY <3>1, <4>2, LinesFacts
      <4> QED BY <4>2, <4>4, <4>5
    <3>7. row = TraceRow(f, s[k + 1], StageEvents + ((k + 1) - 1)) /\ row \in RowType
      <4>1. row = TraceRow(f, s[k + 1], StageEvents + k)
        BY <3>3, <3>5
      <4>2. StageEvents + k \in Int /\ (k + 1) - 1 = k
        BY AuditRunAssumption
      <4>3. TraceRow(f, s[k + 1], StageEvents + k) \in RowType
        BY <3>6, <4>2 DEF TraceRow, RowType
      <4> QED BY <4>1, <4>2, <4>3
    <3> HIDE DEF row
    <3>8. /\ engram'.rows \in Seq(RowType) /\ Len(engram'.rows) = k + 1
          /\ \A i \in 1..k : engram'.rows[i] = engram.rows[i]
          /\ engram'.rows[k + 1] = row
      <4>1. engram.rows \in Seq(RowType) /\ row \in RowType /\ Len(engram.rows) = k
        BY <3>3, <3>7
      <4>2. /\ Append(engram.rows, row) \in Seq(RowType)
            /\ Len(Append(engram.rows, row)) = Len(engram.rows) + 1
            /\ \A i \in 1..Len(engram.rows) : Append(engram.rows, row)[i] = engram.rows[i]
            /\ Append(engram.rows, row)[Len(engram.rows) + 1] = row
        BY <4>1, AppendFacts
      <4> QED BY <2>2, <4>1, <4>2
    <3>9. /\ engram'.left \in Seq(Nat) /\ Len(s) = (k + 1) + Len(engram'.left)
          /\ \A i \in 1..Len(engram'.left) : engram'.left[i] = s[(k + 1) + i]
      <4>1. engram'.left \in Seq(Nat) /\ Len(engram'.left) = Len(engram.left) - 1
        BY <2>2, <3>4
      <4>2. Len(s) = (k + 1) + Len(engram'.left)
        <5> DEFINE m == Len(engram.left)
        <5>1. Len(s) = k + m /\ m \in Nat /\ Len(engram'.left) = m - 1
          BY <3>3, <3>4, <4>1
        <5> HIDE DEF m
        <5> QED BY <5>1
      <4>3. ASSUME NEW i \in 1..Len(engram'.left)
            PROVE  engram'.left[i] = s[(k + 1) + i]
        <5>1. i \in 1..Len(engram.left) - 1 /\ i + 1 \in 1..Len(engram.left)
          BY <3>4, <4>1
        <5>2. engram'.left[i] = engram.left[i + 1]
          BY <2>2, <3>4, <5>1
        <5>3. engram.left[i + 1] = s[k + (i + 1)] /\ k + (i + 1) = (k + 1) + i
          BY <3>3, <5>1
        <5> QED BY <5>2, <5>3
      <4> QED BY <4>1, <4>2, <4>3
    <3>10. ASSUME NEW i \in 1..k + 1
           PROVE  engram'.rows[i] = TraceRow(f, s[i], StageEvents + (i - 1))
      <4>1. CASE i = k + 1
        BY <3>7, <3>8, <4>1
      <4>2. CASE i # k + 1
        <5>1. i \in 1..k
          BY <4>2
        <5> QED BY <3>3, <3>8, <5>1
      <4> QED BY <4>1, <4>2
    <3>11. WrittenUpTo(s, k + 1)'
      BY <2>2, <3>8, <3>9, <3>10 DEF WrittenUpTo
    <3> QED BY <2>2, <2>4, <3>1, <3>11 DEF OverlayInv
  <2> QED BY <2>3, <2>4
<1> QED BY <1>1, <1>2

(* No other step touches the overlay.                                      *)
LEMMA NextOverlay == OverlayInv /\ [Next]_vars => OverlayInv'
<1> SUFFICES ASSUME OverlayInv, [Next]_vars PROVE OverlayInv'
  OBVIOUS
<1>1. CASE UNCHANGED engram
  BY <1>1 DEF OverlayInv, WrittenUpTo
<1>2. CASE ~UNCHANGED engram
  <2>1. PICK t \in Jobs : Step(t)
    BY <1>2 DEF Next, MakeEnds, vars
  <2>2. RunComponent(t) \/ EmitEvent(t)
    BY <1>2, <2>1 DEF Step, Begin, OpenOutput, WriteRows, CloseOutput, RunChecker, CloseTrace,
                      WriteStats, ReadMetric, WriteCompare, Look
  <2> QED BY <2>2, LoadOverlay, EmitOverlay
<1> QED BY <1>1, <1>2

-----------------------------------------------------------------------------
(* The theorems.                                                           *)

LEMMA NextIInv == IInv /\ [Next]_vars => IInv'
<1>1. ASSUME IInv, NEW t \in Jobs, Step(t)
      PROVE  IInv'
  <2>1. CASE Begin(t) \/ OpenOutput(t) \/ WriteRows(t) \/ CloseOutput(t)
    BY <1>1, <2>1, BeginIInv, OpenIInv, RowsIInv, CloseIInv
  <2>2. CASE RunChecker(t) \/ RunComponent(t) \/ EmitEvent(t) \/ CloseTrace(t)
    BY <1>1, <2>2, RunCheckerIInv, RunComponentIInv, EmitIInv
  <2>3. CASE WriteStats(t) \/ ReadMetric(t) \/ WriteCompare(t) \/ Look(t)
    BY <1>1, <2>3, StatsIInv, ReadIInv, CompareIInv, LookIInv
  <2> QED BY <1>1, <2>1, <2>2, <2>3 DEF Step
<1>2. ASSUME IInv, UNCHANGED vars
      PROVE  IInv'
  <2>1. UNCHANGED <<jobs, faults, disk, own, pc, file, lost, differ, seen>>
    BY <1>2 DEF vars
  <2> QED BY <1>2, <2>1, QuietIInv
<1> QED BY <1>1, <1>2 DEF Next, MakeEnds

(* Whatever the targets, the files, the jobs and the failing writes, the   *)
(* files are of this make as far as they are written, and every checker    *)
(* has read, written and concluded what its place says.                    *)
THEOREM Invariance == Spec => []IInv
<1>1. Init => IInv
  BY InitIInv
<1>2. IInv /\ [Next]_vars => IInv'
  BY NextIInv
<1> QED BY <1>1, <1>2, PTL DEF Spec

(* A target passes only on an agreeing run of its checker and on metrics   *)
(* of this make, and when all pass every file of the simulator is whole    *)
(* and of this make, but for rows lost where the writer does not look.     *)
THEOREM VerdictsSound == Spec => []VerdictSound
<1>1. IInv => VerdictSound
  <2> SUFFICES ASSUME IInv PROVE VerdictSound
    OBVIOUS
  <2>1. AuditTypes /\ FilesInv /\ ChecksInv
    BY DEF IInv
  <2>2. ASSUME NEW t \in Jobs, At(t, "passed")
        PROVE  /\ AllRead(t) /\ \A n \in DOMAIN seen[t] : seen[t][n] = "new"
               /\ differ[t] = {}
               /\ own[t].stats = "new" /\ own[t].compare = "new"
               /\ own[t].trace = "new" \/ (Targets[t] = Component /\ faults > 0)
    <3>1. CheckOf(t) /\ pc[t] = "passed"
      BY <2>1, <2>2 DEF ChecksInv, At
    <3>2. /\ AllRead(t) /\ NotPass(t) = {}
          /\ \A n \in DOMAIN seen[t] : seen[t][n] # "old"
          /\ differ[t] \subseteq ToSet(MetricsOf(Targets[t]))
      BY <3>1 DEF CheckOf, ReadsOfThisMake, PassedClean
    <3>3. \A n \in DOMAIN seen[t] : seen[t][n] # "missing" /\ Metrics[n] \notin differ[t]
      BY <3>2 DEF NotPass
    <3>4. seen[t] \in Seq({"missing", "old", "new"})
      BY <2>1 DEF AuditTypes
    <3>5. \A n \in DOMAIN seen[t] : seen[t][n] = "new"
      BY <3>2, <3>3, <3>4
    <3>6. differ[t] = {}
      <4>1. DOMAIN seen[t] = 1..Len(MetricsOf(Targets[t]))
        BY <3>2, <3>4 DEF AllRead
      <4>2. differ[t] \subseteq {Metrics[n] : n \in 1..Len(MetricsOf(Targets[t]))}
        BY <3>2, MetricFacts
      <4> QED BY <3>3, <4>1, <4>2
    <3> QED BY <3>1, <3>2, <3>5, <3>6 DEF CheckOf, OwnWritten
  <2>3. ASSUME \A t \in Jobs : At(t, "passed"), NEW f \in ToSet(Outputs)
        PROVE  \/ disk[f].content = "new"
               \/ disk[f].content = "torn" /\ Kind[f] = "unchecked" /\ faults > 0
    <3>1. PICK k \in 1..Len(Outputs) : Outputs[k] = f
      BY ListFacts DEF ToSet
    <3>2. PICK t \in Jobs : TRUE
      BY ListFacts
    <3>3. pc[t] = "passed" /\ file[t] = Len(Outputs) + 1
      BY <2>1, <2>3 DEF At, FilesInv, FilesInTurn, Checking
    <3>4. k \in 1..file[t] - 1
      BY <3>3, ListFacts
    <3>5. disk[f].content \in {"torn", "new"}
      BY <2>1, <3>1, <3>4 DEF FilesInv, OfThisMake
    <3>6. \A u \in Jobs : pc[u] = "passed"
      BY <2>3 DEF At
    <3>7. disk[f].content = "torn" => Kind[f] = "unchecked" /\ faults > 0
      BY <2>1, <3>6 DEF FilesInv, TornForAReason, Writing, Files
    <3> QED BY <3>5, <3>7
  <2> QED BY <2>2, <2>3 DEF VerdictSound
<1> QED BY <1>1, Invariance, PTL

(* A target whose comparison was made fails only if the checker's run      *)
(* differs, a write failed, or another job emptied the statistics.         *)
THEOREM AlarmsCorrect == Spec => []AlarmsReal
<1>1. IInv => AlarmsReal
  BY DEF IInv, ChecksInv, CheckOf, FailedForAReason, AlarmsReal, At
<1> QED BY <1>1, Invariance, PTL

(* The overlay's rows are the lines of the platform that have all columns, *)
(* each once, by start and numbered on from the stages' rows, and its      *)
(* comparison says PASS only if no line was left out and none waits.       *)
THEOREM OverlayCorrect == Spec => []OverlayExact
<1>1. OverlayInv => OverlayExact
  <2> DEFINE f == engram.file
             rows == engram.rows
             W == WholeRows(f)
             P == PlatformRows(f)
             named == {n \in 2..Len(f) : f[n].fields >= f[1].platform /\ f[n].platform = Platform}
             waits == {0} \cup {Event(f[n]).visible_wait : n \in W}
  <2> SUFFICES ASSUME OverlayInv, engram.left = << >>, ~NoEvents(f)
               PROVE  /\ ToSet([i \in DOMAIN rows |-> rows[i].source])
                           = {n \in named : f[n].fields >= f[1].fields}
                      /\ \A i, j \in DOMAIN rows : i < j =>
                           /\ rows[i].source # rows[j].source
                           /\ rows[i].event_cycle <= rows[j].event_cycle
                           /\ rows[j].event_id - rows[i].event_id = j - i
                      /\ rows # << >> => rows[1].event_id = StageEvents
                      /\ Loaded(f).platform_rows = Len(rows) + Loaded(f).malformed
                      /\ EngramFailures(Loaded(f), Len(rows)) = {} =>
                           \A n \in named : \E i \in DOMAIN rows :
                             rows[i].source = n /\ Cycle(f[n].visible) = 0
    BY DEF OverlayExact
  <2>1. EventFile(f) /\ f[1].required
    BY DEF OverlayInv
  <2>2. PICK s \in Sorted(f), k \in Nat : WrittenUpTo(s, k)
    BY DEF OverlayInv
  <2>3. /\ rows \in Seq(RowType) /\ Len(rows) = k /\ Len(s) = k
        /\ \A i \in 1..k : rows[i] = TraceRow(f, s[i], StageEvents + (i - 1))
    <3>1. Len(engram.left) = 0
      OBVIOUS
    <3> QED BY <2>2, <3>1 DEF WrittenUpTo
  <2>4. /\ k = Cardinality(W) /\ s \in Seq(W) /\ DOMAIN s = 1..k
        /\ \A i, j \in 1..k : i # j => s[i] # s[j]
        /\ \A n \in W : \E i \in 1..k : s[i] = n
        /\ \A i, j \in 1..k : i < j =>
             Event(f[s[i]]).lookup_start <= Event(f[s[j]]).lookup_start
    <3>1. /\ Len(s) = Cardinality(WholeRows(f)) /\ s \in Seq(WholeRows(f)) /\ DOMAIN s = 1..Len(s)
          /\ \A i, j \in 1..Len(s) : i # j => s[i] # s[j]
          /\ \A n \in WholeRows(f) : \E i \in 1..Len(s) : s[i] = n
          /\ \A i, j \in 1..Len(s) : i < j =>
               Event(f[s[i]]).lookup_start <= Event(f[s[j]]).lookup_start
      BY <2>1, SortedFacts
    <3> QED BY <2>3, <3>1
  <2>5. /\ IsFiniteSet(P) /\ W \subseteq P /\ IsFiniteSet(W)
        /\ W = {n \in named : f[n].fields >= f[1].fields} /\ named \subseteq P
        /\ \A n \in W : /\ Event(f[n]).visible_wait \in Nat
                        /\ Event(f[n]).visible_wait = Cycle(f[n].visible)
    <3>1. /\ IsFiniteSet(P) /\ W \subseteq P /\ IsFiniteSet(W) /\ named \subseteq P
          /\ W = {n \in 2..Len(f) : /\ f[n].fields >= f[1].platform
                                    /\ f[n].platform = Platform
                                    /\ f[n].fields >= f[1].fields}
          /\ \A n \in W : /\ Event(f[n]).visible_wait \in Nat
                          /\ Event(f[n]).visible_wait = Cycle(f[n].visible)
      BY <2>1, LinesFacts
    <3> QED BY <3>1
  <2>6. DOMAIN rows = 1..k
    BY <2>3
  <2>7. \A i \in 1..k : /\ rows[i].source = s[i]
                        /\ rows[i].event_cycle = Event(f[s[i]]).lookup_start
                        /\ rows[i].event_id = StageEvents + (i - 1)
    <3>1. ASSUME NEW n, NEW id
          PROVE  /\ TraceRow(f, n, id).source = n /\ TraceRow(f, n, id).event_id = id
                 /\ TraceRow(f, n, id).event_cycle = Event(f[n]).lookup_start
      BY DEF TraceRow
    <3> QED BY <2>3, <3>1
  <2> HIDE DEF rows, named, W, P, f
  <2>8. ToSet([i \in DOMAIN rows |-> rows[i].source])
          = {n \in named : f[n].fields >= f[1].fields}
    <3> DEFINE sources == [i \in DOMAIN rows |-> rows[i].source]
    <3>1. DOMAIN sources = 1..k /\ \A i \in 1..k : sources[i] = s[i]
      BY <2>6, <2>7
    <3>2. ToSet(sources) = {s[i] : i \in 1..k}
      BY <3>1 DEF ToSet
    <3>3. {s[i] : i \in 1..k} = W
      BY <2>4
    <3> QED BY <2>5, <3>2, <3>3
  <2>9. ASSUME NEW i \in DOMAIN rows, NEW j \in DOMAIN rows, i < j
        PROVE  /\ rows[i].source # rows[j].source
               /\ rows[i].event_cycle <= rows[j].event_cycle
               /\ rows[j].event_id - rows[i].event_id = j - i
    <3>1. i \in 1..k /\ j \in 1..k /\ i # j
      BY <2>6, <2>9
    <3>2. rows[i].source # rows[j].source
      BY <2>4, <2>7, <3>1
    <3>3. rows[i].event_cycle <= rows[j].event_cycle
      BY <2>4, <2>7, <2>9, <3>1
    <3>4. rows[j].event_id - rows[i].event_id = j - i
      BY <2>7, <3>1, AuditRunAssumption
    <3> QED BY <3>2, <3>3, <3>4
  <2>10. rows # << >> => rows[1].event_id = StageEvents
    <3>1. rows # << >> => 1 \in 1..k
      BY <2>3
    <3> QED BY <2>7, <3>1, AuditRunAssumption
  <2>11. /\ Loaded(f).platform_rows = Cardinality(P)
         /\ Loaded(f).malformed = Cardinality(P \ W)
         /\ Loaded(f).max_visible = Max(waits)
    BY DEF Loaded, P, W, f
  <2>12. /\ Cardinality(P \ W) = Cardinality(P) - k /\ IsFiniteSet(P \ W)
         /\ Cardinality(P) \in Nat /\ Cardinality(P \ W) \in Nat
    <3>1. P \cap W = W
      BY <2>5
    <3>2. IsFiniteSet(P \ W) /\ Cardinality(P \ W) = Cardinality(P) - Cardinality(P \cap W)
      BY <2>5, FS_Difference
    <3>3. Cardinality(P) \in Nat /\ Cardinality(P \ W) \in Nat
      BY <2>5, <3>2, FS_CardinalityType
    <3> QED BY <2>4, <3>1, <3>2, <3>3
  <2>13. Loaded(f).platform_rows = Len(rows) + Loaded(f).malformed
    BY <2>3, <2>11, <2>12
  <2>14. ASSUME EngramFailures(Loaded(f), Len(rows)) = {}, NEW n \in named
         PROVE  \E i \in DOMAIN rows : rows[i].source = n /\ Cycle(f[n].visible) = 0
    <3>1. Loaded(f).malformed = 0 /\ Loaded(f).max_visible = 0
      BY <2>14 DEF EngramFailures
    <3>2. P \ W = {}
      BY <2>11, <2>12, <3>1, FS_EmptySet
    <3>3. n \in W
      BY <2>5, <3>2
    <3>4. PICK i \in 1..k : s[i] = n
      BY <2>4, <3>3
    <3>5. IsFiniteSet(waits) /\ waits \subseteq Int /\ waits # {}
      <4> DEFINE wait == [m \in W |-> Event(f[m]).visible_wait]
                 some == {wait[m] : m \in W}
      <4>1. wait \in Surjection(W, some)
        BY DEF Surjection
      <4>2. IsFiniteSet(some)
        BY <2>5, <4>1, FS_Surjection
      <4>3. some = {Event(f[m]).visible_wait : m \in W}
        OBVIOUS
      <4>4. waits = some \cup {0}
        BY <4>3
      <4>5. IsFiniteSet(waits)
        BY <4>2, <4>4, FS_AddElement
      <4> QED BY <2>5, <4>5
    <3>6. \A y \in waits : y <= Max(waits)
      BY <3>5, GreatestIs
    <3>7. Event(f[n]).visible_wait \in waits
      BY <3>3
    <3>8. Cycle(f[n].visible) = 0
      <4>1. Event(f[n]).visible_wait <= 0
        BY <2>11, <3>1, <3>6, <3>7
      <4> QED BY <2>5, <3>3, <4>1
    <3> QED BY <2>6, <2>7, <3>4, <3>8
  <2> QED BY <2>8, <2>9, <2>10, <2>13, <2>14
<1>2. Spec => []OverlayInv
  <2>1. Init => OverlayInv
    BY InitOverlay
  <2>2. OverlayInv /\ [Next]_vars => OverlayInv'
    BY NextOverlay
  <2> QED BY <2>1, <2>2, PTL DEF Spec
<1> QED BY <1>1, <1>2, PTL
=============================================================================
