---------------------------- MODULE SimulatorProofs ----------------------------
(***************************************************************************)
(* Proofs about the simulator around its backends, for all files, tables,  *)
(* models and rates.                                                       *)
(*                                                                         *)
(* The load of the configuration and the run that follows it: the tables   *)
(* are whole, the peak follows from the last values of the system file,    *)
(* and the checkers' parser agrees with the loader.                        *)
(*                                                                         *)
(* The operator trace: the totals that replace its statistics are what was *)
(* collected, and the trace that is written from them adds up to them.     *)
(*                                                                         *)
(* The rows and the sweep: the summaries agree, and the sweep's results    *)
(* are the first best ones.                                                *)
(***************************************************************************)
EXTENDS Reproduction, OperatorTrace, FiniteSetTheorems, WellFoundedInduction, TLAPS

-----------------------------------------------------------------------------
(* Lines.                                                                  *)

(* The data of a file before a line.                                       *)
DataBefore(f, n) == {m \in DataLines(f) : m < n}

(* Line by line the data are counted, and a line of data comes in the row  *)
(* of its count.                                                           *)
LEMMA LinesCount ==
  ASSUME NEW f, Len(f) \in Nat, NEW n \in Nat
  PROVE  /\ IsFiniteSet(DataLines(f)) /\ Cardinality(DataLines(f)) \in Nat
         /\ IsFiniteSet(DataBefore(f, n)) /\ Cardinality(DataBefore(f, n)) \in Nat
         /\ Cardinality(DataBefore(f, n)) <= Cardinality(DataLines(f))
         /\ \A m \in DataLines(f) :
              /\ RowOf(f, m) \in Nat
              /\ m < n => RowOf(f, m) <= Cardinality(DataBefore(f, n))
         /\ n \in DataLines(f) =>
              /\ RowOf(f, n) = Cardinality(DataBefore(f, n)) + 1
              /\ Cardinality(DataBefore(f, n + 1)) = RowOf(f, n)
              /\ RowOf(f, n) <= Cardinality(DataLines(f))
         /\ n \notin DataLines(f) => DataBefore(f, n + 1) = DataBefore(f, n)
         /\ n > Len(f) => DataBefore(f, n) = DataLines(f)
<1> DEFINE D == DataLines(f)
           UpTo(m) == {q \in D : q <= m}
<1>1. IsFiniteSet(D) /\ D \subseteq Nat /\ \A q \in D : q <= Len(f)
  <2>1. 2 \in Int /\ Len(f) \in Int
    OBVIOUS
  <2>2. IsFiniteSet(2..Len(f))
    BY <2>1, FS_Interval
  <2>3. D \in SUBSET (2..Len(f))
    BY DEF DataLines
  <2>4. \A q \in 2..Len(f) : q \in Nat /\ q <= Len(f)
    OBVIOUS
  <2> QED BY <2>2, <2>3, <2>4, FS_Subset
<1>2. \A S \in SUBSET D : IsFiniteSet(S) /\ Cardinality(S) \in Nat /\ Cardinality(S) <= Cardinality(D)
  BY <1>1, FS_Subset, FS_CardinalityType
<1>3. DataBefore(f, n) \in SUBSET D /\ \A m : UpTo(m) \in SUBSET D
  BY DEF DataBefore
<1>4. \A m : RowOf(f, m) = Cardinality(UpTo(m))
  BY DEF RowOf
<1>5. ASSUME NEW m \in D, m < n
      PROVE  RowOf(f, m) <= Cardinality(DataBefore(f, n))
  <2>1. UpTo(m) \in SUBSET DataBefore(f, n)
    BY <1>1, <1>5 DEF DataBefore
  <2>2. IsFiniteSet(DataBefore(f, n))
    BY <1>2, <1>3
  <2>3. RowOf(f, m) = Cardinality(UpTo(m))
    BY <1>4
  <2> HIDE DEF UpTo
  <2> QED BY <2>1, <2>2, <2>3, FS_Subset
<1>6. ASSUME n \in D
      PROVE  /\ RowOf(f, n) = Cardinality(DataBefore(f, n)) + 1
             /\ DataBefore(f, n + 1) = UpTo(n)
  <2>1. UpTo(n) = DataBefore(f, n) \cup {n} /\ n \notin DataBefore(f, n)
    BY <1>1, <1>6 DEF DataBefore
  <2>2. Cardinality(DataBefore(f, n) \cup {n}) = Cardinality(DataBefore(f, n)) + 1
    BY <1>2, <1>3, <2>1, FS_AddElement
  <2>3. DataBefore(f, n + 1) = UpTo(n)
    BY <1>1 DEF DataBefore
  <2>4. RowOf(f, n) = Cardinality(DataBefore(f, n)) + 1
    <3> HIDE DEF UpTo
    <3> QED BY <1>4, <2>1, <2>2
  <2> QED BY <2>3, <2>4
<1>7. n \notin D => DataBefore(f, n + 1) = DataBefore(f, n)
  BY <1>1 DEF DataBefore
<1>8. n > Len(f) => DataBefore(f, n) = D
  BY <1>1 DEF DataBefore
<1> HIDE DEF UpTo
<1> QED BY <1>1, <1>2, <1>3, <1>4, <1>5, <1>6, <1>7, <1>8

-----------------------------------------------------------------------------
(* The invariant of the loaders.                                           *)

(* The files that may be given for option k.                               *)
Entry(k) == IF Loaders[k] = "system" THEN SystemFiles ELSE TableFiles[Loaders[k]]

(* Anything that may be given.                                             *)
AnyFile == {NotGiven, Missing} \cup UNION {Entry(k) : k \in 1..4}

(* Whether the loader of option k has been through with it.                *)
Through(k) == k < Len(files) \/ (k = Len(files) /\ pc \notin {"read", "failed"})

(* The types, and what is given when.                                      *)
LoadTypes ==
  /\ files \in Seq(AnyFile) /\ Len(files) \in 0..4
  /\ \A k \in 1..Len(files) : files[k] \in {NotGiven, Missing} \cup Entry(k)
  /\ tables = [t \in Tables |-> [r \in 1..Rows[t] |-> tables[t][r]]]
  /\ system \in SystemProfile
  /\ line \in Nat /\ row \in Nat
  /\ pc \in {"open", "read", "failed", "simulate", "sweep", "done"}
  /\ pc \in {"read", "failed"} => Len(files) > 0
  /\ pc \in {"simulate", "sweep", "done"} => Len(files) = 4

(* A table is the defaults or the rows of a whole file.                    *)
TableLoaded(t, f) ==
  IF f = NotGiven THEN tables[t] = Defaults[t]
  ELSE WellFormed(t, f) /\ \A n \in DataLines(f) : tables[t][RowOf(f, n)] = f[n].value

(* The peak that a system file asks for.                                   *)
Peak(f) ==
  LET peak == LastValue(f, "npu_peak", DefaultSystem.npu_peak)
  IN  IF peak > 0 THEN peak
      ELSE LastValue(f, "npu_frequency", DefaultSystem.npu_frequency)
             * LastValue(f, "npu_ops_per_cycle", DefaultSystem.npu_ops_per_cycle)

(* The loaders before the one under way are through, those behind it have  *)
(* changed nothing.                                                        *)
Whole ==
  /\ \A k \in 1..4 : Loaders[k] # "system" =>
       /\ k > Len(files) => tables[Loaders[k]] = Defaults[Loaders[k]]
       /\ k <= Len(files) /\ Through(k) => TableLoaded(Loaders[k], files[k])
  /\ Len(files) < 3 => system = DefaultSystem
  /\ Len(files) >= 3 /\ Through(3) => system.npu_peak = Peak(files[3])

(* The file that is being read has lines, its header is passed.            *)
Opened == File \notin {NotGiven, Missing, << >>} /\ line >= 2

(* Half way through a table's file.                                        *)
TableSoFar ==
  /\ row = Cardinality(DataBefore(File, line)) /\ row <= Rows[Loader]
  /\ \A n \in DataBefore(File, line) :
       File[n].columns >= Columns[Loader] /\ tables[Loader][RowOf(File, n)] = File[n].value

PeakKeys == {"npu_frequency", "npu_ops_per_cycle", "npu_peak"}

(* Half way through the system's file: the last value given to a key.      *)
KeySoFar(key) ==
  \/ system[key] = DefaultSystem[key] /\ \A m \in LinesOf(File, key) : m >= line
  \/ \E l \in LinesOf(File, key) :
       /\ l < line /\ system[key] = File[l].value
       /\ \A m \in LinesOf(File, key) : m < line => m <= l

(* The invariant.                                                          *)
LoadInv ==
  /\ LoadTypes /\ Whole
  /\ pc = "read" =>
       /\ Opened
       /\ Loader # "system" => TableSoFar
       /\ Loader = "system" =>
            /\ \A n \in DataBefore(File, line) : File[n].columns >= 2
            /\ \A key \in PeakKeys : KeySoFar(key)
  /\ pc = "failed" => ~WellFormed(Loader, File)

(* The loaders and their options.                                          *)
LEMMA LoaderFacts ==
  /\ Tables = {"models", "platforms", "reference"}
  /\ Loaders[1] = "models" /\ Loaders[2] = "platforms"
  /\ Loaders[3] = "system" /\ Loaders[4] = "reference"
  /\ \A k \in 1..4 : Loaders[k] # "system" => Loaders[k] \in Tables
  /\ \A k \in 1..4 : Loaders[k] = "system" <=> k = 3
  /\ \A j, k \in 1..4 : Loaders[j] = Loaders[k] => j = k
  /\ \A t \in Tables : Columns[t] \in Nat /\ Rows[t] \in Nat
  /\ FileOf("models") = files[1] /\ FileOf("platforms") = files[2]
  /\ FileOf("system") = files[3] /\ FileOf("reference") = files[4]
<1>1. /\ Loaders[1] = "models" /\ Loaders[2] = "platforms"
      /\ Loaders[3] = "system" /\ Loaders[4] = "reference"
  BY DEF Loaders
<1>2. Tables = {"models", "platforms", "reference"}
  BY DEF Tables, Columns
<1>3. \A k \in 1..4 : k = 1 \/ k = 2 \/ k = 3 \/ k = 4
  OBVIOUS
<1>4. \A t \in Tables : Columns[t] \in Nat /\ Rows[t] \in Nat
  BY <1>2, ConfigLoadAssumption DEF Columns, Rows
<1>5. \A j, k \in 1..4 : Loaders[j] = Loaders[k] => j = k
  BY <1>1, <1>3
<1>6. \A k \in 1..4 : FileOf(Loaders[k]) = files[k]
  BY <1>5 DEF FileOf
<1> HIDE DEF Loaders
<1>7. 1 \in 1..4 /\ 2 \in 1..4 /\ 3 \in 1..4 /\ 4 \in 1..4
  OBVIOUS
<1> QED BY <1>1, <1>2, <1>3, <1>4, <1>5, <1>6, <1>7

(* A file that was opened has lines, with columns.                         *)
LEMMA FileFacts ==
  ASSUME LoadTypes, NEW k \in 1..Len(files), files[k] \notin {NotGiven, Missing}
  PROVE  /\ Len(files[k]) \in Nat
         /\ \A n \in DataLines(files[k]) : files[k][n].columns \in Nat
         /\ Loaders[k] = "system" => SystemFile(files[k])
<1>1. k \in 1..4 /\ files[k] \in Entry(k)
  BY DEF LoadTypes
<1> QED BY <1>1, LoaderFacts, ConfigLoadAssumption DEF Entry, SystemFile

-----------------------------------------------------------------------------
(* The steps of the loaders.                                               *)

LEMMA LoadInit == Init => LoadInv
<1> SUFFICES ASSUME Init
             PROVE  LoadInv
  OBVIOUS
<1>1. /\ tables = Defaults /\ system = DefaultSystem /\ files = << >>
      /\ line = 0 /\ row = 0 /\ pc = "open"
  BY DEF Init
<1>2. files \in Seq(AnyFile) /\ Len(files) = 0
  BY <1>1
<1>3. LoadTypes
  BY <1>1, <1>2, ConfigLoadAssumption DEF LoadTypes
<1>4. Whole
  BY <1>1, <1>2, LoaderFacts DEF Whole, Through
<1> QED BY <1>1, <1>3, <1>4 DEF LoadInv

(* What stands when a step goes on in the same file.                       *)
LEMMA SameFiles ==
  ASSUME LoadInv, UNCHANGED <<files, tables, system>>, pc' \notin {"read", "failed"} => Through(Len(files)),
         pc' \in {"read", "failed"} => pc \in {"read", "failed"}
  PROVE  Whole'
<1>1. Whole /\ LoadTypes /\ files' = files /\ tables' = tables /\ system' = system
  BY DEF LoadInv
<1>2. Len(files) \in 0..4
  BY <1>1 DEF LoadTypes
<1>3. \A k \in 1..4 : Through(k)' => Through(k)
  BY <1>1, <1>2 DEF Through
<1>4. \A t, f : TableLoaded(t, f)' = TableLoaded(t, f)
  BY <1>1 DEF TableLoaded
<1> QED BY <1>1, <1>3, <1>4 DEF Whole

LEMMA OpenKeeps == LoadInv /\ Open => LoadInv'
<1> SUFFICES ASSUME LoadInv, Open
             PROVE  LoadInv'
  OBVIOUS
<1> DEFINE k == Len(files) + 1
<1>1. LoadTypes /\ Whole /\ pc = "open" /\ Len(files) < 4
  BY DEF LoadInv, Open
<1>2. PICK f \in {NotGiven, Missing} \cup Entry(k) :
         /\ files' = Append(files, f)
         /\ pc' = IF f = NotGiven THEN "open"
                  ELSE IF f = Missing \/ f = << >> THEN "failed" ELSE "read"
  BY DEF Open, Entry
<1>3. line' = 2 /\ row' = 0 /\ tables' = tables /\ system' = system
  BY DEF Open
<1>4. k \in 1..4 /\ Len(files) \in 0..3 /\ files \in Seq(AnyFile) /\ f \in AnyFile
  BY <1>1, <1>2 DEF LoadTypes, AnyFile
<1>5. /\ files' \in Seq(AnyFile) /\ Len(files') = k /\ files'[k] = f
      /\ \A j \in 1..Len(files) : files'[j] = files[j]
  BY <1>2, <1>4
<1>6. LoadTypes'
  <2>1. \A j \in 1..k : files'[j] \in {NotGiven, Missing} \cup Entry(j)
    <3>1. \A j \in 1..k : j = k \/ j \in 1..Len(files)
      BY <1>4
    <3> QED BY <1>1, <1>2, <1>5, <3>1 DEF LoadTypes
  <2> HIDE DEF k
  <2> QED BY <1>1, <1>2, <1>3, <1>4, <1>5, <2>1 DEF LoadTypes
<1>7. Whole'
  <2>1. ASSUME NEW j \in 1..4, Loaders[j] # "system", j > k
        PROVE  tables'[Loaders[j]] = Defaults[Loaders[j]]
    BY <1>1, <1>3, <1>4, <2>1 DEF Whole
  <2>2. ASSUME NEW j \in 1..4, Loaders[j] # "system", j <= k, Through(j)'
        PROVE  TableLoaded(Loaders[j], files[j])' 
    <3>1. CASE j = k
      <4>1. f = NotGiven
        BY <1>2, <1>4, <1>5, <2>2, <3>1 DEF Through
      <4>2. tables'[Loaders[j]] = Defaults[Loaders[j]]
        BY <1>1, <1>3, <1>4, <2>2, <3>1 DEF Whole
      <4> QED BY <1>5, <3>1, <4>1, <4>2 DEF TableLoaded
    <3>2. CASE j # k
      <4>1. j \in 1..Len(files) /\ Through(j)
        BY <1>1, <1>4, <2>2, <3>2 DEF Through
      <4>2. TableLoaded(Loaders[j], files[j])
        BY <1>1, <2>2, <4>1 DEF Whole
      <4> QED BY <1>3, <1>5, <4>1, <4>2 DEF TableLoaded
    <3> QED BY <3>1, <3>2
  <2>3. k < 3 => system' = DefaultSystem
    BY <1>1, <1>3, <1>4 DEF Whole
  <2>4. ASSUME k >= 3, Through(3)'
        PROVE  system'.npu_peak = Peak(files'[3])
    <3>1. CASE k = 3
      <4>1. f = NotGiven
        BY <1>2, <1>4, <1>5, <2>4, <3>1 DEF Through
      <4>2. system' = DefaultSystem
        BY <1>1, <1>3, <1>4, <3>1 DEF Whole
      <4>3. Peak(f) = DefaultSystem.npu_peak
        BY <4>1, ConfigLoadAssumption DEF Peak, LastValue
      <4> QED BY <1>5, <3>1, <4>2, <4>3
    <3>2. CASE k = 4
      <4>1. Through(3) /\ Len(files) = 3 /\ files'[3] = files[3]
        BY <1>1, <1>4, <1>5, <3>2 DEF Through
      <4> QED BY <1>1, <1>3, <4>1 DEF Whole
    <3> QED BY <1>4, <2>4, <3>1, <3>2
  <2>5. Len(files)' = k
    BY <1>5
  <2> HIDE DEF k
  <2> QED BY <2>1, <2>2, <2>3, <2>4, <2>5 DEF Whole
<1>8. File' = f /\ Loader' = Loaders[k]
  BY <1>5 DEF File, Loader
<1>9. ASSUME pc' = "read"
      PROVE  /\ Opened'
             /\ Loader' # "system" => TableSoFar'
             /\ Loader' = "system" =>
                  /\ \A n \in DataBefore(File, line)' : File'[n].columns >= 2
                  /\ \A key \in PeakKeys : KeySoFar(key)'
  <2>1. f \notin {NotGiven, Missing, << >>}
    BY <1>2, <1>9
  <2>2. DataBefore(f, 2) = {}
    BY DEF DataBefore, DataLines
  <2>3. Opened'
    BY <1>3, <1>8, <2>1 DEF Opened
  <2>4. Loader' # "system" => TableSoFar'
    <3>1. Cardinality({}) = 0
      BY FS_EmptySet
    <3>2. Loader' # "system" => Rows[Loader'] \in Nat
      BY <1>4, <1>8, LoaderFacts
    <3>3. DataBefore(File, line)' = {}
      BY <1>3, <1>8, <2>2 DEF DataBefore
    <3> QED BY <1>3, <3>1, <3>2, <3>3 DEF TableSoFar
  <2>5. ASSUME Loader' = "system", NEW key \in PeakKeys
        PROVE  KeySoFar(key)'
    <3>1. k = 3
      BY <1>4, <1>8, <2>5, LoaderFacts
    <3>2. system' = DefaultSystem
      BY <1>1, <1>3, <1>4, <3>1 DEF Whole
    <3>3. \A m \in LinesOf(f, key) : m >= 2
      BY DEF LinesOf, DataLines
    <3>4. LinesOf(File, key)' = LinesOf(f, key)
      BY <1>8
    <3> QED BY <1>3, <3>2, <3>3, <3>4 DEF KeySoFar
  <2>6. DataBefore(File, line)' = {}
    BY <1>3, <1>8, <2>2 DEF DataBefore
  <2> QED BY <2>3, <2>4, <2>5, <2>6
<1>10. ASSUME pc' = "failed"
       PROVE  ~WellFormed(Loader, File)'
  <2>1. f # NotGiven /\ (f = Missing \/ f = << >>)
    BY <1>2, <1>10
  <2> QED BY <1>8, <2>1 DEF WellFormed
<1> QED BY <1>6, <1>7, <1>9, <1>10 DEF LoadInv

(* A blank line.                                                           *)
LEMMA BlankKeeps == LoadInv /\ SkipBlank => LoadInv'
<1> SUFFICES ASSUME LoadInv, SkipBlank
             PROVE  LoadInv'
  OBVIOUS
<1> DEFINE k == Len(files)
<1>1. /\ pc = "read" /\ pc' = "read" /\ line' = line + 1 /\ row' = row
      /\ UNCHANGED <<tables, system, files>> /\ File[line] = Blank
      /\ File' = File /\ Loader' = Loader
  BY DEF SkipBlank, AtLine, Line, File, Loader
<1>2. LoadTypes /\ Opened /\ k \in 1..k /\ k \in 1..4
  BY <1>1 DEF LoadInv, LoadTypes
<1>3. line \notin DataLines(File) /\ Len(File) \in Nat /\ line \in Nat
  <2>1. Len(File) \in Nat
    BY <1>2, FileFacts DEF File, Opened
  <2> QED BY <1>1, <1>2, <2>1 DEF DataLines, LoadTypes
<1>4. DataBefore(File, line + 1) = DataBefore(File, line)
  BY <1>3, LinesCount
<1>5. LoadTypes'
  BY <1>1, <1>2, <1>3 DEF LoadTypes
<1>6. Whole'
  BY <1>1, SameFiles
<1>7. Opened'
  BY <1>1, <1>2, <1>3 DEF Opened
<1>8. DataBefore(File, line)' = DataBefore(File, line)
  BY <1>1, <1>4 DEF DataBefore
<1>9. Loader # "system" => TableSoFar'
  <2>1. Loader # "system" => TableSoFar
    BY <1>1 DEF LoadInv
  <2> QED BY <1>1, <1>8, <2>1 DEF TableSoFar
<1>10. ASSUME Loader = "system", NEW key \in PeakKeys
       PROVE  KeySoFar(key)'
  <2>1. KeySoFar(key)
    BY <1>1, <1>10 DEF LoadInv
  <2>2. \A m \in LinesOf(File, key) : m \in Nat /\ m # line
    BY <1>3 DEF LinesOf, DataLines
  <2>3. \A m \in LinesOf(File, key) : m < line + 1 <=> m < line
    BY <1>3, <2>2
  <2>4. \A m \in LinesOf(File, key) : m >= line => m >= line + 1
    BY <1>3, <2>2
  <2> QED BY <1>1, <2>1, <2>3, <2>4 DEF KeySoFar
<1> QED BY <1>1, <1>5, <1>6, <1>7, <1>8, <1>9, <1>10 DEF LoadInv

(* A row of a table.                                                       *)
LEMMA ReadRowKeeps == LoadInv /\ ReadRow => LoadInv'
<1> SUFFICES ASSUME LoadInv, ReadRow
             PROVE  LoadInv'
  OBVIOUS
<1> DEFINE k == Len(files)
           t == Loader
<1>1. /\ pc = "read" /\ line <= Len(File) /\ File[line] # Blank /\ t # "system"
      /\ files' = files /\ system' = system /\ File' = File /\ Loader' = Loader
  BY DEF ReadRow, AtLine, Line, File, Loader, Fail
<1>2. LoadTypes /\ Opened /\ TableSoFar /\ Whole /\ k \in 1..k /\ k \in 1..4
  BY <1>1 DEF LoadInv, LoadTypes
<1>3. /\ Len(File) \in Nat /\ line \in Nat /\ line \in DataLines(File)
      /\ File[line].columns \in Nat
  <2>1. Len(File) \in Nat
    BY <1>2, FileFacts DEF File, Opened
  <2>2. line \in DataLines(File)
    BY <1>1, <1>2, <2>1 DEF DataLines, Opened, LoadTypes
  <2>3. File[line].columns \in Nat
    BY <1>2, <2>2, FileFacts DEF File, Opened
  <2> QED BY <1>2, <2>1, <2>2, <2>3 DEF LoadTypes
<1>4. /\ t \in Tables /\ Columns[t] \in Nat /\ Rows[t] \in Nat
      /\ t = Loaders[k]
  BY <1>1, <1>2, LoaderFacts DEF Loader
<1>5. /\ row = Cardinality(DataBefore(File, line)) /\ row \in 0..Rows[t]
      /\ RowOf(File, line) = row + 1
      /\ Cardinality(DataBefore(File, line + 1)) = row + 1
      /\ row + 1 <= Cardinality(DataLines(File)) /\ Cardinality(DataLines(File)) \in Nat
      /\ \A m \in DataBefore(File, line) : RowOf(File, m) \in Nat /\ RowOf(File, m) <= row
  <2>1. row = Cardinality(DataBefore(File, line)) /\ row <= Rows[t] /\ row \in Nat
    BY <1>2 DEF TableSoFar, LoadTypes
  <2>2. /\ RowOf(File, line) = Cardinality(DataBefore(File, line)) + 1
        /\ Cardinality(DataBefore(File, line + 1)) = RowOf(File, line)
        /\ RowOf(File, line) <= Cardinality(DataLines(File))
        /\ Cardinality(DataLines(File)) \in Nat
        /\ \A m \in DataLines(File) :
             RowOf(File, m) \in Nat
             /\ (m < line => RowOf(File, m) <= Cardinality(DataBefore(File, line)))
    BY <1>3, LinesCount
  <2>3. row \in 0..Rows[t]
    BY <1>4, <2>1
  <2>4. \A m \in DataBefore(File, line) : m \in DataLines(File) /\ m < line
    BY DEF DataBefore
  <2> HIDE DEF t
  <2> QED BY <2>1, <2>2, <2>3, <2>4
<1>6. CASE TableFull \/ Split(File[line], Columns[t]) # Columns[t]
  <2>1. /\ pc' = "failed" /\ line' = line /\ row' = row /\ UNCHANGED <<tables, system, files>>
    BY <1>1, <1>6 DEF ReadRow, Line, Fail
  <2>2. ~WellFormed(t, File)
    <3>1. File \notin {NotGiven, Missing}
      BY <1>2 DEF Opened
    <3>2. CASE TableFull
      BY <1>1, <1>4, <1>5, <3>1, <3>2 DEF WellFormed, TableFull
    <3>3. CASE Split(File[line], Columns[t]) # Columns[t]
      <4>1. ~(File[line].columns >= Columns[t])
        BY <1>3, <1>4, <3>3 DEF Split
      <4> HIDE DEF t
      <4> QED BY <1>1, <1>3, <3>1, <4>1 DEF WellFormed
    <3> QED BY <1>6, <3>2, <3>3
  <2>3. LoadTypes'
    BY <1>1, <1>2, <2>1 DEF LoadTypes
  <2>4. Whole'
    BY <1>1, <2>1, SameFiles
  <2> QED BY <1>1, <2>1, <2>2, <2>3, <2>4 DEF LoadInv
<1>7. CASE ~TableFull /\ Split(File[line], Columns[t]) = Columns[t]
  <2>1. /\ pc' = "read" /\ line' = line + 1 /\ row' = row + 1
        /\ tables' = [tables EXCEPT ![t][row + 1] = File[line].value]
    BY <1>1, <1>7 DEF ReadRow, Line
  <2>2. row + 1 \in 1..Rows[t]
    BY <1>4, <1>5, <1>7 DEF TableFull
  <2>3. File[line].columns >= Columns[t]
    BY <1>3, <1>4, <1>7 DEF Split
  <2> HIDE DEF t
  <2>4. /\ tables' = [u \in Tables |-> [r \in 1..Rows[u] |-> tables'[u][r]]]
        /\ tables'[t][row + 1] = File[line].value
        /\ \A r \in 1..Rows[t] \ {row + 1} : tables'[t][r] = tables[t][r]
        /\ \A u \in Tables \ {t} : tables'[u] = tables[u]
    <3>1. /\ tables = [u \in Tables |-> tables[u]]
          /\ \A u \in Tables : tables[u] = [r \in 1..Rows[u] |-> tables[u][r]]
      BY <1>2 DEF LoadTypes
    <3>2. DOMAIN tables = Tables /\ DOMAIN tables[t] = 1..Rows[t]
      BY <1>4, <3>1
    <3>3. tables'[t] = [tables[t] EXCEPT ![row + 1] = File[line].value]
      BY <1>4, <2>1, <3>2
    <3>4. \A u \in Tables \ {t} : tables'[u] = tables[u]
      BY <2>1, <3>2
    <3>5. /\ tables'[t][row + 1] = File[line].value
          /\ \A r \in 1..Rows[t] \ {row + 1} : tables'[t][r] = tables[t][r]
          /\ tables'[t] = [r \in 1..Rows[t] |-> tables'[t][r]]
      BY <2>2, <3>2, <3>3
    <3>6. \A u \in Tables : tables'[u] = [r \in 1..Rows[u] |-> tables'[u][r]]
      BY <3>1, <3>4, <3>5
    <3>7. tables' = [u \in Tables |-> tables'[u]]
      BY <2>1, <3>1
    <3> QED BY <3>4, <3>5, <3>6, <3>7
  <2>5. LoadTypes'
    BY <1>1, <1>2, <1>3, <2>1, <2>4 DEF LoadTypes
  <2>6. Whole'
    <3>1. Len(files)' = k /\ k \in 1..4 /\ \A j : Through(j)' = Through(j)
      BY <1>1, <1>2, <2>1 DEF Through
    <3>2. \A j \in 1..4 : Loaders[j] # "system" /\ j # k => tables'[Loaders[j]] = tables[Loaders[j]]
      BY <1>2, <1>4, <2>4, LoaderFacts
    <3>3. ~Through(k)
      BY <1>1, <1>2 DEF Through
    <3>4. ASSUME NEW j \in 1..4, Loaders[j] # "system", j <= k, Through(j)
          PROVE  TableLoaded(Loaders[j], files[j])'
      <4>1. j # k /\ TableLoaded(Loaders[j], files[j])
        BY <1>2, <3>3, <3>4 DEF Whole
      <4> QED BY <1>1, <3>2, <3>4, <4>1 DEF TableLoaded
    <3>5. ASSUME NEW j \in 1..4, Loaders[j] # "system", j > k
          PROVE  tables'[Loaders[j]] = Defaults[Loaders[j]]
      <4>1. tables[Loaders[j]] = Defaults[Loaders[j]]
        BY <1>2, <3>5 DEF Whole
      <4>2. j # k
        BY <1>2, <3>5
      <4> HIDE DEF k
      <4> QED BY <3>2, <3>5, <4>1, <4>2
    <3>6. Len(files) < 3 => system' = DefaultSystem
      BY <1>1, <1>2 DEF Whole
    <3>7. Len(files) >= 3 /\ Through(3) => system'.npu_peak = Peak(files[3])
      BY <1>1, <1>2 DEF Whole
    <3> QED BY <1>1, <3>1, <3>4, <3>5, <3>6, <3>7 DEF Whole
  <2>7. TableSoFar'
    <3>1. DataBefore(File, line)' = DataBefore(File, line + 1)
      BY <1>1, <2>1
    <3>2. ASSUME NEW n \in DataBefore(File, line + 1)
          PROVE  File[n].columns >= Columns[t] /\ tables'[t][RowOf(File, n)] = File[n].value
      <4>1. CASE n = line
        BY <1>5, <2>3, <2>4, <4>1
      <4>2. CASE n # line
        <5>1. n \in DataBefore(File, line)
          BY <1>3, <3>2, <4>2 DEF DataBefore, DataLines
        <5>2. File[n].columns >= Columns[t] /\ tables[t][RowOf(File, n)] = File[n].value
          BY <1>2, <5>1 DEF TableSoFar, t
        <5>3. RowOf(File, n) \in 1..Rows[t] \ {row + 1}
          <6>1. RowOf(File, n) \in Nat \ {0}
            <7>1. n \in DataLines(File) /\ n \in Nat
              BY <5>1 DEF DataBefore, DataLines
            <7>2. RowOf(File, n) = Cardinality(DataBefore(File, n)) + 1
                  /\ Cardinality(DataBefore(File, n)) \in Nat
              BY <1>3, <7>1, LinesCount
            <7> QED BY <7>2
          <6>2. RowOf(File, n) <= row
            BY <1>5, <5>1
          <6> QED BY <1>4, <1>5, <6>1, <6>2 DEF t
        <5> QED BY <2>4, <5>2, <5>3
      <4> QED BY <4>1, <4>2
    <3>3. row' = Cardinality(DataBefore(File, line + 1)) /\ row' <= Rows[t]
      BY <1>4, <1>5, <2>1, <2>2 DEF t
    <3>4. File' = File /\ Loader' = t
      BY <1>1 DEF t
    <3> QED BY <3>1, <3>2, <3>3, <3>4 DEF TableSoFar
  <2>8. Opened'
    BY <1>1, <1>2, <1>3, <2>1 DEF Opened
  <2> QED BY <1>1, <2>1, <2>5, <2>6, <2>7, <2>8 DEF LoadInv, t
<1> QED BY <1>6, <1>7

(* The end of a table's file.                                              *)
LEMMA EndTableKeeps == LoadInv /\ EndTable => LoadInv'
<1> SUFFICES ASSUME LoadInv, EndTable
             PROVE  LoadInv'
  OBVIOUS
<1> DEFINE k == Len(files)
<1>1. /\ pc = "read" /\ line > Len(File) /\ Loader # "system"
      /\ UNCHANGED <<tables, system, files, line, row>> /\ File' = File /\ Loader' = Loader
      /\ pc' = IF row = Rows[Loader] THEN "open" ELSE "failed"
  BY DEF EndTable, AtEnd, File, Loader
<1>2. LoadTypes /\ Opened /\ TableSoFar /\ Whole /\ k \in 1..k /\ k \in 1..4
  BY <1>1 DEF LoadInv, LoadTypes
<1>3. Len(File) \in Nat /\ line \in Nat
  BY <1>2, FileFacts DEF File, Opened, LoadTypes
<1>4. DataBefore(File, line) = DataLines(File)
  BY <1>1, <1>3, LinesCount
<1>5. LoadTypes'
  BY <1>1, <1>2 DEF LoadTypes
<1>6. Loader = Loaders[k] /\ File = files[k] /\ File \notin {NotGiven, Missing, << >>}
  BY <1>2 DEF Loader, File, Opened
<1>7. CASE row # Rows[Loader]
  <2>1. ~WellFormed(Loader, File)
    BY <1>1, <1>2, <1>4, <1>6, <1>7 DEF WellFormed, TableSoFar
  <2>2. Whole'
    BY <1>1, <1>7, SameFiles
  <2> QED BY <1>1, <1>5, <1>7, <2>1, <2>2 DEF LoadInv
<1>8. CASE row = Rows[Loader]
  <2>1. TableLoaded(Loader, File)
    BY <1>1, <1>2, <1>4, <1>6, <1>8 DEF TableLoaded, WellFormed, TableSoFar
  <2>2. Whole'
    <3>1. \A j \in 1..4 : j <= k /\ Through(j)' => j = k \/ Through(j)
      BY <1>1, <1>2 DEF Through
    <3>2. ASSUME NEW j \in 1..4, Loaders[j] # "system", j <= k, Through(j)'
          PROVE  TableLoaded(Loaders[j], files[j])'
      <4>1. TableLoaded(Loaders[j], files[j])
        <5>1. CASE j = k
          BY <1>6, <2>1, <5>1
        <5>2. CASE j # k
          BY <1>2, <3>1, <3>2, <5>2 DEF Whole
        <5> QED BY <5>1, <5>2
      <4> QED BY <1>1, <4>1 DEF TableLoaded
    <3>3. k # 3
      BY <1>1, <1>2, <1>6, LoaderFacts
    <3>4. k >= 3 /\ Through(3)' => Through(3)
      BY <1>1, <1>2, <3>3 DEF Through
    <3> QED BY <1>1, <1>2, <3>2, <3>4 DEF Whole
  <2> QED BY <1>1, <1>5, <1>8, <2>2 DEF LoadInv
<1> QED BY <1>7, <1>8

(* A setting of the system.                                                *)
LEMMA ReadKeyKeeps == LoadInv /\ ReadKey => LoadInv'
<1> SUFFICES ASSUME LoadInv, ReadKey
             PROVE  LoadInv'
  OBVIOUS
<1> DEFINE k == Len(files)
           l == File[line]
<1>1. /\ pc = "read" /\ line <= Len(File) /\ File[line] # Blank /\ Loader = "system"
      /\ files' = files /\ tables' = tables /\ row' = row /\ File' = File /\ Loader' = Loader
  BY DEF ReadKey, AtLine, Line, File, Loader, Fail
<1>2. /\ LoadTypes /\ Opened /\ Whole /\ k \in 1..k /\ k \in 1..4
      /\ \A n \in DataBefore(File, line) : File[n].columns >= 2
      /\ \A key \in PeakKeys : KeySoFar(key)
  BY <1>1 DEF LoadInv, LoadTypes
<1>3. k = 3
  BY <1>1, <1>2, LoaderFacts DEF Loader
<1>4. /\ Len(File) \in Nat /\ line \in Nat /\ line \in DataLines(File)
      /\ l.columns \in Nat /\ (l.columns >= 2 => l.value \in Int)
  <2>1. SystemFile(File)
    BY <1>1, <1>2, FileFacts DEF File, Loader, Opened
  <2>2. line \in DataLines(File)
    BY <1>1, <1>2, <2>1 DEF DataLines, Opened, LoadTypes, SystemFile
  <2> QED BY <1>2, <2>1, <2>2 DEF LoadTypes, SystemFile
<1>5. CASE Split(l, 2) # 2
  <2>1. /\ pc' = "failed" /\ line' = line /\ UNCHANGED <<tables, system, files>>
    BY <1>1, <1>5 DEF ReadKey, Line, Fail
  <2>2. ~(l.columns >= 2)
    BY <1>4, <1>5 DEF Split
  <2>3. ~WellFormed(Loader, File)
    BY <1>1, <1>2, <1>4, <2>2 DEF WellFormed, Opened
  <2>4. LoadTypes'
    BY <1>1, <1>2, <2>1 DEF LoadTypes
  <2>5. Whole'
    BY <1>1, <2>1, SameFiles
  <2> QED BY <1>1, <2>1, <2>3, <2>4, <2>5 DEF LoadInv
<1>6. CASE Split(l, 2) = 2
  <2>1. /\ pc' = "read" /\ line' = line + 1
        /\ system' = IF l.key \in DOMAIN system THEN [system EXCEPT ![l.key] = l.value]
                                                ELSE system
    BY <1>1, <1>6 DEF ReadKey, Line, SetKey
  <2>2. l.columns >= 2 /\ l.value \in Int
    BY <1>4, <1>6 DEF Split
  <2> HIDE DEF l
  <2>3. DOMAIN system = PeakKeys \cup {"context_tokens"} /\ system \in SystemProfile
    BY <1>2 DEF LoadTypes, SystemProfile, PeakKeys
  <2>4. /\ system' \in SystemProfile
        /\ \A key \in PeakKeys : system'[key] = IF l.key = key THEN l.value ELSE system[key]
    BY <2>1, <2>2, <2>3 DEF SystemProfile, PeakKeys
  <2>5. LoadTypes'
    BY <1>1, <1>2, <1>4, <2>1, <2>4 DEF LoadTypes
  <2>6. Whole'
    <3>1. Len(files)' = k /\ \A j : Through(j)' = Through(j)
      BY <1>1, <2>1 DEF Through
    <3>2. ~Through(3)
      BY <1>1, <1>3 DEF Through
    <3>3. \A t, f : TableLoaded(t, f)' = TableLoaded(t, f)
      BY <1>1 DEF TableLoaded
    <3> QED BY <1>1, <1>2, <1>3, <3>1, <3>2, <3>3 DEF Whole
  <2>7. ASSUME NEW n \in DataBefore(File, line + 1)
        PROVE  File[n].columns >= 2
    <3>1. n = line \/ n \in DataBefore(File, line)
      BY <1>4 DEF DataBefore, DataLines
    <3> QED BY <1>2, <2>2, <3>1 DEF l
  <2>8. ASSUME NEW key \in PeakKeys
        PROVE  KeySoFar(key)'
    <3>1. KeySoFar(key)
      BY <1>2
    <3>2. \A m \in LinesOf(File, key) : m \in Nat
      BY <1>4 DEF LinesOf, DataLines
    <3>3. system'[key] = IF l.key = key THEN l.value ELSE system[key]
      BY <2>4
    <3>4. CASE l.key = key
      <4>1. line \in LinesOf(File, key)
        BY <1>4, <3>4 DEF LinesOf, l
      <4>2. line < line + 1 /\ \A m \in LinesOf(File, key) : m < line + 1 => m <= line
        BY <1>4, <3>2
      <4> QED BY <1>1, <2>1, <3>3, <3>4, <4>1, <4>2 DEF KeySoFar, l
    <3>5. CASE l.key # key
      <4>1. \A m \in LinesOf(File, key) : m # line
        BY <3>5 DEF LinesOf, l
      <4>2. \A m \in LinesOf(File, key) : (m < line + 1 <=> m < line) /\ (m >= line => m >= line + 1)
        BY <1>4, <3>2, <4>1
      <4>3. system'[key] = system[key]
        BY <3>3, <3>5
      <4> QED BY <1>1, <2>1, <3>1, <4>2, <4>3 DEF KeySoFar
    <3> QED BY <3>4, <3>5
  <2>9. Opened'
    BY <1>1, <1>2, <1>4, <2>1 DEF Opened
  <2>10. DataBefore(File, line)' = DataBefore(File, line + 1)
    BY <1>1, <2>1
  <2> QED BY <1>1, <2>1, <2>5, <2>6, <2>7, <2>8, <2>9, <2>10 DEF LoadInv
<1> QED BY <1>5, <1>6

(* What was last given to a key is its last value in the file.             *)
LEMMA LastIsLast ==
  ASSUME LoadTypes, Opened, pc = "read", line > Len(File), NEW key \in PeakKeys,
         KeySoFar(key)
  PROVE  system[key] = LastValue(File, key, DefaultSystem[key])
<1> DEFINE L == LinesOf(File, key)
<1>1. File # NotGiven /\ line \in Nat /\ Len(File) \in Nat
  <2>1. Len(files) \in 1..Len(files)
    BY DEF LoadTypes
  <2> QED BY <2>1, FileFacts DEF File, Opened, LoadTypes
<1>2. \A m \in L : m \in Nat /\ m < line
  BY <1>1 DEF LinesOf, DataLines
<1>3. CASE system[key] = DefaultSystem[key] /\ \A m \in L : m >= line
  <2>1. L = {}
    BY <1>1, <1>2, <1>3
  <2> QED BY <1>3, <2>1 DEF LastValue
<1>4. CASE \E l \in L : system[key] = File[l].value /\ \A m \in L : m < line => m <= l
  <2>1. PICK l \in L : system[key] = File[l].value /\ \A m \in L : m <= l
    BY <1>2, <1>4
  <2>2. (CHOOSE n \in L : \A m \in L : m <= n) = l
    <3>1. \A n \in L : (\A m \in L : m <= n) => n = l
      BY <1>2, <2>1
    <3> HIDE DEF L
    <3> QED BY <2>1, <3>1
  <2>3. L # {}
    BY <2>1
  <2> QED BY <1>1, <2>1, <2>2, <2>3 DEF LastValue
<1> QED BY <1>3, <1>4 DEF KeySoFar

(* The end of the system's file.                                           *)
LEMMA EndSystemKeeps == LoadInv /\ EndSystem => LoadInv'
<1> SUFFICES ASSUME LoadInv, EndSystem
             PROVE  LoadInv'
  OBVIOUS
<1> DEFINE k == Len(files)
<1>1. /\ pc = "read" /\ line > Len(File) /\ Loader = "system"
      /\ UNCHANGED <<tables, files, line, row>> /\ pc' = "open"
      /\ system' = IF system.npu_peak <= 0 THEN [system EXCEPT !.npu_peak = Derived(system)]
                                           ELSE system
  BY DEF EndSystem, AtEnd
<1>2. /\ LoadTypes /\ Opened /\ Whole /\ k \in 1..k /\ k \in 1..4
      /\ \A key \in PeakKeys : KeySoFar(key)
  BY <1>1 DEF LoadInv, LoadTypes
<1>3. k = 3 /\ File = files[3]
  BY <1>1, <1>2, LoaderFacts DEF Loader, File
<1>4. system \in SystemProfile /\ DefaultSystem \in SystemProfile
  BY <1>2, ConfigLoadAssumption DEF LoadTypes
<1>5. /\ system' \in SystemProfile
      /\ system'.npu_peak = IF system.npu_peak > 0 THEN system.npu_peak ELSE Derived(system)
  <2>1. Derived(system) \in Int /\ system.npu_peak \in Int
    BY <1>4 DEF SystemProfile, Derived
  <2>2. ASSUME NEW d \in Int
        PROVE  /\ [system EXCEPT !.npu_peak = d] \in SystemProfile
               /\ [system EXCEPT !.npu_peak = d].npu_peak = d
    BY <1>4 DEF SystemProfile
  <2>3. system.npu_peak > 0 <=> ~(system.npu_peak <= 0)
    BY <2>1
  <2> QED BY <1>1, <1>4, <2>1, <2>2, <2>3
<1>6. LoadTypes'
  BY <1>1, <1>2, <1>5 DEF LoadTypes
<1>7. system'.npu_peak = Peak(File)
  <2>1. \A key \in PeakKeys : system[key] = LastValue(File, key, DefaultSystem[key])
    BY <1>1, <1>2, LastIsLast
  <2>2. /\ system.npu_peak = system["npu_peak"] /\ system.npu_frequency = system["npu_frequency"]
        /\ system.npu_ops_per_cycle = system["npu_ops_per_cycle"]
        /\ DefaultSystem.npu_peak = DefaultSystem["npu_peak"]
        /\ DefaultSystem.npu_frequency = DefaultSystem["npu_frequency"]
        /\ DefaultSystem.npu_ops_per_cycle = DefaultSystem["npu_ops_per_cycle"]
    BY <1>4 DEF SystemProfile
  <2> QED BY <1>5, <2>1, <2>2 DEF Peak, Derived, PeakKeys
<1>8. Whole'
  <2>1. \A j \in 1..4 : j # 3 => Through(j)' = Through(j)
    BY <1>1, <1>3 DEF Through
  <2>2. \A t, f : TableLoaded(t, f)' = TableLoaded(t, f)
    BY <1>1 DEF TableLoaded
  <2> QED BY <1>1, <1>2, <1>3, <1>7, <2>1, <2>2, LoaderFacts DEF Whole
<1> QED BY <1>1, <1>6, <1>8 DEF LoadInv

(* The steps that only move on.                                            *)
LEMMA MoveKeeps ==
  ASSUME LoadInv, UNCHANGED <<tables, system, files, line, row>>,
         \/ pc = "open" /\ Len(files) = 4 /\ pc' = "simulate"
         \/ pc = "simulate" /\ pc' = "sweep"
         \/ pc = "sweep" /\ pc' = "done"
         \/ pc' = pc
  PROVE  LoadInv'
<1>1. LoadTypes /\ Whole
  BY DEF LoadInv
<1>2. LoadTypes'
  BY <1>1 DEF LoadTypes
<1>3. \A k \in 1..4 : Through(k)' = Through(k)
  BY DEF Through
<1>4. \A t, f : TableLoaded(t, f)' = TableLoaded(t, f)
  BY DEF TableLoaded
<1>5. Whole'
  BY <1>1, <1>3, <1>4 DEF Whole
<1>6. CASE pc' = pc
  <2>1. /\ Opened' = Opened /\ Loader' = Loader /\ File' = File
        /\ TableSoFar' = TableSoFar /\ \A key : KeySoFar(key)' = KeySoFar(key)
        /\ DataBefore(File, line)' = DataBefore(File, line)
    BY DEF Opened, Loader, File, TableSoFar, KeySoFar, DataBefore
  <2> QED BY <1>2, <1>5, <1>6, <2>1 DEF LoadInv
<1>7. CASE pc' \in {"simulate", "sweep", "done"}
  BY <1>2, <1>5, <1>7 DEF LoadInv
<1> QED BY <1>6, <1>7

LEMMA LoadStep == LoadInv /\ [ReproductionNext]_<<vars, rvars>> => LoadInv'
<1> SUFFICES ASSUME LoadInv, [ReproductionNext]_<<vars, rvars>>
             PROVE  LoadInv'
  OBVIOUS
<1>1. CASE Open \/ SkipBlank \/ ReadRow \/ EndTable \/ ReadKey \/ EndSystem
  BY <1>1, OpenKeeps, BlankKeeps, ReadRowKeeps, EndTableKeeps, ReadKeyKeeps, EndSystemKeeps
<1>2. CASE Simulate
  BY <1>2, MoveKeeps DEF Simulate
<1>3. CASE BeginSweep \/ EndSweep
  BY <1>3, MoveKeeps DEF BeginSweep, EndSweep
<1>4. CASE UNCHANGED vars
  BY <1>4, MoveKeeps DEF vars
<1> QED BY <1>1, <1>2, <1>3, <1>4
        DEF ReproductionNext, Load, SimulateRow, SweepContext, ReproductionTerminated

LEMMA LoadInvariance == ReproductionSpec => []LoadInv
<1>1. ReproductionInit => LoadInv
  BY LoadInit DEF ReproductionInit
<1> QED BY <1>1, LoadStep, PTL DEF ReproductionSpec

-----------------------------------------------------------------------------
(* The theorems.                                                           *)

(* A program that goes on has whole tables, each its defaults or its       *)
(* file's rows, and one that fails was given a file that is at fault.      *)
THEOREM TablesWhole == ReproductionSpec => []AllOrNothing
<1>1. ASSUME LoadInv
      PROVE  AllOrNothing
  <2>1. ASSUME Loaded, NEW t \in Tables
        PROVE  IF FileOf(t) = NotGiven
               THEN tables[t] = Defaults[t]
               ELSE /\ WellFormed(t, FileOf(t))
                    /\ \A n \in DataLines(FileOf(t)) :
                         tables[t][RowOf(FileOf(t), n)] = FileOf(t)[n].value
    <3>1. pc \notin {"read", "failed"} /\ Len(files) = 4
      BY <1>1, <2>1 DEF LoadInv, LoadTypes, Loaded
    <3>2. PICK k \in {1, 2, 4} : Loaders[k] = t /\ t # "system" /\ FileOf(t) = files[k]
      BY <2>1, LoaderFacts
    <3>3. k \in 1..4 /\ k <= Len(files) /\ Through(k)
      BY <3>1, <3>2 DEF Through
    <3>4. TableLoaded(t, files[k])
      BY <1>1, <3>2, <3>3 DEF LoadInv, Whole
    <3> QED BY <3>2, <3>4 DEF TableLoaded
  <2>2. pc = "failed" => ~WellFormed(Loader, File)
    BY <1>1 DEF LoadInv
  <2> QED BY <2>1, <2>2 DEF AllOrNothing
<1> QED BY <1>1, LoadInvariance, PTL

(* The peak that is simulated follows from the last value of each key.     *)
THEOREM PeakCorrect == ReproductionSpec => []PeakOfLastValues
<1>1. ASSUME LoadInv
      PROVE  PeakOfLastValues
  <2> SUFFICES ASSUME Loaded
               PROVE  system.npu_peak = Peak(FileOf("system"))
    BY DEF PeakOfLastValues, Peak
  <2>1. Len(files) = 4 /\ Through(3)
    <3>1. LoadTypes
      BY <1>1 DEF LoadInv
    <3>2. Len(files) = 4
      BY <3>1 DEF LoadTypes, Loaded
    <3> QED BY <3>2 DEF Through
  <2> QED BY <1>1, <2>1, LoaderFacts DEF LoadInv, Whole
<1> QED BY <1>1, LoadInvariance, PTL

-----------------------------------------------------------------------------
(* The checkers' parser.                                                   *)

(* If the first 14 columns are tokens, they are the first 14 tokens.       *)
LEMMA TokensInPlace ==
  ASSUME NEW l, l.columns \in Nat, 1..14 \subseteq Tokens(l), NEW k \in 1..14
  PROVE  Token(l, k) = k
<1> DEFINE T == Tokens(l)
           UpTo(n) == {m \in T : m <= n}
<1>1. T \subseteq 1..l.columns /\ \A n \in T : n \in Nat \ {0}
  BY DEF Tokens
<1>2. IsFiniteSet(1..l.columns)
  <2>1. 1 \in Int /\ l.columns \in Int
    OBVIOUS
  <2> QED BY <2>1, FS_Interval
<1>3. \A n : IsFiniteSet(UpTo(n))
  <2>1. \A n : UpTo(n) \in SUBSET (1..l.columns)
    BY <1>1
  <2> QED BY <1>2, <2>1, FS_Subset
<1>4. ASSUME NEW n \in 1..14
      PROVE  UpTo(n) = 1..n /\ Cardinality(UpTo(n)) = n
  <2>1. UpTo(n) = 1..n
    <3>1. ASSUME NEW m \in 1..n
          PROVE  m \in UpTo(n)
      <4>1. m \in 1..14 /\ m <= n
        OBVIOUS
      <4> QED BY <4>1
    <3>2. ASSUME NEW m \in UpTo(n)
          PROVE  m \in 1..n
      BY <1>1, <3>2
    <3> HIDE DEF UpTo
    <3> QED BY <3>1, <3>2
  <2>2. 1 \in Int /\ n \in Int /\ ~(1 > n)
    OBVIOUS
  <2>3. Cardinality(1..n) = n - 1 + 1
    BY <2>2, FS_Interval
  <2> HIDE DEF UpTo
  <2> QED BY <2>1, <2>3
<1>5. ASSUME NEW n \in T, Cardinality(UpTo(n)) = k
      PROVE  n = k
  <2>1. CASE n < k
    <3>1. n \in 1..14
      BY <1>1, <2>1
    <3>2. Cardinality(UpTo(n)) = n
      BY <1>4, <3>1
    <3> HIDE DEF UpTo
    <3> QED BY <1>5, <3>2
  <2>2. CASE n > k
    <3>1. UpTo(k) \cup {n} \in SUBSET UpTo(n)
      BY <1>1, <2>2
    <3>2. n \notin UpTo(k)
      BY <1>1, <2>2
    <3>3. Cardinality(UpTo(k) \cup {n}) = Cardinality(UpTo(k)) + 1
      BY <1>3, <3>2, FS_AddElement
    <3>4. Cardinality(UpTo(k) \cup {n}) <= Cardinality(UpTo(n))
      BY <1>3, <3>1, FS_Subset
    <3>5. Cardinality(UpTo(k)) = k
      BY <1>4
    <3> HIDE DEF UpTo
    <3> QED BY <1>5, <3>3, <3>4, <3>5
  <2>3. n < k \/ n = k \/ n > k
    BY <1>1
  <2> QED BY <2>1, <2>2, <2>3
<1>6. k \in T /\ Cardinality(UpTo(k)) = k
  BY <1>4
<1>7. Token(l, k) = CHOOSE n \in T : Cardinality(UpTo(n)) = k
  BY DEF Token
<1> HIDE DEF T, UpTo
<1> QED BY <1>5, <1>6, <1>7

(* What the checkers accept they read as the simulator does, unless a      *)
(* surplus column makes up for an empty one.                               *)
THEOREM CheckerReadsAlike == ReproductionSpec => []CheckerAgrees
<1>1. ASSUME LoadInv, AllOrNothing
      PROVE  CheckerAgrees
  <2> DEFINE f == FileOf("platforms")
             l == f[2]
  <2> SUFFICES ASSUME pc = "done", f # NotGiven, ParsePlatform(f) # << >>
               PROVE  /\ l = f[Min(DataLines(f))]
                      /\ \/ ParsePlatform(f) = [n \in 1..14 |-> n]
                         \/ l.columns > 19 /\ l.empty \cap 1..14 # {}
    <3>1. Columns.platforms = 19
      BY DEF Columns
    <3> HIDE DEF f
    <3> QED BY <3>1 DEF CheckerAgrees, f
  <2>1. LoadTypes /\ Len(files) = 4 /\ f = files[2] /\ Loaders[2] = "platforms"
    BY <1>1, LoaderFacts DEF LoadInv, LoadTypes
  <2>2. f # Missing /\ \A n \in DataLines(f) : f[n].columns >= 19
    <3>1. "platforms" \in Tables /\ Columns["platforms"] = 19
      BY LoaderFacts DEF Columns
    <3>2. WellFormed("platforms", f)
      BY <1>1, <3>1 DEF AllOrNothing, Loaded
    <3> HIDE DEF f
    <3> QED BY <3>1, <3>2 DEF WellFormed
  <2>3. Len(f) \in Nat /\ \A n \in DataLines(f) : f[n].columns \in Nat
    <3>1. 2 \in 1..Len(files)
      BY <2>1
    <3> QED BY <2>1, <2>2, <3>1, FileFacts
  <2> HIDE DEF f
  <2>4. Len(f) >= 2 /\ ~(Cardinality(Tokens(l)) < 19) /\ ParsePlatform(f) = First14(l)
    BY <2>3 DEF ParsePlatform
  <2>5. l # Blank
    <3> SUFFICES ASSUME l = Blank PROVE FALSE
      OBVIOUS
    <3>1. Tokens(l) = {}
      BY DEF Tokens
    <3>2. Cardinality(Tokens(l)) = 0
      BY <3>1, FS_EmptySet
    <3> HIDE DEF l
    <3> QED BY <2>4, <3>2
  <2>6. 2 \in DataLines(f) /\ \A n \in DataLines(f) : n \in Nat /\ 2 <= n
    BY <2>3, <2>4, <2>5 DEF DataLines
  <2>7. Min(DataLines(f)) = 2
    BY <2>6 DEF Min
  <2>8. l.columns \in Nat /\ l.columns >= 19
    BY <2>2, <2>3, <2>6
  <2> HIDE DEF l
  <2>9. ASSUME l.columns = 19 \/ l.empty \cap 1..14 = {}
        PROVE  1..14 \subseteq Tokens(l)
    <3>1. Tokens(l) = (1..l.columns) \ l.empty
      BY <2>5 DEF Tokens
    <3>2. CASE l.columns = 19
      <4>1. Tokens(l) \in SUBSET (1..19)
        BY <3>1, <3>2
      <4>2. 1 \in Int /\ 19 \in Int
        OBVIOUS
      <4>3. IsFiniteSet(1..19) /\ Cardinality(1..19) = IF 1 > 19 THEN 0 ELSE 19 - 1 + 1
        BY <4>2, FS_Interval
      <4>4. Cardinality(1..19) = 19
        BY <4>3
      <4>5. /\ Cardinality(Tokens(l)) <= 19 /\ IsFiniteSet(Tokens(l))
            /\ (19 = Cardinality(Tokens(l)) => 1..19 = Tokens(l))
        BY <4>1, <4>3, <4>4, FS_Subset
      <4>6. Cardinality(Tokens(l)) \in Nat
        BY <4>5, FS_CardinalityType
      <4>7. 19 = Cardinality(Tokens(l))
        BY <2>4, <4>5, <4>6
      <4> QED BY <4>5, <4>7
    <3>3. CASE l.empty \cap 1..14 = {}
      BY <2>8, <3>1, <3>3
    <3> QED BY <2>9, <3>2, <3>3
  <2>10. 1..14 \subseteq Tokens(l) => First14(l) = [n \in 1..14 |-> n]
    BY <2>8, TokensInPlace DEF First14
  <2>11. l.columns = 19 \/ l.columns > 19
    BY <2>8
  <2> QED BY <2>4, <2>7, <2>9, <2>10, <2>11 DEF l
<1> QED BY <1>1, LoadInvariance, TablesWhole, PTL

-----------------------------------------------------------------------------
(* The operator trace.                                                     *)

(* Every non-empty set of numbers has a least one.                         *)
LEMMA LeastNumber ==
  ASSUME NEW T \in SUBSET Nat, T # {}
  PROVE  \E n \in T : \A m \in T : n <= m
<1> DEFINE R == {p \in Nat \X Nat : p[1] < p[2]}
<1>1. IsWellFoundedOn(R, Nat)
  BY NatLessThanWellFounded DEF OpToRel
<1>2. \A j, k \in Nat : j < k => <<j, k>> \in R
  OBVIOUS
<1> HIDE DEF R
<1>3. PICK n \in T : \A m \in T : <<m, n>> \notin R
  BY <1>1, WFMin
<1>4. ASSUME NEW m \in T
      PROVE  n <= m
  <2>1. ~(m < n)
    BY <1>2, <1>3
  <2> QED BY <2>1
<1> QED BY <1>4

-----------------------------------------------------------------------------
(* Sums.  The induction theorems cannot be cited; the arguments are about  *)
(* the least number for which a claim fails.                               *)

(* s has the sums of the first n numbers of a sequence, n up to m.         *)
PartialSums(s, t, m) ==
  s = [n \in 0..m |-> IF n = 0 THEN 0 ELSE s[n - 1] + t[n]]

LEMMA SumsExist ==
  ASSUME NEW t, NEW m \in Nat
  PROVE  \E s : PartialSums(s, t, m)
<1> DEFINE T == {n \in Nat : ~\E s : PartialSums(s, t, n)}
<1> SUFFICES ASSUME T # {} PROVE FALSE
  OBVIOUS
<1>1. PICK n \in T : \A k \in T : n <= k
  <2>1. T \in SUBSET Nat
    OBVIOUS
  <2> HIDE DEF T
  <2> QED BY <2>1, LeastNumber
<1>2. n # 0
  <2> SUFFICES ASSUME n = 0 PROVE FALSE
    OBVIOUS
  <2> DEFINE s == [k \in 0..0 |-> 0]
  <2>1. s = [k \in 0..0 |-> IF k = 0 THEN 0 ELSE s[k - 1] + t[k]]
    OBVIOUS
  <2>2. PartialSums(s, t, 0)
    BY <2>1 DEF PartialSums
  <2> QED BY <2>2
<1>3. PICK s : PartialSums(s, t, n - 1)
  <2>1. n - 1 \in Nat /\ ~(n <= n - 1)
    BY <1>2
  <2>2. n - 1 \notin T
    BY <1>1, <2>1
  <2> QED BY <2>1, <2>2
<1> DEFINE u == [k \in 0..n |-> IF k = n THEN s[n - 1] + t[n] ELSE s[k]]
<1>4. ASSUME NEW k \in 0..n
      PROVE  u[k] = IF k = 0 THEN 0 ELSE u[k - 1] + t[k]
  <2>1. CASE k = n
    BY <1>2, <2>1
  <2>2. CASE k # n
    <3>1. k \in 0..n - 1 /\ u[k] = s[k] /\ (k # 0 => u[k - 1] = s[k - 1])
      BY <2>2
    <3>2. s[k] = IF k = 0 THEN 0 ELSE s[k - 1] + t[k]
      BY <1>3, <3>1 DEF PartialSums
    <3> QED BY <3>1, <3>2
  <2> QED BY <2>1, <2>2
<1>5. u = [k \in 0..n |-> u[k]]
  OBVIOUS
<1> HIDE DEF u
<1>6. u = [k \in 0..n |-> IF k = 0 THEN 0 ELSE u[k - 1] + t[k]]
  BY <1>4, <1>5
<1> QED BY <1>6 DEF PartialSums

(* Partial sums depend on no more than the numbers summed.                 *)
LEMMA SumsAgree ==
  ASSUME NEW s, NEW t, NEW m \in Nat, PartialSums(s, t, m),
         NEW u, NEW v, NEW l \in Nat, PartialSums(u, v, l), m <= l,
         \A n \in 1..m : t[n] \in Int /\ v[n] = t[n]
  PROVE  \A n \in 0..m : s[n] = u[n] /\ s[n] \in Int
<1> DEFINE T == {n \in 0..m : ~(s[n] = u[n] /\ s[n] \in Int)}
<1> SUFFICES ASSUME T # {} PROVE FALSE
  OBVIOUS
<1>1. PICK n \in T : \A k \in T : n <= k
  <2>1. T \in SUBSET Nat
    OBVIOUS
  <2> HIDE DEF T
  <2> QED BY <2>1, LeastNumber
<1>2. n \in 0..m /\ n \in 0..l
  OBVIOUS
<1>3. /\ s[n] = IF n = 0 THEN 0 ELSE s[n - 1] + t[n]
      /\ u[n] = IF n = 0 THEN 0 ELSE u[n - 1] + v[n]
  BY <1>2 DEF PartialSums
<1>4. CASE n = 0
  BY <1>3, <1>4
<1>5. CASE n # 0
  <2>1. n - 1 \in 0..m /\ ~(n <= n - 1) /\ n \in 1..m
    BY <1>2, <1>5
  <2>2. n - 1 \notin T
    BY <1>1, <2>1
  <2>3. s[n - 1] = u[n - 1] /\ s[n - 1] \in Int
    BY <2>1, <2>2
  <2> QED BY <1>3, <1>5, <2>1, <2>3
<1> QED BY <1>4, <1>5

LEMMA TotalIs ==
  ASSUME NEW t, Len(t) \in Nat
  PROVE  \E s : PartialSums(s, t, Len(t)) /\ Total(t) = s[Len(t)]
<1> DEFINE s == CHOOSE s : s = [n \in 0..Len(t) |-> IF n = 0 THEN 0 ELSE s[n - 1] + t[n]]
<1>1. \E u : u = [n \in 0..Len(t) |-> IF n = 0 THEN 0 ELSE u[n - 1] + t[n]]
  BY SumsExist DEF PartialSums
<1>2. s = [n \in 0..Len(t) |-> IF n = 0 THEN 0 ELSE s[n - 1] + t[n]]
  BY <1>1
<1>3. Total(t) = s[Len(t)]
  BY DEF Total
<1> QED BY <1>2, <1>3 DEF PartialSums

(* The sum of a sequence with one number more.                             *)
LEMMA TotalOfAppend ==
  ASSUME NEW t \in Seq(Int), NEW x \in Int
  PROVE  Total(t) \in Int /\ Total(Append(t, x)) = Total(t) + x
<1> DEFINE v == Append(t, x)
           m == Len(t)
<1>1. /\ m \in Nat /\ Len(v) = m + 1 /\ v[m + 1] = x
      /\ \A n \in 1..m : t[n] \in Int /\ v[n] = t[n]
  OBVIOUS
<1>2. PICK s : PartialSums(s, t, m) /\ Total(t) = s[m]
  BY <1>1, TotalIs
<1> HIDE DEF v, m
<1>3. PICK u : PartialSums(u, v, m + 1) /\ Total(v) = u[m + 1]
  <2>1. Len(v) \in Nat
    BY <1>1
  <2>2. \E u : PartialSums(u, v, Len(v)) /\ Total(v) = u[Len(v)]
    BY <2>1, TotalIs
  <2> QED BY <1>1, <2>2
<1>4. m + 1 \in Nat /\ m <= m + 1 /\ m \in 0..m /\ m + 1 \in 0..m + 1 /\ m + 1 # 0
  BY <1>1
<1>5. s[m] = u[m] /\ s[m] \in Int
  BY <1>1, <1>2, <1>3, <1>4, SumsAgree
<1>6. u[m + 1] = u[(m + 1) - 1] + v[m + 1]
  BY <1>3, <1>4 DEF PartialSums
<1>7. (m + 1) - 1 = m
  BY <1>1
<1> QED BY <1>1, <1>2, <1>3, <1>5, <1>6, <1>7 DEF v

LEMMA TotalOfNone == Total(<< >>) = 0
<1>1. PICK s : PartialSums(s, << >>, 0) /\ Total(<< >>) = s[0]
  BY TotalIs
<1> QED BY <1>1 DEF PartialSums

-----------------------------------------------------------------------------
(* The operators of a layer.                                               *)

LayerWork(e) == Unit * (CASE e = "IFC" -> model.weight
                          [] e = "DRAM" -> model.cache
                          [] e = "NPU" -> model.ops)

(* The work and the number of the operators of a layer before operator n.  *)
WorkBefore(e, n) ==
  LET Past(k, work) == IF n > k THEN work ELSE 0
  IN  CASE e = "IFC"  -> Past(2, WeightSplit.qkv) + Past(8, WeightSplit.out)
                           + Past(10, WeightSplit.gate_up) + Past(12, WeightSplit.down)
        [] e = "DRAM" -> Past(3, 150 * model.cache) + Past(6, 150 * model.cache)
        [] e = "NPU"  -> Past(1, 6 * model.ops) + Past(4, 129 * model.ops)
                           + Past(5, 15 * model.ops) + Past(7, 129 * model.ops)
                           + Past(9, 3 * model.ops) + Past(11, 12 * model.ops)
                           + Past(13, 6 * model.ops)

CountBefore(e, n) ==
  LET Past(k) == IF n > k THEN 1 ELSE 0
  IN  CASE e = "IFC"  -> Past(2) + Past(8) + Past(10) + Past(12)
        [] e = "DRAM" -> Past(3) + Past(6)
        [] e = "NPU"  -> Past(1) + Past(4) + Past(5) + Past(7) + Past(9) + Past(11) + Past(13)

(* What a layer has of each engine's work, its operators have in all.      *)
LEMMA SplitAddsUp ==
  ASSUME model \in ModelProfile
  PROVE  /\ WeightSplit \in [qkv : Nat, out : Nat, gate_up : Nat, down : Nat]
         /\ WeightSplit.qkv + WeightSplit.out + WeightSplit.gate_up + WeightSplit.down
              = Unit * model.weight
<1> DEFINE w == model.weight
           q == model.qkv
           o == model.out
           mlp == w - q - o
<1>1. w \in Nat /\ q \in Nat /\ o \in Nat
  BY DEF ModelProfile
<1>2. CASE 100 * mlp < 35 * w
  <2>1. WeightSplit = [qkv |-> 75 * w, out |-> 45 * w, gate_up |-> 120 * w, down |-> 60 * w]
    BY <1>2 DEF WeightSplit
  <2>2. model.weight = w
    OBVIOUS
  <2> HIDE DEF w
  <2> QED BY <1>1, <2>1, <2>2 DEF Unit
<1>3. CASE ~(100 * mlp < 35 * w)
  <2>1. WeightSplit = [qkv |-> 300 * q, out |-> 300 * o, gate_up |-> 200 * mlp, down |-> 100 * mlp]
    BY <1>3 DEF WeightSplit, Unit
  <2>2. mlp \in Nat /\ 300 * q + 300 * o + 200 * mlp + 100 * mlp = 300 * w
    <3> HIDE DEF w, q, o
    <3> QED BY <1>1, <1>3
  <2>3. 300 * q \in Nat /\ 300 * o \in Nat /\ 200 * mlp \in Nat /\ 100 * mlp \in Nat
    BY <1>1, <2>2
  <2> HIDE DEF mlp
  <2> QED BY <2>1, <2>2, <2>3 DEF Unit
<1> QED BY <1>2, <1>3

(* Operator n adds its work to what came before it; the last one completes *)
(* the layer.  Both passes have the same operators.                        *)
LEMMA OperatorFacts ==
  ASSUME model \in ModelProfile, NEW n \in 1..13
  PROVE  LET o == StatsOperators[n]
         IN  /\ TraceOperators[n] = o
             /\ o.engine \in Engines /\ o.work \in Nat
             /\ \A e \in Engines :
                  /\ WorkBefore(e, n) \in Nat /\ LayerWork(e) \in Nat
                  /\ CountBefore(e, n) \in Nat
                  /\ WorkBefore(e, n) + (IF o.engine = e THEN o.work ELSE 0)
                       = IF n = 13 THEN LayerWork(e) ELSE WorkBefore(e, n + 1)
                  /\ CountBefore(e, n) + (IF o.engine = e THEN 1 ELSE 0)
                       = IF n = 13 THEN CountBefore(e, 14) ELSE CountBefore(e, n + 1)
<1> DEFINE q == WeightSplit.qkv
           u == WeightSplit.out
           g == WeightSplit.gate_up
           d == WeightSplit.down
           c == model.cache
           p == model.ops
<1>1. /\ q \in Nat /\ u \in Nat /\ g \in Nat /\ d \in Nat /\ q + u + g + d = 300 * model.weight
      /\ c \in Nat /\ p \in Nat /\ model.weight \in Nat
  BY SplitAddsUp DEF ModelProfile, Unit
<1>2. /\ StatsOperators =
           <<[engine |-> "NPU", work |-> 3 * 2 * p], [engine |-> "IFC", work |-> q],
             [engine |-> "DRAM", work |-> 3 * 50 * c], [engine |-> "NPU", work |-> 3 * 43 * p],
             [engine |-> "NPU", work |-> 3 * 5 * p], [engine |-> "DRAM", work |-> 3 * 50 * c],
             [engine |-> "NPU", work |-> 3 * 43 * p], [engine |-> "IFC", work |-> u],
             [engine |-> "NPU", work |-> 3 * 1 * p], [engine |-> "IFC", work |-> g],
             [engine |-> "NPU", work |-> 3 * 4 * p], [engine |-> "IFC", work |-> d],
             [engine |-> "NPU", work |-> 3 * 2 * p]>>
      /\ TraceOperators = StatsOperators
  BY DEF StatsOperators, TraceOperators, Ifc, Dram, Npu
<1>3. /\ LayerWork("IFC") = 300 * model.weight
      /\ LayerWork("DRAM") = 300 * c /\ LayerWork("NPU") = 300 * p
  BY DEF LayerWork, Unit
<1>4. \A m : /\ WorkBefore("IFC", m) = (IF m > 2 THEN q ELSE 0) + (IF m > 8 THEN u ELSE 0)
                                         + (IF m > 10 THEN g ELSE 0) + (IF m > 12 THEN d ELSE 0)
             /\ WorkBefore("DRAM", m) = (IF m > 3 THEN 150 * c ELSE 0) + (IF m > 6 THEN 150 * c ELSE 0)
             /\ WorkBefore("NPU", m) = (IF m > 1 THEN 6 * p ELSE 0) + (IF m > 4 THEN 129 * p ELSE 0)
                                         + (IF m > 5 THEN 15 * p ELSE 0) + (IF m > 7 THEN 129 * p ELSE 0)
                                         + (IF m > 9 THEN 3 * p ELSE 0) + (IF m > 11 THEN 12 * p ELSE 0)
                                         + (IF m > 13 THEN 6 * p ELSE 0)
  BY DEF WorkBefore
<1>5. \A e \in Engines : e \in {"IFC", "DRAM", "NPU"}
  BY DEF Engines
<1> HIDE DEF q, u, g, d, c, p
<1> DEFINE o == StatsOperators[n]
           NextWork(e) == IF n = 13 THEN LayerWork(e) ELSE WorkBefore(e, n + 1)
<1>6. /\ TraceOperators[n] = o /\ o.engine \in Engines /\ o.work \in Nat
      /\ \A e \in Engines : LayerWork(e) \in Nat
  BY <1>1, <1>2, <1>3, <1>5 DEF Engines
<1>7. ASSUME NEW e \in Engines
      PROVE  /\ WorkBefore(e, n) \in Nat
             /\ WorkBefore(e, n) + (IF o.engine = e THEN o.work ELSE 0) = NextWork(e)
  <2>1. CASE e = "IFC"
    BY <1>1, <1>2, <1>3, <1>4, <2>1
  <2>2. CASE e = "DRAM"
    BY <1>1, <1>2, <1>3, <1>4, <2>2
  <2>3. CASE e = "NPU"
    BY <1>1, <1>2, <1>3, <1>4, <2>3
  <2> QED BY <1>5, <2>1, <2>2, <2>3
<1>8. ASSUME NEW e \in Engines
      PROVE  /\ CountBefore(e, n) \in Nat
             /\ CountBefore(e, n) + (IF o.engine = e THEN 1 ELSE 0)
                  = IF n = 13 THEN CountBefore(e, 14) ELSE CountBefore(e, n + 1)
  <2>1. CASE e = "IFC"
    BY <1>2, <2>1 DEF CountBefore
  <2>2. CASE e = "DRAM"
    BY <1>2, <2>2 DEF CountBefore
  <2>3. CASE e = "NPU"
    BY <1>2, <2>3 DEF CountBefore
  <2> QED BY <1>5, <2>1, <2>2, <2>3
<1> QED BY <1>6, <1>7, <1>8

-----------------------------------------------------------------------------
(* The two passes.                                                         *)

(* The work and the operators so far, of all layers, and their time.       *)
Ran(e)      == layer * LayerWork(e) + WorkBefore(e, op)
RanCount(e) == layer * CountBefore(e, 14) + CountBefore(e, op)
RateOf(e)   == Scale(e, StageTime(e))
Took(e)     == Ran(e) * RateOf(e)

TraceRow ==
  [engine : Engines, engine_ready : Nat, start : Nat, end : Nat, service : Nat, work : Nat,
   bursts : Nat]

CollectedStats ==
  [count : [Engines -> Nat], ms : [Engines -> Nat], work : [Engines -> Nat],
   total_ms : Nat, dram_bursts : Nat]

WholeBursts == \A n \in RowsOf("DRAM") : trace[n].bursts * 64 * Unit = trace[n].work

(* An engine is never ready later than the last operator ended, so every   *)
(* operator starts there and the schedule takes the sum of the times.      *)
Scheduled ==
  /\ model \in Models /\ rate \in Rates /\ pass \in {"stats", "trace", "ok", "failed"}
  /\ layer \in 0..model.layers /\ op \in 1..13 /\ (layer = model.layers => op = 1)
  /\ engine_ready_ms \in [Engines -> Nat]
  /\ \A e \in Engines : engine_ready_ms[e] <= dependency_ready_ms
  /\ dependency_ready_ms = Took("IFC") + Took("DRAM") + Took("NPU")

(* The first pass has collected what has run, and the totals that replace  *)
(* it are those of all layers.                                             *)
Collected ==
  /\ stats \in CollectedStats
  /\ pass = "stats" =>
       /\ trace = << >>
       /\ \A e \in Engines : /\ stats.count[e] = RanCount(e)
                             /\ stats.ms[e] = Took(e) /\ stats.work[e] = Ran(e)
       /\ stats.total_ms = dependency_ready_ms
  /\ pass # "stats" =>
       /\ \A e \in Engines : /\ stats.count[e] = model.layers * CountBefore(e, 14)
                             /\ stats.ms[e] = StageTime(e) /\ stats.work[e] = TotalWork(e)
       /\ stats.total_ms = StageTime("IFC") + StageTime("DRAM") + StageTime("NPU")
       /\ stats.dram_bursts = Bursts("DRAM", TotalWork("DRAM"))

(* The trace has what has run; its bursts hold the work that is read.      *)
Written ==
  /\ pass = "ok" => layer = model.layers
  /\ trace \in Seq(TraceRow)
  /\ pass # "stats" =>
       /\ \A e \in Engines :
            /\ IsFiniteSet(RowsOf(e)) /\ Cardinality(RowsOf(e)) = RanCount(e)
            /\ Total(Column(e, "service")) = Took(e)
            /\ Total(Column(e, "work")) = Ran(e)
            /\ e # "DRAM" => Total(Column(e, "bursts")) = 0
       /\ Total(Column("DRAM", "bursts")) \in Nat
       /\ Ran("DRAM") <= 64 * Unit * Total(Column("DRAM", "bursts"))
       /\ WholeBursts => Ran("DRAM") = 64 * Unit * Total(Column("DRAM", "bursts"))
       /\ trace = << >> => layer = 0
       /\ trace # << >> => trace[Len(trace)].end = dependency_ready_ms

TraceInv == Scheduled /\ Collected /\ Written

LEMMA Quotient ==
  ASSUME NEW a \in Nat \ {0}, NEW b \in Nat
  PROVE  (a * b) \div a = b
OBVIOUS

LEMMA ModelFacts ==
  ASSUME model \in Models, rate \in Rates
  PROVE  model \in ModelProfile /\ rate \in [Engines -> Nat]
BY OperatorTraceAssumption

(* The rates undo the totals: an engine's work takes its time in all.      *)
LEMMA RateFacts ==
  ASSUME model \in ModelProfile, rate \in [Engines -> Nat], NEW e \in Engines
  PROVE  /\ LayerWork(e) \in Nat /\ TotalWork(e) = model.layers * LayerWork(e)
         /\ TotalWork(e) \in Nat /\ StageTime(e) \in Nat /\ RateOf(e) \in Nat
         /\ TotalWork(e) * RateOf(e) = StageTime(e)
<1>1. /\ model.layers \in Nat /\ model.weight \in Nat /\ model.cache \in Nat /\ model.ops \in Nat
      /\ rate[e] \in Nat /\ e \in {"IFC", "DRAM", "NPU"}
  BY DEF ModelProfile, Engines
<1> DEFINE W == CASE e = "IFC" -> model.weight [] e = "DRAM" -> model.cache [] e = "NPU" -> model.ops
<1>2. W \in Nat /\ LayerWork(e) = 300 * W /\ TotalWork(e) = 300 * model.layers * W
  BY <1>1 DEF LayerWork, TotalWork, Unit
<1> HIDE DEF W
<1>3. LayerWork(e) \in Nat /\ TotalWork(e) \in Nat /\ TotalWork(e) = model.layers * LayerWork(e)
  BY <1>1, <1>2
<1>4. StageTime(e) = TotalWork(e) * rate[e] /\ StageTime(e) \in Nat
  BY <1>1, <1>3 DEF StageTime
<1>5. CASE TotalWork(e) = 0
  BY <1>3, <1>4, <1>5, <1>1 DEF RateOf, Scale
<1>6. CASE TotalWork(e) # 0
  <2>1. StageTime(e) \div TotalWork(e) = rate[e]
    BY <1>1, <1>3, <1>4, <1>6, Quotient
  <2>2. RateOf(e) = rate[e]
    BY <1>6, <2>1 DEF RateOf, Scale
  <2> QED BY <1>1, <1>3, <1>4, <2>2
<1> QED BY <1>3, <1>4, <1>5, <1>6

LEMMA WorkRuns ==
  ASSUME model \in ModelProfile, rate \in [Engines -> Nat],
         layer \in Nat, op \in 1..13, NEW e \in Engines
  PROVE  Ran(e) \in Nat /\ RanCount(e) \in Nat /\ Took(e) \in Nat
<1>1. WorkBefore(e, op) \in Nat /\ CountBefore(e, op) \in Nat /\ LayerWork(e) \in Nat
  BY OperatorFacts
<1>2. CountBefore(e, 14) \in Nat
  BY DEF CountBefore, Engines
<1>3. RateOf(e) \in Nat
  BY RateFacts
<1>4. Ran(e) \in Nat /\ RanCount(e) \in Nat
  BY <1>1, <1>2 DEF Ran, RanCount
<1> QED BY <1>3, <1>4 DEF Took

(* An operator adds its work and its time to those of its engine.          *)
LEMMA Advance ==
  ASSUME model \in ModelProfile, rate \in [Engines -> Nat],
         layer \in Nat, op \in 1..13,
         UNCHANGED <<model, rate>>,
         op' = (IF op = 13 THEN 1 ELSE op + 1),
         layer' = (IF op = 13 THEN layer + 1 ELSE layer),
         NEW e \in Engines
  PROVE  LET o == StatsOperators[op]
         IN  /\ Ran(e)' = Ran(e) + (IF o.engine = e THEN o.work ELSE 0)
             /\ RanCount(e)' = RanCount(e) + (IF o.engine = e THEN 1 ELSE 0)
             /\ RateOf(e)' = RateOf(e)
             /\ Took(e)' = Took(e) + (IF o.engine = e THEN o.work * RateOf(e) ELSE 0)
<1> DEFINE o == StatsOperators[op]
           w == IF o.engine = e THEN o.work ELSE 0
           c == IF o.engine = e THEN 1 ELSE 0
<1>1. /\ o.work \in Nat
      /\ WorkBefore(e, op) \in Nat /\ LayerWork(e) \in Nat /\ CountBefore(e, op) \in Nat
      /\ WorkBefore(e, op) + w = IF op = 13 THEN LayerWork(e) ELSE WorkBefore(e, op + 1)
      /\ CountBefore(e, op) + c = IF op = 13 THEN CountBefore(e, 14) ELSE CountBefore(e, op + 1)
  BY OperatorFacts
<1>2. LayerWork(e)' = LayerWork(e)
  BY DEF LayerWork
<1>3. WorkBefore(e, op)' = IF op = 13 THEN 0 ELSE WorkBefore(e, op + 1)
  <2>1. CASE op = 13
    BY <2>1 DEF WorkBefore, Engines
  <2>2. CASE op # 13
    <3>1. WeightSplit' = WeightSplit
      BY DEF WeightSplit
    <3>2. model' = model /\ op' = op + 1
      BY <2>2
    <3>3. WorkBefore(e, op)' = WorkBefore(e, op + 1)
      BY <3>1, <3>2 DEF WorkBefore, Engines
    <3> QED BY <2>2, <3>3
  <2> QED BY <2>1, <2>2
<1>4. CountBefore(e, op)' = IF op = 13 THEN 0 ELSE CountBefore(e, op + 1)
  <2>1. CASE op = 13
    BY <2>1 DEF CountBefore, Engines
  <2>2. CASE op # 13
    <3>1. op' = op + 1
      BY <2>2
    <3>2. CountBefore(e, op)' = CountBefore(e, op + 1)
      BY <3>1 DEF CountBefore, Engines
    <3> QED BY <2>2, <3>2
  <2> QED BY <2>1, <2>2
<1>5. CountBefore(e, 14) \in Nat /\ CountBefore(e, 14)' = CountBefore(e, 14)
  BY DEF CountBefore, Engines
<1>6. RateOf(e)' = RateOf(e) /\ RateOf(e) \in Nat
  <2>1. RateOf(e)' = RateOf(e)
    BY DEF RateOf, Scale, StageTime, TotalWork
  <2> QED BY <2>1, RateFacts
<1>7. w \in Nat /\ c \in Nat
  BY <1>1
<1> HIDE DEF o, w, c
<1>8. Ran(e)' = Ran(e) + w
  <2>1. (layer + 1) * LayerWork(e) = layer * LayerWork(e) + LayerWork(e)
    BY <1>1
  <2>2. layer * LayerWork(e) \in Nat
    BY <1>1
  <2> QED BY <1>1, <1>2, <1>3, <1>7, <2>1, <2>2 DEF Ran
<1>9. RanCount(e)' = RanCount(e) + c
  <2>1. (layer + 1) * CountBefore(e, 14) = layer * CountBefore(e, 14) + CountBefore(e, 14)
    BY <1>5
  <2>2. layer * CountBefore(e, 14) \in Nat
    BY <1>5
  <2> QED BY <1>1, <1>4, <1>5, <1>7, <2>1, <2>2 DEF RanCount
<1>10. Took(e)' = Took(e) + w * RateOf(e)
  <2>1. Ran(e) \in Nat
    BY WorkRuns
  <2>2. (Ran(e) + w) * RateOf(e) = Ran(e) * RateOf(e) + w * RateOf(e)
    BY <1>6, <1>7, <2>1
  <2> QED BY <1>6, <1>8, <2>2 DEF Took
<1>11. w * RateOf(e) = IF o.engine = e THEN o.work * RateOf(e) ELSE 0
  BY <1>6 DEF w
<1> QED BY <1>6, <1>8, <1>9, <1>10, <1>11 DEF o, w, c

(* When the layers are done, all the work and the time are.                *)
LEMMA WorkDone ==
  ASSUME model \in ModelProfile, rate \in [Engines -> Nat],
         layer = model.layers, op = 1, NEW e \in Engines
  PROVE  /\ Ran(e) = TotalWork(e) /\ Took(e) = StageTime(e)
         /\ RanCount(e) = model.layers * CountBefore(e, 14)
<1>1. WorkBefore(e, op) = 0 /\ CountBefore(e, op) = 0
  BY DEF WorkBefore, CountBefore, Engines
<1>2. model.layers \in Nat /\ CountBefore(e, 14) \in Nat
  BY DEF ModelProfile, CountBefore, Engines
<1>3. /\ LayerWork(e) \in Nat /\ TotalWork(e) = model.layers * LayerWork(e)
      /\ TotalWork(e) * RateOf(e) = StageTime(e)
  BY RateFacts
<1>4. Ran(e) = TotalWork(e)
  BY <1>1, <1>2, <1>3 DEF Ran
<1>5. RanCount(e) = model.layers * CountBefore(e, 14)
  BY <1>1, <1>2 DEF RanCount
<1> QED BY <1>3, <1>4, <1>5 DEF Took

(* At the start nothing has run.                                           *)
LEMMA NothingRan ==
  ASSUME model \in ModelProfile, rate \in [Engines -> Nat],
         layer = 0, op = 1, NEW e \in Engines
  PROVE  Ran(e) = 0 /\ Took(e) = 0 /\ RanCount(e) = 0
<1>1. WorkBefore(e, op) = 0 /\ CountBefore(e, op) = 0
  BY DEF WorkBefore, CountBefore, Engines
<1>2. LayerWork(e) \in Nat /\ CountBefore(e, 14) \in Nat /\ RateOf(e) \in Nat
  BY RateFacts DEF CountBefore, Engines
<1>3. Ran(e) = 0 /\ RanCount(e) = 0
  BY <1>1, <1>2 DEF Ran, RanCount
<1> QED BY <1>2, <1>3 DEF Took

(* One operator: it starts when the last one ended.                        *)
LEMMA Step ==
  ASSUME Scheduled, layer < model.layers, UNCHANGED <<model, rate, pass>>,
         NEW o, o = StatsOperators[op],
         NEW service, service = o.work * RateOf(o.engine),
         Schedule(o.engine, Start(o.engine) + service)
  PROVE  /\ Scheduled'
         /\ o.engine \in Engines /\ o.work \in Nat /\ service \in Nat
         /\ Start(o.engine) = dependency_ready_ms /\ dependency_ready_ms \in Nat
         /\ dependency_ready_ms' = dependency_ready_ms + service
         /\ \A e \in Engines :
              /\ Ran(e) \in Nat /\ RanCount(e) \in Nat /\ Took(e) \in Nat
              /\ Ran(e)' = Ran(e) + (IF o.engine = e THEN o.work ELSE 0)
              /\ RanCount(e)' = RanCount(e) + (IF o.engine = e THEN 1 ELSE 0)
              /\ Took(e)' = Took(e) + (IF o.engine = e THEN service ELSE 0)
<1>1. model \in ModelProfile /\ rate \in [Engines -> Nat] /\ model.layers \in Nat
  <2>1. model \in ModelProfile /\ rate \in [Engines -> Nat]
    BY ModelFacts DEF Scheduled
  <2> QED BY <2>1 DEF ModelProfile
<1>2. /\ layer \in Nat /\ op \in 1..13 /\ engine_ready_ms \in [Engines -> Nat]
      /\ \A e \in Engines : engine_ready_ms[e] <= dependency_ready_ms
      /\ dependency_ready_ms = Took("IFC") + Took("DRAM") + Took("NPU")
  BY <1>1 DEF Scheduled
<1>3. /\ op' = (IF op = 13 THEN 1 ELSE op + 1)
      /\ layer' = (IF op = 13 THEN layer + 1 ELSE layer)
  BY DEF Schedule
<1>4. o.engine \in Engines /\ o.work \in Nat
  BY <1>1, <1>2, OperatorFacts
<1>5. \A e \in Engines : Ran(e) \in Nat /\ RanCount(e) \in Nat /\ Took(e) \in Nat
  BY <1>1, <1>2, WorkRuns
<1>6. "IFC" \in Engines /\ "DRAM" \in Engines /\ "NPU" \in Engines
  BY DEF Engines
<1>7. service \in Nat /\ dependency_ready_ms \in Nat
  <2>1. RateOf(o.engine) \in Nat
    BY <1>1, <1>4, RateFacts
  <2> QED BY <1>2, <1>4, <1>5, <1>6, <2>1
<1>8. Start(o.engine) = dependency_ready_ms
  BY <1>2, <1>4, <1>7 DEF Start, Max2
<1>9. dependency_ready_ms' = dependency_ready_ms + service
  BY <1>8 DEF Schedule
<1>10. \A e \in Engines :
         /\ Ran(e)' = Ran(e) + (IF o.engine = e THEN o.work ELSE 0)
         /\ RanCount(e)' = RanCount(e) + (IF o.engine = e THEN 1 ELSE 0)
         /\ Took(e)' = Took(e) + (IF o.engine = e THEN service ELSE 0)
  BY <1>1, <1>2, <1>3, Advance
<1>11. Scheduled'
  <2>1. model' \in Models /\ rate' \in Rates /\ pass' \in {"stats", "trace", "ok", "failed"}
    BY DEF Scheduled
  <2>2. layer' \in 0..model'.layers /\ op' \in 1..13 /\ (layer' = model'.layers => op' = 1)
    BY <1>1, <1>2, <1>3
  <2>3. /\ engine_ready_ms' \in [Engines -> Nat]
        /\ \A e \in Engines : engine_ready_ms'[e] <= dependency_ready_ms'
    BY <1>2, <1>4, <1>7, <1>8, <1>9 DEF Schedule
  <2>4. dependency_ready_ms' = Took("IFC")' + Took("DRAM")' + Took("NPU")'
    <3>1. /\ Took("IFC") \in Nat /\ Took("DRAM") \in Nat /\ Took("NPU") \in Nat
          /\ Took("IFC")' = Took("IFC") + (IF o.engine = "IFC" THEN service ELSE 0)
          /\ Took("DRAM")' = Took("DRAM") + (IF o.engine = "DRAM" THEN service ELSE 0)
          /\ Took("NPU")' = Took("NPU") + (IF o.engine = "NPU" THEN service ELSE 0)
      BY <1>5, <1>6, <1>10
    <3>2. o.engine = "IFC" \/ o.engine = "DRAM" \/ o.engine = "NPU"
      BY <1>4 DEF Engines
    <3> QED BY <1>2, <1>7, <1>9, <3>1, <3>2
  <2> QED BY <2>1, <2>2, <2>3, <2>4 DEF Scheduled
<1> QED BY <1>4, <1>5, <1>7, <1>8, <1>9, <1>10, <1>11

(* A row adds its numbers to the columns of its engine.                    *)
LEMMA RowAdded ==
  ASSUME trace \in Seq(TraceRow), NEW r \in TraceRow, trace' = Append(trace, r), NEW e \in Engines
  PROVE  /\ IsFiniteSet(RowsOf(e)) => IsFiniteSet(RowsOf(e)')
         /\ IsFiniteSet(RowsOf(e)) =>
              Cardinality(RowsOf(e)') = Cardinality(RowsOf(e)) + (IF r.engine = e THEN 1 ELSE 0)
         /\ \A f \in {"service", "work", "bursts"} :
              /\ Total(Column(e, f)) \in Int
              /\ Total(Column(e, f)') = Total(Column(e, f)) + (IF r.engine = e THEN r[f] ELSE 0)
<1> DEFINE n == Len(trace)
<1>1. /\ n \in Nat /\ DOMAIN trace = 1..n /\ DOMAIN trace' = 1..n + 1
      /\ trace'[n + 1] = r
      /\ \A m \in 1..n : trace'[m] = trace[m] /\ trace[m] \in TraceRow
  OBVIOUS
<1> HIDE DEF n
<1>2. RowsOf(e)' = IF r.engine = e THEN RowsOf(e) \cup {n + 1} ELSE RowsOf(e)
  <2>1. RowsOf(e) = {m \in 1..n : trace[m].engine = e}
    BY <1>1 DEF RowsOf
  <2>2. RowsOf(e)' = {m \in 1..n + 1 : trace'[m].engine = e}
    BY <1>1 DEF RowsOf
  <2>3. \A m : m \in 1..n + 1 <=> m \in 1..n \/ m = n + 1
    BY <1>1
  <2> QED BY <1>1, <2>1, <2>2, <2>3
<1>3. n + 1 \notin RowsOf(e)
  BY <1>1 DEF RowsOf
<1>4. ASSUME IsFiniteSet(RowsOf(e))
      PROVE  /\ IsFiniteSet(RowsOf(e)')
             /\ Cardinality(RowsOf(e)') = Cardinality(RowsOf(e)) + (IF r.engine = e THEN 1 ELSE 0)
  <2>1. /\ IsFiniteSet(RowsOf(e) \cup {n + 1})
        /\ Cardinality(RowsOf(e) \cup {n + 1}) = Cardinality(RowsOf(e)) + 1
    BY <1>3, <1>4, FS_AddElement
  <2>2. Cardinality(RowsOf(e)) \in Nat
    BY <1>4, FS_CardinalityType
  <2> QED BY <1>2, <1>4, <2>1, <2>2
<1>5. ASSUME NEW f \in {"service", "work", "bursts"}
      PROVE  /\ Total(Column(e, f)) \in Int
             /\ Total(Column(e, f)') = Total(Column(e, f)) + (IF r.engine = e THEN r[f] ELSE 0)
  <2> DEFINE c == Column(e, f)
             x == IF r.engine = e THEN r[f] ELSE 0
  <2>1. \A q \in TraceRow : q[f] \in Int
    BY DEF TraceRow
  <2>2. x \in Int
    BY <2>1
  <2>3. c = [m \in 1..n |-> IF trace[m].engine = e THEN trace[m][f] ELSE 0]
    BY <1>1 DEF Column
  <2>4. Column(e, f)' = [m \in 1..n + 1 |-> IF trace'[m].engine = e THEN trace'[m][f] ELSE 0]
    BY <1>1 DEF Column
  <2>5. c \in Seq(Int) /\ Len(c) = n
    <3>1. \A m \in 1..n : (IF trace[m].engine = e THEN trace[m][f] ELSE 0) \in Int
      BY <1>1, <2>1
    <3> HIDE DEF c
    <3> QED BY <1>1, <2>3, <3>1
  <2>6. Append(c, x) = [m \in 1..n + 1 |-> IF m = n + 1 THEN x ELSE c[m]]
    <3> HIDE DEF c, x
    <3> DEFINE v == Append(c, x)
    <3>1. /\ v \in Seq(Int) /\ Len(v) = n + 1
          /\ \A m \in 1..n + 1 : v[m] = IF m = n + 1 THEN x ELSE c[m]
      BY <1>1, <2>2, <2>5
    <3> HIDE DEF v
    <3>2. v = [m \in 1..Len(v) |-> v[m]]
      BY <3>1
    <3>3. v = [m \in 1..n + 1 |-> v[m]]
      BY <3>1, <3>2
    <3>4. v = [m \in 1..n + 1 |-> IF m = n + 1 THEN x ELSE c[m]]
      BY <3>1, <3>3
    <3> QED BY <3>4 DEF v
  <2>7. ASSUME NEW m \in 1..n + 1
        PROVE  (IF trace'[m].engine = e THEN trace'[m][f] ELSE 0) = IF m = n + 1 THEN x ELSE c[m]
    <3>1. CASE m = n + 1
      BY <1>1, <3>1
    <3>2. CASE m # n + 1
      <4>1. m \in 1..n
        BY <1>1, <3>2
      <4>2. c[m] = IF trace[m].engine = e THEN trace[m][f] ELSE 0
        BY <2>3, <4>1
      <4> QED BY <1>1, <3>2, <4>1, <4>2
    <3> QED BY <3>1, <3>2
  <2>8. Column(e, f)' = Append(c, x)
    BY <2>4, <2>6, <2>7
  <2>9. Total(c) \in Int /\ Total(Append(c, x)) = Total(c) + x
    <3> HIDE DEF c, x
    <3> QED BY <2>2, <2>5, TotalOfAppend
  <2> QED BY <2>8, <2>9
<1> QED BY <1>4, <1>5

(* Bursts hold what they are for, and exactly that if they are whole.      *)
LEMMA BurstsHold ==
  ASSUME NEW work \in Nat
  PROVE  /\ Bursts("DRAM", work) \in Nat
         /\ work <= 64 * Unit * Bursts("DRAM", work)
         /\ \A b \in Nat : work <= 64 * Unit * b => Bursts("DRAM", work) <= b
         /\ \A b \in Nat : work = 64 * Unit * b => Bursts("DRAM", work) = b
<1>1. Bursts("DRAM", work) = (work + 19199) \div 19200
  BY DEF Bursts, CeilDiv, Unit
<1>2. 64 * Unit = 19200
  BY DEF Unit
<1> QED BY <1>1, <1>2

LEMMA TraceStarts == TraceInit => TraceInv
<1> SUFFICES ASSUME TraceInit PROVE TraceInv
  OBVIOUS
<1>1. model \in ModelProfile /\ rate \in [Engines -> Nat] /\ model.layers \in Nat \ {0}
  <2>1. model \in ModelProfile /\ rate \in [Engines -> Nat]
    BY ModelFacts DEF TraceInit
  <2> QED BY <2>1 DEF ModelProfile
<1>2. layer = 0 /\ op = 1
  BY DEF TraceInit
<1>3. \A e \in Engines : Ran(e) = 0 /\ Took(e) = 0 /\ RanCount(e) = 0
  BY <1>1, <1>2, NothingRan
<1>4. Scheduled
  <2>1. Took("IFC") = 0 /\ Took("DRAM") = 0 /\ Took("NPU") = 0
    BY <1>3 DEF Engines
  <2> QED BY <1>1, <2>1 DEF Scheduled, TraceInit
<1>5. Collected
  BY <1>3 DEF Collected, CollectedStats, TraceInit, EmptyStats
<1>6. Written
  BY DEF Written, TraceInit
<1> QED BY <1>4, <1>5, <1>6 DEF TraceInv

LEMMA StageAdded == TraceInv /\ AddStage => TraceInv'
<1> SUFFICES ASSUME TraceInv, AddStage PROVE TraceInv'
  OBVIOUS
<1> DEFINE o == StatsOperators[op]
           service == o.work * RateOf(o.engine)
           end == Start(o.engine) + service
<1>1. /\ pass = "stats" /\ layer < model.layers /\ UNCHANGED <<model, rate, pass, trace>>
      /\ Schedule(o.engine, end)
      /\ stats' = [stats EXCEPT !.count[o.engine] = @ + 1, !.ms[o.engine] = @ + service,
                                !.work[o.engine] = @ + o.work, !.total_ms = end,
                                !.dram_bursts = @ + Bursts(o.engine, o.work)]
  BY DEF AddStage, RateOf
<1>2. Scheduled /\ Collected /\ Written
  BY DEF TraceInv
<1>3. /\ Scheduled'
      /\ o.engine \in Engines /\ o.work \in Nat /\ service \in Nat
      /\ Start(o.engine) = dependency_ready_ms /\ dependency_ready_ms \in Nat
      /\ dependency_ready_ms' = dependency_ready_ms + service
      /\ \A e \in Engines :
           /\ Ran(e) \in Nat /\ RanCount(e) \in Nat /\ Took(e) \in Nat
           /\ Ran(e)' = Ran(e) + (IF o.engine = e THEN o.work ELSE 0)
           /\ RanCount(e)' = RanCount(e) + (IF o.engine = e THEN 1 ELSE 0)
           /\ Took(e)' = Took(e) + (IF o.engine = e THEN service ELSE 0)
  <2> HIDE DEF o, service
  <2>1. o = StatsOperators[op] /\ service = o.work * RateOf(o.engine)
    BY DEF o, service
  <2> QED BY <1>1, <1>2, <2>1, Step
<1>4. Bursts(o.engine, o.work) \in Nat
  BY <1>3, BurstsHold DEF Bursts
<1>5. /\ stats \in CollectedStats /\ stats.total_ms = dependency_ready_ms
      /\ \A e \in Engines : /\ stats.count[e] = RanCount(e)
                            /\ stats.ms[e] = Took(e) /\ stats.work[e] = Ran(e)
  BY <1>1, <1>2 DEF Collected
<1> HIDE DEF o, service
<1>6. /\ stats' \in CollectedStats /\ stats'.total_ms = dependency_ready_ms'
      /\ \A e \in Engines :
           /\ stats'.count[e] = stats.count[e] + (IF o.engine = e THEN 1 ELSE 0)
           /\ stats'.ms[e] = stats.ms[e] + (IF o.engine = e THEN service ELSE 0)
           /\ stats'.work[e] = stats.work[e] + (IF o.engine = e THEN o.work ELSE 0)
  <2>1. end \in Nat /\ end = dependency_ready_ms'
    BY <1>3
  <2> HIDE DEF end
  <2> DEFINE g == o.engine
             v == o.work
             b == Bursts(g, v)
  <2>2. /\ stats.count \in [Engines -> Nat] /\ stats.ms \in [Engines -> Nat]
        /\ stats.work \in [Engines -> Nat] /\ stats.dram_bursts \in Nat
        /\ \A e \in Engines : stats.count[e] \in Nat /\ stats.ms[e] \in Nat /\ stats.work[e] \in Nat
    BY <1>5 DEF CollectedStats
  <2>3. g \in Engines /\ v \in Nat /\ b \in Nat
    BY <1>3, <1>4
  <2>4. stats' = [stats EXCEPT !.count[g] = @ + 1, !.ms[g] = @ + service,
                               !.work[g] = @ + v, !.total_ms = end, !.dram_bursts = @ + b]
    BY <1>1
  <2> HIDE DEF g, v, b
  <2>5. stats' = [count |-> [stats.count EXCEPT ![g] = @ + 1],
                  ms |-> [stats.ms EXCEPT ![g] = @ + service],
                  work |-> [stats.work EXCEPT ![g] = @ + v],
                  total_ms |-> end, dram_bursts |-> stats.dram_bursts + b]
    BY <1>5, <2>4 DEF CollectedStats
  <2>6. stats' \in CollectedStats /\ stats'.total_ms = end
    BY <1>3, <2>1, <2>2, <2>3, <2>5 DEF CollectedStats
  <2>7. ASSUME NEW e \in Engines
        PROVE  /\ stats'.count[e] = stats.count[e] + (IF g = e THEN 1 ELSE 0)
               /\ stats'.ms[e] = stats.ms[e] + (IF g = e THEN service ELSE 0)
               /\ stats'.work[e] = stats.work[e] + (IF g = e THEN v ELSE 0)
    BY <1>3, <2>2, <2>3, <2>5
  <2> QED BY <2>1, <2>6, <2>7 DEF g, v
<1>7. Collected'
  <2>1. \A e \in Engines : /\ stats'.count[e] = RanCount(e)'
                           /\ stats'.ms[e] = Took(e)' /\ stats'.work[e] = Ran(e)'
    BY <1>3, <1>5, <1>6
  <2>2. pass' = "stats" /\ trace' = << >>
    BY <1>1, <1>2 DEF Collected
  <2> QED BY <1>6, <2>1, <2>2 DEF Collected
<1>8. Written'
  BY <1>1, <1>2 DEF Written, Collected
<1> QED BY <1>3, <1>7, <1>8 DEF TraceInv

(* The totals are what was collected.                                      *)
LEMMA TotalsFit ==
  TraceInv /\ EndStats =>
    /\ stats'.ms = stats.ms
    /\ stats'.work = stats.work
    /\ stats'.total_ms = stats.total_ms
<1> SUFFICES ASSUME TraceInv, EndStats
             PROVE  /\ stats'.ms = stats.ms /\ stats'.work = stats.work
                    /\ stats'.total_ms = stats.total_ms
  OBVIOUS
<1>1. pass = "stats" /\ layer = model.layers /\ op = 1
  BY DEF EndStats, TraceInv, Scheduled
<1>2. model \in ModelProfile /\ rate \in [Engines -> Nat]
  BY ModelFacts DEF TraceInv, Scheduled
<1>3. \A e \in Engines : Ran(e) = TotalWork(e) /\ Took(e) = StageTime(e)
  BY <1>1, <1>2, WorkDone
<1>4. /\ stats \in CollectedStats
      /\ \A e \in Engines : stats.ms[e] = StageTime(e) /\ stats.work[e] = TotalWork(e)
      /\ stats.total_ms = Took("IFC") + Took("DRAM") + Took("NPU")
  BY <1>1, <1>3 DEF TraceInv, Scheduled, Collected
<1>5. /\ stats.ms = [e \in Engines |-> StageTime(e)]
      /\ stats.work = [e \in Engines |-> TotalWork(e)]
  BY <1>4 DEF CollectedStats
<1>6. stats.total_ms = StageTime("IFC") + StageTime("DRAM") + StageTime("NPU")
  BY <1>3, <1>4 DEF Engines
<1>7. /\ stats'.ms = [e \in Engines |-> StageTime(e)]
      /\ stats'.work = [e \in Engines |-> TotalWork(e)]
      /\ stats'.total_ms = StageTime("IFC") + StageTime("DRAM") + StageTime("NPU")
  BY <1>4 DEF EndStats, CollectedStats
<1> QED BY <1>5, <1>6, <1>7

LEMMA StatsEnded == TraceInv /\ EndStats => TraceInv'
<1> SUFFICES ASSUME TraceInv, EndStats PROVE TraceInv'
  OBVIOUS
<1>1. /\ pass = "stats" /\ layer = model.layers /\ op = 1 /\ trace = << >>
      /\ model \in Models /\ rate \in Rates /\ stats \in CollectedStats
      /\ \A e \in Engines : stats.count[e] = RanCount(e)
  BY DEF EndStats, TraceInv, Scheduled, Collected
<1>2. model \in ModelProfile /\ rate \in [Engines -> Nat] /\ model.layers \in Nat \ {0}
  <2>1. model \in ModelProfile /\ rate \in [Engines -> Nat]
    BY <1>1, ModelFacts
  <2> QED BY <2>1 DEF ModelProfile
<1>3. /\ pass' = "trace" /\ layer' = 0 /\ op' = 1 /\ dependency_ready_ms' = 0
      /\ engine_ready_ms' = [e \in Engines |-> 0]
      /\ model' = model /\ rate' = rate /\ trace' = << >>
  BY <1>1 DEF EndStats
<1>4. \A e \in Engines : Ran(e)' = 0 /\ Took(e)' = 0 /\ RanCount(e)' = 0
  <2>1. model' \in ModelProfile /\ rate' \in [Engines -> Nat]
    BY <1>2, <1>3
  <2>2. ASSUME NEW e \in Engines
        PROVE  (model \in ModelProfile /\ rate \in [Engines -> Nat] /\ layer = 0 /\ op = 1
                  => Ran(e) = 0 /\ Took(e) = 0 /\ RanCount(e) = 0)'
    BY NothingRan, PTL
  <2> QED BY <1>3, <2>1, <2>2
<1>5. Scheduled'
  <2>1. Took("IFC")' = 0 /\ Took("DRAM")' = 0 /\ Took("NPU")' = 0
    BY <1>4 DEF Engines
  <2> QED BY <1>1, <1>2, <1>3, <2>1 DEF Scheduled
<1>6. Collected'
  <2> DEFINE total == StageTime("IFC") + StageTime("DRAM") + StageTime("NPU")
  <2>1. \A e \in Engines : /\ StageTime(e)' = StageTime(e) /\ TotalWork(e)' = TotalWork(e)
                           /\ StageTime(e) \in Nat /\ TotalWork(e) \in Nat
                           /\ CountBefore(e, 14)' = CountBefore(e, 14)
    <3>1. ASSUME NEW e \in Engines
          PROVE  /\ TotalWork(e)' = TotalWork(e) /\ StageTime(e)' = StageTime(e)
                 /\ CountBefore(e, 14)' = CountBefore(e, 14)
      BY <1>3 DEF TotalWork, StageTime, CountBefore
    <3>2. \A e \in Engines : StageTime(e) \in Nat /\ TotalWork(e) \in Nat
      BY <1>2, RateFacts
    <3> QED BY <3>1, <3>2
  <2>2. \A e \in Engines : stats.count[e] = model.layers * CountBefore(e, 14)
    BY <1>1, <1>2, WorkDone
  <2>3. "IFC" \in Engines /\ "DRAM" \in Engines /\ "NPU" \in Engines
    BY DEF Engines
  <2>4. Bursts("DRAM", TotalWork("DRAM")) \in Nat
    BY <2>1, <2>3, BurstsHold
  <2>5. Bursts("DRAM", TotalWork("DRAM"))' = Bursts("DRAM", TotalWork("DRAM"))
    BY <2>1, <2>3 DEF Bursts, CeilDiv
  <2>6. total \in Nat /\ total' = total
    BY <2>1, <2>3
  <2> HIDE DEF total
  <2>7. stats' = [stats EXCEPT !.ms = [e \in Engines |-> StageTime(e)],
                               !.work = [e \in Engines |-> TotalWork(e)],
                               !.total_ms = total,
                               !.dram_bursts = Bursts("DRAM", TotalWork("DRAM"))]
    BY DEF EndStats, total
  <2>8. stats' \in CollectedStats
    BY <1>1, <2>1, <2>4, <2>6, <2>7 DEF CollectedStats
  <2>9. /\ \A e \in Engines : /\ stats'.count[e] = model.layers * CountBefore(e, 14)
                              /\ stats'.ms[e] = StageTime(e) /\ stats'.work[e] = TotalWork(e)
        /\ stats'.total_ms = total /\ stats'.dram_bursts = Bursts("DRAM", TotalWork("DRAM"))
    BY <1>1, <2>2, <2>7 DEF CollectedStats
  <2>10. /\ \A e \in Engines : /\ stats'.count[e] = model'.layers * CountBefore(e, 14)'
                               /\ stats'.ms[e] = StageTime(e)' /\ stats'.work[e] = TotalWork(e)'
         /\ stats'.total_ms = total' /\ stats'.dram_bursts = Bursts("DRAM", TotalWork("DRAM"))'
    BY <1>3, <2>1, <2>5, <2>6, <2>9
  <2> QED BY <1>3, <2>8, <2>10 DEF Collected, total
<1>7. Written'
  <2>1. ASSUME NEW e \in Engines
        PROVE  RowsOf(e)' = {} /\ \A f \in {"service", "work", "bursts"} : Column(e, f)' = << >>
    BY <1>3 DEF RowsOf, Column
  <2>2. IsFiniteSet({}) /\ Cardinality({}) = 0
    BY FS_EmptySet
  <2>3. "DRAM" \in Engines
    BY DEF Engines
  <2>4. /\ \A e \in Engines :
             /\ IsFiniteSet(RowsOf(e)') /\ Cardinality(RowsOf(e)') = RanCount(e)'
             /\ Total(Column(e, "service")') = Took(e)'
             /\ Total(Column(e, "work")') = Ran(e)'
             /\ Total(Column(e, "bursts")') = 0
        /\ Ran("DRAM")' = 0
    BY <1>4, <2>1, <2>2, <2>3, TotalOfNone
  <2> QED BY <1>3, <2>3, <2>4 DEF Written, Unit
<1> QED BY <1>5, <1>6, <1>7 DEF TraceInv

LEMMA EventWritten == TraceInv /\ WriteEvent => TraceInv'
<1> SUFFICES ASSUME TraceInv, WriteEvent PROVE TraceInv'
  OBVIOUS
<1> DEFINE o == StatsOperators[op]
           service == o.work * RateOf(o.engine)
           start == Start(o.engine)
           r == [engine |-> o.engine, engine_ready |-> engine_ready_ms[o.engine],
                 start |-> start, end |-> start + service, service |-> service,
                 work |-> o.work, bursts |-> Bursts(o.engine, o.work)]
<1>1. Scheduled /\ Collected /\ Written /\ op \in 1..13 /\ model \in ModelProfile
  BY ModelFacts DEF TraceInv, Scheduled
<1>2. pass = "trace" /\ layer < model.layers /\ UNCHANGED <<model, rate, pass, stats>>
  BY DEF WriteEvent
<1>3. Schedule(o.engine, start + service) /\ trace' = Append(trace, r)
  <2>1. TraceOperators[op] = o /\ o.engine \in Engines
    BY <1>1, OperatorFacts
  <2>2. stats.ms[o.engine] = StageTime(o.engine)
    BY <1>1, <1>2, <2>1 DEF Collected
  <2> QED BY <2>1, <2>2 DEF WriteEvent, RateOf
<1>4. /\ Scheduled'
      /\ o.engine \in Engines /\ o.work \in Nat /\ service \in Nat
      /\ start = dependency_ready_ms /\ dependency_ready_ms \in Nat
      /\ dependency_ready_ms' = dependency_ready_ms + service
      /\ \A e \in Engines :
           /\ Ran(e) \in Nat /\ RanCount(e) \in Nat /\ Took(e) \in Nat
           /\ Ran(e)' = Ran(e) + (IF o.engine = e THEN o.work ELSE 0)
           /\ RanCount(e)' = RanCount(e) + (IF o.engine = e THEN 1 ELSE 0)
           /\ Took(e)' = Took(e) + (IF o.engine = e THEN service ELSE 0)
  <2> HIDE DEF o, service
  <2>1. o = StatsOperators[op] /\ service = o.work * RateOf(o.engine)
    BY DEF o, service
  <2> QED BY <1>1, <1>2, <1>3, <2>1, Step
<1> HIDE DEF o, service, start
<1>5. /\ Bursts(o.engine, o.work) \in Nat
      /\ o.engine # "DRAM" => Bursts(o.engine, o.work) = 0
      /\ o.engine = "DRAM" => o.work <= 64 * Unit * Bursts(o.engine, o.work)
  BY <1>4, BurstsHold DEF Bursts
<1>6. r \in TraceRow
  <2>1. engine_ready_ms[o.engine] \in Nat
    BY <1>1, <1>4 DEF Scheduled
  <2> QED BY <1>4, <1>5, <2>1 DEF TraceRow
<1>7. /\ r.engine = o.engine /\ r["service"] = service /\ r["work"] = o.work
      /\ r["bursts"] = Bursts(o.engine, o.work) /\ r.end = dependency_ready_ms'
  BY <1>4
<1> HIDE DEF r
<1>8. /\ trace \in Seq(TraceRow)
      /\ \A e \in Engines :
           /\ IsFiniteSet(RowsOf(e)) /\ Cardinality(RowsOf(e)) = RanCount(e)
           /\ Total(Column(e, "service")) = Took(e)
           /\ Total(Column(e, "work")) = Ran(e)
           /\ e # "DRAM" => Total(Column(e, "bursts")) = 0
      /\ Total(Column("DRAM", "bursts")) \in Nat
      /\ Ran("DRAM") <= 64 * Unit * Total(Column("DRAM", "bursts"))
      /\ WholeBursts => Ran("DRAM") = 64 * Unit * Total(Column("DRAM", "bursts"))
  BY <1>1, <1>2 DEF Written
<1>9. ASSUME NEW e \in Engines
      PROVE  /\ IsFiniteSet(RowsOf(e)')
             /\ Cardinality(RowsOf(e)') = RanCount(e)'
             /\ Total(Column(e, "service")') = Took(e)'
             /\ Total(Column(e, "work")') = Ran(e)'
             /\ Total(Column(e, "bursts")')
                  = Total(Column(e, "bursts")) + (IF r.engine = e THEN r["bursts"] ELSE 0)
  <2>1. /\ IsFiniteSet(RowsOf(e)')
        /\ Cardinality(RowsOf(e)') = Cardinality(RowsOf(e)) + (IF r.engine = e THEN 1 ELSE 0)
        /\ \A f \in {"service", "work", "bursts"} :
             Total(Column(e, f)') = Total(Column(e, f)) + (IF r.engine = e THEN r[f] ELSE 0)
    BY <1>3, <1>6, <1>8, RowAdded
  <2>2. /\ Total(Column(e, "service")')
             = Total(Column(e, "service")) + (IF r.engine = e THEN r["service"] ELSE 0)
        /\ Total(Column(e, "work")')
             = Total(Column(e, "work")) + (IF r.engine = e THEN r["work"] ELSE 0)
        /\ Total(Column(e, "bursts")')
             = Total(Column(e, "bursts")) + (IF r.engine = e THEN r["bursts"] ELSE 0)
    BY <2>1
  <2> QED BY <1>4, <1>7, <1>8, <2>1, <2>2
<1> DEFINE b  == Total(Column("DRAM", "bursts"))
           nb == Total(Column("DRAM", "bursts")')
           more == IF o.engine = "DRAM" THEN r["bursts"] ELSE 0
<1>10. "DRAM" \in Engines
  BY DEF Engines
<1>11. /\ nb = b + more /\ b \in Nat /\ more \in Nat /\ nb \in Nat
       /\ 64 * Unit * nb = 64 * Unit * b + 64 * Unit * more
       /\ 64 * Unit * b \in Nat /\ 64 * Unit * more \in Nat
  <2>1. nb = b + more /\ b \in Nat /\ more \in Nat
    BY <1>5, <1>7, <1>8, <1>9, <1>10
  <2> HIDE DEF b, nb, more
  <2> QED BY <2>1 DEF Unit
<1>12. Ran("DRAM")' <= 64 * Unit * nb
  <2>1. (IF o.engine = "DRAM" THEN o.work ELSE 0) <= 64 * Unit * more
    BY <1>5, <1>7, <1>11
  <2>2. Ran("DRAM")' = Ran("DRAM") + (IF o.engine = "DRAM" THEN o.work ELSE 0)
    BY <1>4, <1>10
  <2>3. Ran("DRAM") <= 64 * Unit * b /\ Ran("DRAM") \in Nat
    BY <1>4, <1>8, <1>10
  <2> HIDE DEF b, nb, more
  <2> QED BY <1>4, <1>11, <2>1, <2>2, <2>3
<1>13. ASSUME WholeBursts'
       PROVE  Ran("DRAM")' = 64 * Unit * nb
  <2> DEFINE n == Len(trace)
  <2>1. /\ n \in Nat /\ DOMAIN trace = 1..n /\ DOMAIN trace' = 1..n + 1
        /\ trace'[n + 1] = r
        /\ \A m \in 1..n : trace'[m] = trace[m] /\ m \in 1..n + 1
        /\ n + 1 \in 1..n + 1
    BY <1>3, <1>6, <1>8
  <2> HIDE DEF n
  <2>2. \A m \in 1..n + 1 : trace'[m].engine = "DRAM" => trace'[m].bursts * 64 * Unit = trace'[m].work
    BY <1>13, <2>1 DEF WholeBursts, RowsOf
  <2>3. WholeBursts
    BY <2>1, <2>2 DEF WholeBursts, RowsOf
  <2>4. Ran("DRAM") = 64 * Unit * b
    BY <1>8, <2>3
  <2>5. (IF o.engine = "DRAM" THEN o.work ELSE 0) = 64 * Unit * more
    <3>1. CASE o.engine = "DRAM"
      <4>1. r.bursts * 64 * Unit = r.work
        BY <1>7, <2>1, <2>2, <3>1
      <4>2. more = r.bursts /\ r.work = o.work
        BY <1>7, <3>1
      <4>3. more * 64 * Unit = 64 * Unit * more
        <5> HIDE DEF more
        <5> QED BY <1>11 DEF Unit
      <4> QED BY <3>1, <4>1, <4>2, <4>3
    <3>2. CASE o.engine # "DRAM"
      BY <3>2 DEF Unit
    <3> QED BY <3>1, <3>2
  <2>6. Ran("DRAM")' = Ran("DRAM") + (IF o.engine = "DRAM" THEN o.work ELSE 0)
    BY <1>4, <1>10
  <2> HIDE DEF b, nb, more
  <2> QED BY <1>11, <2>4, <2>5, <2>6
<1>14. Written'
  <2>1. pass' = "trace"
    BY <1>2
  <2>2. /\ trace' \in Seq(TraceRow) /\ trace' # << >>
        /\ trace'[Len(trace')].end = dependency_ready_ms'
    BY <1>3, <1>6, <1>7, <1>8
  <2>3. ASSUME NEW e \in Engines, e # "DRAM"
        PROVE  Total(Column(e, "bursts")') = 0
    BY <1>5, <1>7, <1>8, <1>9, <2>3
  <2> HIDE DEF more
  <2> QED BY <1>9, <1>11, <1>12, <1>13, <2>1, <2>2, <2>3 DEF Written
<1>15. Collected'
  <2>1. ASSUME NEW e \in Engines
        PROVE  /\ TotalWork(e)' = TotalWork(e) /\ StageTime(e)' = StageTime(e)
               /\ CountBefore(e, 14)' = CountBefore(e, 14)
    BY <1>2 DEF TotalWork, StageTime, CountBefore
  <2>2. Bursts("DRAM", TotalWork("DRAM"))' = Bursts("DRAM", TotalWork("DRAM"))
    BY <1>10, <2>1 DEF Bursts, CeilDiv
  <2>3. /\ StageTime("IFC")' = StageTime("IFC") /\ StageTime("DRAM")' = StageTime("DRAM")
        /\ StageTime("NPU")' = StageTime("NPU")
    BY <2>1 DEF Engines
  <2>4. pass' # "stats" /\ pass # "stats" /\ stats' = stats /\ model' = model
    BY <1>2
  <2> QED BY <1>1, <2>1, <2>2, <2>3, <2>4 DEF Collected
<1> QED BY <1>4, <1>14, <1>15 DEF TraceInv

(* Steps that write and collect nothing.                                   *)
LEMMA OnlyPass ==
  ASSUME TraceInv,
         UNCHANGED <<model, rate, layer, op, dependency_ready_ms, engine_ready_ms, stats, trace>>,
         \/ pass' = pass
         \/ pass = "trace" /\ pass' = "failed"
         \/ pass = "trace" /\ pass' = "ok" /\ layer = model.layers
  PROVE  TraceInv'
<1>1. ASSUME NEW e \in Engines
      PROVE  /\ Ran(e)' = Ran(e) /\ RanCount(e)' = RanCount(e) /\ Took(e)' = Took(e)
             /\ TotalWork(e)' = TotalWork(e) /\ StageTime(e)' = StageTime(e)
             /\ CountBefore(e, 14)' = CountBefore(e, 14)
             /\ RowsOf(e)' = RowsOf(e) /\ \A f : Column(e, f)' = Column(e, f)
  <2>1. /\ TotalWork(e)' = TotalWork(e) /\ StageTime(e)' = StageTime(e)
        /\ LayerWork(e)' = LayerWork(e) /\ WeightSplit' = WeightSplit
        /\ RowsOf(e)' = RowsOf(e) /\ \A f : Column(e, f)' = Column(e, f)
    BY DEF TotalWork, StageTime, LayerWork, WeightSplit, RowsOf, Column
  <2>2. /\ CountBefore(e, 14)' = CountBefore(e, 14) /\ CountBefore(e, op)' = CountBefore(e, op)
        /\ WorkBefore(e, op)' = WorkBefore(e, op)
    BY <2>1 DEF CountBefore, WorkBefore
  <2>3. RateOf(e)' = RateOf(e)
    BY <2>1 DEF RateOf, Scale
  <2>4. Ran(e)' = Ran(e) /\ RanCount(e)' = RanCount(e)
    BY <2>1, <2>2 DEF Ran, RanCount
  <2> QED BY <2>1, <2>2, <2>3, <2>4 DEF Took
<1>2. "IFC" \in Engines /\ "DRAM" \in Engines /\ "NPU" \in Engines
  BY DEF Engines
<1>3. Scheduled'
  BY <1>1, <1>2 DEF TraceInv, Scheduled
<1>4. Bursts("DRAM", TotalWork("DRAM"))' = Bursts("DRAM", TotalWork("DRAM"))
  BY <1>1, <1>2 DEF Bursts, CeilDiv
<1>5. Collected'
  BY <1>1, <1>2, <1>4 DEF TraceInv, Collected
<1>6. WholeBursts' = WholeBursts
  BY <1>1, <1>2 DEF WholeBursts
<1>7. Written'
  <2>1. pass' = "ok" => layer' = model'.layers
    BY DEF TraceInv, Written
  <2>2. pass' # "stats" => pass # "stats"
    OBVIOUS
  <2> QED BY <1>1, <1>2, <1>6, <2>1, <2>2 DEF TraceInv, Written
<1> QED BY <1>3, <1>5, <1>7 DEF TraceInv

LEMMA TraceInvKept == TraceInv /\ [TraceNext]_tvars => TraceInv'
<1> SUFFICES ASSUME TraceInv, [TraceNext]_tvars PROVE TraceInv'
  OBVIOUS
<1>1. CASE AddStage
  BY <1>1, StageAdded
<1>2. CASE EndStats
  BY <1>2, StatsEnded
<1>3. CASE WriteEvent
  BY <1>3, EventWritten
<1>4. CASE WriteError
  BY <1>4, OnlyPass DEF WriteError
<1>5. CASE EndTrace
  BY <1>5, OnlyPass DEF EndTrace
<1>6. CASE TraceTerminated
  BY <1>6, OnlyPass DEF TraceTerminated, tvars
<1>7. CASE UNCHANGED tvars
  BY <1>7, OnlyPass DEF tvars
<1> QED BY <1>1, <1>2, <1>3, <1>4, <1>5, <1>6, <1>7 DEF TraceNext

(* The totals that replace the statistics of ifc_operator_trace_stats are  *)
(* what its first pass collected, for all models and rates: the shares of  *)
(* the operators, in percent and thirds, lose nothing.                     *)
THEOREM TotalsRight == TraceSpec => TotalsCollected
<1>1. TraceInv /\ [TraceNext]_tvars =>
        [EndStats => /\ stats'.ms = stats.ms
                     /\ stats'.work = stats.work
                     /\ stats'.total_ms = stats.total_ms]_tvars
  BY TotalsFit
<1> QED BY <1>1, TraceStarts, TraceInvKept, PTL DEF TraceSpec, TotalsCollected

(* A trace that write_operator_trace_for_row completes has the operators,  *)
(* time and work of the statistics, ends when they say, and has no fewer   *)
(* bursts than they have, for all models and rates.                        *)
THEOREM TraceRight == TraceSpec => []TraceAddsUp
<1>1. TraceInv => TraceAddsUp
  <2> SUFFICES ASSUME TraceInv, pass = "ok" PROVE TraceAddsUp
    BY DEF TraceAddsUp
  <2>1. layer = model.layers /\ op = 1
    BY DEF TraceInv, Written, Scheduled
  <2>2. model \in ModelProfile /\ rate \in [Engines -> Nat] /\ model.layers \in Nat \ {0}
    <3>1. model \in ModelProfile /\ rate \in [Engines -> Nat]
      BY ModelFacts DEF TraceInv, Scheduled
    <3> QED BY <3>1 DEF ModelProfile
  <2>3. \A e \in Engines : /\ Ran(e) = TotalWork(e) /\ Took(e) = StageTime(e)
                           /\ RanCount(e) = model.layers * CountBefore(e, 14)
    BY <2>1, <2>2, WorkDone
  <2>4. "IFC" \in Engines /\ "DRAM" \in Engines /\ "NPU" \in Engines
    BY DEF Engines
  <2>5. \A e \in Engines : /\ Cardinality(RowsOf(e)) = stats.count[e]
                           /\ Total(Column(e, "service")) = stats.ms[e]
                           /\ Total(Column(e, "work")) = stats.work[e]
                           /\ e # "DRAM" => Total(Column(e, "bursts")) = 0
    BY <2>3 DEF TraceInv, Collected, Written
  <2>6. trace[Len(trace)].end = stats.total_ms
    BY <2>1, <2>2, <2>3, <2>4 DEF TraceInv, Scheduled, Collected, Written
  <2> DEFINE b == Total(Column("DRAM", "bursts"))
  <2>7. /\ b \in Nat /\ TotalWork("DRAM") <= 64 * Unit * b
        /\ WholeBursts => TotalWork("DRAM") = 64 * Unit * b
        /\ stats.dram_bursts = Bursts("DRAM", TotalWork("DRAM"))
    BY <2>3, <2>4 DEF TraceInv, Collected, Written
  <2>8. TotalWork("DRAM") \in Nat
    BY <2>2, <2>4, RateFacts
  <2> HIDE DEF b
  <2>9. stats.dram_bursts <= b /\ (WholeBursts => stats.dram_bursts = b)
    BY <2>7, <2>8, BurstsHold
  <2> QED BY <2>5, <2>6, <2>9 DEF TraceAddsUp, WholeBursts, b
<1> QED BY <1>1, TraceStarts, TraceInvKept, PTL DEF TraceSpec

-----------------------------------------------------------------------------
(* Sums of columns.                                                        *)

Prefix(t, l) == [n \in 1..l |-> t[n]]

LEMMA TotalOfPrefix ==
  ASSUME NEW t, NEW l \in Nat, \A n \in 1..l + 1 : t[n] \in Int
  PROVE  /\ Total(Prefix(t, 0)) = 0
         /\ Total(Prefix(t, l)) \in Int
         /\ Total(Prefix(t, l + 1)) = Total(Prefix(t, l)) + t[l + 1]
<1> DEFINE v == Prefix(t, l)
           w == Prefix(t, l + 1)
           x == t[l + 1]
<1>1. v \in Seq(Int) /\ Len(v) = l /\ \A n \in 1..l : v[n] = t[n]
  <2>1. \A n \in 1..l : t[n] \in Int
    OBVIOUS
  <2> QED BY <2>1 DEF Prefix
<1>2. w \in Seq(Int) /\ Len(w) = l + 1 /\ \A n \in 1..l + 1 : w[n] = t[n]
  <2>1. \A n \in 1..l + 1 : t[n] \in Int
    OBVIOUS
  <2> QED BY <2>1 DEF Prefix
<1>3. x \in Int
  OBVIOUS
<1> HIDE DEF v, w, x
<1>4. w = Append(v, x)
  <2> DEFINE u == Append(v, x)
  <2>1. /\ u \in Seq(Int) /\ Len(u) = l + 1
        /\ \A n \in 1..l + 1 : u[n] = IF n = l + 1 THEN x ELSE v[n]
    BY <1>1, <1>3
  <2> HIDE DEF u
  <2>2. \A n \in 1..l + 1 : u[n] = w[n]
    <3> TAKE n \in 1..l + 1
    <3>1. n = l + 1 => u[n] = w[n]
      BY <1>2, <2>1 DEF x
    <3>2. n # l + 1 => n \in 1..l
      OBVIOUS
    <3>3. n # l + 1 => u[n] = w[n]
      BY <1>1, <1>2, <2>1, <3>2
    <3> QED BY <3>1, <3>3
  <2>3. u = w
    BY <1>2, <2>1, <2>2
  <2> QED BY <2>3 DEF u
<1>5. Total(v) \in Int /\ Total(w) = Total(v) + x
  BY <1>1, <1>3, <1>4, TotalOfAppend
<1>6. Prefix(t, 0) = << >>
  BY DEF Prefix
<1> QED BY <1>5, <1>6, TotalOfNone DEF v, w, x

(* A sum of numbers is one.                                                *)
LEMMA TotalType ==
  ASSUME NEW m \in Nat, NEW t \in [1..m -> Int]
  PROVE  Total(t) \in Int /\ Prefix(t, m) = t
<1>1. Prefix(t, m) = t
  BY DEF Prefix
<1>2. CASE m = 0
  <2>1. t = << >>
    BY <1>2
  <2> QED BY <1>1, <2>1, TotalOfNone
<1>3. CASE m # 0
  <2>1. m - 1 \in Nat /\ (m - 1) + 1 = m /\ \A n \in 1..(m - 1) + 1 : t[n] \in Int
    BY <1>3
  <2>2. /\ Total(Prefix(t, m - 1)) \in Int /\ t[m] \in Int
        /\ Total(Prefix(t, m)) = Total(Prefix(t, m - 1)) + t[m]
    BY <2>1, TotalOfPrefix, <1>3
  <2> QED BY <1>1, <2>2
<1> QED BY <1>2, <1>3

(* A number that grows makes the sum grow as much.                         *)
LEMMA TotalOfOneMore ==
  ASSUME NEW m \in Nat, NEW t \in [1..m -> Int], NEW u \in [1..m -> Int],
         NEW j \in 1..m, NEW x \in Int,
         \A n \in 1..m : u[n] = t[n] + (IF n = j THEN x ELSE 0)
  PROVE  Total(u) = Total(t) + x
<1> DEFINE Right(l) == Total(Prefix(u, l)) = Total(Prefix(t, l)) + (IF j <= l THEN x ELSE 0)
           T == {l \in 0..m : ~Right(l)}
<1>1. T = {}
  <2> SUFFICES ASSUME T # {} PROVE FALSE
    OBVIOUS
  <2>1. PICK l \in T : \A k \in T : l <= k
    <3>1. T \in SUBSET Nat
      OBVIOUS
    <3> HIDE DEF T
    <3> QED BY <3>1, LeastNumber
  <2>2. CASE l = 0
    <3>1. Total(Prefix(u, 0)) = 0 /\ Total(Prefix(t, 0)) = 0
      BY TotalOfNone DEF Prefix
    <3> QED BY <2>1, <2>2, <3>1
  <2>3. CASE l # 0
    <3> DEFINE k == l - 1
    <3>1. k \in Nat /\ k \in 0..m /\ ~(l <= k) /\ l = k + 1 /\ k + 1 \in 1..m
      BY <2>1, <2>3
    <3>2. Right(k)
      BY <2>1, <3>1
    <3>3. ~Right(l)
      BY <2>1
    <3> HIDE DEF k, T
    <3>4. /\ \A n \in 1..k + 1 : t[n] \in Int
          /\ \A n \in 1..k + 1 : u[n] \in Int
      BY <3>1
    <3>5. /\ Total(Prefix(t, k)) \in Int /\ Total(Prefix(t, k + 1)) = Total(Prefix(t, k)) + t[k + 1]
          /\ Total(Prefix(u, k)) \in Int /\ Total(Prefix(u, k + 1)) = Total(Prefix(u, k)) + u[k + 1]
      BY <3>1, <3>4, TotalOfPrefix
    <3>6. t[k + 1] \in Int /\ u[k + 1] = t[k + 1] + (IF k + 1 = j THEN x ELSE 0)
      BY <3>1
    <3> QED BY <3>1, <3>2, <3>3, <3>5, <3>6
  <2> QED BY <2>2, <2>3
<1>2. m \in 0..m /\ j <= m
  OBVIOUS
<1>3. Right(m)
  BY <1>1, <1>2
<1> QED BY <1>2, <1>3, TotalType

(* Sums of nothing, and of ones.                                           *)
LEMMA TotalOfSame ==
  ASSUME NEW m \in Nat, NEW x \in {0, 1}
  PROVE  Total([n \in 1..m |-> x]) = m * x
<1> DEFINE t == [n \in 1..m |-> x]
           Right(l) == Total(Prefix(t, l)) = l * x
           T == {l \in 0..m : ~Right(l)}
<1>1. T = {}
  <2> SUFFICES ASSUME T # {} PROVE FALSE
    OBVIOUS
  <2>1. PICK l \in T : \A k \in T : l <= k
    <3>1. T \in SUBSET Nat
      OBVIOUS
    <3> HIDE DEF T
    <3> QED BY <3>1, LeastNumber
  <2>2. CASE l = 0
    <3>1. Total(Prefix(t, 0)) = 0
      BY TotalOfNone DEF Prefix
    <3> QED BY <2>1, <2>2, <3>1
  <2>3. CASE l # 0
    <3> DEFINE k == l - 1
    <3>1. k \in Nat /\ k \in 0..m /\ ~(l <= k) /\ l = k + 1 /\ k + 1 \in 1..m
      BY <2>1, <2>3
    <3>2. Right(k) /\ ~Right(l)
      BY <2>1, <3>1
    <3>3. \A n \in 1..k + 1 : t[n] \in Int /\ t[n] = x
      BY <3>1
    <3> HIDE DEF k, T, t
    <3>4. Total(Prefix(t, k + 1)) = Total(Prefix(t, k)) + t[k + 1]
      BY <3>1, <3>3, TotalOfPrefix
    <3>5. t[k + 1] = x
      BY <3>1, <3>3
    <3> QED BY <3>1, <3>2, <3>4, <3>5
  <2> QED BY <2>2, <2>3
<1>2. m \in 0..m /\ t \in [1..m -> Int]
  OBVIOUS
<1>3. Right(m)
  BY <1>1, <1>2
<1> HIDE DEF t
<1>4. Total(t) = m * x
  BY <1>2, <1>3, TotalType
<1> QED BY <1>4 DEF t

(* Of every part of the rows the sum, all parts together, is the sum of    *)
(* the rows.  g says which part a row is in.                               *)
PartTotal(t, g, k, l) == Total([n \in 1..l |-> IF g[n] = k THEN t[n] ELSE 0])

LEMMA PartGrows ==
  ASSUME NEW m \in Nat, NEW t \in [1..m -> Int], NEW g, NEW k, NEW l \in Nat, l + 1 <= m
  PROVE  /\ PartTotal(t, g, k, 0) = 0
         /\ PartTotal(t, g, k, l) \in Int
         /\ PartTotal(t, g, k, l + 1) = PartTotal(t, g, k, l) + (IF g[l + 1] = k THEN t[l + 1] ELSE 0)
<1> DEFINE u == [n \in 1..m |-> IF g[n] = k THEN t[n] ELSE 0]
<1>1. \A n \in 1..m : u[n] \in Int
  OBVIOUS
<1>2. /\ Prefix(u, 0) = [n \in 1..0 |-> IF g[n] = k THEN t[n] ELSE 0]
      /\ Prefix(u, l) = [n \in 1..l |-> IF g[n] = k THEN t[n] ELSE 0]
      /\ Prefix(u, l + 1) = [n \in 1..l + 1 |-> IF g[n] = k THEN t[n] ELSE 0]
  BY DEF Prefix
<1>3. u[l + 1] = IF g[l + 1] = k THEN t[l + 1] ELSE 0
  OBVIOUS
<1>4. \A n \in 1..l + 1 : u[n] \in Int
  BY <1>1
<1> HIDE DEF u
<1>5. /\ Total(Prefix(u, 0)) = 0 /\ Total(Prefix(u, l)) \in Int
      /\ Total(Prefix(u, l + 1)) = Total(Prefix(u, l)) + u[l + 1]
  BY <1>4, TotalOfPrefix
<1> QED BY <1>2, <1>3, <1>5 DEF PartTotal

TotalOfParts(t, g, c, m) == Total([k \in 1..c |-> PartTotal(t, g, k, m)])

LEMMA PartsAddUp ==
  ASSUME NEW m \in Nat, NEW t \in [1..m -> Int], NEW c \in Nat, NEW g \in [1..m -> 1..c]
  PROVE  TotalOfParts(t, g, c, m) = Total(t)
<1> DEFINE Sums(l) == [k \in 1..c |-> PartTotal(t, g, k, l)]
           Right(l) == Total(Sums(l)) = Total(Prefix(t, l))
           T == {l \in 0..m : ~Right(l)}
<1>1. T = {}
  <2> SUFFICES ASSUME T # {} PROVE FALSE
    OBVIOUS
  <2>1. PICK l \in T : \A k \in T : l <= k
    <3>1. T \in SUBSET Nat
      OBVIOUS
    <3> HIDE DEF T
    <3> QED BY <3>1, LeastNumber
  <2>2. CASE l = 0
    <3>1. Total(Prefix(t, 0)) = 0
      BY TotalOfNone DEF Prefix
    <3>2. \A k : PartTotal(t, g, k, 0) = 0
      BY TotalOfNone DEF PartTotal
    <3>3. Sums(0) = [k \in 1..c |-> 0]
      BY <3>2
    <3>4. Total([k \in 1..c |-> 0]) = c * 0
      BY TotalOfSame
    <3>5. Total([k \in 1..c |-> 0]) = 0
      BY <3>4
    <3>6. ~Right(0)
      BY <2>1, <2>2
    <3> HIDE DEF T, Sums
    <3> QED BY <3>1, <3>3, <3>5, <3>6
  <2>3. CASE l # 0
    <3> DEFINE i == l - 1
               x == t[i + 1]
               j == g[i + 1]
    <3>1. i \in Nat /\ i \in 0..m /\ ~(l <= i) /\ l = i + 1 /\ i + 1 \in 1..m /\ i + 1 <= m
      BY <2>1, <2>3
    <3>2. Right(i) /\ ~Right(l)
      BY <2>1, <3>1
    <3>3. x \in Int /\ j \in 1..c
      BY <3>1
    <3> HIDE DEF i, T
    <3>4. \A k : /\ PartTotal(t, g, k, i) \in Int
                 /\ PartTotal(t, g, k, i + 1) = PartTotal(t, g, k, i) + (IF j = k THEN x ELSE 0)
      BY <3>1, PartGrows
    <3>5. /\ Sums(i) \in [1..c -> Int] /\ Sums(i + 1) \in [1..c -> Int]
          /\ \A k \in 1..c : Sums(i + 1)[k] = Sums(i)[k] + (IF k = j THEN x ELSE 0)
      <4> HIDE DEF x, j
      <4>1. \A k \in 1..c : PartTotal(t, g, k, i) \in Int /\ PartTotal(t, g, k, i + 1) \in Int
        BY <3>3, <3>4
      <4> QED BY <3>4, <4>1
    <3> DEFINE a == Sums(i)
               b == Sums(i + 1)
    <3>6. Total(b) = Total(a) + x
      <4> HIDE DEF x, j, a, b
      <4> QED BY <3>3, <3>5, TotalOfOneMore DEF a, b
    <3>7. Total(Prefix(t, i + 1)) = Total(Prefix(t, i)) + x
      <4>1. \A n \in 1..i + 1 : t[n] \in Int
        BY <3>1
      <4> QED BY <3>1, <4>1, TotalOfPrefix
    <3> HIDE DEF Sums
    <3> QED BY <3>1, <3>2, <3>6, <3>7
  <2> QED BY <2>2, <2>3
<1>2. m \in 0..m
  OBVIOUS
<1>3. Right(m)
  BY <1>1, <1>2
<1> QED BY <1>3, TotalType DEF TotalOfParts

-----------------------------------------------------------------------------
(* What is loaded is good for a run.                                       *)

(* The rows are values that times are known for, and no time or speed that *)
(* divides is 0; but while the system's file is read the peak may be.      *)
GoodSystem ==
  /\ system.npu_frequency > 0 /\ system.npu_ops_per_cycle > 0 /\ system.context_tokens >= 0
  /\ system.npu_peak > 0 \/ (pc \in {"read", "failed"} /\ Loader = "system")

GoodValues ==
  /\ \A t \in Tables : \A r \in 1..Rows[t] : tables[t][r] \in Values(t)
  /\ GoodSystem

LEMMA PositiveProduct ==
  ASSUME NEW a \in Int, NEW b \in Int, a > 0, b > 0
  PROVE  a * b > 0
OBVIOUS

LEMMA GoodInit == Init => GoodValues
<1> SUFFICES ASSUME Init PROVE GoodValues
  OBVIOUS
<1>1. tables = Defaults /\ system = DefaultSystem
  BY DEF Init
<1>2. GoodSystem
  BY <1>1, ConfigLoadAssumption, ReproductionAssumption DEF GoodSystem
<1> QED BY <1>1, <1>2 DEF GoodValues, Values

LEMMA GoodRow == LoadInv /\ GoodValues /\ ReadRow => GoodValues'
<1> SUFFICES ASSUME LoadInv, GoodValues, ReadRow PROVE GoodValues'
  OBVIOUS
<1>1. /\ pc = "read" /\ line <= Len(File) /\ Line # Blank /\ Loader # "system"
      /\ files' = files /\ system' = system /\ pc' \in {"read", "failed"}
  BY DEF ReadRow, AtLine, Fail
<1>2. LoadTypes /\ Opened /\ row \in Nat
  BY <1>1 DEF LoadInv, LoadTypes
<1>3. GoodSystem'
  BY <1>1 DEF GoodValues, GoodSystem
<1>4. CASE tables' = tables
  BY <1>3, <1>4 DEF GoodValues
<1>5. CASE tables' # tables
  <2>2. tables' = [tables EXCEPT ![Loader][row + 1] = Line.value]
    BY <1>5 DEF ReadRow, Fail
  <2>3. Loader \in Tables /\ Len(files) \in 1..4 /\ Loaders[Len(files)] = Loader
    <3>1. Len(files) \in 1..4
      BY <1>1, <1>2 DEF LoadTypes
    <3> QED BY <1>1, <3>1, LoaderFacts DEF Loader
  <2>4. File \in TableFiles[Loader] /\ Len(File) \in Nat
    <3>1. Len(files) \in 1..Len(files)
      BY <2>3
    <3>2. File \in Entry(Len(files)) /\ File \notin {NotGiven, Missing}
      BY <1>2, <3>1 DEF LoadTypes, Opened, File
    <3>3. File \in TableFiles[Loader]
      BY <1>1, <2>3, <3>2 DEF Entry
    <3> QED BY <2>3, <3>3, ConfigLoadAssumption
  <2>5. Line.value \in Values(Loader)
    <3>1. line \in DataLines(File)
      BY <1>1, <1>2, <2>4 DEF DataLines, Line, Opened, LoadTypes
    <3>2. Line.value \in {File[n].value : n \in DataLines(File)}
      BY <3>1 DEF Line
    <3> QED BY <2>4, <3>2 DEF Values
  <2>6. ASSUME NEW t \in Tables, NEW r \in 1..Rows[t]
        PROVE  tables'[t][r] \in Values(t)
    <3>1. /\ tables[t] = [q \in 1..Rows[t] |-> tables[t][q]] /\ t \in DOMAIN tables
          /\ tables[t][r] \in Values(t)
      BY <1>2, <2>6 DEF GoodValues, LoadTypes
    <3>2. CASE t = Loader
      <4>1. tables'[t] = [tables[t] EXCEPT ![row + 1] = Line.value]
        BY <2>2, <3>1, <3>2
      <4>2. tables'[t][r] = IF r = row + 1 THEN Line.value ELSE tables[t][r]
        BY <3>1, <4>1
      <4> QED BY <2>5, <3>1, <3>2, <4>2
    <3>3. CASE t # Loader
      BY <2>2, <3>1, <3>3
    <3> QED BY <3>2, <3>3
  <2> QED BY <1>3, <2>6 DEF GoodValues
<1> QED BY <1>4, <1>5

LEMMA GoodKey == LoadInv /\ GoodValues /\ ReadKey => GoodValues'
<1> SUFFICES ASSUME LoadInv, GoodValues, ReadKey PROVE GoodValues'
  OBVIOUS
<1> DEFINE k == Len(files)
           l == File[line]
<1>1. /\ pc = "read" /\ line <= Len(File) /\ File[line] # Blank /\ Loader = "system"
      /\ files' = files /\ tables' = tables /\ Loader' = Loader /\ pc' \in {"read", "failed"}
  BY DEF ReadKey, AtLine, Line, Loader, Fail
<1>2. LoadTypes /\ Opened /\ k \in 1..k /\ k \in 1..4
  BY <1>1 DEF LoadInv, LoadTypes
<1>3. /\ File \in SystemFiles /\ Len(File) \in Nat /\ line \in Nat /\ line \in DataLines(File)
      /\ l.columns \in Nat /\ (l.columns >= 2 => l.value \in Int)
  <2>1. SystemFile(File)
    BY <1>1, <1>2, FileFacts DEF File, Loader, Opened
  <2>2. line \in DataLines(File)
    BY <1>1, <1>2, <2>1 DEF DataLines, Opened, LoadTypes, SystemFile
  <2>3. File \in Entry(k) /\ File \notin {NotGiven, Missing}
    BY <1>2 DEF LoadTypes, Opened, File
  <2>4. File \in SystemFiles
    BY <1>1, <2>3 DEF Entry, Loader
  <2> QED BY <1>2, <2>1, <2>2, <2>4 DEF LoadTypes, SystemFile
<1>4. CASE system' = system
  BY <1>1, <1>4 DEF GoodValues, GoodSystem
<1>5. CASE system' # system
  <2>1. l.columns >= 2 /\ l.key \in DOMAIN system /\ system' = [system EXCEPT ![l.key] = l.value]
    BY <1>1, <1>3, <1>5 DEF ReadKey, Line, SetKey, Split, Fail
  <2>2. /\ l.key \in {"npu_frequency", "npu_ops_per_cycle"} => l.value > 0
        /\ l.key = "context_tokens" => l.value >= 0
    BY <1>3, <2>1, ReproductionAssumption
  <2>3. system \in SystemProfile
    BY <1>2 DEF LoadTypes
  <2> HIDE DEF l
  <2>4. \A key \in {"npu_frequency", "npu_ops_per_cycle", "context_tokens"} :
          system'[key] = IF l.key = key THEN l.value ELSE system[key]
    BY <2>1, <2>3 DEF SystemProfile
  <2>5. /\ system'.npu_frequency > 0 /\ system'.npu_ops_per_cycle > 0
        /\ system'.context_tokens >= 0
    BY <2>2, <2>4 DEF GoodValues, GoodSystem
  <2> QED BY <1>1, <2>5 DEF GoodValues, GoodSystem
<1> QED BY <1>4, <1>5

LEMMA GoodStep == LoadInv /\ GoodValues /\ [ReproductionNext]_<<vars, rvars>> => GoodValues'
<1> SUFFICES ASSUME LoadInv, GoodValues, [ReproductionNext]_<<vars, rvars>> PROVE GoodValues'
  OBVIOUS
<1>1. CASE Open
  BY <1>1 DEF Open, GoodValues, GoodSystem
<1>2. CASE SkipBlank
  BY <1>2 DEF SkipBlank, AtLine, GoodValues, GoodSystem, Loader
<1>3. CASE ReadRow
  BY <1>3, GoodRow
<1>4. CASE EndTable
  BY <1>4 DEF EndTable, AtEnd, GoodValues, GoodSystem
<1>5. CASE ReadKey
  BY <1>5, GoodKey
<1>6. CASE EndSystem
  <2>1. system \in SystemProfile
    BY DEF LoadInv, LoadTypes
  <2>2. system.npu_frequency \in Int /\ system.npu_ops_per_cycle \in Int /\ system.npu_peak \in Int
    BY <2>1 DEF SystemProfile
  <2>3. Derived(system) > 0
    BY <2>2, PositiveProduct DEF Derived, GoodValues, GoodSystem
  <2>4. /\ system'.npu_frequency = system.npu_frequency
        /\ system'.npu_ops_per_cycle = system.npu_ops_per_cycle
        /\ system'.context_tokens = system.context_tokens
        /\ system'.npu_peak = IF system.npu_peak <= 0 THEN Derived(system) ELSE system.npu_peak
    BY <1>6, <2>1 DEF EndSystem, SystemProfile
  <2>5. tables' = tables
    BY <1>6 DEF EndSystem
  <2> QED BY <2>2, <2>3, <2>4, <2>5 DEF GoodValues, GoodSystem
<1>7. CASE Simulate \/ BeginSweep \/ EndSweep
  BY <1>7 DEF Simulate, BeginSweep, EndSweep, GoodValues, GoodSystem
<1>8. CASE UNCHANGED vars
  BY <1>8 DEF vars, GoodValues, GoodSystem, Loader
<1> QED BY <1>1, <1>2, <1>3, <1>4, <1>5, <1>6, <1>7, <1>8
        DEF ReproductionNext, Load, SimulateRow, SweepContext, ReproductionTerminated

LEMMA GoodInvariance == ReproductionSpec => []GoodValues
<1>1. ReproductionInit => GoodValues
  BY GoodInit DEF ReproductionInit
<1> QED BY <1>1, LoadInvariance, GoodStep, PTL DEF ReproductionSpec

(* What a loaded configuration is.                                         *)
LEMMA LoadedFacts ==
  ASSUME LoadInv, GoodValues, pc \in {"simulate", "sweep", "done"}
  PROVE  /\ \A m \in 1..IFC_MODEL_COUNT : tables.models[m] \in Values("models")
         /\ \A p \in 1..IFC_PLATFORM_COUNT : tables.platforms[p] \in Values("platforms")
         /\ \A m \in 1..IFC_MODEL_COUNT : tables.reference[m] \in Values("reference")
         /\ system.context_tokens \in Nat /\ system.npu_peak \in Nat \ {0}
<1>1. "models" \in Tables /\ "platforms" \in Tables /\ "reference" \in Tables
  BY LoaderFacts
<1>2. /\ Rows["models"] = IFC_MODEL_COUNT /\ Rows["platforms"] = IFC_PLATFORM_COUNT
      /\ Rows["reference"] = IFC_MODEL_COUNT
  BY DEF Rows
<1>3. system \in SystemProfile
  BY DEF LoadInv, LoadTypes
<1>4. system.context_tokens \in Int /\ system.npu_peak \in Int
  BY <1>3 DEF SystemProfile
<1> QED BY <1>1, <1>2, <1>4 DEF GoodValues, GoodSystem

-----------------------------------------------------------------------------
(* Greatest numbers.                                                       *)

LEMMA MaxIs ==
  ASSUME NEW S \in SUBSET Int, NEW x \in S, \A y \in S : y <= x
  PROVE  Max(S) = x
<1>1. Max(S) = CHOOSE z \in S : \A y \in S : z >= y
  BY DEF Max
<1>2. \A y \in S : x >= y
  OBVIOUS
<1>3. \A z \in S : (\A y \in S : z >= y) => z = x
  OBVIOUS
<1> QED BY <1>1, <1>2, <1>3

LEMMA MinIs ==
  ASSUME NEW S \in SUBSET Int, NEW x \in S, \A y \in S : x <= y
  PROVE  Min(S) = x
<1>1. Min(S) = CHOOSE z \in S : \A y \in S : z =< y
  BY DEF Min
<1>2. \A z \in S : (\A y \in S : z =< y) => z = x
  OBVIOUS
<1> QED BY <1>1, <1>2

(* One of finitely many numbers is the greatest.                           *)
LEMMA GreatestOf ==
  ASSUME NEW m \in Nat \ {0}, NEW f, \A n \in 1..m : f[n] \in Int
  PROVE  \E n \in 1..m : \A i \in 1..m : f[i] <= f[n]
<1> DEFINE Has(l) == \E n \in 1..l : \A i \in 1..l : f[i] <= f[n]
           T == {l \in 1..m : ~Has(l)}
<1>1. T = {}
  <2> SUFFICES ASSUME T # {} PROVE FALSE
    OBVIOUS
  <2>1. PICK l \in T : \A k \in T : l <= k
    <3>1. T \in SUBSET Nat
      OBVIOUS
    <3> HIDE DEF T
    <3> QED BY <3>1, LeastNumber
  <2>2. l \in 1..m /\ ~Has(l)
    BY <2>1
  <2>3. CASE l = 1
    <3>1. \A i \in 1..1 : f[i] <= f[1]
      OBVIOUS
    <3> QED BY <2>2, <2>3, <3>1
  <2>4. CASE l # 1
    <3>1. l - 1 \in 1..m /\ ~(l <= l - 1)
      BY <2>2, <2>4
    <3>2. l - 1 \notin T
      BY <2>1, <3>1
    <3>3. PICK n \in 1..(l - 1) : \A i \in 1..(l - 1) : f[i] <= f[n]
      BY <3>1, <3>2
    <3>4. f[n] \in Int /\ f[l] \in Int /\ n \in 1..l /\ l \in 1..l
      BY <2>2, <3>1
    <3>5. CASE f[n] <= f[l]
      <4>1. \A i \in 1..l : f[i] <= f[l]
        <5> TAKE i \in 1..l
        <5>1. f[i] \in Int
          BY <2>2
        <5> QED BY <3>3, <3>4, <3>5, <5>1
      <4>2. Has(l)
        BY <3>4, <4>1
      <4> QED BY <2>2, <4>2
    <3>6. CASE ~(f[n] <= f[l])
      <4>1. \A i \in 1..l : f[i] <= f[n]
        <5> TAKE i \in 1..l
        <5>1. i = l \/ i \in 1..(l - 1)
          BY <2>2
        <5>2. f[l] <= f[n]
          BY <3>4, <3>6
        <5> QED BY <3>3, <5>1, <5>2
      <4>2. Has(l)
        BY <3>4, <4>1
      <4> QED BY <2>2, <4>2
    <3> QED BY <3>5, <3>6
  <2> QED BY <2>3, <2>4
<1> QED BY <1>1

-----------------------------------------------------------------------------
(* The rows.                                                               *)

RowModel(n)    == ((n - 1) \div IFC_PLATFORM_COUNT) + 1
RowPlatform(n) == ((n - 1) % IFC_PLATFORM_COUNT) + 1
RowAt(n)       == SimulateOne(RowModel(n), RowPlatform(n))

GoodTimes(r) ==
  r.weight \in Nat \ {0} /\ r.attention \in Nat /\ r.reference \in Nat \ {0} /\ r.context_tokens \in Nat

LEMMA Division ==
  ASSUME NEW a \in Nat, NEW b \in Nat \ {0}
  PROVE  /\ a \div b \in Nat /\ a % b \in 0..b - 1 /\ a = b * (a \div b) + (a % b)
         /\ \A c \in Nat : a < c * b => a \div b < c
OBVIOUS

LEMMA RowPlace ==
  ASSUME NEW n \in 1..IFC_ROW_COUNT
  PROVE  RowModel(n) \in 1..IFC_MODEL_COUNT /\ RowPlatform(n) \in 1..IFC_PLATFORM_COUNT
<1>1. IFC_MODEL_COUNT \in Nat \ {0} /\ IFC_PLATFORM_COUNT \in Nat \ {0}
  BY ConfigLoadAssumption
<1>2. n - 1 \in Nat /\ n - 1 < IFC_MODEL_COUNT * IFC_PLATFORM_COUNT
  BY <1>1 DEF IFC_ROW_COUNT
<1> DEFINE q == n - 1
           d == q \div IFC_PLATFORM_COUNT
           e == q % IFC_PLATFORM_COUNT
<1>3. d \in Nat /\ d < IFC_MODEL_COUNT /\ e \in 0..IFC_PLATFORM_COUNT - 1
  <2> HIDE DEF q
  <2> QED BY <1>1, <1>2, Division DEF q
<1>4. RowModel(n) = d + 1 /\ RowPlatform(n) = e + 1
  BY DEF RowModel, RowPlatform
<1> HIDE DEF d, e
<1> QED BY <1>1, <1>3, <1>4

LEMMA RowFacts ==
  ASSUME LoadInv, GoodValues, pc \in {"simulate", "sweep", "done"}, NEW n \in 1..IFC_ROW_COUNT
  PROVE  GoodTimes(RowAt(n)) /\ RowAt(n).context_tokens = system.context_tokens
<1> DEFINE m == RowModel(n)
           p == RowPlatform(n)
           k == tables.models[m]
           c == system.context_tokens
           q == system.npu_peak
<1>1. /\ m \in 1..IFC_MODEL_COUNT /\ p \in 1..IFC_PLATFORM_COUNT
      /\ k \in Values("models") /\ tables.platforms[p] \in Values("platforms")
      /\ tables.reference[m] \in Values("reference")
      /\ c \in Nat /\ q \in Nat \ {0}
  BY RowPlace, LoadedFacts
<1>2. /\ CacheTime[k] \in Nat /\ AttentionOps[k] \in Nat
      /\ WeightTime[k][tables.platforms[p]] \in Nat \ {0}
      /\ TokensPerSecond[tables.reference[m]][p] \in Nat \ {0}
  BY <1>1, ReproductionAssumption
<1>3. RowAt(n).attention = c * CacheTime[k] + ((c * AttentionOps[k]) \div q)
  BY DEF RowAt, SimulateOne
<1>4. /\ RowAt(n).weight = WeightTime[k][tables.platforms[p]]
      /\ RowAt(n).reference = TokensPerSecond[tables.reference[m]][p]
      /\ RowAt(n).context_tokens = c
  BY DEF RowAt, SimulateOne
<1> HIDE DEF k, c, q, m, p
<1>5. c * CacheTime[k] \in Nat /\ c * AttentionOps[k] \in Nat
  BY <1>1, <1>2
<1>6. (c * AttentionOps[k]) \div q \in Nat
  BY <1>1, <1>5, Division
<1>7. RowAt(n).attention \in Nat
  BY <1>3, <1>5, <1>6
<1> QED BY <1>1, <1>2, <1>4, <1>7 DEF GoodTimes, c

(* An error is a number; at the run's own context, and at any if the run   *)
(* has none, the sweep has the error of the run.                           *)
LEMMA ErrorFacts ==
  ASSUME NEW r, GoodTimes(r), NEW c \in Nat
  PROVE  /\ RelativeError(r, r.attention) \in Int
         /\ ErrorAt(c, r) \in Int
         /\ c = r.context_tokens \/ r.context_tokens = 0 => ErrorAt(c, r) = RelativeError(r, r.attention)
<1> DEFINE w == r.weight
           a == r.attention
           f == r.reference
           t == r.context_tokens
<1>1. w \in Nat \ {0} /\ a \in Nat /\ f \in Nat \ {0} /\ t \in Nat /\ SpeedScale \in Nat
  BY ReproductionAssumption DEF GoodTimes
<1>2. ASSUME NEW x \in Nat
      PROVE  RelativeError(r, x) \in Int
  <2>1. RelativeError(r, x) = (((SpeedScale \div (w + x)) - f) * 100) \div f
    BY DEF RelativeError
  <2> HIDE DEF w, f
  <2>2. SpeedScale \div (w + x) \in Nat
    <3>1. w + x \in Nat \ {0}
      BY <1>1
    <3> QED BY <1>1, <3>1, Division
  <2> DEFINE s == SpeedScale \div (w + x)
  <2> HIDE DEF s
  <2>3. s \in Nat /\ RelativeError(r, x) = ((s - f) * 100) \div f
    BY <2>1, <2>2 DEF s
  <2> QED BY <1>1, <2>3
<1>3. ErrorAt(c, r) = RelativeError(r, IF t > 0 THEN (a * c) \div t ELSE a)
  BY DEF ErrorAt
<1> HIDE DEF w, a, f, t
<1>4. t > 0 => (a * c) \div t \in Nat
  <2> SUFFICES ASSUME t > 0 PROVE (a * c) \div t \in Nat
    OBVIOUS
  <2>1. a * c \in Nat /\ t \in Nat \ {0}
    BY <1>1
  <2> QED BY <2>1, Division
<1>5. c = t /\ t > 0 => (a * c) \div t = a
  <2> SUFFICES ASSUME c = t, t > 0 PROVE (a * c) \div t = a
    OBVIOUS
  <2>1. a * c = t * a /\ t \in Nat \ {0}
    BY <1>1
  <2> QED BY <1>1, <2>1, Quotient
<1>6. ErrorAt(c, r) \in Int
  BY <1>1, <1>2, <1>3, <1>4
<1>7. c = t \/ t = 0 => ErrorAt(c, r) = RelativeError(r, a)
  BY <1>1, <1>3, <1>5
<1> QED BY <1>1, <1>2, <1>6, <1>7 DEF a, t

-----------------------------------------------------------------------------
(* The run and the sweep.                                                  *)

RunError(n) == RelativeError(rows[n], rows[n].attention)

(* The rows so far and their summary.                                      *)
RowsInv ==
  /\ Len(rows) \in 0..IFC_ROW_COUNT
  /\ rows = [n \in 1..Len(rows) |-> RowAt(n)]
  /\ pc \notin {"simulate", "sweep", "done"} => rows = << >>
  /\ pc \in {"sweep", "done"} => Len(rows) = IFC_ROW_COUNT
  /\ summary = [abs_error_sum |-> Total([n \in 1..Len(rows) |-> RowError(n)]),
                error_sum |-> Total([n \in 1..Len(rows) |-> RunError(n)]),
                max_abs_error |-> summary.max_abs_error, worst |-> summary.worst]
  /\ IF Len(rows) = 0
     THEN summary.max_abs_error = -1 /\ summary.worst = 0
     ELSE /\ summary.worst \in 1..Len(rows) /\ summary.max_abs_error = RowError(summary.worst)
          /\ \A n \in 1..Len(rows) :
               /\ RowError(n) <= summary.max_abs_error
               /\ n < summary.worst => RowError(n) < summary.max_abs_error

LEMMA AbsType ==
  ASSUME NEW x \in Int
  PROVE  Abs(x) \in Nat
BY DEF Abs

LEMMA RowsFacts ==
  ASSUME LoadInv, GoodValues, RowsInv
  PROVE  /\ DOMAIN rows = 1..Len(rows)
         /\ \A n \in 1..Len(rows) :
              /\ GoodTimes(rows[n]) /\ rows[n] = RowAt(n)
              /\ rows[n].context_tokens = system.context_tokens
              /\ RunError(n) \in Int /\ RowError(n) \in Nat /\ RowError(n) = Abs(RunError(n))
<1>1. Len(rows) \in 0..IFC_ROW_COUNT /\ DOMAIN rows = 1..Len(rows)
  BY DEF RowsInv
<1>2. ASSUME NEW n \in 1..Len(rows)
      PROVE  /\ GoodTimes(rows[n]) /\ rows[n] = RowAt(n)
             /\ rows[n].context_tokens = system.context_tokens
             /\ RunError(n) \in Int /\ RowError(n) \in Nat /\ RowError(n) = Abs(RunError(n))
  <2>1. IFC_ROW_COUNT \in Nat
    BY ConfigLoadAssumption DEF IFC_ROW_COUNT
  <2>2. n \in 1..IFC_ROW_COUNT
    BY <1>1, <2>1
  <2>3. rows[n] = RowAt(n)
    BY <1>2 DEF RowsInv
  <2>4. pc \in {"simulate", "sweep", "done"}
    <3> SUFFICES ASSUME pc \notin {"simulate", "sweep", "done"} PROVE FALSE
      OBVIOUS
    <3>1. Len(rows) = 0
      BY DEF RowsInv
    <3> QED BY <1>2, <3>1
  <2>5. GoodTimes(rows[n]) /\ rows[n].context_tokens = system.context_tokens
    BY <2>2, <2>3, <2>4, RowFacts
  <2>6. RunError(n) \in Int
    <3>1. 0 \in Nat
      OBVIOUS
    <3> QED BY <2>5, <3>1, ErrorFacts DEF RunError
  <2>7. RowError(n) = Abs(RunError(n))
    BY DEF RowError, RunError
  <2> QED BY <2>3, <2>5, <2>6, <2>7, AbsType
<1> QED BY <1>1, <1>2

(* u is t with one number more.                                            *)
OneMore(k, t, u) ==
  /\ \A n \in 1..k : t[n] \in Int /\ u[n] = t[n]
  /\ t = [n \in 1..k |-> t[n]]
  /\ u = [n \in 1..k + 1 |-> u[n]]
  /\ u[k + 1] \in Int

LEMMA TotalExtended ==
  ASSUME NEW k \in Nat, NEW t, NEW u, OneMore(k, t, u)
  PROVE  Total(u) = Total(t) + u[k + 1]
<1>1. ASSUME NEW n \in 1..k + 1
      PROVE  u[n] \in Int
  <2>1. n = k + 1 \/ n \in 1..k
    OBVIOUS
  <2> QED BY <2>1 DEF OneMore
<1>2. Prefix(u, k) = t /\ Prefix(u, k + 1) = u
  BY DEF Prefix, OneMore
<1> QED BY <1>1, <1>2, TotalOfPrefix

LEMMA RowsAdded == LoadInv /\ GoodValues /\ RowsInv /\ SimulateRow => RowsInv'
<1> SUFFICES ASSUME LoadInv, GoodValues, RowsInv, SimulateRow PROVE RowsInv'
  OBVIOUS
<1> PICK k \in Nat : k = Len(rows)
  BY ConfigLoadAssumption DEF RowsInv, IFC_ROW_COUNT
<1> DEFINE r == RowAt(k + 1)
           x == RelativeError(r, r.attention)
           worse == Abs(x) > summary.max_abs_error
<1>1. /\ pc = "simulate" /\ k < IFC_ROW_COUNT
      /\ UNCHANGED <<tables, system, files, line, row, pc>>
      /\ k \in Nat /\ k = Len(rows) /\ rows = [n \in 1..k |-> RowAt(n)] /\ IFC_ROW_COUNT \in Nat
  <2>1. IFC_ROW_COUNT \in Nat
    BY ConfigLoadAssumption DEF IFC_ROW_COUNT
  <2> QED BY <2>1 DEF SimulateRow, RowsInv, vars
<1>2. r = SimulateOne((k \div IFC_PLATFORM_COUNT) + 1, (k % IFC_PLATFORM_COUNT) + 1)
  <2>1. (k + 1) - 1 = k
    BY <1>1
  <2> QED BY <2>1 DEF RowAt, RowModel, RowPlatform
<1>3. /\ rows' = Append(rows, r)
      /\ summary' = [abs_error_sum |-> summary.abs_error_sum + Abs(x),
                     error_sum |-> summary.error_sum + x,
                     max_abs_error |-> IF worse THEN Abs(x) ELSE summary.max_abs_error,
                     worst |-> IF worse THEN k + 1 ELSE summary.worst]
  BY <1>1, <1>2 DEF SimulateRow, IsWorse
<1>4. GoodTimes(r) /\ x \in Int /\ Abs(x) \in Nat
  <2>1. k + 1 \in 1..IFC_ROW_COUNT /\ 0 \in Nat
    BY <1>1
  <2>2. GoodTimes(r)
    BY <1>1, <2>1, RowFacts
  <2> QED BY <2>1, <2>2, ErrorFacts, AbsType
<1>5. /\ \A n \in 1..k : /\ RunError(n) \in Int /\ RowError(n) \in Nat /\ rows[n] = RowAt(n)
      /\ DOMAIN rows = 1..k
  BY <1>1, RowsFacts
<1> HIDE DEF r
<1>6. /\ Len(rows') = k + 1 /\ DOMAIN rows' = 1..k + 1
      /\ rows' = [n \in 1..k + 1 |-> rows'[n]]
      /\ rows'[k + 1] = r /\ \A n \in 1..k : rows'[n] = rows[n]
  <2>1. rows \in Seq({rows[n] : n \in 1..k} \cup {r})
    BY <1>1
  <2> DEFINE S == {rows[n] : n \in 1..k} \cup {r}
             v == rows'
  <2>2. v = Append(rows, r) /\ r \in S
    BY <1>3
  <2> HIDE DEF S, v
  <2>3. v \in Seq(S) /\ Len(v) = k + 1 /\ v[k + 1] = r /\ \A n \in 1..k : v[n] = rows[n]
    BY <1>1, <2>1, <2>2 DEF S
  <2>4. DOMAIN v = 1..k + 1 /\ v = [n \in DOMAIN v |-> v[n]]
    BY <1>1, <2>3
  <2> QED BY <2>3, <2>4 DEF v
<1>7. /\ \A n \in 1..k : RunError(n)' = RunError(n) /\ RowError(n)' = RowError(n)
      /\ RunError(k + 1)' = x /\ RowError(k + 1)' = Abs(x)
  BY <1>6 DEF RunError, RowError
<1>8. \A n : RowAt(n)' = RowAt(n)
  BY <1>1 DEF RowAt, SimulateOne
<1>9. rows' = [n \in 1..k + 1 |-> RowAt(n)']
  <2>1. ASSUME NEW n \in 1..k + 1
        PROVE  rows'[n] = RowAt(n)
    <3>1. CASE n = k + 1
      BY <1>6, <3>1 DEF r
    <3>2. CASE n # k + 1
      <4>1. n \in 1..k
        BY <1>1, <3>2
      <4> QED BY <1>5, <1>6, <4>1
    <3> QED BY <3>1, <3>2
  <2> QED BY <1>6, <1>8, <2>1
<1> DEFINE t == [n \in 1..k |-> RowError(n)]
           u == [n \in 1..k + 1 |-> RowError(n)']
           v == [n \in 1..k |-> RunError(n)]
           w == [n \in 1..k + 1 |-> RunError(n)']
<1> HIDE DEF x, worse
<1>10. Total(u) = Total(t) + Abs(x) /\ Total(w) = Total(v) + x
  <2>1. k + 1 \in 1..k + 1 /\ \A n \in 1..k : n \in 1..k + 1
    BY <1>1
  <2>2. /\ \A n \in 1..k : t[n] \in Int /\ u[n] = t[n]
        /\ \A n \in 1..k : v[n] \in Int /\ w[n] = v[n]
        /\ u[k + 1] = Abs(x) /\ w[k + 1] = x
    BY <1>5, <1>7, <2>1
  <2>3. /\ t = [n \in 1..k |-> t[n]] /\ u = [n \in 1..k + 1 |-> u[n]]
        /\ v = [n \in 1..k |-> v[n]] /\ w = [n \in 1..k + 1 |-> w[n]]
    OBVIOUS
  <2> HIDE DEF t, u, v, w
  <2>4. Abs(x) \in Int /\ x \in Int /\ k \in Nat
    BY <1>1, <1>4
  <2>5. OneMore(k, t, u) /\ OneMore(k, v, w)
    BY <2>2, <2>3, <2>4 DEF OneMore
  <2>6. Total(u) = Total(t) + u[k + 1] /\ Total(w) = Total(v) + w[k + 1]
    <3>1. k \in Nat
      BY <2>4
    <3> QED BY <2>5, <3>1, TotalExtended
  <2> QED BY <2>2, <2>6
<1>11. summary.abs_error_sum = Total(t) /\ summary.error_sum = Total(v)
  <2>1. t = [n \in 1..Len(rows) |-> RowError(n)] /\ v = [n \in 1..Len(rows) |-> RunError(n)]
    BY <1>1
  <2> DEFINE tt == [n \in 1..Len(rows) |-> RowError(n)]
             vv == [n \in 1..Len(rows) |-> RunError(n)]
  <2>2. summary = [abs_error_sum |-> Total(tt), error_sum |-> Total(vv),
                   max_abs_error |-> summary.max_abs_error, worst |-> summary.worst]
    BY DEF RowsInv
  <2> HIDE DEF t, v, tt, vv
  <2>3. summary.abs_error_sum = Total(tt) /\ summary.error_sum = Total(vv)
    BY <2>2
  <2>4. t = tt /\ v = vv
    BY <2>1 DEF tt, vv
  <2> QED BY <2>3, <2>4
<1>12. summary' = [abs_error_sum |-> Total(u), error_sum |-> Total(w),
                   max_abs_error |-> summary'.max_abs_error, worst |-> summary'.worst]
  <2> HIDE DEF t, u, v, w
  <2> QED BY <1>3, <1>10, <1>11 DEF x, worse
<1>13. /\ summary'.max_abs_error = IF worse THEN Abs(x) ELSE summary.max_abs_error
       /\ summary'.worst = IF worse THEN k + 1 ELSE summary.worst
       /\ worse <=> Abs(x) > summary.max_abs_error
  BY <1>3 DEF x, worse
<1>14. /\ summary'.worst \in 1..k + 1 /\ summary'.max_abs_error = RowError(summary.worst)'
       /\ \A n \in 1..k + 1 :
            /\ RowError(n)' <= summary'.max_abs_error
            /\ n < summary'.worst => RowError(n)' < summary'.max_abs_error
  <2>1. k \in Nat /\ (k = 0 => summary.max_abs_error = -1)
    BY <1>1 DEF RowsInv
  <2>2. k # 0 =>
          /\ summary.worst \in 1..k /\ summary.max_abs_error = RowError(summary.worst)
          /\ \A n \in 1..k : /\ RowError(n) <= summary.max_abs_error
                             /\ n < summary.worst => RowError(n) < summary.max_abs_error
    BY <1>1 DEF RowsInv
  <2>3. \A n \in 1..k + 1 : n = k + 1 \/ n \in 1..k
    BY <2>1
  <2>4. ~(k = 0) \/ worse
    BY <1>4, <1>13, <2>1
  <2>5. k # 0 => summary.max_abs_error \in Nat
    BY <1>5, <2>2
  <2>6. CASE worse
    <3>1. /\ summary'.worst = k + 1 /\ summary'.max_abs_error = Abs(x)
          /\ summary'.worst \in 1..k + 1
      BY <1>13, <2>1, <2>6
    <3>2. \A n \in 1..k : RowError(n)' < Abs(x)
      <4> TAKE n \in 1..k
      <4>1. k # 0 /\ RowError(n) \in Nat /\ RowError(n)' = RowError(n)
        BY <1>5, <1>7, <2>1
      <4> QED BY <1>4, <1>13, <2>2, <2>5, <2>6, <4>1
    <3>3. RowError(summary.worst)' = RowError(k + 1)'
      BY <3>1 DEF RowError
    <3>4. ASSUME NEW n \in 1..k + 1
          PROVE  RowError(n)' <= Abs(x) /\ (n < k + 1 => RowError(n)' < Abs(x))
      <4>1. CASE n = k + 1
        BY <1>4, <1>7, <2>1, <4>1
      <4>2. CASE n \in 1..k
        <5>1. RowError(n)' \in Nat /\ RowError(n)' < Abs(x)
          BY <1>5, <1>7, <3>2, <4>2
        <5> QED BY <1>4, <5>1
      <4> QED BY <2>3, <4>1, <4>2
    <3>5. summary'.max_abs_error = RowError(summary.worst)'
      BY <1>7, <3>1, <3>3
    <3> QED BY <3>1, <3>4, <3>5
  <2>7. CASE ~worse
    <3>1. /\ k # 0 /\ summary'.worst = summary.worst
          /\ summary'.max_abs_error = summary.max_abs_error
          /\ Abs(x) <= summary.max_abs_error
          /\ summary'.worst \in 1..k /\ summary'.worst \in 1..k + 1 /\ ~(k + 1 < summary'.worst)
      BY <1>4, <1>13, <2>1, <2>2, <2>4, <2>5, <2>7
    <3> QED BY <1>7, <2>2, <2>3, <3>1
  <2> QED BY <2>6, <2>7
<1>15. Len(rows') \in 0..IFC_ROW_COUNT /\ Len(rows') = k + 1 /\ k + 1 # 0
  BY <1>1, <1>6
<1>16. pc' = "simulate"
  BY <1>1
<1> QED BY <1>9, <1>12, <1>14, <1>15, <1>16 DEF RowsInv

LEMMA RowsStart == ReproductionInit => RowsInv
<1> SUFFICES ASSUME ReproductionInit PROVE RowsInv
  OBVIOUS
<1>1. rows = << >> /\ summary = NoSummary /\ pc = "open"
  BY DEF ReproductionInit, Init
<1>2. IFC_ROW_COUNT \in Nat
  BY ConfigLoadAssumption DEF IFC_ROW_COUNT
<1>3. Len(rows) = 0 /\ rows = [n \in 1..Len(rows) |-> RowAt(n)]
  BY <1>1
<1>4. /\ [n \in 1..Len(rows) |-> RowError(n)] = << >>
      /\ [n \in 1..Len(rows) |-> RunError(n)] = << >>
  BY <1>3
<1>5. summary = [abs_error_sum |-> 0, error_sum |-> 0, max_abs_error |-> -1, worst |-> 0]
  BY <1>1 DEF NoSummary
<1> QED BY <1>1, <1>2, <1>3, <1>4, <1>5, TotalOfNone DEF RowsInv

(* Steps that leave the rows alone.                                        *)
LEMMA RowsStay ==
  ASSUME RowsInv, UNCHANGED <<rows, summary>>,
         \/ rows = << >> /\ pc' \notin {"sweep", "done"}
         \/ /\ UNCHANGED <<tables, system>>
            /\ \/ pc' = pc
               \/ pc = "simulate" /\ pc' = "sweep" /\ Len(rows) = IFC_ROW_COUNT
               \/ pc = "sweep" /\ pc' = "done"
  PROVE  RowsInv'
<1>1. rows' = rows /\ summary' = summary
  OBVIOUS
<1>2. /\ \A n : RowError(n)' = RowError(n) /\ RunError(n)' = RunError(n)
      /\ RowError(summary.worst)' = RowError(summary.worst)
  BY <1>1 DEF RowError, RunError
<1>3. rows' = [n \in 1..Len(rows') |-> RowAt(n)']
  <2>1. CASE UNCHANGED <<tables, system>>
    <3>1. \A n : RowAt(n)' = RowAt(n)
      BY <2>1 DEF RowAt, SimulateOne
    <3> QED BY <1>1, <3>1 DEF RowsInv
  <2>2. CASE rows = << >>
    BY <1>1, <2>2
  <2> QED BY <2>1, <2>2
<1>4. /\ Len(rows') \in 0..IFC_ROW_COUNT
      /\ pc' \notin {"simulate", "sweep", "done"} => rows' = << >>
      /\ pc' \in {"sweep", "done"} => Len(rows') = IFC_ROW_COUNT
  BY <1>1 DEF RowsInv
<1>5. summary' = [abs_error_sum |-> Total([n \in 1..Len(rows') |-> RowError(n)']),
                  error_sum |-> Total([n \in 1..Len(rows') |-> RunError(n)']),
                  max_abs_error |-> summary'.max_abs_error, worst |-> summary'.worst]
  <2>1. /\ [n \in 1..Len(rows') |-> RowError(n)'] = [n \in 1..Len(rows) |-> RowError(n)]
        /\ [n \in 1..Len(rows') |-> RunError(n)'] = [n \in 1..Len(rows) |-> RunError(n)]
    BY <1>1, <1>2
  <2> QED BY <1>1, <2>1 DEF RowsInv
<1>6. IF Len(rows') = 0
      THEN summary'.max_abs_error = -1 /\ summary'.worst = 0
      ELSE /\ summary'.worst \in 1..Len(rows') /\ summary'.max_abs_error = RowError(summary.worst)'
           /\ \A n \in 1..Len(rows') :
                /\ RowError(n)' <= summary'.max_abs_error
                /\ n < summary'.worst => RowError(n)' < summary'.max_abs_error
  BY <1>1, <1>2 DEF RowsInv
<1> QED BY <1>3, <1>4, <1>5, <1>6 DEF RowsInv

LEMMA RowsStep == LoadInv /\ GoodValues /\ RowsInv /\ [ReproductionNext]_<<vars, rvars>> => RowsInv'
<1> SUFFICES ASSUME LoadInv, GoodValues, RowsInv, [ReproductionNext]_<<vars, rvars>>
             PROVE  RowsInv'
  OBVIOUS
<1>1. CASE Load
  <2>1. /\ UNCHANGED <<rows, summary>> /\ pc \in {"open", "read"}
        /\ pc' \notin {"sweep", "done"}
    BY <1>1 DEF Load, rvars, Open, SkipBlank, ReadRow, EndTable, ReadKey, EndSystem, Simulate,
                AtLine, AtEnd, Fail
  <2>2. rows = << >>
    BY <2>1 DEF RowsInv
  <2> QED BY <2>1, <2>2, RowsStay
<1>2. CASE SimulateRow
  BY <1>2, RowsAdded
<1>3. CASE BeginSweep
  BY <1>3, RowsStay DEF BeginSweep, rvars
<1>4. CASE SweepContext
  BY <1>4, RowsStay DEF SweepContext, vars
<1>5. CASE EndSweep
  BY <1>5, RowsStay DEF EndSweep, rvars
<1>6. CASE UNCHANGED <<vars, rvars>>
  BY <1>6, RowsStay DEF vars, rvars
<1> QED BY <1>1, <1>2, <1>3, <1>4, <1>5, <1>6 DEF ReproductionNext, ReproductionTerminated

-----------------------------------------------------------------------------
(* The sweep: a summary of the rows at a context has numbers.              *)
LEMMA SummaryTypes ==
  ASSUME LoadInv, GoodValues, RowsInv, pc \in {"sweep", "done"}, NEW c \in Nat
  PROVE  /\ Len(rows) \in Nat \ {0} /\ DOMAIN rows = 1..Len(rows)
         /\ \A n \in 1..Len(rows) : ErrorAt(c, rows[n]) \in Int /\ AbsErrorAt(c, n) \in Nat
         /\ SummaryAt(c).abs_error_sum \in Int /\ SquaresAt(c) \in Int
         /\ SummaryAt(c).max_abs_error \in Int
<1> PICK k \in Nat \ {0} : k = Len(rows)
  BY ConfigLoadAssumption DEF RowsInv, IFC_ROW_COUNT
<1>1. DOMAIN rows = 1..k
  BY RowsFacts
<1>2. ASSUME NEW n \in 1..k
      PROVE  ErrorAt(c, rows[n]) \in Int /\ AbsErrorAt(c, n) \in Nat
  <2>1. GoodTimes(rows[n])
    BY RowsFacts
  <2>2. ErrorAt(c, rows[n]) \in Int
    BY <2>1, ErrorFacts
  <2> QED BY <2>2, AbsType DEF AbsErrorAt
<1>3. SummaryAt(c).abs_error_sum \in Int
  <2> DEFINE t == [n \in DOMAIN rows |-> AbsErrorAt(c, n)]
  <2>1. t \in [1..k -> Int]
    BY <1>1, <1>2
  <2>2. SummaryAt(c).abs_error_sum = Total(t)
    BY DEF SummaryAt
  <2> HIDE DEF t
  <2> QED BY <2>1, <2>2, TotalType
<1>4. SquaresAt(c) \in Int
  <2> DEFINE t == [n \in DOMAIN rows |-> AbsErrorAt(c, n) * AbsErrorAt(c, n)]
  <2>1. ASSUME NEW n \in 1..k
        PROVE  AbsErrorAt(c, n) * AbsErrorAt(c, n) \in Int
    BY <1>2
  <2>2. t \in [1..k -> Int]
    BY <1>1, <2>1
  <2>3. SquaresAt(c) = Total(t)
    BY DEF SquaresAt
  <2> HIDE DEF t
  <2> QED BY <2>2, <2>3, TotalType
<1>5. SummaryAt(c).max_abs_error \in Int
  <2> DEFINE f == [n \in 1..k |-> AbsErrorAt(c, n)]
             S == {AbsErrorAt(c, n) : n \in DOMAIN rows}
  <2>1. \A n \in 1..k : f[n] = AbsErrorAt(c, n) /\ f[n] \in Int
    BY <1>2
  <2> HIDE DEF f
  <2>2. PICK n \in 1..k : \A i \in 1..k : f[i] <= f[n]
    BY <2>1, GreatestOf
  <2>3. S \in SUBSET Int /\ f[n] \in S /\ \A y \in S : y <= f[n]
    BY <1>1, <2>1, <2>2
  <2>4. SummaryAt(c).max_abs_error = Max(S)
    BY DEF SummaryAt
  <2> HIDE DEF S
  <2> QED BY <2>1, <2>3, <2>4, MaxIs
<1> QED BY <1>1, <1>2, <1>3, <1>4, <1>5

Means   == [c \in Sweep |-> SummaryAt(c).abs_error_sum]
Squares == [c \in Sweep |-> SquaresAt(c)]
Maxima  == [c \in Sweep |-> SummaryAt(c).max_abs_error]

(* The first of the least of the first n errors, if one is below Huge.     *)
FirstBest(best, at, f, n) ==
  \/ best = Huge /\ at = CONTEXT_SWEEP_MIN /\ \A d \in 1..n : f[d] >= Huge
  \/ /\ at \in 1..n /\ best = f[at] /\ best < Huge
     /\ \A d \in 1..n : best <= f[d] /\ (d < at => best < f[d])

(* The least and the greatest of the first n contexts that pass.           *)
PassBounds(n) ==
  \/ /\ fit.guardrail_min = 0 /\ fit.guardrail_max = 0
     /\ \A d \in 1..n : ~Guardrail(SummaryAt(d))
  \/ /\ fit.guardrail_min \in 1..n /\ Guardrail(SummaryAt(fit.guardrail_min))
     /\ fit.guardrail_max \in 1..n /\ Guardrail(SummaryAt(fit.guardrail_max))
     /\ \A d \in 1..n :
          Guardrail(SummaryAt(d)) => fit.guardrail_min <= d /\ d <= fit.guardrail_max

FitInv ==
  /\ context \in 1..CONTEXT_SWEEP_MAX + 1
  /\ pc \notin {"sweep", "done"} => context = CONTEXT_SWEEP_MIN /\ fit = NoFit
  /\ pc = "done" => context = CONTEXT_SWEEP_MAX + 1
  /\ pc \in {"sweep", "done"} =>
       /\ FirstBest(fit.best_mae, fit.best_mae_context, Means, context - 1)
       /\ FirstBest(fit.best_rmse, fit.best_rmse_context, Squares, context - 1)
       /\ FirstBest(fit.best_max, fit.best_max_context, Maxima, context - 1)
       /\ PassBounds(context - 1)

LEMMA BestKept ==
  ASSUME NEW f, NEW n \in Nat, \A d \in 1..n + 1 : f[d] \in Int,
         NEW best, NEW at, FirstBest(best, at, f, n),
         NEW b, b = (IF Better(f[n + 1], best) THEN f[n + 1] ELSE best),
         NEW a, a = (IF Better(f[n + 1], best) THEN n + 1 ELSE at)
  PROVE  FirstBest(b, a, f, n + 1)
<1>1. n + 1 \in 1..n + 1 /\ \A d \in 1..n + 1 : d = n + 1 \/ d \in 1..n
  OBVIOUS
<1>2. \A d \in 1..n : d \in 1..n + 1
  OBVIOUS
<1>3. best \in Int /\ f[n + 1] \in Int
  BY <1>1, <1>2 DEF FirstBest, Huge
<1>4. CASE f[n + 1] < best
  <2>1. b = f[n + 1] /\ a = n + 1
    BY <1>4 DEF Better
  <2>2. f[n + 1] < Huge
    BY <1>3, <1>4 DEF FirstBest, Huge
  <2>3. \A d \in 1..n : f[n + 1] < f[d]
    <3> TAKE d \in 1..n
    <3>1. f[d] \in Int /\ best <= f[d]
      BY <1>2 DEF FirstBest, Huge
    <3> QED BY <1>3, <1>4, <3>1
  <2>4. \A d \in 1..n + 1 : f[n + 1] <= f[d] /\ (d < n + 1 => f[n + 1] < f[d])
    <3> TAKE d \in 1..n + 1
    <3>1. CASE d = n + 1
      BY <1>3, <3>1
    <3>2. CASE d \in 1..n
      <4>1. f[d] \in Int /\ f[n + 1] < f[d]
        BY <1>2, <2>3, <3>2
      <4> QED BY <1>3, <4>1
    <3> QED BY <1>1, <3>1, <3>2
  <2> QED BY <1>1, <2>1, <2>2, <2>4 DEF FirstBest
<1>5. CASE ~(f[n + 1] < best)
  <2>1. b = best /\ a = at /\ best <= f[n + 1]
    BY <1>3, <1>5 DEF Better
  <2>2. CASE best = Huge /\ at = CONTEXT_SWEEP_MIN /\ \A d \in 1..n : f[d] >= Huge
    <3>1. \A d \in 1..n + 1 : f[d] >= Huge
      BY <1>1, <1>3, <2>1, <2>2
    <3> QED BY <2>1, <2>2, <3>1 DEF FirstBest
  <2>3. CASE /\ at \in 1..n /\ best = f[at] /\ best < Huge
             /\ \A d \in 1..n : best <= f[d] /\ (d < at => best < f[d])
    <3>1. at \in 1..n + 1 /\ ~(n + 1 < at)
      BY <2>3
    <3>2. \A d \in 1..n + 1 : best <= f[d] /\ (d < at => best < f[d])
      BY <1>1, <2>1, <2>3, <3>1
    <3> QED BY <2>1, <2>3, <3>1, <3>2 DEF FirstBest
  <2> QED BY <2>2, <2>3 DEF FirstBest
<1> QED BY <1>4, <1>5

LEMMA SweepNumbers ==
  /\ CONTEXT_SWEEP_MIN = 1 /\ CONTEXT_SWEEP_MAX \in Nat \ {0} /\ Sweep = 1..CONTEXT_SWEEP_MAX
  /\ \A c \in Sweep : c \in Nat \ {0}
  BY ReproductionAssumption DEF CONTEXT_SWEEP_MIN, Sweep

LEMMA FitStart == ReproductionInit => FitInv
  BY SweepNumbers DEF ReproductionInit, Init, FitInv

(* The sums do not change while the rows do not.                           *)
LEMMA SameSums ==
  ASSUME rows' = rows
  PROVE  /\ \A c : SummaryAt(c)' = SummaryAt(c) /\ SquaresAt(c)' = SquaresAt(c)
         /\ Means' = Means /\ Squares' = Squares /\ Maxima' = Maxima
<1>1. \A c, n : AbsErrorAt(c, n)' = AbsErrorAt(c, n) /\ ErrorAt(c, rows[n])' = ErrorAt(c, rows[n])
  BY DEF AbsErrorAt, ErrorAt
<1>2. ASSUME NEW c
      PROVE  SummaryAt(c)' = SummaryAt(c) /\ SquaresAt(c)' = SquaresAt(c)
  <2>1. SquaresAt(c)' = SquaresAt(c)
    BY <1>1 DEF SquaresAt, AbsErrorAt
  <2>2. SummaryAt(c)' = SummaryAt(c)
    BY <1>1 DEF SummaryAt, AbsErrorAt
  <2> QED BY <2>1, <2>2
<1>3. \A c \in Sweep : SummaryAt(c)' = SummaryAt(c) /\ SquaresAt(c)' = SquaresAt(c)
  BY <1>2
<1>4. Means' = Means /\ Squares' = Squares /\ Maxima' = Maxima
  BY <1>3 DEF Means, Squares, Maxima
<1> QED BY <1>2, <1>4

(* Steps that leave the results of the sweep alone.                        *)
LEMMA FitStay ==
  ASSUME FitInv, UNCHANGED <<context, fit>>,
         \/ pc \notin {"sweep", "done"} /\ pc' # "done"
         \/ rows' = rows /\ pc' = pc
         \/ rows' = rows /\ pc = "sweep" /\ pc' = "done" /\ context > CONTEXT_SWEEP_MAX
  PROVE  FitInv'
<1>1. context' = context /\ fit' = fit /\ context \in 1..CONTEXT_SWEEP_MAX + 1
  BY DEF FitInv
<1>2. CASE pc \notin {"sweep", "done"} /\ pc' # "done"
  <2>1. context = 1 /\ fit = NoFit
    BY <1>2, SweepNumbers DEF FitInv
  <2>2. /\ NoFit.best_mae = Huge /\ NoFit.best_rmse = Huge /\ NoFit.best_max = Huge
        /\ NoFit.best_mae_context = CONTEXT_SWEEP_MIN
        /\ NoFit.best_rmse_context = CONTEXT_SWEEP_MIN
        /\ NoFit.best_max_context = CONTEXT_SWEEP_MIN
        /\ NoFit.guardrail_min = 0 /\ NoFit.guardrail_max = 0
    BY DEF NoFit
  <2>3. context' - 1 = 0 /\ 1..0 = {}
    BY <1>1, <2>1
  <2>4. /\ FirstBest(fit.best_mae, fit.best_mae_context, Means, context - 1)'
        /\ FirstBest(fit.best_rmse, fit.best_rmse_context, Squares, context - 1)'
        /\ FirstBest(fit.best_max, fit.best_max_context, Maxima, context - 1)'
    BY <1>1, <2>1, <2>2, <2>3 DEF FirstBest
  <2>5. PassBounds(context - 1)'
    BY <1>1, <2>1, <2>2, <2>3 DEF PassBounds
  <2> QED BY <1>1, <1>2, <2>1, <2>4, <2>5, SweepNumbers DEF FitInv
<1>3. CASE rows' = rows /\ pc \in {"sweep", "done"}
  <2>1. /\ FirstBest(fit.best_mae, fit.best_mae_context, Means, context - 1)'
        /\ FirstBest(fit.best_rmse, fit.best_rmse_context, Squares, context - 1)'
        /\ FirstBest(fit.best_max, fit.best_max_context, Maxima, context - 1)'
    BY <1>1, <1>3, SameSums DEF FirstBest, FitInv
  <2>2. \A c : Guardrail(SummaryAt(c))' <=> Guardrail(SummaryAt(c))
    BY <1>3, SameSums DEF Guardrail
  <2>3. PassBounds(context - 1)'
    <3>1. PassBounds(context - 1)
      BY <1>3 DEF FitInv
    <3>2. Guardrail(SummaryAt(fit.guardrail_min))' <=> Guardrail(SummaryAt(fit.guardrail_min))
      BY <1>1, <1>3, SameSums DEF Guardrail
    <3>3. Guardrail(SummaryAt(fit.guardrail_max))' <=> Guardrail(SummaryAt(fit.guardrail_max))
      BY <1>1, <1>3, SameSums DEF Guardrail
    <3> QED BY <1>1, <2>2, <3>1, <3>2, <3>3 DEF PassBounds
  <2>4. pc' = "done" => context' = CONTEXT_SWEEP_MAX + 1
    BY <1>1, <1>3, SweepNumbers DEF FitInv
  <2> QED BY <1>1, <1>3, <2>1, <2>3, <2>4 DEF FitInv
<1>4. CASE rows' = rows /\ pc' = pc /\ pc \notin {"sweep", "done"}
  BY <1>2, <1>4
<1> QED BY <1>2, <1>3, <1>4

LEMMA SweepKeeps == LoadInv /\ GoodValues /\ RowsInv /\ FitInv /\ SweepContext => FitInv'
<1> SUFFICES ASSUME LoadInv, GoodValues, RowsInv, FitInv, SweepContext
             PROVE  FitInv'
  OBVIOUS
<1>1. /\ pc = "sweep" /\ context <= CONTEXT_SWEEP_MAX /\ context' = context + 1
      /\ UNCHANGED <<tables, system, files, line, row, pc, rows>>
  BY DEF SweepContext, vars
<1> PICK n \in Nat : n = context - 1 /\ n + 1 = context /\ n + 1 \in Sweep
  BY <1>1, SweepNumbers DEF FitInv
<1> DEFINE mean == SummaryAt(n + 1).abs_error_sum
           square == SquaresAt(n + 1)
           most == SummaryAt(n + 1).max_abs_error
           passes == Guardrail(SummaryAt(n + 1))
<1>2. /\ fit'.best_mae = (IF Better(mean, fit.best_mae) THEN mean ELSE fit.best_mae)
      /\ fit'.best_mae_context = (IF Better(mean, fit.best_mae) THEN n + 1 ELSE fit.best_mae_context)
      /\ fit'.best_rmse = (IF Better(square, fit.best_rmse) THEN square ELSE fit.best_rmse)
      /\ fit'.best_rmse_context
           = (IF Better(square, fit.best_rmse) THEN n + 1 ELSE fit.best_rmse_context)
      /\ fit'.best_max = (IF Better(most, fit.best_max) THEN most ELSE fit.best_max)
      /\ fit'.best_max_context = (IF Better(most, fit.best_max) THEN n + 1 ELSE fit.best_max_context)
      /\ fit'.guardrail_min
           = (IF passes /\ fit.guardrail_min = 0 THEN n + 1 ELSE fit.guardrail_min)
      /\ fit'.guardrail_max = (IF passes THEN n + 1 ELSE fit.guardrail_max)
  BY DEF SweepContext
<1>3. \A d \in 1..n + 1 : d \in Sweep /\ d \in Nat
  BY SweepNumbers
<1>4. /\ \A d \in 1..n + 1 : Means[d] \in Int /\ Squares[d] \in Int /\ Maxima[d] \in Int
      /\ Means[n + 1] = mean /\ Squares[n + 1] = square /\ Maxima[n + 1] = most
  <2>1. \A d \in Sweep :
          /\ SummaryAt(d).abs_error_sum \in Int /\ SquaresAt(d) \in Int
          /\ SummaryAt(d).max_abs_error \in Int
    BY <1>1, SweepNumbers, SummaryTypes
  <2> QED BY <1>3, <2>1 DEF Means, Squares, Maxima
<1>5. /\ FirstBest(fit.best_mae, fit.best_mae_context, Means, n)
      /\ FirstBest(fit.best_rmse, fit.best_rmse_context, Squares, n)
      /\ FirstBest(fit.best_max, fit.best_max_context, Maxima, n)
      /\ PassBounds(n)
  BY <1>1 DEF FitInv
<1> HIDE DEF mean, square, most
<1>6. FirstBest(fit'.best_mae, fit'.best_mae_context, Means, n + 1)
  BY <1>2, <1>4, <1>5, BestKept
<1>7. FirstBest(fit'.best_rmse, fit'.best_rmse_context, Squares, n + 1)
  BY <1>2, <1>4, <1>5, BestKept
<1>8. FirstBest(fit'.best_max, fit'.best_max_context, Maxima, n + 1)
  BY <1>2, <1>4, <1>5, BestKept
<1>9. context' - 1 = n + 1 /\ context' \in 1..CONTEXT_SWEEP_MAX + 1
  BY <1>1, SweepNumbers DEF FitInv
<1>10. /\ FirstBest(fit.best_mae, fit.best_mae_context, Means, context - 1)'
       /\ FirstBest(fit.best_rmse, fit.best_rmse_context, Squares, context - 1)'
       /\ FirstBest(fit.best_max, fit.best_max_context, Maxima, context - 1)'
  <2>1. Means' = Means /\ Squares' = Squares /\ Maxima' = Maxima
    BY <1>1, SameSums
  <2> QED BY <1>6, <1>7, <1>8, <1>9, <2>1 DEF FirstBest
<1>11. PassBounds(context - 1)'
  <2> DEFINE P(d) == Guardrail(SummaryAt(d))
  <2>1. \A d : P(d)' <=> P(d)
    BY <1>1, SameSums DEF Guardrail
  <2>2. /\ P(fit.guardrail_min)' <=> Guardrail(SummaryAt(fit'.guardrail_min))
        /\ P(fit.guardrail_max)' <=> Guardrail(SummaryAt(fit'.guardrail_max))
    BY <1>1, SameSums DEF Guardrail, SummaryAt, AbsErrorAt, ErrorAt
  <2>3. \A d \in 1..n + 1 : d = n + 1 \/ d \in 1..n
    OBVIOUS
  <2>4. \/ /\ fit'.guardrail_min = 0 /\ fit'.guardrail_max = 0
           /\ \A d \in 1..n + 1 : ~P(d)
        \/ /\ fit'.guardrail_min \in 1..n + 1 /\ P(fit'.guardrail_min)
           /\ fit'.guardrail_max \in 1..n + 1 /\ P(fit'.guardrail_max)
           /\ \A d \in 1..n + 1 : P(d) => fit'.guardrail_min <= d /\ d <= fit'.guardrail_max
    <3>1. PassBounds(n)
      BY <1>5
    <3> HIDE DEF P
    <3>2. \/ /\ fit.guardrail_min = 0 /\ fit.guardrail_max = 0
             /\ \A d \in 1..n : ~P(d)
          \/ /\ fit.guardrail_min \in 1..n /\ P(fit.guardrail_min)
             /\ fit.guardrail_max \in 1..n /\ P(fit.guardrail_max)
             /\ \A d \in 1..n : P(d) => fit.guardrail_min <= d /\ d <= fit.guardrail_max
      BY <3>1 DEF PassBounds, P
    <3>3. passes <=> P(n + 1)
      BY DEF P
    <3> HIDE DEF passes
    <3>4. CASE ~passes
      BY <1>2, <2>3, <3>2, <3>3, <3>4
    <3>5. CASE passes
      <4>1. fit'.guardrail_max = n + 1 /\ P(fit'.guardrail_max)
        BY <1>2, <3>3, <3>5
      <4>2. CASE fit.guardrail_min = 0
        <5>1. fit'.guardrail_min = n + 1 /\ \A d \in 1..n : ~P(d)
          BY <1>2, <3>2, <3>5, <4>2
        <5> QED BY <2>3, <4>1, <5>1
      <4>3. CASE fit.guardrail_min # 0
        <5>1. /\ fit'.guardrail_min = fit.guardrail_min
              /\ fit.guardrail_min \in 1..n /\ P(fit.guardrail_min)
              /\ \A d \in 1..n : P(d) => fit.guardrail_min <= d
          BY <1>2, <3>2, <3>5, <4>3
        <5> QED BY <2>3, <4>1, <5>1
      <4> QED BY <4>2, <4>3
    <3> QED BY <3>4, <3>5
  <2> QED BY <1>9, <2>1, <2>2, <2>4 DEF PassBounds
<1>12. pc' = "sweep"
  BY <1>1
<1> QED BY <1>9, <1>10, <1>11, <1>12 DEF FitInv

LEMMA FitStep ==
  LoadInv /\ GoodValues /\ RowsInv /\ FitInv /\ [ReproductionNext]_<<vars, rvars>> => FitInv'
<1> SUFFICES ASSUME LoadInv, GoodValues, RowsInv, FitInv, [ReproductionNext]_<<vars, rvars>>
             PROVE  FitInv'
  OBVIOUS
<1>1. CASE Load
  <2>1. UNCHANGED <<context, fit>> /\ pc \notin {"sweep", "done"} /\ pc' # "done"
    BY <1>1 DEF Load, rvars, Open, SkipBlank, ReadRow, EndTable, ReadKey, EndSystem, Simulate,
                AtLine, AtEnd, Fail
  <2> QED BY <2>1, FitStay
<1>2. CASE SimulateRow
  BY <1>2, FitStay DEF SimulateRow, vars
<1>3. CASE BeginSweep
  BY <1>3, FitStay DEF BeginSweep, rvars
<1>4. CASE SweepContext
  BY <1>4, SweepKeeps
<1>5. CASE EndSweep
  BY <1>5, FitStay DEF EndSweep, rvars
<1>6. CASE UNCHANGED <<vars, rvars>>
  BY <1>6, FitStay DEF vars, rvars
<1> QED BY <1>1, <1>2, <1>3, <1>4, <1>5, <1>6 DEF ReproductionNext, ReproductionTerminated

LEMMA SweepInvariance == ReproductionSpec => [](LoadInv /\ GoodValues /\ RowsInv /\ FitInv)
<1>1. ReproductionInit => RowsInv /\ FitInv
  BY RowsStart, FitStart
<1>2. LoadInv /\ GoodValues /\ RowsInv /\ FitInv /\ [ReproductionNext]_<<vars, rvars>>
        => RowsInv' /\ FitInv'
  BY RowsStep, FitStep
<1> QED BY <1>1, <1>2, LoadInvariance, GoodInvariance, PTL DEF ReproductionSpec

(* Some context of the sweep stays below the error the search starts from. *)
BelowHuge == \A f \in {Means, Squares, Maxima} : \E c \in Sweep : f[c] < Huge

(* For every configuration and sweep: the one pass over the contexts finds *)
(* the first context of least mean, square and maximal error, and the      *)
(* least and greatest context within the guardrails.                       *)
THEOREM FitRight == ReproductionSpec => [](BelowHuge => FitIsBest)
<1> SUFFICES ASSUME LoadInv, GoodValues, RowsInv, FitInv, BelowHuge, pc = "done"
             PROVE  FitIsBest
  <2>1. LoadInv /\ GoodValues /\ RowsInv /\ FitInv => (BelowHuge => FitIsBest)
    BY DEF FitIsBest
  <2> QED BY <2>1, SweepInvariance, PTL
<1> DEFINE l == CONTEXT_SWEEP_MAX
           passing == {c \in Sweep : Guardrail(SummaryAt(c))}
<1>1. /\ FirstBest(fit.best_mae, fit.best_mae_context, Means, l)
      /\ FirstBest(fit.best_rmse, fit.best_rmse_context, Squares, l)
      /\ FirstBest(fit.best_max, fit.best_max_context, Maxima, l)
      /\ PassBounds(l)
  <2>1. context = l + 1 /\ context - 1 = l
    BY SweepNumbers DEF FitInv
  <2> QED BY <2>1 DEF FitInv
<1>2. ASSUME NEW f \in {Means, Squares, Maxima}, NEW best, NEW at, FirstBest(best, at, f, l)
      PROVE  IsBest(at, f)
  <2>1. \A d \in Sweep : f[d] \in Int
    BY SweepNumbers, SummaryTypes DEF Means, Squares, Maxima
  <2>2. ~(\A d \in 1..l : f[d] >= Huge)
    BY <2>1, SweepNumbers DEF BelowHuge, Huge
  <2> QED BY <1>2, <2>2, SweepNumbers DEF FirstBest, IsBest
<1>3. /\ IsBest(fit.best_mae_context, Means)
      /\ IsBest(fit.best_rmse_context, Squares)
      /\ IsBest(fit.best_max_context, Maxima)
  BY <1>1, <1>2
<1>4. /\ fit.guardrail_min = Min(passing \cup IF passing = {} THEN {0} ELSE {})
      /\ fit.guardrail_max = Max(passing \cup {0})
  <2>1. /\ passing \subseteq 1..l /\ passing \subseteq Int /\ l \in Nat
        /\ \A d \in 1..l : d \in passing <=> Guardrail(SummaryAt(d))
    BY SweepNumbers
  <2>2. \/ /\ fit.guardrail_min = 0 /\ fit.guardrail_max = 0 /\ passing = {}
        \/ /\ fit.guardrail_min \in passing /\ fit.guardrail_max \in passing
           /\ \A d \in passing : fit.guardrail_min <= d /\ d <= fit.guardrail_max
    BY <1>1, <2>1 DEF PassBounds
  <2> HIDE DEF passing
  <2> DEFINE low == passing \cup IF passing = {} THEN {0} ELSE {}
             high == passing \cup {0}
  <2>3. /\ low \in SUBSET Int /\ fit.guardrail_min \in low
        /\ \A y \in low : fit.guardrail_min <= y
    <3>1. CASE passing = {}
      <4>1. low = {0} /\ fit.guardrail_min = 0
        BY <2>2, <3>1
      <4> QED BY <4>1
    <3>2. CASE passing # {}
      <4>1. low = passing
        BY <3>2
      <4> HIDE DEF low
      <4> QED BY <2>1, <2>2, <3>2, <4>1
    <3> QED BY <3>1, <3>2
  <2>4. /\ high \in SUBSET Int /\ fit.guardrail_max \in high
        /\ \A y \in high : y <= fit.guardrail_max
    <3>1. fit.guardrail_max \in Nat /\ fit.guardrail_max \in high
      <4>1. fit.guardrail_max = 0 \/ fit.guardrail_max \in passing
        BY <2>2
      <4>2. \A d \in passing : d \in Nat
        BY <2>1
      <4> QED BY <4>1, <4>2
    <3>2. \A y \in passing : y <= fit.guardrail_max
      BY <2>2
    <3> QED BY <2>1, <3>1, <3>2
  <2> HIDE DEF low, high
  <2>5. Min(low) = fit.guardrail_min /\ Max(high) = fit.guardrail_max
    BY <2>3, <2>4, MinIs, MaxIs
  <2> QED BY <2>5 DEF low, high
<1> QED BY <1>3, <1>4 DEF FitIsBest, Means, Squares, Maxima

-----------------------------------------------------------------------------
(* The summaries of the run's own context, and of the parts of the rows.   *)
LEMMA SameContext ==
  ASSUME LoadInv, GoodValues, RowsInv, pc \in {"sweep", "done"}, NEW c \in Nat,
         c = system.context_tokens \/ system.context_tokens = 0
  PROVE  SummaryAt(c) = summary
<1> PICK k \in Nat \ {0} : k = Len(rows)
  BY SummaryTypes
<1>1. /\ DOMAIN rows = 1..k
      /\ \A n \in 1..k : /\ GoodTimes(rows[n]) /\ RowError(n) \in Nat
                         /\ rows[n].context_tokens = system.context_tokens
                         /\ RowError(n) = Abs(RunError(n))
  BY RowsFacts
<1>2. \A n \in 1..k : ErrorAt(c, rows[n]) = RunError(n) /\ AbsErrorAt(c, n) = RowError(n)
  <2>1. \A n \in 1..k : ErrorAt(c, rows[n]) = RunError(n)
    BY <1>1, ErrorFacts DEF RunError
  <2> QED BY <1>1, <2>1 DEF AbsErrorAt
<1>3. /\ [n \in DOMAIN rows |-> AbsErrorAt(c, n)] = [n \in 1..Len(rows) |-> RowError(n)]
      /\ [n \in DOMAIN rows |-> ErrorAt(c, rows[n])] = [n \in 1..Len(rows) |-> RunError(n)]
  BY <1>1, <1>2
<1>4. /\ summary.worst \in 1..k /\ summary.max_abs_error = RowError(summary.worst)
      /\ \A n \in 1..k :
           /\ RowError(n) <= summary.max_abs_error
           /\ n < summary.worst => RowError(n) < summary.max_abs_error
  BY DEF RowsInv
<1> DEFINE S == {AbsErrorAt(c, n) : n \in DOMAIN rows}
           most == Max(S)
<1>5. most = summary.max_abs_error
  <2>1. /\ S \in SUBSET Int /\ summary.max_abs_error \in S
        /\ \A y \in S : y <= summary.max_abs_error
    BY <1>1, <1>2, <1>4
  <2> HIDE DEF S
  <2> QED BY <2>1, MaxIs
<1> DEFINE W == {n \in DOMAIN rows : AbsErrorAt(c, n) = most}
<1>6. Min(W) = summary.worst
  <2> HIDE DEF most
  <2>1. W = {n \in 1..k : RowError(n) = summary.max_abs_error}
    BY <1>1, <1>2, <1>5
  <2>2. /\ W \in SUBSET Int /\ summary.worst \in W
    BY <1>4, <2>1
  <2>3. \A y \in W : summary.worst <= y
    <3> TAKE y \in W
    <3>1. y \in 1..k /\ RowError(y) = summary.max_abs_error /\ RowError(y) \in Nat
      BY <1>1, <2>1
    <3>2. ~(y < summary.worst)
      BY <1>4, <3>1
    <3> QED BY <1>4, <3>1, <3>2
  <2> HIDE DEF W
  <2> QED BY <2>2, <2>3, MinIs
<1>7. SummaryAt(c) =
        [abs_error_sum |-> Total([n \in DOMAIN rows |-> AbsErrorAt(c, n)]),
         error_sum |-> Total([n \in DOMAIN rows |-> ErrorAt(c, rows[n])]),
         max_abs_error |-> most, worst |-> Min(W)]
  BY DEF SummaryAt
<1>8. summary = [abs_error_sum |-> Total([n \in 1..Len(rows) |-> RowError(n)]),
                 error_sum |-> Total([n \in 1..Len(rows) |-> RunError(n)]),
                 max_abs_error |-> summary.max_abs_error, worst |-> summary.worst]
  BY DEF RowsInv
<1> HIDE DEF most, W
<1> QED BY <1>3, <1>5, <1>6, <1>7, <1>8

(* The rows of one name: their greatest error.                             *)
LEMMA PartMax ==
  ASSUME LoadInv, GoodValues, RowsInv, pc \in {"sweep", "done"}, NEW R \in SUBSET DOMAIN rows
  PROVE  /\ PartOf(R).max_abs_error \in Nat
         /\ PartOf(R).max_abs_error <= summary.max_abs_error
         /\ summary.worst \in R => PartOf(R).max_abs_error = summary.max_abs_error
<1> PICK k \in Nat \ {0} : k = Len(rows)
  BY SummaryTypes
<1>1. DOMAIN rows = 1..k /\ \A n \in 1..k : RowError(n) \in Nat
  BY RowsFacts
<1>2. /\ summary.worst \in 1..k /\ summary.max_abs_error = RowError(summary.worst)
      /\ \A n \in 1..k : RowError(n) <= summary.max_abs_error
  BY DEF RowsInv
<1> DEFINE f == [n \in 1..k |-> IF n \in R THEN RowError(n) ELSE 0]
           S == {0} \cup {RowError(n) : n \in R}
<1>3. \A n \in 1..k : f[n] = (IF n \in R THEN RowError(n) ELSE 0) /\ f[n] \in Nat
  BY <1>1
<1> HIDE DEF f
<1>4. PICK n \in 1..k : \A i \in 1..k : f[i] <= f[n]
  <2>1. \A i \in 1..k : f[i] \in Int
    BY <1>3
  <2> QED BY <2>1, GreatestOf
<1>5. S \in SUBSET Int /\ f[n] \in S /\ \A y \in S : y <= f[n]
  <2>1. \A y \in S : y = 0 \/ \E i \in R : y = RowError(i) /\ i \in 1..k
    BY <1>1
  <2>2. f[n] \in S
    BY <1>3
  <2> HIDE DEF S
  <2>3. ASSUME NEW y \in S
        PROVE  y \in Int /\ y <= f[n]
    <3>1. CASE y = 0
      BY <1>3, <3>1
    <3>2. CASE \E i \in R : y = RowError(i) /\ i \in 1..k
      <4>1. PICK i \in R : y = RowError(i) /\ i \in 1..k
        BY <3>2
      <4>2. y = f[i] /\ f[i] \in Nat /\ f[i] <= f[n]
        BY <1>3, <1>4, <4>1
      <4> QED BY <4>2
    <3> QED BY <2>1, <3>1, <3>2
  <2> QED BY <2>2, <2>3
<1>6. PartOf(R).max_abs_error = f[n]
  <2>1. PartOf(R).max_abs_error = Max(S)
    BY DEF PartOf
  <2> HIDE DEF S
  <2> QED BY <1>5, <2>1, MaxIs
<1>7. f[n] <= summary.max_abs_error
  BY <1>1, <1>2, <1>3
<1>8. summary.worst \in R => f[summary.worst] = summary.max_abs_error
  BY <1>2, <1>3
<1>9. summary.max_abs_error \in Nat /\ f[summary.worst] <= f[n]
  BY <1>1, <1>2, <1>4
<1> QED BY <1>3, <1>6, <1>7, <1>8, <1>9

(* Of a rows at a places in increasing order, at least a are counted.      *)
LEMMA CountAtLeast ==
  ASSUME NEW m \in Nat, NEW g, NEW k, NEW a \in Nat, NEW place \in [1..a -> 1..m],
         \A i \in 1..a : g[place[i]] = k,
         \A i \in 1..a : i > 1 => place[i - 1] < place[i]
  PROVE  PartTotal([n \in 1..m |-> 1], g, k, m) >= a
<1> DEFINE t == [n \in 1..m |-> 1]
           count(l) == PartTotal(t, g, k, l)
           Counted(l) == count(l) \in Nat /\ \A i \in 1..a : place[i] <= l => count(l) >= i
           T == {l \in 0..m : ~Counted(l)}
<1>1. t \in [1..m -> Int] /\ \A n \in 1..m : t[n] = 1
  OBVIOUS
<1> HIDE DEF t
<1>2. \A l \in Nat : l + 1 <= m =>
        /\ count(0) = 0 /\ count(l) \in Int
        /\ count(l + 1) = count(l) + (IF g[l + 1] = k THEN 1 ELSE 0)
  BY <1>1, PartGrows
<1>3. count(0) = 0
  <2>1. [n \in 1..0 |-> IF g[n] = k THEN t[n] ELSE 0] = << >>
    OBVIOUS
  <2> QED BY <2>1, TotalOfNone DEF PartTotal
<1> HIDE DEF count
<1>4. Counted(0)
  BY <1>3
<1>5. ASSUME NEW l \in Nat, l + 1 <= m, Counted(l)
      PROVE  Counted(l + 1)
  <2>1. count(l + 1) = count(l) + (IF g[l + 1] = k THEN 1 ELSE 0) /\ count(l) \in Nat
    BY <1>2, <1>5
  <2>2. ASSUME NEW i \in 1..a, place[i] <= l + 1
        PROVE  count(l + 1) >= i
    <3>0. place[i] \in 1..m /\ (i > 1 => i - 1 \in 1..a /\ place[i - 1] \in 1..m)
      OBVIOUS
    <3>1. CASE place[i] <= l
      BY <1>5, <2>1, <3>1
    <3>2. CASE place[i] = l + 1
      <4>1. count(l + 1) = count(l) + 1
        BY <2>1, <3>2
      <4>2. i > 1 => count(l) >= i - 1
        BY <1>5, <3>0, <3>2
      <4> QED BY <2>1, <4>1, <4>2
    <3> QED BY <2>2, <3>0, <3>1, <3>2
  <2> QED BY <2>1, <2>2
<1> HIDE DEF Counted
<1>6. T = {}
  <2> SUFFICES ASSUME T # {} PROVE FALSE
    OBVIOUS
  <2>1. PICK l \in T : \A j \in T : l <= j
    <3>1. T \in SUBSET Nat
      OBVIOUS
    <3> HIDE DEF T
    <3> QED BY <3>1, LeastNumber
  <2>2. l \in 0..m /\ l # 0 /\ ~Counted(l)
    BY <1>4
  <2>3. l - 1 \in Nat /\ (l - 1) + 1 = l /\ l - 1 \in 0..m
    BY <2>2
  <2>4. Counted(l - 1)
    BY <2>1, <2>3
  <2>5. Counted((l - 1) + 1)
    BY <1>5, <2>2, <2>3, <2>4
  <2> QED BY <2>2, <2>3, <2>5
<1>7. Counted(m)
  BY <1>6
<1> QED
  <2>1. count(m) \in Nat /\ \A i \in 1..a : place[i] <= m
    BY <1>7 DEF Counted
  <2>2. a > 0 => a \in 1..a
    OBVIOUS
  <2>3. count(m) >= a
    BY <1>7, <2>1, <2>2 DEF Counted
  <2> QED BY <2>3 DEF count, t

(* The rows in c parts R, row n in part g[n], and a rows of each part in   *)
(* increasing order.                                                       *)
InParts(R, c, a, g, place) ==
  /\ IFC_ROW_COUNT = c * a
  /\ g \in [1..IFC_ROW_COUNT -> 1..c]
  /\ \A k \in 1..c :
       /\ R[k] = {n \in DOMAIN rows : g[n] = k}
       /\ place[k] \in [1..a -> 1..IFC_ROW_COUNT]
       /\ \A i \in 1..a : g[place[k][i]] = k
       /\ \A i \in 1..a : i > 1 => place[k][i - 1] < place[k][i]

PartsOf(R, c) == [k \in 1..c |-> PartOf(R[k])]

LEMMA PartsRight ==
  ASSUME LoadInv, GoodValues, RowsInv, pc \in {"sweep", "done"},
         NEW c \in Nat \ {0}, NEW a \in Nat, NEW R, NEW g, NEW place,
         InParts(R, c, a, g, place)
  PROVE  Parts(PartsOf(R, c))
<1> DEFINE m == IFC_ROW_COUNT
           part == [k \in 1..c |-> PartOf(R[k])]
           ones == [n \in 1..m |-> 1]
           errors == [n \in 1..m |-> RowError(n)]
<1>0. /\ IFC_ROW_COUNT = c * a /\ g \in [1..IFC_ROW_COUNT -> 1..c]
      /\ \A k \in 1..c :
           /\ R[k] = {n \in DOMAIN rows : g[n] = k}
           /\ place[k] \in [1..a -> 1..IFC_ROW_COUNT]
           /\ \A i \in 1..a : g[place[k][i]] = k
           /\ \A i \in 1..a : i > 1 => place[k][i - 1] < place[k][i]
  BY DEF InParts
<1>1. /\ m \in Nat \ {0} /\ m = Len(rows) /\ DOMAIN rows = 1..m
      /\ \A n \in 1..m : RowError(n) \in Nat
  <2>1. m = Len(rows)
    BY DEF RowsInv
  <2> QED BY <2>1, SummaryTypes, RowsFacts
<1>2. ones \in [1..m -> Int] /\ errors \in [1..m -> Int]
  BY <1>1
<1>3. \A k \in 1..c :
        /\ R[k] \in SUBSET DOMAIN rows
        /\ \A n \in 1..m : n \in R[k] <=> g[n] = k
  <2> TAKE k \in 1..c
  <2>1. R[k] = {n \in DOMAIN rows : g[n] = k}
    BY <1>0
  <2> QED BY <1>1, <2>1
<1>4. ASSUME NEW k \in 1..c
      PROVE  /\ PartOf(R[k]).count = PartTotal(ones, g, k, m)
             /\ PartOf(R[k]).abs_error_sum = PartTotal(errors, g, k, m)
  <2>1. \A n \in 1..m : n \in R[k] <=> g[n] = k
    BY <1>3
  <2>2. /\ [n \in DOMAIN rows |-> IF n \in R[k] THEN 1 ELSE 0]
             = [n \in 1..m |-> IF g[n] = k THEN ones[n] ELSE 0]
        /\ [n \in DOMAIN rows |-> IF n \in R[k] THEN RowError(n) ELSE 0]
             = [n \in 1..m |-> IF g[n] = k THEN errors[n] ELSE 0]
    BY <1>1, <2>1
  <2> QED BY <2>2 DEF PartOf, PartTotal
<1>5. /\ [k \in 1..c |-> PartOf(R[k]).count] = [k \in 1..c |-> PartTotal(ones, g, k, m)]
      /\ [k \in 1..c |-> PartOf(R[k]).abs_error_sum] = [k \in 1..c |-> PartTotal(errors, g, k, m)]
  BY <1>4
<1>6. /\ DOMAIN part = 1..c /\ Len(part) = c /\ \A k \in 1..c : part[k] = PartOf(R[k])
      /\ [k \in DOMAIN part |-> part[k].count] = [k \in 1..c |-> PartOf(R[k]).count]
      /\ [k \in DOMAIN part |-> part[k].abs_error_sum]
           = [k \in 1..c |-> PartOf(R[k]).abs_error_sum]
  OBVIOUS
<1> HIDE DEF part, m
<1>6a. ASSUME NEW t \in [1..m -> Int]
      PROVE  TotalOfParts(t, g, c, m) = Total(t)
  <2>1. g \in [1..m -> 1..c] /\ m \in Nat /\ c \in Nat
    BY <1>0, <1>1 DEF m
  <2> QED BY <2>1, PartsAddUp
<1>7. Total([k \in 1..c |-> PartTotal(ones, g, k, m)]) = m
  <2>1. Total(ones) = m
    <3>1. Total(ones) = m * 1
      BY <1>1, TotalOfSame
    <3> QED BY <1>1, <3>1
  <2> HIDE DEF ones
  <2>3. Total([k \in 1..c |-> PartTotal(ones, g, k, m)]) = Total(ones)
    <3>1. ones \in [1..m -> Int]
      BY <1>2
    <3> QED BY <3>1, <1>6a DEF TotalOfParts
  <2> QED BY <2>1, <2>3
<1>8. Total([k \in 1..c |-> PartTotal(errors, g, k, m)]) = summary.abs_error_sum
  <2>1. Total(errors) = summary.abs_error_sum
    <3>1. summary.abs_error_sum = Total([n \in 1..Len(rows) |-> RowError(n)])
      <4> DEFINE e == [n \in 1..Len(rows) |-> RowError(n)]
                 x == Total([n \in 1..Len(rows) |-> RunError(n)])
      <4>1. summary = [abs_error_sum |-> Total(e), error_sum |-> x,
                       max_abs_error |-> summary.max_abs_error, worst |-> summary.worst]
        BY DEF RowsInv
      <4> HIDE DEF e, x
      <4>2. summary.abs_error_sum = Total(e)
        BY <4>1
      <4> QED BY <4>2 DEF e
    <3>2. errors = [n \in 1..Len(rows) |-> RowError(n)]
      BY <1>1
    <3> HIDE DEF errors
    <3> QED BY <3>1, <3>2
  <2> HIDE DEF errors
  <2>3. Total([k \in 1..c |-> PartTotal(errors, g, k, m)]) = Total(errors)
    <3>1. errors \in [1..m -> Int]
      BY <1>2
    <3> QED BY <3>1, <1>6a DEF TotalOfParts
  <2> QED BY <2>1, <2>3
<1>9. ASSUME NEW k \in 1..c
      PROVE  part[k].count >= m \div c
  <2>1. PartTotal(ones, g, k, m) >= a
    <3>1. /\ place[k] \in [1..a -> 1..m] /\ \A i \in 1..a : g[place[k][i]] = k
          /\ \A i \in 1..a : i > 1 => place[k][i - 1] < place[k][i]
      BY <1>0 DEF m
    <3> QED BY <1>1, <3>1, CountAtLeast
  <2>2. m \div c = a
    BY <1>0, Quotient DEF m
  <2> QED BY <1>4, <1>6, <2>1, <2>2
<1>10. Max({part[k].max_abs_error : k \in DOMAIN part}) = summary.max_abs_error
  <2> DEFINE S == {part[k].max_abs_error : k \in DOMAIN part}
  <2>1. \A k \in 1..c :
          /\ part[k].max_abs_error \in Nat
          /\ part[k].max_abs_error <= summary.max_abs_error
          /\ summary.worst \in R[k] => part[k].max_abs_error = summary.max_abs_error
    BY <1>3, <1>6, PartMax
  <2>2. summary.worst \in 1..m
    BY <1>1 DEF RowsInv
  <2>3. g[summary.worst] \in 1..c /\ summary.worst \in R[g[summary.worst]]
    BY <1>0, <1>1, <1>3, <2>2 DEF m
  <2>4. S \in SUBSET Int /\ summary.max_abs_error \in S /\ \A y \in S : y <= summary.max_abs_error
    <3>1. \A y \in S : \E k \in 1..c : y = part[k].max_abs_error
      BY <1>6
    <3>2. part[g[summary.worst]].max_abs_error = summary.max_abs_error
      BY <2>1, <2>3
    <3>3. part[g[summary.worst]].max_abs_error \in S
      BY <1>6, <2>3
    <3> HIDE DEF S
    <3>4. \A y \in S : y \in Int /\ y <= summary.max_abs_error
      <4> TAKE y \in S
      <4>1. PICK k \in 1..c : y = part[k].max_abs_error
        BY <3>1
      <4>2. part[k].max_abs_error \in Nat /\ part[k].max_abs_error <= summary.max_abs_error
        BY <2>1
      <4> QED BY <4>1, <4>2
    <3> QED BY <3>2, <3>3, <3>4
  <2> HIDE DEF S
  <2>5. Max(S) = summary.max_abs_error
    BY <2>4, MaxIs
  <2> QED BY <2>5 DEF S
<1>11. Parts(part)
  <2>1. /\ Total([k \in DOMAIN part |-> part[k].count]) = m
        /\ Total([k \in DOMAIN part |-> part[k].abs_error_sum]) = summary.abs_error_sum
    BY <1>5, <1>6, <1>7, <1>8
  <2>2. \A k \in DOMAIN part : part[k].count >= m \div Len(part)
    BY <1>6, <1>9
  <2> QED BY <1>10, <2>1, <2>2 DEF Parts, m
<1> QED BY <1>11 DEF part, PartsOf

LEMMA DivideSum ==
  ASSUME NEW b \in Nat \ {0}, NEW j \in Nat, NEW s \in 0..b - 1
  PROVE  (b * j + s) \div b = j /\ (b * j + s) % b = s
<1> DEFINE x == b * j + s
           q == x \div b
<1>1. x \in Nat /\ q \in Nat /\ x % b \in 0..b - 1 /\ x = b * q + (x % b)
  <2>1. b * j \in Nat
    OBVIOUS
  <2>2. x \in Nat
    BY <2>1
  <2> HIDE DEF x
  <2> QED BY <2>2, Division
<1> HIDE DEF q
<1>2. ~(q < j)
  <2> SUFFICES ASSUME q < j PROVE FALSE
    OBVIOUS
  <2>1. j = q + 1 + (j - q - 1) /\ j - q - 1 \in Nat
    BY <1>1
  <2>2. b * j = b * q + b + b * (j - q - 1)
    BY <1>1, <2>1
  <2>3. b * (j - q - 1) \in Nat /\ b * q \in Nat
    BY <1>1, <2>1
  <2> QED BY <1>1, <2>2, <2>3
<1>3. ~(j < q)
  <2> SUFFICES ASSUME j < q PROVE FALSE
    OBVIOUS
  <2>1. q = j + 1 + (q - j - 1) /\ q - j - 1 \in Nat
    BY <1>1
  <2>2. b * q = b * j + b + b * (q - j - 1)
    BY <1>1, <2>1
  <2>3. b * (q - j - 1) \in Nat /\ b * j \in Nat
    BY <1>1, <2>1
  <2> QED BY <1>1, <2>2, <2>3
<1>4. q = j
  BY <1>1, <1>2, <1>3
<1>5. x % b = s
  BY <1>1, <1>4
<1> QED BY <1>4, <1>5 DEF q

LEMMA TableRows ==
  ASSUME LoadInv
  PROVE  DOMAIN tables.models = 1..IFC_MODEL_COUNT /\ DOMAIN tables.platforms = 1..IFC_PLATFORM_COUNT
<1>1. "models" \in Tables /\ "platforms" \in Tables
  BY LoaderFacts
<1>2. tables = [t \in Tables |-> [r \in 1..Rows[t] |-> tables[t][r]]]
  BY DEF LoadInv, LoadTypes
<1>3. /\ tables["models"] = [r \in 1..Rows["models"] |-> tables["models"][r]]
      /\ tables["platforms"] = [r \in 1..Rows["platforms"] |-> tables["platforms"][r]]
  BY <1>1, <1>2
<1>4. Rows["models"] = IFC_MODEL_COUNT /\ Rows["platforms"] = IFC_PLATFORM_COUNT
  BY DEF Rows
<1> QED BY <1>3, <1>4

(* The rows of a platform are those of every model: one in each group of   *)
(* IFC_PLATFORM_COUNT rows.                                                *)
LEMMA PlatformParts ==
  ASSUME LoadInv, GoodValues, RowsInv, pc \in {"sweep", "done"}, DifferentNames(tables.platforms)
  PROVE  Parts([p \in 1..IFC_PLATFORM_COUNT |-> PlatformSummary(p)])
<1> DEFINE m == IFC_ROW_COUNT
           c == IFC_PLATFORM_COUNT
           a == IFC_MODEL_COUNT
           g == [n \in 1..m |-> RowPlatform(n)]
           R == [p \in 1..c |-> {n \in DOMAIN rows : rows[n].platform = Name[tables.platforms[p]]}]
           place == [p \in 1..c |-> [i \in 1..a |-> (c * (i - 1)) + p]]
<1>1. c \in Nat \ {0} /\ a \in Nat \ {0} /\ m = c * a /\ m \in Nat
  BY ConfigLoadAssumption DEF IFC_ROW_COUNT
<1>2. Len(rows) = m /\ DOMAIN rows = 1..m /\ \A n \in 1..m : rows[n] = RowAt(n)
  <2>1. Len(rows) = m
    BY DEF RowsInv
  <2> QED BY <2>1, RowsFacts
<1>3. g \in [1..m -> 1..c]
  BY RowPlace
<1>4. \A p \in 1..c : R[p] = {n \in DOMAIN rows : g[n] = p}
  <2>1. ASSUME NEW n \in 1..m
        PROVE  rows[n].platform = Name[tables.platforms[g[n]]] /\ g[n] \in 1..c
    BY <1>2, <1>3 DEF RowAt, SimulateOne
  <2> HIDE DEF g
  <2>2. ASSUME NEW n \in 1..m, NEW p \in 1..c
        PROVE  rows[n].platform = Name[tables.platforms[p]] <=> g[n] = p
    <3>1. p \in DOMAIN tables.platforms /\ g[n] \in DOMAIN tables.platforms
      BY <2>1, TableRows
    <3> QED BY <2>1, <3>1 DEF DifferentNames
  <2> QED BY <1>2, <2>2
<1>5. ASSUME NEW p \in 1..c
      PROVE  /\ place[p] \in [1..a -> 1..m]
             /\ \A i \in 1..a : g[place[p][i]] = p
             /\ \A i \in 1..a : i > 1 => place[p][i - 1] < place[p][i]
  <2>1. ASSUME NEW i \in 1..a
        PROVE  place[p][i] \in 1..m /\ g[place[p][i]] = p
    <3> DEFINE j == i - 1
               x == (c * j) + p
    <3>1. place[p][i] = x
      OBVIOUS
    <3>2. j \in Nat /\ a - i \in Nat /\ p \in Int /\ p - 1 \in 0..c - 1
      BY <1>1
    <3>3. c * j \in Nat /\ c * (a - i) \in Nat /\ c * a = (c * j) + c + (c * (a - i))
      BY <1>1, <3>2
    <3>4. x \in 1..m /\ x - 1 = c * j + (p - 1)
      BY <1>1, <3>2, <3>3
    <3>5. (x - 1) % c = p - 1
      <4>1. ((c * j) + (p - 1)) % c = p - 1
        <5> HIDE DEF j
        <5>1. \A s \in 0..c - 1 : ((c * j) + s) % c = s
          BY <1>1, <3>2, DivideSum
        <5> QED BY <3>2, <5>1
      <4> QED BY <3>4, <4>1
    <3>6. g[x] = p
      BY <3>2, <3>4, <3>5 DEF RowPlatform
    <3> QED BY <3>1, <3>4, <3>6
  <2>2. ASSUME NEW i \in 1..a, i > 1
        PROVE  place[p][i - 1] < place[p][i]
    <3> DEFINE k == i - 1
    <3>1. k \in 1..a /\ k - 1 \in Nat /\ i - 1 = (k - 1) + 1
      BY <1>1, <2>2
    <3>2. c * (i - 1) = (c * (k - 1)) + c /\ c * (k - 1) \in Nat
      BY <1>1, <3>1
    <3>3. place[p][k] = (c * (k - 1)) + p /\ place[p][i] = (c * (i - 1)) + p
      BY <3>1
    <3> HIDE DEF place
    <3> QED BY <1>1, <3>2, <3>3
  <2> QED BY <2>1, <2>2
<1>6. Parts(PartsOf(R, c))
  <2> HIDE DEF g, R, place
  <2>1. InParts(R, c, a, g, place)
    BY <1>1, <1>3, <1>4, <1>5 DEF InParts
  <2> QED BY <1>1, <2>1, PartsRight
<1>7. PartsOf(R, c) = [p \in 1..c |-> PlatformSummary(p)]
  BY DEF PlatformSummary, PartsOf
<1> QED BY <1>6, <1>7

(* The rows of a model are the IFC_PLATFORM_COUNT rows of its group.       *)
LEMMA ModelParts ==
  ASSUME LoadInv, GoodValues, RowsInv, pc \in {"sweep", "done"}, DifferentNames(tables.models)
  PROVE  Parts([m \in 1..IFC_MODEL_COUNT |-> ModelSummary(m)])
<1> DEFINE m == IFC_ROW_COUNT
           c == IFC_MODEL_COUNT
           a == IFC_PLATFORM_COUNT
           g == [n \in 1..m |-> RowModel(n)]
           R == [p \in 1..c |-> {n \in DOMAIN rows : rows[n].model = Name[tables.models[p]]}]
           place == [p \in 1..c |-> [i \in 1..a |-> (a * (p - 1)) + i]]
<1>1. c \in Nat \ {0} /\ a \in Nat \ {0} /\ m = c * a /\ m \in Nat
  BY ConfigLoadAssumption DEF IFC_ROW_COUNT
<1>2. Len(rows) = m /\ DOMAIN rows = 1..m /\ \A n \in 1..m : rows[n] = RowAt(n)
  <2>1. Len(rows) = m
    BY DEF RowsInv
  <2> QED BY <2>1, RowsFacts
<1>3. g \in [1..m -> 1..c]
  BY RowPlace
<1>4. \A p \in 1..c : R[p] = {n \in DOMAIN rows : g[n] = p}
  <2>1. ASSUME NEW n \in 1..m
        PROVE  rows[n].model = Name[tables.models[g[n]]] /\ g[n] \in 1..c
    BY <1>2, <1>3 DEF RowAt, SimulateOne
  <2> HIDE DEF g
  <2>2. ASSUME NEW n \in 1..m, NEW p \in 1..c
        PROVE  rows[n].model = Name[tables.models[p]] <=> g[n] = p
    <3>1. p \in DOMAIN tables.models /\ g[n] \in DOMAIN tables.models
      BY <2>1, TableRows
    <3> QED BY <2>1, <3>1 DEF DifferentNames
  <2> QED BY <1>2, <2>2
<1>5. ASSUME NEW p \in 1..c
      PROVE  /\ place[p] \in [1..a -> 1..m]
             /\ \A i \in 1..a : g[place[p][i]] = p
             /\ \A i \in 1..a : i > 1 => place[p][i - 1] < place[p][i]
  <2> DEFINE j == p - 1
  <2>1. j \in Nat /\ c - p \in Nat
    BY <1>1
  <2>2. a * j \in Nat /\ a * (c - p) \in Nat /\ c * a = (a * j) + a + (a * (c - p))
    BY <1>1, <2>1
  <2>3. \A i \in 1..a : place[p][i] = (a * j) + i
    OBVIOUS
  <2>4. ASSUME NEW i \in 1..a
        PROVE  place[p][i] \in 1..m /\ g[place[p][i]] = p
    <3> DEFINE x == (a * j) + i
    <3>1. i \in Int /\ i - 1 \in 0..a - 1
      BY <1>1
    <3>2. x \in 1..m /\ x - 1 = a * j + (i - 1)
      BY <1>1, <2>2, <3>1
    <3>3. (x - 1) \div a = j
      <4>1. ((a * j) + (i - 1)) \div a = j
        <5> HIDE DEF j
        <5>1. \A s \in 0..a - 1 : ((a * j) + s) \div a = j
          BY <1>1, <2>1, DivideSum
        <5> QED BY <3>1, <5>1
      <4> QED BY <3>2, <4>1
    <3>4. g[x] = p
      BY <2>1, <3>2, <3>3 DEF RowModel
    <3> QED BY <2>3, <3>2, <3>4
  <2>5. ASSUME NEW i \in 1..a, i > 1
        PROVE  place[p][i - 1] < place[p][i]
    <3>1. i - 1 \in 1..a
      BY <1>1, <2>5
    <3> HIDE DEF place
    <3> QED BY <2>2, <2>3, <3>1
  <2>6. place[p] = [i \in 1..a |-> place[p][i]]
    OBVIOUS
  <2> HIDE DEF place
  <2> QED BY <2>4, <2>5, <2>6
<1>6. Parts(PartsOf(R, c))
  <2> HIDE DEF g, R, place
  <2>1. InParts(R, c, a, g, place)
    BY <1>1, <1>3, <1>4, <1>5 DEF InParts
  <2> QED BY <1>1, <2>1, PartsRight
<1>7. PartsOf(R, c) = [p \in 1..c |-> ModelSummary(p)]
  BY DEF ModelSummary, PartsOf
<1> QED BY <1>6, <1>7

(* For every configuration and any times: the sweep at the run's context   *)
(* says what the run said, the checks on the run and on the window agree,  *)
(* and the summaries of the platforms and of the models add up to the      *)
(* run's.                                                                  *)
THEOREM SummariesRight == ReproductionSpec => []SummariesAgree
<1> SUFFICES ASSUME LoadInv, GoodValues, RowsInv, FitInv, pc = "done"
             PROVE  SummariesAgree
  <2>1. LoadInv /\ GoodValues /\ RowsInv /\ FitInv => SummariesAgree
    BY DEF SummariesAgree
  <2> QED BY <2>1, SweepInvariance, PTL
<1>1. system.context_tokens \in Nat
  BY LoadedFacts
<1>2. ASSUME NEW c \in Sweep, c = system.context_tokens \/ system.context_tokens <= 0
      PROVE  SummaryAt(c) = summary
  <2>1. c \in Nat /\ (system.context_tokens <= 0 => system.context_tokens = 0)
    BY <1>1, SweepNumbers
  <2> QED BY <1>2, <2>1, SameContext
<1>3. ASSUME system.context_tokens \in Sweep, Checks.figure9_mean, Checks.figure9_max
      PROVE  Checks.window_min /\ Checks.window_max
  <2> DEFINE c == system.context_tokens
  <2>1. Guardrail(summary)
    BY <1>3 DEF Checks, Guardrail
  <2>2. Guardrail(SummaryAt(c))
    BY <1>2, <1>3, <2>1
  <2>3. c \in 1..CONTEXT_SWEEP_MAX /\ context - 1 = CONTEXT_SWEEP_MAX
    BY <1>3, SweepNumbers DEF FitInv
  <2>4. PassBounds(CONTEXT_SWEEP_MAX)
    BY <2>3 DEF FitInv
  <2> HIDE DEF c
  <2>5. fit.guardrail_min > 0 /\ fit.guardrail_min <= c /\ fit.guardrail_max >= c
    BY <2>2, <2>3, <2>4, SweepNumbers DEF PassBounds
  <2> QED BY <2>5 DEF Checks, c
<1> QED BY <1>2, <1>3, PlatformParts, ModelParts DEF SummariesAgree
===============================================================================
