------------------------------ MODULE ConfigLoad ------------------------------
(***************************************************************************)
(* The start of the simulator (main.c) and the CSV loaders of config.c:    *)
(* the configuration begins with the defaults; then the models, platforms, *)
(* system and reference files that were given are loaded into it, in that  *)
(* order, line by line and in place; the first error ends the program.     *)
(*                                                                         *)
(* The three tables are loaded by the same loop.  A row's values are       *)
(* abstract; of the system's keys the two that give the peak throughput of *)
(* the NPU, the one that overrides it and the context length are kept.     *)
(***************************************************************************)
EXTENDS Integers, Sequences, FiniteSets

CONSTANTS
  IFC_MODEL_COUNT, IFC_PLATFORM_COUNT,    \* rows of the tables (7 and 3)
  TableFiles,         \* per table: the files that may be given for it
  SystemFiles,        \* the files that may be given for the system
  Defaults,           \* per table: the rows compiled in
  DefaultSystem,      \* IFC_DEFAULT_SYSTEM and the default context
  NotGiven, Missing,  \* no option; a file that cannot be opened
  Blank               \* a line of white space

(* The columns a loader asks for and the rows it fills.                    *)
Columns == [models |-> 8, platforms |-> 19, reference |-> 4]
Rows == [models |-> IFC_MODEL_COUNT, platforms |-> IFC_PLATFORM_COUNT,
         reference |-> IFC_MODEL_COUNT]

Tables == DOMAIN Columns

SystemProfile ==
  [npu_frequency : Int, npu_ops_per_cycle : Int, npu_peak : Int, context_tokens : Int]

(* A file is the sequence of its lines, the header first.  A line is what  *)
(* one fgets returns: one that is longer than the loader's buffer is       *)
(* several here, of which the code treats each as a line.  A line of a     *)
(* table has columns, some of them empty, and a value; a line of the       *)
(* system file has a key as well, if it has two columns, and a number.     *)
(* The data are the lines after the header that are not blank.             *)
DataLines(f) == {n \in 2..Len(f) : f[n] # Blank}

SystemFile(f) ==
  /\ Len(f) \in Nat
  /\ \A n \in DataLines(f) : f[n].columns \in Nat
  /\ \A n \in DataLines(f) : f[n].columns >= 2 => f[n].value \in Int

ASSUME ConfigLoadAssumption ==
  /\ IFC_MODEL_COUNT \in Nat \ {0} /\ IFC_PLATFORM_COUNT \in Nat \ {0}
  /\ Defaults = [t \in Tables |-> [r \in 1..Rows[t] |-> Defaults[t][r]]]
  /\ DefaultSystem \in SystemProfile /\ DefaultSystem.npu_peak > 0
  /\ NotGiven # Missing
  /\ \A t \in Tables : \A f \in TableFiles[t] :
       Len(f) \in Nat /\ \A n \in DataLines(f) : f[n].columns \in Nat
  /\ \A f \in SystemFiles : SystemFile(f)

VARIABLES
  tables,             \* config->models, platforms, reference_tokens_per_s
  system,             \* config->system
  files,              \* what was found for each option opened so far
  line, row,          \* the loader's position in its file and in its table
  pc                  \* the loader that is next, the one that reads, or the end

vars == <<tables, system, files, line, row, pc>>

Loaders == <<"models", "platforms", "system", "reference">>

Init ==
  /\ tables = Defaults
  /\ system = DefaultSystem
  /\ files = << >>
  /\ line = 0 /\ row = 0
  /\ pc = "open"

(* The loader at work is the one whose file was opened last.               *)
Loader == Loaders[Len(files)]
File == files[Len(files)]
Line == File[line]

AtLine == pc = "read" /\ line <= Len(File)
AtEnd  == pc = "read" /\ line > Len(File)

(* main calls the next loader, if its file was given.  A file that cannot  *)
(* be opened or has no header is an error.                                 *)
Open ==
  /\ pc = "open" /\ Len(files) < 4
  /\ LET loader == Loaders[Len(files) + 1]
     IN  \E f \in {NotGiven, Missing} \cup
                    IF loader = "system" THEN SystemFiles ELSE TableFiles[loader] :
           /\ files' = Append(files, f)
           /\ pc' = IF f = NotGiven THEN "open"
                    ELSE IF f = Missing \/ f = << >> THEN "failed" ELSE "read"
  /\ line' = 2 /\ row' = 0
  /\ UNCHANGED <<tables, system>>

SkipBlank ==
  /\ AtLine /\ Line = Blank
  /\ line' = line + 1
  /\ UNCHANGED <<tables, system, files, row, pc>>

Fail ==
  /\ pc' = "failed"
  /\ UNCHANGED <<tables, system, files, line, row>>

(* split_csv_line: fields beyond the last one asked for are not seen.      *)
Split(l, max) == IF l.columns > max THEN max ELSE l.columns

TableFull == row >= Rows[Loader]

ReadRow ==
  /\ AtLine /\ Line # Blank /\ Loader # "system"
  /\ IF TableFull \/ Split(Line, Columns[Loader]) # Columns[Loader]
     THEN Fail
     ELSE /\ tables' = [tables EXCEPT ![Loader][row + 1] = Line.value]
          /\ row' = row + 1
          /\ line' = line + 1
          /\ UNCHANGED <<system, files, pc>>

(* Fault: a file with too few rows is accepted.                            *)
EndTableUnchecked ==
  /\ AtEnd /\ Loader # "system"
  /\ pc' = "open"
  /\ UNCHANGED <<tables, system, files, line, row>>

EndTable ==
  /\ AtEnd /\ Loader # "system"
  /\ pc' = IF row = Rows[Loader] THEN "open" ELSE "failed"
  /\ UNCHANGED <<tables, system, files, line, row>>

Derived(s) == s.npu_frequency * s.npu_ops_per_cycle

(* Fault: the peak is derived as soon as it is not positive.               *)
SetKeyDeriving(l) ==
  LET s == [system EXCEPT ![l.key] = l.value]
  IN  IF s.npu_peak <= 0 THEN [s EXCEPT !.npu_peak = Derived(s)] ELSE s

(* An unknown key is ignored.                                              *)
SetKey(l) == IF l.key \in DOMAIN system THEN [system EXCEPT ![l.key] = l.value] ELSE system

ReadKey ==
  /\ AtLine /\ Line # Blank /\ Loader = "system"
  /\ IF Split(Line, 2) # 2
     THEN Fail
     ELSE /\ system' = SetKey(Line)
          /\ line' = line + 1
          /\ UNCHANGED <<tables, files, row, pc>>

(* After the last line a peak that is not positive is derived.             *)
EndSystem ==
  /\ AtEnd /\ Loader = "system"
  /\ system' = IF system.npu_peak <= 0 THEN [system EXCEPT !.npu_peak = Derived(system)]
                                       ELSE system
  /\ pc' = "open"
  /\ UNCHANGED <<tables, files, line, row>>

Simulate ==
  /\ pc = "open" /\ Len(files) = 4
  /\ pc' = "simulate"
  /\ UNCHANGED <<tables, system, files, line, row>>

Terminated == pc \in {"simulate", "failed"} /\ UNCHANGED vars

Next == Open \/ SkipBlank \/ ReadRow \/ EndTable \/ ReadKey \/ EndSystem \/ Simulate
          \/ Terminated

Spec == Init /\ [][Next]_vars

-----------------------------------------------------------------------------
(* Properties.                                                             *)

Loaded == pc \notin {"open", "read", "failed"}

FileOf(loader) == files[CHOOSE n \in 1..4 : Loaders[n] = loader]

WellFormed(loader, f) ==
  f = NotGiven \/
  /\ f # Missing /\ f # << >>
  /\ IF loader = "system"
     THEN \A n \in DataLines(f) : f[n].columns >= 2
     ELSE /\ Cardinality(DataLines(f)) = Rows[loader]
          /\ \A n \in DataLines(f) : f[n].columns >= Columns[loader]

(* The row that a line of data is for.                                     *)
RowOf(f, n) == Cardinality({m \in DataLines(f) : m <= n})

(* The loaders write the configuration in place and may fail half way; yet *)
(* what is simulated is, for every table, the defaults or the file's rows  *)
(* in their order, never a mixture, and a program that fails had a file    *)
(* that is at fault, so nothing well-formed is refused.                    *)
AllOrNothing ==
  /\ Loaded =>
       \A t \in Tables :
         IF FileOf(t) = NotGiven
         THEN tables[t] = Defaults[t]
         ELSE /\ WellFormed(t, FileOf(t))
              /\ \A n \in DataLines(FileOf(t)) :
                   tables[t][RowOf(FileOf(t), n)] = FileOf(t)[n].value
  /\ pc = "failed" => ~WellFormed(Loader, File)

(* The lines that give a key a value.                                      *)
LinesOf(f, key) == {n \in DataLines(f) : f[n].key = key}

LastValue(f, key, default) ==
  IF f = NotGiven \/ LinesOf(f, key) = {}
  THEN default
  ELSE f[CHOOSE n \in LinesOf(f, key) : \A m \in LinesOf(f, key) : m <= n].value

(* The peak that is simulated depends on the last value of each key and    *)
(* not on the order of the keys: a given peak that is positive, the        *)
(* default if the file says nothing, else the product of frequency and     *)
(* operations, each from the file or the defaults.                         *)
PeakOfLastValues ==
  Loaded =>
    LET f    == FileOf("system")
        peak == LastValue(f, "npu_peak", DefaultSystem.npu_peak)
    IN  system.npu_peak =
          IF peak > 0 THEN peak
          ELSE LastValue(f, "npu_frequency", DefaultSystem.npu_frequency)
                 * LastValue(f, "npu_ops_per_cycle", DefaultSystem.npu_ops_per_cycle)

(* docs/latency_model.md: "If npu_peak_TOPS is positive in the system CSV, *)
(* it is used directly. Otherwise", it is frequency times operations.      *)
PeakAsDocumented ==
  (Loaded /\ FileOf("system") # NotGiven) =>
    LET peak == LastValue(FileOf("system"), "npu_peak", 0)
    IN  system.npu_peak = IF peak > 0 THEN peak ELSE Derived(system)
=============================================================================
