----------------------------- MODULE SchemaProofs -----------------------------
(***************************************************************************)
(* Proofs about the main loop of generate.py, for every number of files   *)
(* and every set of spreadsheets.  What load, get_fields and Field.__str__ *)
(* compute is not unfolded: the argument is about which output holds what *)
(* when, and the conversions are terms carried along.                     *)
(***************************************************************************)
EXTENDS SchemaGen, TLAPS

\* An input whose loaded rows all have a datatype that type_map knows, so
\* that get_fields cannot raise KeyError on it.
WellFormed(s) ==
  s # NoFile => \A k \in 1..Len(load(s)) : KnownType(load(s)[k])

\* Output j holds the complete schema of its spreadsheet.
Complete(j) ==
  /\ input[j] # NoFile
  /\ \A k \in 1..Len(load(input[j])) : KnownType(load(input[j])[k])
  /\ out[j] = Render(get_fields(load(input[j])))

\* The main loop's inductive invariant: the entries before the loop's
\* position are complete, those after it untouched, the current one
\* untouched until it is opened, and after a crash untouched unless its
\* input names an unknown datatype; the loop's locals are what load and
\* get_fields returned for the current entry.
TruncInv ==
  /\ pc \in {"loop", "loaded", "opened", "fields", "done", "crashed"}
  /\ i \in 1..(NFiles + 1)
  /\ input \in [1..NFiles -> Sheets]
  /\ DOMAIN out = 1..NFiles
  /\ \A j \in 1..NFiles : j < i => Complete(j)
  /\ \A j \in 1..NFiles : j > i => out[j] = Old
  /\ pc \in {"loop", "loaded"} /\ i <= NFiles => out[i] = Old
  /\ pc = "crashed" => i <= NFiles /\ (out[i] = Old \/ ~WellFormed(input[i]))
  /\ pc \in {"loaded", "opened", "fields"} =>
        /\ i <= NFiles
        /\ input[i] # NoFile
        /\ data = load(input[i])
  /\ pc = "fields" => /\ fields = get_fields(data)
                      /\ \A k \in 1..Len(data) : KnownType(data[k])
  /\ pc = "done" => i = NFiles + 1

\* Every step of the main loop preserves TruncInv.
LEMMA TruncInvInductive == TruncInv /\ [Next]_sgVars => TruncInv'
<1> SUFFICES ASSUME TruncInv, [Next]_sgVars PROVE TruncInv'
  OBVIOUS
<1> USE SchemaConstantsAssumption DEF TruncInv, Complete
<1>1. CASE Load
  BY <1>1 DEF Load
<1>2. CASE LoadFails
  BY <1>2 DEF LoadFails
<1>3. CASE Open
  BY <1>3 DEF Open
<1>4. CASE GetFields
  BY <1>4 DEF GetFields
<1>5. CASE GetFieldsFails
  <2>1. ~WellFormed(input[i])
    BY <1>5 DEF GetFieldsFails, WellFormed
  <2>2. QED BY <1>5, <2>1 DEF GetFieldsFails
<1>6. CASE Write
  BY <1>6 DEF Write
<1>7. CASE Finish
  BY <1>7 DEF Finish
<1>8. CASE UNCHANGED sgVars
  BY <1>8 DEF sgVars
<1>9. QED BY <1>1, <1>2, <1>3, <1>4, <1>5, <1>6, <1>7, <1>8 DEF Next

\* The main loop starts in TruncInv.
LEMMA InitTruncInv == Init => TruncInv
<1> SUFFICES ASSUME Init PROVE TruncInv
  OBVIOUS
<1>1. pc = "loop" /\ i = 1 /\ i \in 1..(NFiles + 1)
  BY SchemaConstantsAssumption DEF Init
<1>2. input \in [1..NFiles -> Sheets] /\ DOMAIN out = 1..NFiles
  BY DEF Init
<1>3. \A j \in 1..NFiles : out[j] = Old
  BY DEF Init
<1>4. QED BY <1>1, <1>2, <1>3 DEF TruncInv

\* The other side of the finding of schema_truncate, for every number of
\* files: when no spreadsheet names a datatype that type_map lacks (the
\* KeyError of Field.__init__), however the script ends, finished or
\* crashed on an unreadable input, every output holds its old content or
\* the complete schema of its spreadsheet: the truncation by open(..., 'w')
\* is only ever seen after an unknown datatype.
THEOREM NoTruncationTheorem ==
  ASSUME \A s \in Sheets : WellFormed(s)
  PROVE  Spec => []NoTruncatedOutput
<1>1. Init => TruncInv
  BY InitTruncInv
<1>2. TruncInv => NoTruncatedOutput
  <2> SUFFICES ASSUME TruncInv, pc \in {"done", "crashed"},
                      NEW j \in 1..NFiles
               PROVE  out[j] = Old \/ Complete(j)
    BY DEF NoTruncatedOutput, Complete
  <2>1. CASE j < i
    BY <2>1 DEF TruncInv
  <2>2. CASE j > i
    BY <2>2 DEF TruncInv
  <2>3. CASE j = i
    <3>1. WellFormed(input[i])
      BY <2>3 DEF TruncInv
    <3>2. QED BY <2>3, <3>1, SchemaConstantsAssumption DEF TruncInv
  <2>4. QED BY <2>1, <2>2, <2>3, SchemaConstantsAssumption DEF TruncInv
<1>3. QED BY <1>1, <1>2, TruncInvInductive, PTL DEF Spec

\* For every number of files and every set of spreadsheets: when the loop
\* over `files` has ended, every output holds the rendering of the Fields
\* of its own spreadsheet's loaded rows, none skipped, none stale.  With
\* the TLC run schema_generate, which checks that reading such a rendering
\* back gives what the spreadsheet asks for, this is SchemaMatchesSheets.
THEOREM GeneratedTheorem ==
  Spec => [](pc = "done" => \A j \in 1..NFiles : Complete(j))
<1>1. TruncInv => (pc = "done" => \A j \in 1..NFiles : Complete(j))
  BY SchemaConstantsAssumption DEF TruncInv
<1>2. QED BY <1>1, InitTruncInv, TruncInvInductive, PTL DEF Spec
=============================================================================
