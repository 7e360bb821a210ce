----------------------------- MODULE SchemaGen -----------------------------
(***************************************************************************)
(* The sky model service's schema generator, schema_generation/          *)
(* generate.py.  For each entry of `files` in order, it loads the rows of *)
(* the input spreadsheet, keeps those that have a name and a datatype and *)
(* are included in the GSM, opens the output for writing, turns every     *)
(* kept row into a Field and writes the Field's text.  Nothing catches an *)
(* exception: the first one ends the script.                              *)
(*                                                                         *)
(* A spreadsheet is a sequence of row records.  A text cell is a record   *)
(* [w |-> word, pad |-> BOOLEAN]: pad says the word has whitespace around *)
(* it, which strip() removes.  The description column is left out (no     *)
(* property reads it) and each emitted line is a tuple naming what it     *)
(* says: <<"brief", units>>, <<"pragma", p>>, <<"decl", type, name>>.     *)
(***************************************************************************)
EXTENDS Integers, SequencesExt

CONSTANTS
  NFiles,   \* the number of entries of `files`
  Sheets,   \* the spreadsheets an entry's input may hold
  NoFile,   \* an input that pd.read_excel cannot open (a member of Sheets)
  NaN,      \* an empty spreadsheet cell
  Old       \* what an output file held before the run

ASSUME SchemaConstantsAssumption == NFiles \in Nat \ {0} /\ NoFile \in Sheets

(* type_map: spreadsheet datatypes and the C++ types ODB is given. *)
type_map ==
  ("BIGINT" :> "long") @@ ("BIGINT UNSIGNED" :> "unsigned long")
  @@ ("REAL" :> "float") @@ ("DOUBLE" :> "double")
  @@ ("VARCHAR" :> "std::string") @@ ("TEXT" :> "std::string")
  @@ ("BOOLEAN" :> "bool") @@ ("INTEGER" :> "int")
  @@ ("INTEGER UNSIGNED" :> "unsigned int")
  @@ ("DATETIME" :> "boost::posix_time::ptime")

(* str.strip() on a text cell. *)
Strip(c) == c.w

(* dropna(subset=['name', 'datatype']) keeps a row with both cells set. *)
HasNameAndType(r) == r.name # NaN /\ r.datatype # NaN

(* fillna(''): an empty units cell becomes ''; an empty boolean cell      *)
(* becomes '', which is falsy and is not == True.                         *)
Fill(r) ==
  [r EXCEPT !.units    = IF @ = NaN THEN [w |-> "", pad |-> FALSE] ELSE @,
            !.include  = IF @ = NaN THEN FALSE ELSE @,
            !.index    = IF @ = NaN THEN FALSE ELSE @,
            !.nullable = IF @ = NaN THEN FALSE ELSE @]

(* data[data.include_in_gsm == True] *)
InGsm(r) == r.include = TRUE

(* load(): the rows that survive dropna, fillna and the GSM filter. *)
load(sheet) ==
  LET kept == SelectSeq(sheet, HasNameAndType)
  IN  SelectSeq([j \in 1..Len(kept) |-> Fill(kept[j])], InGsm)

(* Field.__init__ raises KeyError when the stripped datatype is unknown. *)
KnownType(r) == Strip(r.datatype) \in DOMAIN type_map

(* Field.__init__: the attributes a row gives its Field. *)
Field(r) ==
  [name |-> Strip(r.name), dtype |-> type_map[Strip(r.datatype)],
   units |-> Strip(r.units), indexed |-> r.index, nullable |-> r.nullable]

(* get_fields(), for data on which no Field raises. *)
get_fields(data) == [j \in 1..Len(data) |-> Field(data[j])]

(* Field._comment: units in parentheses only when there are some. *)
Comment(f) == IF f.units # "" THEN <<"brief", f.units>> ELSE <<"brief">>

(* A mutant of Field.__str__ with the null/not_null branches swapped. *)
TextNullSwapped(f) ==
  <<Comment(f)>> \o (IF f.indexed THEN <<<<"pragma", "index">>>> ELSE <<>>)
  \o <<IF f.nullable THEN <<"pragma", "not_null">> ELSE <<"pragma", "null">>,
       <<"decl", f.dtype, f.name>>, <<"blank">>>>

(* Field.__str__: the comment, the index pragma if indexed, null or       *)
(* not_null, the declaration, and the '\n' that leaves a blank line.      *)
(* _magic_names is always empty, so its loop adds nothing.                *)
Text(f) ==
  <<Comment(f)>> \o (IF f.indexed THEN <<<<"pragma", "index">>>> ELSE <<>>)
  \o <<IF f.nullable THEN <<"pragma", "null">> ELSE <<"pragma", "not_null">>,
       <<"decl", f.dtype, f.name>>, <<"blank">>>>

(* for field in get_fields(data): out.write(str(field)) *)
Render(fields) == FlattenSeq([j \in 1..Len(fields) |-> Text(fields[j])])

VARIABLES
  pc,      \* where __main__ is
  i,       \* the index of the current entry of `files`
  input,   \* the spreadsheet behind each entry (fixed for the run)
  out,     \* the content of each output file
  data,    \* the loaded rows of the current entry
  fields,  \* the Fields of the current entry
  exc      \* the exception that ended the script

sgVars == <<pc, i, input, out, data, fields, exc>>

Init ==
  /\ pc = "loop"
  /\ i = 1
  /\ input \in [1..NFiles -> Sheets]
  /\ out = [j \in 1..NFiles |-> Old]
  /\ data = <<>>
  /\ fields = <<>>
  /\ exc = "none"

(* load(f['input'], ...) for the next entry. *)
Load ==
  /\ pc = "loop" /\ i <= NFiles /\ input[i] # NoFile
  /\ data' = load(input[i])
  /\ pc' = "loaded"
  /\ UNCHANGED <<i, input, out, fields, exc>>

(* pd.read_excel raises: the input cannot be opened. *)
LoadFails ==
  /\ pc = "loop" /\ i <= NFiles /\ input[i] = NoFile
  /\ pc' = "crashed" /\ exc' = "IOError"
  /\ UNCHANGED <<i, input, out, data, fields>>

(* with open(f['output'], 'w'): the output is truncated. *)
Open ==
  /\ pc = "loaded"
  /\ out' = [out EXCEPT ![i] = <<>>]
  /\ pc' = "opened"
  /\ UNCHANGED <<i, input, data, fields, exc>>

(* get_fields(data) with every datatype in type_map. *)
GetFields ==
  /\ pc = "opened" /\ \A j \in 1..Len(data) : KnownType(data[j])
  /\ fields' = get_fields(data)
  /\ pc' = "fields"
  /\ UNCHANGED <<i, input, out, data, exc>>

(* type_map[...] raises KeyError; `with` closes the truncated output. *)
GetFieldsFails ==
  /\ pc = "opened" /\ \E j \in 1..Len(data) : ~KnownType(data[j])
  /\ pc' = "crashed" /\ exc' = "KeyError"
  /\ UNCHANGED <<i, input, out, data, fields>>

(* The write loop and the close, then the next entry. *)
Write ==
  /\ pc = "fields"
  /\ out' = [out EXCEPT ![i] = Render(fields)]
  /\ i' = i + 1
  /\ pc' = "loop"
  /\ UNCHANGED <<input, data, fields, exc>>

(* The loop over `files` ends. *)
Finish ==
  /\ pc = "loop" /\ i > NFiles
  /\ pc' = "done"
  /\ UNCHANGED <<i, input, out, data, fields, exc>>

Next == Load \/ LoadFails \/ Open \/ GetFields \/ GetFieldsFails \/ Write \/ Finish

Spec == Init /\ [][Next]_sgVars /\ WF_sgVars(Next)

-----------------------------------------------------------------------------
(* Reading a generated file back: the lines up to each blank line are one *)
(* member; its declaration, its pragmas and its units.                    *)
Ends(c) == SetToSortSeq({p \in DOMAIN c : c[p] = <<"blank">>}, <)
Block(c, k) == SubSeq(c, IF k = 1 THEN 1 ELSE Ends(c)[k - 1] + 1, Ends(c)[k])
Member(b) ==
  LET decls == {l \in ToSet(b) : l[1] = "decl"}
      null  == <<"pragma", "null">> \in ToSet(b)
      nn    == <<"pragma", "not_null">> \in ToSet(b)
  IN [decl  |-> decls,
      null  |-> IF null # nn THEN null ELSE "both or neither",
      index |-> <<"pragma", "index">> \in ToSet(b),
      units |-> IF Len(b[1]) = 2 THEN b[1][2] ELSE ""]
Parse(c) == [k \in 1..Len(Ends(c)) |-> Member(Block(c, k))]

(* What the spreadsheet asks for, stated over row positions: the rows     *)
(* with a name, a datatype and include_in_gsm set, in sheet order.        *)
Selected(sheet) ==
  SetToSortSeq({k \in DOMAIN sheet : /\ sheet[k].name # NaN
                                     /\ sheet[k].datatype # NaN
                                     /\ sheet[k].include = TRUE}, <)
Expected(sheet) ==
  LET sel == Selected(sheet)
      Cell(v) == IF v = NaN THEN "" ELSE Strip(v)
      Flag(v) == v = TRUE
  IN [m \in 1..Len(sel) |->
        LET r == sheet[sel[m]] IN
        [decl  |-> {<<"decl", type_map[Strip(r.datatype)], Strip(r.name)>>},
         null  |-> Flag(r.nullable),
         index |-> Flag(r.index),
         units |-> Cell(r.units)]]

(* A finished run leaves every output as a sequence of complete members,  *)
(* one per selected row in sheet order, each declaring that row's name    *)
(* with its mapped type, db null exactly when the row is nullable, an     *)
(* index exactly when it is indexed, and its units: the generated ODB     *)
(* schema matches the spreadsheets (main loop, load, Field.__str__).      *)
SchemaMatchesSheets ==
  pc = "done" =>
    \A j \in 1..NFiles :
      /\ out[j] # Old
      /\ Len(out[j]) = 0 \/ out[j][Len(out[j])] = <<"blank">>
      /\ Parse(out[j]) = Expected(input[j])

(* However the script ends, finished or crashed, each output holds either *)
(* what it held before the run or the complete schema of its spreadsheet, *)
(* so a build that includes the .i files never sees a half-generated one  *)
(* (the main loop opens the output before get_fields can raise).          *)
NoTruncatedOutput ==
  pc \in {"done", "crashed"} =>
  \A j \in 1..NFiles :
    \/ out[j] = Old
    \/ /\ input[j] # NoFile
       /\ \A k \in 1..Len(load(input[j])) : KnownType(load(input[j])[k])
       /\ out[j] = Render(get_fields(load(input[j])))
=============================================================================
