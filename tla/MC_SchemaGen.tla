---------------------------- MODULE MC_SchemaGen ----------------------------
(* Small spreadsheets for SchemaGen: rows that are kept, dropped for a     *)
(* missing name or datatype, left out of the GSM, padded with whitespace,  *)
(* with and without units, and with a datatype type_map does not know.     *)
EXTENDS SchemaGen

MCCell(w, p) == [w |-> w, pad |-> p]
MCRow(n, t, u, inc, ix, nl) ==
  [name |-> n, datatype |-> t, units |-> u, include |-> inc, index |-> ix, nullable |-> nl]

MCRows ==
  { MCRow(MCCell("ra", FALSE), MCCell("BIGINT", FALSE), MCCell("deg", TRUE), TRUE, TRUE, FALSE),
    MCRow(MCCell("flux", TRUE), MCCell("REAL", TRUE), NaN, TRUE, FALSE, TRUE),
    MCRow(MCCell("id", FALSE), MCCell("TEXT", FALSE), NaN, TRUE, NaN, NaN),
    MCRow(NaN, MCCell("REAL", FALSE), NaN, TRUE, FALSE, FALSE),
    MCRow(MCCell("ra", FALSE), NaN, NaN, TRUE, FALSE, FALSE),
    MCRow(MCCell("flux", FALSE), MCCell("DOUBLE", FALSE), NaN, FALSE, TRUE, TRUE),
    MCRow(MCCell("flux", FALSE), MCCell("DOUBLE", FALSE), NaN, NaN, TRUE, TRUE),
    MCRow(MCCell("ra", FALSE), MCCell("bigint", FALSE), NaN, TRUE, FALSE, FALSE) }

(* Every spreadsheet of at most two such rows, or an unreadable input. *)
MCSheets == BoundedSeq(MCRows, 2) \cup {NoFile}
=============================================================================
