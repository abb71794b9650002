------------------------------ MODULE SheetRows ------------------------------
(***************************************************************************)
(* The data rows of a sheet as packages/world-sheets uses them             *)
(* (src/sheets.ts): rows are read with their numbers, overwritten by       *)
(* number, and deleted by number, which moves up the rows below.           *)
(* Rows beyond the last one exist, and are blank; reads end with the last  *)
(* row that is not.                                                        *)
(***************************************************************************)
EXTENDS Naturals, FiniteSets, SequencesExt

getAllRows(rows) == [n \in DOMAIN rows |-> [at |-> n, row |-> rows[n]]]

updateRow(rows, n, row, blank) ==
  [k \in 1..(IF n > Len(rows) THEN n ELSE Len(rows)) |->
     IF k = n THEN row ELSE IF k <= Len(rows) THEN rows[k] ELSE blank]

deleteRow(rows, n, blank) ==
  IF n > Len(rows) THEN rows
  ELSE LET left == RemoveAt(rows, n) IN
       SubSeq(left, 1, Cardinality({i \in DOMAIN left :
                                      \E k \in i..Len(left) : left[k] # blank}))

(* Does row number n still say what its reader found there?                *)
Still(rows, n, row) == n <= Len(rows) /\ rows[n] = row
=============================================================================
