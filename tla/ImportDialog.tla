---------------------------- MODULE ImportDialog ----------------------------
(***************************************************************************)
(* The dialog that imports a file into a table or a server,                *)
(* frontend/src/components/ImportDialog.tsx: a file is chosen and          *)
(* previewed, its columns are mapped to those of the table, and it is      *)
(* imported with that mapping.                                             *)
(*                                                                         *)
(* Abstractions.                                                           *)
(*  - A preview is the file and the header setting it was made with; a     *)
(*    mapping too, and whether it maps every column to one of its own.     *)
(*  - Rows, delimiters, encodings, and the options that are only passed    *)
(*    on (truncate, NULL marker, duplicates) are left out.                 *)
(*  - MaxPreviews and MaxImports bound the calls in flight.                *)
(***************************************************************************)
EXTENDS Naturals, FiniteSets

CONSTANTS Files, Sheets, MaxPreviews, MaxImports, NoFile, NoPreview

ASSUME SheetsAssumption == Sheets \subseteq Files

VARIABLES
  importing,       \* [open, table]: props; whether there is a table
  mode, file, hasHeader, preview, mapping,
  previews,        \* previewImport calls: [n, file, header]
  imports, busy,   \* calls: [file, mode, mapping]
  mixed            \* history: a file was chosen, a preview asked for, or the
                   \* dialog opened while another preview was on its way

importVars == <<importing, mode, file, hasHeader, preview, mapping, previews,
                imports, busy, mixed>>

Modes == {"csv", "json", "excel", "sql"}

ImportInit ==
  /\ importing = [open |-> FALSE, table |-> FALSE]
  /\ mode = "sql" /\ file = NoFile /\ hasHeader = TRUE
  /\ preview = NoPreview /\ mapping = NoPreview
  /\ previews = {} /\ imports = {} /\ busy = FALSE
  /\ mixed = FALSE

(* The effect on "open". *)
OpenImport(table) ==
  /\ ~importing.open /\ importing' = [open |-> TRUE, table |-> table]
  /\ mode' = IF table THEN "csv" ELSE "sql"
  /\ file' = NoFile /\ preview' = NoPreview /\ mapping' = NoPreview /\ busy' = FALSE
  /\ mixed' = (mixed \/ previews # {})
  /\ UNCHANGED <<hasHeader, previews, imports>>

(* Escape closes the dialog while it imports. *)
CloseImport ==
  /\ importing.open /\ importing' = [importing EXCEPT !.open = FALSE]
  /\ UNCHANGED <<mode, file, hasHeader, preview, mapping, previews, imports, busy, mixed>>

SetMode(m) ==
  /\ importing.open /\ (m # "sql" => importing.table)
  /\ mode' = m
  /\ UNCHANGED <<importing, file, hasHeader, preview, mapping, previews, imports, busy, mixed>>

-----------------------------------------------------------------------------
(* loadPreview up to the call: a file of another kind has no preview, its  *)
(* mapping is left alone.                                                  *)
LoadPreview(f, header, shown) ==
  /\ mixed' = (mixed \/ previews # {})
  /\ IF importing.table /\ f \in Sheets
     THEN LET n == CHOOSE i \in 1..MaxPreviews : \A p \in previews : p.n # i
          IN /\ Cardinality(previews) < MaxPreviews
             /\ previews' = previews \cup {[n |-> n, file |-> f, header |-> header]}
             /\ preview' = shown
     ELSE /\ preview' = IF importing.table THEN NoPreview ELSE shown
          /\ UNCHANGED previews

(* Mutant: the mapping of the file before is kept. *)
ChooseFileOnly(f) ==
  /\ importing.open /\ file' = f
  /\ UNCHANGED mapping
  /\ LoadPreview(f, hasHeader, NoPreview)
  /\ UNCHANGED <<importing, mode, hasHeader, imports, busy>>

ChooseFile(f) ==
  /\ importing.open /\ file' = f
  /\ mapping' = NoPreview
  /\ LoadPreview(f, hasHeader, NoPreview)
  /\ UNCHANGED <<importing, mode, hasHeader, imports, busy>>

(* The delimiter field loses the focus. *)
BlurDelimiter ==
  /\ importing.open /\ mode = "csv" /\ file # NoFile
  /\ LoadPreview(file, hasHeader, preview)
  /\ UNCHANGED <<importing, mode, file, hasHeader, mapping, imports, busy>>

(* The preview is asked for by the function of this render, with the       *)
(* setting as it was.                                                      *)
ToggleHeader ==
  /\ importing.open /\ mode \in {"csv", "excel"}
  /\ hasHeader' = ~hasHeader
  /\ IF file = NoFile THEN UNCHANGED <<previews, preview, mixed>>
     ELSE LoadPreview(file, hasHeader, preview)
  /\ UNCHANGED <<importing, mode, file, mapping, imports, busy>>

(* The columns are mapped by name, or else by place. *)
PreviewComes(p, maps) ==
  /\ previews' = previews \ {p}
  /\ preview' = [file |-> p.file, header |-> p.header]
  /\ mapping' = [file |-> p.file, maps |-> maps]
  /\ UNCHANGED <<importing, mode, file, hasHeader, imports, busy, mixed>>

PreviewFails(p) ==
  /\ previews' = previews \ {p} /\ preview' = NoPreview
  /\ UNCHANGED <<importing, mode, file, hasHeader, mapping, imports, busy, mixed>>

MapColumn(maps) ==
  /\ importing.open /\ preview # NoPreview /\ mapping # NoPreview
  /\ mapping' = [mapping EXCEPT !.maps = maps]
  /\ UNCHANGED <<importing, mode, file, hasHeader, preview, previews, imports, busy, mixed>>

-----------------------------------------------------------------------------
(* submit; a preview on its way does not stop it. *)
Submit ==
  /\ importing.open /\ ~busy /\ file # NoFile /\ Cardinality(imports) < MaxImports
  /\ mapping # NoPreview => mapping.maps
  /\ busy' = TRUE
  /\ imports' = imports \cup
       {[file |-> file, mapping |-> IF mode \in {"csv", "excel"} THEN mapping ELSE NoPreview]}
  /\ UNCHANGED <<importing, mode, file, hasHeader, preview, mapping, previews, mixed>>

(* The dialog that is open by then closes. *)
ImportEnds(i) ==
  /\ imports' = imports \ {i} /\ busy' = FALSE
  /\ importing' = [importing EXCEPT !.open = FALSE]
  /\ UNCHANGED <<mode, file, hasHeader, preview, mapping, previews, mixed>>

ImportFails(i) ==
  /\ imports' = imports \ {i} /\ busy' = FALSE
  /\ UNCHANGED <<importing, mode, file, hasHeader, preview, mapping, previews, mixed>>

ImportNext ==
  \/ \E table \in BOOLEAN : OpenImport(table)
  \/ CloseImport \/ BlurDelimiter \/ ToggleHeader \/ Submit
  \/ \E m \in Modes : SetMode(m)
  \/ \E f \in Files : ChooseFile(f)
  \/ \E maps \in BOOLEAN : MapColumn(maps)
  \/ \E p \in previews : PreviewFails(p) \/ \E maps \in BOOLEAN : PreviewComes(p, maps)
  \/ \E i \in imports : ImportEnds(i) \/ ImportFails(i)

ImportSpec == ImportInit /\ [][ImportNext]_importVars

-----------------------------------------------------------------------------
(* Properties *)

(* A file is imported with a mapping of its own columns, whatever file was *)
(* chosen before, unless it was chosen while a preview was on its way.     *)
ImportMapsItsFile ==
  ~mixed => \A i \in imports : i.mapping # NoPreview => i.mapping.file = i.file

(* README.md:105-108 "with a preview of the first rows": the preview is    *)
(* made with the settings the file will be imported with. It is not after  *)
(* the header is switched, which asks for it with the setting of before.   *)
PreviewIsAsSet ==
  (importing.open /\ preview # NoPreview /\ previews = {} /\ ~mixed) =>
    preview.header = hasHeader
=============================================================================
