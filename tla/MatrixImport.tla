---------------------------- MODULE MatrixImport ----------------------------
(***************************************************************************)
(* What the server reads in a file of questions: the rows it previews, the *)
(* issues it reports on each and the questions it adds to the queue when   *)
(* the administrator confirms a selection of row numbers.  The preview and *)
(* the import are two requests that send the same file; nothing of the     *)
(* first is kept, so all that links them is the row numbers.               *)
(*                                                                         *)
(* A file is [extension, readable, lines]: a line is a sequence of cells,  *)
(* of one cell in a .txt file; a quoted cell of a csv file may hold a line *)
(* break, so its lines are its records.  A cell holds a text, nothing, or  *)
(* a number, a date or the like, and a workbook says which: in a file of   *)
(* text there is only the spelling of each.  Delimiters and the wording of *)
(* the messages are left out; texts are values of which only their         *)
(* stripped form, their fingerprint and their length are looked at.        *)
(***************************************************************************)
EXTENDS Naturals, SequencesExt

CONSTANTS
    Text,                                       \* the texts a cell can hold
    Blank,                                      \* the empty text
    NoValue,                                    \* a cell that is missing or empty in a workbook
    Spelling(_),                                \* what a file of text holds of a cell
    Strip(_),                                   \* a text without its line breaks and outer spaces
    Fold(_),                                    \* its words in lower case: its fingerprint
    Length(_),                                  \* its number of characters
    QuestionHeader, SheetHeader, GradeHeader,   \* fingerprints that name a column
    Grade,                                      \* texts that are the name of a grade
    MaxLength                                   \* question_max_length

TextExtension  == {".txt", ".csv"}
ExcelExtension == {".xlsx", ".xlsm"}

-----------------------------------------------------------------------------
(* From the lines of a file to rows. *)

\* The first cell of the header that carries one of the names, 0 if none does.
ColumnIndex(header, names) ==
    SelectInSeq(header, LAMBDA cell : cell \in Text /\ Fold(cell) \in names)

ColumnIndexes(header) == [question |-> ColumnIndex(header, QuestionHeader),
                          sheet    |-> ColumnIndex(header, SheetHeader),
                          grade    |-> ColumnIndex(header, GradeHeader)]

Cell(line, column, missing) == IF column \in DOMAIN line THEN line[column] ELSE missing

\* The lines after the first `skipped` ones, each with the number it has in the file.
RowsAfter(lines, skipped, columns, missing) ==
    [i \in 1..(Len(lines) - skipped) |->
        LET line == lines[i + skipped]
        IN  [number   |-> i + skipped,
             question |-> Cell(line, columns.question, missing),
             sheet    |-> Cell(line, columns.sheet, NoValue),
             grade    |-> Cell(line, columns.grade, NoValue)]]

\* What the csv reader yields: texts, whatever was written.
Spelled(lines) == [n \in DOMAIN lines |-> [c \in DOMAIN lines[n] |-> Spelling(lines[n][c])]]

\* The lines of a text in UTF-8, and of a workbook's first sheet with the cells as they are;
\* what cannot be read is refused.
DecodeText(file) == IF file.readable THEN Spelled(file.lines) ELSE <<>>
ReadRows(file)   == IF file.readable THEN file.lines ELSE <<>>

\* Every line of a text file is a question, the blank ones too.
ParseTxt(lines) ==
    [i \in 1..Len(lines) |->
        [number |-> i, question |-> Strip(lines[i][1]), sheet |-> NoValue, grade |-> NoValue]]

\* A csv file starts with a header that names the column of the questions.
ParseCsv(lines) ==
    IF lines = <<>> \/ ColumnIndexes(lines[1]).question = 0
    THEN <<>>
    ELSE RowsAfter(lines, 1, ColumnIndexes(lines[1]), Blank)

\* A workbook may have that header; without it the questions are in its first column.
ExcelColumnIndexes(header) ==
    IF ColumnIndexes(header).question # 0
    THEN [skipped |-> 1, columns |-> ColumnIndexes(header)]
    ELSE [skipped |-> 0, columns |-> [question |-> 1, sheet |-> 0, grade |-> 0]]

ParseExcel(lines) ==
    IF lines = <<>> THEN <<>>
    ELSE LET found == ExcelColumnIndexes(lines[1])
         IN  RowsAfter(lines, found.skipped, found.columns, NoValue)

\* The rows of a file.  There are none in a file that is refused as a whole.
ParseRows(file) ==
    CASE file.extension = ".txt"             -> ParseTxt(DecodeText(file))
      [] file.extension = ".csv"             -> ParseCsv(DecodeText(file))
      [] file.extension \in ExcelExtension   -> ParseExcel(ReadRows(file))
      [] OTHER                               -> <<>>

-----------------------------------------------------------------------------
(* What is wrong with a row, and the question a row without errors gives. *)

OptionalText(cell) ==
    IF cell = NoValue THEN NoValue ELSE IF Strip(cell) = Blank THEN NoValue ELSE Strip(cell)

Wrong(row) ==
    [questionNotText |-> row.question \notin Text,
     questionBlank   |-> row.question \in Text /\ Strip(row.question) = Blank,
     questionTooLong |-> row.question \in Text /\ Length(Strip(row.question)) > MaxLength,
     sheetNotText    |-> row.sheet \notin Text \cup {NoValue},
     gradeNotText    |-> row.grade \notin Text \cup {NoValue},
     gradeInvalid    |-> row.grade \in Text /\ OptionalText(row.grade) \notin Grade \cup {NoValue}]

PreviewRow(row) ==
    [row |-> row, errors |-> {code \in DOMAIN Wrong(row) : Wrong(row)[code]}, warnings |-> {}]

\* [number, question, sheet, grade] of every row with its errors; <<>> when the file is refused.
Preview(file) == [i \in DOMAIN ParseRows(file) |-> PreviewRow(ParseRows(file)[i])]

CanImport(previewed) == previewed.errors = {}

SelectedByDefault(previewed) == CanImport(previewed) /\ previewed.warnings = {}

\* The question a row adds to the queue.
Params(row) == [question |-> Strip(row.question),
                sheet    |-> OptionalText(row.sheet),
                grade    |-> OptionalText(row.grade)]

Fingerprint(previewed) == Fold(Strip(previewed.row.question))

-----------------------------------------------------------------------------
(* The two requests. *)

\* One pass over the rows, with the row in which each fingerprint was first seen.  A warning
\* does not keep a row from being imported.
WithDuplicateWarnings(rows, queued) ==
    LET Step(acc, previewed) ==
            LET print    == Fingerprint(previewed)
                repeated == IF print \in DOMAIN acc.first
                            THEN {[code |-> "duplicateInFile", related |-> acc.first[print]]} ELSE {}
                waiting  == IF print \in {Fold(q.question) : q \in ToSet(queued)}
                            THEN {[code |-> "duplicateInQueue", related |-> 0]} ELSE {}
            IN  IF ~CanImport(previewed)
                THEN [acc EXCEPT !.rows = Append(@, previewed)]
                ELSE [first |-> [p \in DOMAIN acc.first \cup {print} |->
                                    IF p \in DOMAIN acc.first THEN acc.first[p] ELSE previewed.row.number],
                      rows  |-> Append(acc.rows, [previewed EXCEPT !.warnings = repeated \cup waiting])]
    IN  FoldLeft(Step, [first |-> <<>>, rows |-> <<>>], rows).rows

\* The preview request: the queue is read to warn of the questions that wait in it already.
PreviewImport(file, queued) == WithDuplicateWarnings(Preview(file), queued)

\* A selection is refused as a whole when a number is repeated, names no row or names a row
\* with an error.
SelectionAccepted(rows, chosen) ==
    /\ chosen # <<>>
    /\ IsInjective(chosen)
    /\ \A n \in ToSet(chosen) : \E i \in DOMAIN rows : rows[i].row.number = n /\ CanImport(rows[i])

\* The questions of the chosen rows, in the order of the file.
SelectedQuestions(rows, chosen) ==
    LET taken == SelectSeq(rows, LAMBDA r : r.row.number \in ToSet(chosen))
    IN  [i \in DOMAIN taken |-> Params(taken[i].row)]

\* The import request: the queue it leaves.
Import(file, chosen, queued) ==
    IF SelectionAccepted(Preview(file), chosen)
    THEN queued \o SelectedQuestions(Preview(file), chosen)
    ELSE queued
=============================================================================
