------------------------- MODULE MatrixImportChecks -------------------------
(* MatrixImport on every file of up to three lines, checked against what an *)
(* administrator who confirms a preview relies on.                          *)
EXTENDS Naturals, Sequences, FiniteSets

\* A text is its own stripped form, except the ones that carry a space.
ImportStripped == [t \in {" ", "queue?", " queue?", "QUEUE?", "why?", "far too long?", "Senior", "senior",
                          "question", " Question", "grade", "7", ""} |->
                      CASE t = " "         -> ""
                        [] t = " queue?"   -> "queue?"
                        [] t = " Question" -> "Question"
                        [] OTHER           -> t]
ImportText == DOMAIN ImportStripped
ImportStrip(text) == IF text \in ImportText THEN ImportStripped[text] ELSE text
ImportFold(text) ==
    LET stripped == ImportStrip(text)
    IN  CASE stripped = "QUEUE?" -> "queue?" [] stripped = "Senior" -> "senior"
          [] stripped = "Question" -> "question" [] OTHER -> stripped
ImportLength(text) == IF text = "far too long?" THEN 2 ELSE 1

\* A workbook's cell may be a number or empty.
ImportSpelling(cell) == CASE cell = "number 7" -> "7" [] cell = "no value" -> "" [] OTHER -> cell

Reader == INSTANCE MatrixImport WITH
    Text <- ImportText, Blank <- "", NoValue <- "no value",
    Spelling <- ImportSpelling, Strip <- ImportStrip, Fold <- ImportFold, Length <- ImportLength,
    QuestionHeader <- {"question"}, SheetHeader <- {"sheet"}, GradeHeader <- {"grade"},
    Grade <- {"Senior"}, MaxLength <- 1

\* Lines a file can have: headers with the columns in both orders, questions that repeat each
\* other in another spelling, cells that are empty or no text, and every error.
Header == {<<" Question", "grade">>, <<"grade", "question">>, <<"why?">>}
Line == {<<>>, <<" queue?", "Senior">>, <<"QUEUE?", " ">>, <<"senior", "why?">>, <<"number 7", "Senior">>,
         <<"far too long?", "number 7">>, <<"Senior", "queue?">>, <<"queue?", "why?">>, <<"why?", "no value">>}
ImportFile(extensions, heads, bodies) ==
    {[extension |-> e, readable |-> TRUE, lines |-> <<h>> \o b] : e \in extensions, h \in heads, b \in bodies}
Body == [1..2 -> Line]
Sheeted == ImportFile({".csv", ".xlsx"}, Header, Body \cup {<<>>})
Plain == {[extension |-> ".txt", readable |-> TRUE, lines |-> b] :
             b \in [1..3 -> {<<"queue?">>, <<" queue?">>, <<"QUEUE?">>, <<"why?">>, <<" ">>}] \cup {<<>>}}
Refused == {[extension |-> e, readable |-> r, lines |-> <<<<"question">>, <<"why?">>>>] :
               <<e, r>> \in {<<".xls", TRUE>>, <<".md", TRUE>>, <<".csv", FALSE>>, <<".xlsx", FALSE>>}}
Queued == {<<>>, <<[question |-> "QUEUE?", sheet |-> "no value", grade |-> "no value"]>>}

PreviewedNumbers(rows) == {rows[i].row.number : i \in DOMAIN rows}
DefaultNumbers(rows) == {rows[i].row.number : i \in {j \in DOMAIN rows : Reader!SelectedByDefault(rows[j])}}
ImportablePrints(rows) == {Reader!Fingerprint(rows[i]) : i \in {j \in DOMAIN rows : Reader!CanImport(rows[j])}}
QueuedPrints(queued) == {ImportFold(queued[i].question) : i \in DOMAIN queued}

\* A legacy or unknown extension, and a file that cannot be read, give no row at all.
ASSUME NothingReadInRefused == \A file \in Refused : Reader!Preview(file) = <<>>

\* A number shown in the preview names one line of the file - a spreadsheet's row, a csv file's
\* record - header or not: the import, which sees only the number, takes the question that was
\* shown.
ASSUME NumbersNameLines ==
    \A file \in Sheeted \cup Plain :
        LET rows == Reader!Preview(file)
        IN  \A i \in DOMAIN rows :
                LET row == rows[i].row
                    line == file.lines[row.number]
                IN  /\ \A j \in DOMAIN rows : rows[j].row.number = row.number => j = i
                    /\ Reader!CanImport(rows[i]) =>
                         /\ Reader!Params(row).question = ImportStrip(row.question)
                         /\ \E c \in DOMAIN line : ImportStrip(ImportSpelling(line[c])) = ImportStrip(row.question)
                         /\ \A queued \in Queued :
                              Reader!Import(file, <<row.number>>, queued)
                                  = queued \o <<Reader!Params(row)>>

\* A row is said to repeat another exactly when an earlier row that can be imported has its
\* fingerprint, and it is the first of those that is named.
ASSUME RepeatsNameTheFirst ==
    \A file \in Sheeted \cup Plain, queued \in Queued :
        LET rows == Reader!PreviewImport(file, queued)
            Same(i) == {rows[j].row.number : j \in {k \in DOMAIN rows :
                            /\ Reader!CanImport(rows[k])
                            /\ Reader!Fingerprint(rows[k]) = Reader!Fingerprint(rows[i])}}
        IN  \A i \in {k \in DOMAIN rows : Reader!CanImport(rows[k])} :
                {w.related : w \in {v \in rows[i].warnings : v.code = "duplicateInFile"}}
                    = {n \in Same(i) : n < rows[i].row.number /\ \A m \in Same(i) : n <= m}

\* Confirming what the preview proposes, in any order, adds every question that the queue does
\* not have, once, and none that it has.
ASSUME DefaultSelectionAddsEachOnce ==
    \A file \in Sheeted \cup Plain, queued \in Queued :
        LET rows   == Reader!PreviewImport(file, queued)
            chosen == DefaultNumbers(rows)
            orders == {o \in [1..Cardinality(chosen) -> chosen] : Reader!IsInjective(o)}
        IN  chosen # {} =>
            \A order \in orders :
                LET after == Reader!Import(file, order, queued)
                IN  /\ SubSeq(after, 1, Len(queued)) = queued
                    /\ QueuedPrints(after) = QueuedPrints(queued) \cup ImportablePrints(rows)
                    /\ Len(after) = Cardinality(QueuedPrints(after))

\* A selection that names a row in error, a row that is not there, or a row twice adds nothing.
ASSUME BadSelectionAddsNothing ==
    \A file \in Sheeted :
        LET rows == Reader!Preview(file)
            bad  == (0..5 \ PreviewedNumbers(rows))
                        \cup {rows[i].row.number : i \in {j \in DOMAIN rows : rows[j].errors # {}}}
        IN  /\ \A n \in 0..5, b \in bad : Reader!Import(file, <<n, b>>, <<>>) = <<>>
            /\ \A n \in 0..5 : Reader!Import(file, <<n, n>>, <<>>) = <<>>

\* The same table as a csv file and as a workbook gives the same rows under the same numbers,
\* when the questions' column has a header, which only the csv file needs; a row that can be
\* imported from both gives the same question.  The workbook is the stricter of the two, by
\* exactly the rows in which a cell is neither empty nor text: a question typed as a number is
\* imported from the csv file and refused in the workbook.
ASSUME CsvAndWorkbookAgree ==
    \A head \in Header, body \in Body :
        LET Read(extension) == Reader!Preview([extension |-> extension, readable |-> TRUE,
                                               lines |-> <<head>> \o body])
            csv  == Read(".csv")
            xlsx == Read(".xlsx")
            Cells(row) == {row.question, row.sheet, row.grade}
        IN  IF head = <<"why?">> THEN csv = <<>>
            ELSE /\ DOMAIN csv = DOMAIN xlsx
                 /\ \A i \in DOMAIN csv :
                      /\ csv[i].row.number = xlsx[i].row.number
                      /\ Reader!CanImport(xlsx[i]) <=>
                            Reader!CanImport(csv[i]) /\ Cells(xlsx[i].row) \subseteq ImportText \cup {"no value"}
                      /\ Reader!CanImport(xlsx[i]) => Reader!Params(csv[i].row) = Reader!Params(xlsx[i].row)

\* and such rows there are.
ASSUME NumbersAreQuestionsInCsv ==
    LET Row(extension) == Reader!Preview([extension |-> extension, readable |-> TRUE,
                                          lines |-> <<<<"question">>, <<"number 7">>>>])[1]
    IN  Reader!CanImport(Row(".csv")) /\ Row(".xlsx").errors = {"questionNotText"}
=============================================================================
