-------------------------- MODULE NameSearchChecks --------------------------
(* NameSearch on every pair of rows, and on sets of three that differ in    *)
(* each column.                                                             *)
EXTENDS Integers, Sequences, FiniteSets

Search == INSTANCE NameSearch WITH MinFuzzyLength <- 6, NoValue <- "none"

Names(ru, en) == [l \in {"ru", "en"} |-> IF l = "ru" THEN ru ELSE en]
Found(id, ru, en, third, score, names) ==
    [id |-> id, ru |-> ru, en |-> en, third |-> third, score |-> score, names |-> names]

\* What a text may be: the one searched for (found by its pattern, or hidden by a backslash), one
\* that starts with it or has it inside, one only similar, or none of these.
Is(equal, starts, contains, similar) ==
    [equal |-> equal, starts |-> starts, contains |-> contains, similar |-> similar]
Named   == Is(TRUE, TRUE, TRUE, TRUE)
Starts  == Is(FALSE, TRUE, TRUE, TRUE)
Inside  == Is(FALSE, FALSE, TRUE, FALSE)
Similar == Is(FALSE, FALSE, FALSE, TRUE)
Unlike    == Is(FALSE, FALSE, FALSE, FALSE)
Text    == {Named, Is(TRUE, FALSE, FALSE, TRUE), Is(TRUE, FALSE, FALSE, FALSE), Starts, Inside, Similar, Unlike}

\* Any row, and two to put beside it: one named in the other language only, one only similar.
AnyRow(query) == LET texts == Text \cap Search!Relation(query)
                 IN  {Found(2, ru, en, third, score, Names(1, 2)) :
                         ru \in texts, en \in texts, third \in texts, score \in {0, 2}}
Beside == {Found(1, Unlike, Starts, Unlike, 1, Names(1, 1)), Found(3, Similar, Unlike, Unlike, 2, Names(2, 1))}
RowSets(query) == {{r} \cup beside : r \in AnyRow(query), beside \in SUBSET Beside}

Queries == [length : 5..6, backslash : BOOLEAN, language : {"ru", "en"}, limit : {1, 3}]
Rows(answer) == {answer[i] : i \in DOMAIN answer}

\* The two statements find the same rows in the same order.
ASSUME SearchesAgree ==
    \A query \in Queries : \A rows \in RowSets(query) :
        Search!SearchTags(rows, query) = Search!SearchResources(rows, query)

\* The language of the request says what comes first, not what is found.
ASSUME LanguageOnlyOrders ==
    \A query \in {q \in Queries : q.limit = 3} : \A rows \in RowSets(query) :
        LET In(language) == Rows(Search!SearchTags(rows, [query EXCEPT !.language = language]))
        IN  In("ru") = In("en")

\* A limit keeps the best: the shorter answer is the start of the longer one.
ASSUME LimitKeepsTheBest ==
    \A query \in Queries : \A rows \in RowSets(query) :
        LET more == Search!SearchTags(rows, [query EXCEPT !.limit = @ + 1])
            less == Search!SearchTags(rows, query)
        IN  Len(less) <= query.limit /\ less = SubSeq(more, 1, Len(less)) /\ (Len(less) < query.limit => more = less)

\* A row that bears the name searched for is found, unless rows of that name fill the limit, and
\* before any row of another name, if the text searched for has no backslash or is long enough
\* for similarity and similar to itself (one without letters and digits is similar to nothing);
\* of two rows alike but for the score the more similar comes first.
ASSUME TheNameIsFound ==
    \A query \in Queries : \A rows \in RowSets(query) :
        LET answer == Search!SearchTags(rows, query)
            Active(row) == Search!NameColumn(row, query.language)
            named == {row \in rows : /\ Active(row).equal
                                     /\ \/ ~query.backslash
                                        \/ Search!FuzzySearchAllowed(query) /\ Active(row).similar}
        IN  /\ \A row \in named :
                  /\ \/ row \in Rows(answer)
                     \/ Len(answer) = query.limit /\ \A other \in Rows(answer) : Active(other).equal
                  /\ \A i \in DOMAIN answer : ~Active(answer[i]).equal =>
                        \E j \in 1..(i - 1) : answer[j] = row
            /\ \A i, j \in DOMAIN answer :
                  LET a == answer[i]
                      b == answer[j]
                  IN  i < j /\ <<a.ru, a.en, a.third>> = <<b.ru, b.en, b.third>> => a.score >= b.score
            /\ query.length = 5 => \A row \in Rows(answer) : \E text \in Search!Columns(row) : text.contains

\* A backslash in a short text hides the very row that bears it as its name.
ASSUME BackslashHidesTheName ==
    LET row   == Found(1, Is(TRUE, FALSE, FALSE, TRUE), Unlike, Unlike, 1, Names(1, 1))
        query == [length |-> 5, backslash |-> TRUE, language |-> "ru", limit |-> 3]
    IN  row.ru \in Search!Relation(query) /\ Search!SearchTags({row}, query) = <<>>
=============================================================================
