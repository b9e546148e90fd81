----------------------------- MODULE NameSearch -----------------------------
(***************************************************************************)
(* The two searches by name, of tags and of resources.  Each looks in the  *)
(* name in the language of the request, in the name in the other language  *)
(* and in a third column, the slug of a tag or the url of a resource; and  *)
(* each is one statement, written in another way.                          *)
(*                                                                         *)
(* Of a text is told what the database makes of it and the text searched  *)
(* for: whether they are equal, whether the pattern of a prefix and that   *)
(* of a part match, and whether pg_trgm finds them similar.  The text goes *)
(* into the patterns as it is, and a backslash takes the next character's  *)
(* meaning from it: a\b as a pattern matches ab, and not a\b.              *)
(* A row is [id, ru, en, third, score, names]; score is the greatest of    *)
(* the similarities, names the rank of each of the names in the collation. *)
(***************************************************************************)
EXTENDS RowOrder

CONSTANT MinFuzzyLength    \* min_trigram_fuzzy_query_length

\* A prefix is a part; a text without backslashes, taken as a pattern, matches itself.
Relation(query) ==
    {text \in [equal : BOOLEAN, starts : BOOLEAN, contains : BOOLEAN, similar : BOOLEAN] :
        /\ text.starts => text.contains
        /\ text.equal => text.starts \/ query.backslash}

NameColumn(row, language)          == IF language = "ru" THEN row.ru ELSE row.en
SecondaryNameColumn(row, language) == IF language = "ru" THEN row.en ELSE row.ru

Columns(row) == {row.ru, row.en, row.third}

\* Similarity counts for long queries only: a short one has too few trigrams to tell texts apart.
FuzzySearchAllowed(query) == query.length >= MinFuzzyLength

\* Both searches order by this.
SearchRank(row, language) ==
    LET active    == NameColumn(row, language)
        secondary == SecondaryNameColumn(row, language)
    IN  IF active.equal             THEN 0
        ELSE IF active.starts       THEN 1
        ELSE IF secondary.equal     THEN 2
        ELSE IF secondary.starts    THEN 3
        ELSE IF row.third.contains  THEN 4 ELSE 5

SearchOrdering(row, language) ==
    <<SearchRank(row, language), -row.score, row.names[language], row.id>>

Best(rows, query) ==
    PageOf(InOrder(rows, LAMBDA a, b : Before(SearchOrdering(a, query.language), SearchOrdering(b, query.language))),
           1, query.limit)

-----------------------------------------------------------------------------
\* One condition for tags.
SearchTags(rows, query) ==
    Best({row \in rows : \/ \E text \in Columns(row) : text.contains
                         \/ FuzzySearchAllowed(query) /\ \E text \in Columns(row) : text.similar}, query)

\* For resources a long query joins the union of one select per column and operator, each of
\* which has an index; a short one filters.
Candidates(rows) ==
    UNION {{row \in rows : row[column].contains} \cup {row \in rows : row[column].similar} :
              column \in {"ru", "en", "third"}}

SearchResources(rows, query) ==
    IF FuzzySearchAllowed(query) THEN Best(Candidates(rows), query)
    ELSE Best({row \in rows : \E text \in Columns(row) : text.contains}, query)
=============================================================================
