-------------------------- MODULE MatrixWorkspace --------------------------
(***************************************************************************)
(* The administrator's list of the matrix questions: its filters, its      *)
(* eight orders, its pages, the counts above it, and the values its filter *)
(* menus offer.  A request reads these in several statements, and a write  *)
(* that commits between two of them is seen by the later one: an answer is *)
(* built from a table for each of its statements.                          *)
(*                                                                         *)
(* An item is a row with the columns the list looks at.  texts is a        *)
(* function from the columns that publication needs to what they hold; the *)
(* only thing told apart is which characters a blank text is made of,      *)
(* since the database and the server do not agree on it.  Names, the       *)
(* question among them, are their rank in the database's collation, in the *)
(* language of the request.                                                *)
(***************************************************************************)
EXTENDS RowOrder

CONSTANT DayLength    \* ticks of the clock in a day

\* Texts: written, empty, only spaces, only white space with a line break or a tab in it.
Text == {"text", "", "spaces", "lines"}

TextField == {"slug", "questionRu", "questionEn", "answerRu", "answerEn",
              "interviewAnswerExplanationRu", "interviewAnswerExplanationEn"}

-----------------------------------------------------------------------------
(* What keeps an item from being published, as the server and as the database tell it. *)

\* Python's strip takes every white space away, PostgreSQL's trim the spaces only.
Blank == {"", "spaces", "lines"}
TrimmedBlank == {"", "spaces"}

MissingPublicationFields(item) ==
    {f \in TextField : item.texts[f] \in Blank} \cup (IF item.grade = NoValue THEN {"grade"} ELSE {})

\* The conditions, and their number, of the filter, of the counts and of two of the orders.
MissingConditions(item) ==
    {f \in TextField : item.texts[f] \in TrimmedBlank} \cup (IF item.grade = NoValue THEN {"grade"} ELSE {})
MissingCondition(item) == MissingConditions(item) # {}
MissingCount(item) == Cardinality(MissingConditions(item))

IsAvailable(item) == item.status = "Published" /\ MissingPublicationFields(item) = {}

-----------------------------------------------------------------------------
(* The filters.  A list that is empty filters nothing; a NULL is in no list and within no *)
(* date.                                                                                   *)

Within(value, list) == list = {} \/ (value # NoValue /\ value \in list)

DimensionFilter(item, filters) ==
    /\ Within(item.sheet.id, filters.sheets)
    /\ Within(item.section.id, filters.sections)
    /\ Within(item.section.name, filters.sectionNames)
    /\ Within(item.subsection.id, filters.subsections)
    /\ Within(item.subsection.name, filters.subsectionNames)
    /\ Within(item.grade, filters.grades)
    /\ Within(item.frequency, filters.frequencies)
    /\ Within(item.status, filters.statuses)

DateStart(day) == day * DayLength
DateEnd(day)   == DateStart(day) + DayLength - 1

StateFilter(item, filters) ==
    /\ filters.from # NoValue => item.published # NoValue /\ item.published >= DateStart(filters.from)
    /\ filters.to # NoValue   => item.published # NoValue /\ item.published <= DateEnd(filters.to)
    /\ filters.search # NoValue => filters.search \in item.words
    /\ filters.missing # NoValue => (filters.missing = "yes" <=> MissingCondition(item))

Filtered(items, filters) == {item \in items : DimensionFilter(item, filters) /\ StateFilter(item, filters)}

-----------------------------------------------------------------------------
(* The orders. *)

FrequencyRank(frequency) ==
    CASE frequency = "constantly" -> 0 [] frequency = "often" -> 1 [] frequency = "rarely" -> 2
      [] frequency = "neverSeen" -> 3 [] OTHER -> 4

Place(node) == <<node.priority, node.id>>
StructureOrdering(item) == Place(item.sheet) \o Place(item.section) \o Place(item.subsection)

Ordering(item, sort) ==
    CASE sort = "grade"              -> <<NullsLast(item.grade)>> \o StructureOrdering(item)
                                            \o <<item.question, item.id>>
      [] sort = "interviewFrequency" -> <<FrequencyRank(item.frequency)>> \o StructureOrdering(item)
                                            \o <<item.question, item.id>>
      [] sort = "section"            -> StructureOrdering(item) \o <<NullsLast(item.grade), item.id>>
      [] sort = "subsection"         -> Place(item.sheet) \o Place(item.subsection) \o Place(item.section)
                                            \o <<NullsLast(item.grade), item.question, item.id>>
      [] sort = "newest"             -> <<DescNullsLast(item.published), -item.id>>
      [] sort = "oldest"             -> <<NullsLast(item.published), item.id>>
      [] sort = "missingFields"      -> <<-MissingCount(item)>> \o StructureOrdering(item) \o <<item.id>>
      [] sort = "dangerousPublished" -> <<IF item.status = "Published" /\ MissingCondition(item) THEN 0 ELSE 1,
                                          DescNullsLast(item.published), item.id>>

Sort == {"grade", "interviewFrequency", "section", "subsection", "newest", "oldest",
         "missingFields", "dangerousPublished"}

Ordered(items, sort) ==
    InOrder(items, LAMBDA a, b : Before(Ordering(a, sort), Ordering(b, sort)))

-----------------------------------------------------------------------------
(* The answer: a page, the number of rows and pages, and the counts.  read holds the tables that *)
(* its three statements see, in this order: listed, counted, summarised.                         *)

Count(items, Condition(_)) == Cardinality({item \in items : Condition(item)})

Summary(items, filters) ==
    LET found == Filtered(items, filters)
    IN  [total              |-> Cardinality(found),
         draft              |-> Count(found, LAMBDA i : i.status = "Draft"),
         missingDraft       |-> Count(found, LAMBDA i : i.status = "Draft" /\ MissingCondition(i)),
         dangerousPublished |-> Count(found, LAMBDA i : i.status = "Published" /\ MissingCondition(i)),
         readyPublished     |-> Count(found, LAMBDA i : i.status = "Published" /\ ~MissingCondition(i))]

\* A row of the page: the item and the missing fields the administrator is shown.
WorkspaceItem(item) == [id |-> item.id, missing |-> MissingPublicationFields(item)]

Workspace(read, filters) ==
    LET page  == PageOf(Ordered(Filtered(read.listed, filters), filters.sort), filters.page, filters.size)
        count == Cardinality(Filtered(read.counted, filters))
    IN  [values     |-> [i \in DOMAIN page |-> WorkspaceItem(page[i])],
         totalCount |-> count,
         totalPages |-> TotalPages(count, filters.size),
         summary    |-> Summary(read.summarised, filters)]

-----------------------------------------------------------------------------
(* The menus of the filters: the values that some item has.  The nodes come as a tree.  Each menu *)
(* is read by a statement of its own, from the table that read has under its name.                *)

WithItems(items) == {[sheet |-> i.sheet, section |-> i.section, subsection |-> i.subsection] : i \in items}

\* The nodes of one level in the order of the structure, each once.
Siblings(nodes) == InOrder(nodes, LAMBDA a, b : Before(Place(a), Place(b)))

SheetOptions(items) ==
    LET paths == WithItems(items)
        SubsectionsOf(section) ==
            Siblings({p.subsection : p \in {q \in paths : q.section = section}})
        SectionsOf(sheet) ==
            LET sections == Siblings({p.section : p \in {q \in paths : q.sheet = sheet}})
            IN  [i \in DOMAIN sections |->
                    [id |-> sections[i].id,
                     subsections |-> LET s == SubsectionsOf(sections[i]) IN [j \in DOMAIN s |-> s[j].id]]]
        sheets == Siblings({p.sheet : p \in paths})
    IN  [i \in DOMAIN sheets |-> [id |-> sheets[i].id, sections |-> SectionsOf(sheets[i])]]

Ascending(values) == InOrder(values, <)

OrderedFrequencies(values) == InOrder(values, LAMBDA a, b : FrequencyRank(a) < FrequencyRank(b))

FilterOptions(read) ==
    [sheets       |-> SheetOptions(read.sheets),
     grades       |-> Ascending({i.grade : i \in read.grades} \ {NoValue}),
     frequencies  |-> OrderedFrequencies({i.frequency : i \in read.frequencies} \ {NoValue}),
     sections     |-> Ascending({i.section.name : i \in read.sections}),
     subsections  |-> Ascending({i.subsection.name : i \in read.subsections}),
     statuses     |-> {i.status : i \in read.statuses}]
=============================================================================
