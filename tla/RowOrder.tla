------------------------------ MODULE RowOrder ------------------------------
(* ORDER BY, OFFSET and LIMIT as the database answers them, for the modules *)
(* that read lists.  A row's key is the sequence of the columns ordered by. *)
EXTENDS Integers, Sequences, FiniteSets

CONSTANT NoValue    \* a column that is NULL, a filter that is not given

\* Keys are compared from the first column on.
Before(key, other) ==
    \E i \in DOMAIN key : key[i] < other[i] /\ \A j \in 1..(i - 1) : key[j] = other[j]

\* A NULL comes last whichever the direction; descending columns are negated.
Null == 1000
NullsLast(value)     == IF value = NoValue THEN Null ELSE value
DescNullsLast(value) == IF value = NoValue THEN Null ELSE -value

\* The members of a set in an order in which none are equal (PostgreSQL's sort).
InOrder(set, Less(_, _)) ==
    [n \in 1..Cardinality(set) |-> CHOOSE x \in set : Cardinality({y \in set : Less(y, x)}) = n - 1]

\* The rows of a page, of `size` rows but for the last page.
PageOf(rows, page, size) ==
    LET first == (page - 1) * size
        upto  == IF first + size < Len(rows) THEN first + size ELSE Len(rows)
    IN  SubSeq(rows, first + 1, upto)

TotalPages(count, size) == (count + size - 1) \div size
=============================================================================
