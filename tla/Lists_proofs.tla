---------------------------- MODULE Lists_proofs ----------------------------
(***************************************************************************)
(* The lists that are read in pages, for tables of any size: the questions *)
(* of the administrator, the searches by name, and the log of the agents.  *)
(***************************************************************************)
EXTENDS MatrixWorkspace, NameSearch, AgentAudit, Numbers_proofs, FiniteSetTheorems,
        SequenceTheorems

CONSTANT Rank(_, _)    \* of an article for a query

Posts == INSTANCE ArticleReading

-----------------------------------------------------------------------------
(* Keys are compared from the first column on.                              *)

\* A key is never before itself, nor are two keys before each other.
LEMMA BeforeAsymmetric ==
    ASSUME NEW n \in Nat, NEW a \in [1..n -> Int], NEW b \in [1..n -> Int], Before(a, b)
    PROVE  ~Before(b, a)
<1>1. PICK i \in 1..n : a[i] < b[i] /\ \A j \in 1..(i - 1) : a[j] = b[j]
  BY DEF Before
<1>2. ASSUME NEW k \in 1..n, b[k] < a[k], \A j \in 1..(k - 1) : b[j] = a[j]
      PROVE  FALSE
  <2>1. CASE k < i
    BY <1>1, <1>2, <2>1
  <2>2. CASE k = i
    BY <1>1, <1>2, <2>2
  <2>3. CASE i < k
    BY <1>1, <1>2, <2>3
  <2> QED BY <2>1, <2>2, <2>3
<1> QED BY <1>2 DEF Before

LEMMA BeforeTransitive ==
    ASSUME NEW n \in Nat, NEW a \in [1..n -> Int], NEW b \in [1..n -> Int],
           NEW c \in [1..n -> Int], Before(a, b), Before(b, c)
    PROVE  Before(a, c)
<1>1. PICK i \in 1..n : a[i] < b[i] /\ \A j \in 1..(i - 1) : a[j] = b[j]
  BY DEF Before
<1>2. PICK k \in 1..n : b[k] < c[k] /\ \A j \in 1..(k - 1) : b[j] = c[j]
  BY DEF Before
<1>3. CASE i <= k
  <2>1. a[i] < c[i]
    BY <1>1, <1>2, <1>3
  <2>2. \A j \in 1..(i - 1) : a[j] = c[j]
    BY <1>1, <1>2, <1>3
  <2> QED BY <2>1, <2>2 DEF Before
<1>4. CASE k < i
  <2>1. a[k] < c[k]
    BY <1>1, <1>2, <1>4
  <2>2. \A j \in 1..(k - 1) : a[j] = c[j]
    BY <1>1, <1>2, <1>4
  <2> QED BY <2>1, <2>2 DEF Before
<1> QED BY <1>3, <1>4

\* Of two keys one comes first.
LEMMA BeforeTotal ==
    ASSUME NEW n \in Nat, NEW a \in [1..n -> Int], NEW b \in [1..n -> Int], a # b
    PROVE  Before(a, b) \/ Before(b, a)
<1> DEFINE D == {i \in 1..n : a[i] # b[i]}
<1>1. D \in SUBSET Nat /\ D # {}
  OBVIOUS
<1>2. PICK i \in D : \A j \in D : i <= j
  BY <1>1, LeastNumber
<1>3. \A j \in 1..(i - 1) : a[j] = b[j]
  BY <1>2
<1>4. a[i] < b[i] \/ b[i] < a[i]
  BY <1>2
<1> QED BY <1>2, <1>3, <1>4 DEF Before

-----------------------------------------------------------------------------
(* A finite set in a strict order.                                          *)

StrictOrder(S, R) ==
    /\ \A x, y \in S : <<x, y>> \in R => <<y, x>> \notin R
    /\ \A x, y, z \in S : <<x, y>> \in R /\ <<y, z>> \in R => <<x, z>> \in R
    /\ \A x, y \in S : x # y => <<x, y>> \in R \/ <<y, x>> \in R

\* How many come before.
RankIn(S, R, x) == Cardinality({y \in S : <<y, x>> \in R})

\* Ranks are told apart by the order and go from none to all but one.
LEMMA Ranks ==
    ASSUME NEW S, IsFiniteSet(S), NEW R, StrictOrder(S, R)
    PROVE  /\ \A x \in S : RankIn(S, R, x) \in 0..(Cardinality(S) - 1)
           /\ \A x, y \in S : <<x, y>> \in R <=> RankIn(S, R, x) < RankIn(S, R, y)
           /\ \A m \in 0..(Cardinality(S) - 1) : \E x \in S : RankIn(S, R, x) = m
<1> DEFINE Lesser(x) == {y \in S : <<y, x>> \in R}
           rank == [x \in S |-> RankIn(S, R, x)]
           top == Cardinality(S) - 1
<1>1. ASSUME NEW x \in S
      PROVE  /\ IsFiniteSet(Lesser(x)) /\ RankIn(S, R, x) = Cardinality(Lesser(x))
             /\ RankIn(S, R, x) \in 0..top /\ RankIn(S, R, x) \in Nat
  <2>1. Lesser(x) \in SUBSET S /\ x \notin Lesser(x)
    BY DEF StrictOrder
  <2>2. /\ IsFiniteSet(Lesser(x)) /\ Cardinality(Lesser(x)) <= Cardinality(S)
        /\ Cardinality(S) = Cardinality(Lesser(x)) => S = Lesser(x)
    BY <2>1, FS_Subset
  <2>3. Cardinality(Lesser(x)) \in Nat /\ Cardinality(S) \in Nat
    BY <2>2, FS_CardinalityType
  <2> QED BY <2>1, <2>2, <2>3 DEF RankIn
<1>2. ASSUME NEW x \in S, NEW y \in S, <<x, y>> \in R
      PROVE  RankIn(S, R, x) < RankIn(S, R, y)
  <2>1. Lesser(x) \in SUBSET Lesser(y) /\ x \in Lesser(y) /\ x \notin Lesser(x)
    BY <1>2 DEF StrictOrder
  <2>2. /\ Cardinality(Lesser(x)) <= Cardinality(Lesser(y))
        /\ Cardinality(Lesser(y)) = Cardinality(Lesser(x)) => Lesser(y) = Lesser(x)
    BY <1>1, <2>1, FS_Subset
  <2> HIDE DEF Lesser
  <2> QED BY <1>1, <2>1, <2>2
<1>3. \A x, y \in S : <<x, y>> \in R <=> RankIn(S, R, x) < RankIn(S, R, y)
  <2> SUFFICES ASSUME NEW x \in S, NEW y \in S
               PROVE  <<x, y>> \in R <=> RankIn(S, R, x) < RankIn(S, R, y)
    OBVIOUS
  <2> HIDE DEF Lesser, top
  <2>1. RankIn(S, R, x) \in Int /\ RankIn(S, R, y) \in Int
    BY <1>1
  <2>2. <<y, x>> \in R \/ x = y => ~(RankIn(S, R, x) < RankIn(S, R, y))
    BY <1>2, <2>1
  <2> QED BY <1>2, <2>2 DEF StrictOrder
<1>4. rank \in Injection(S, 0..top)
  <2>1. rank \in [S -> 0..top] /\ \A x \in S : rank[x] = RankIn(S, R, x)
    BY <1>1
  <2> HIDE DEF rank, top
  <2>2. ASSUME NEW x \in S, NEW y \in S, rank[x] = rank[y] PROVE x = y
    <3>1. RankIn(S, R, x) \in Int /\ RankIn(S, R, x) = RankIn(S, R, y)
      BY <1>1, <2>1, <2>2 DEF top
    <3>2. <<x, y>> \notin R /\ <<y, x>> \notin R
      BY <1>3, <3>1
    <3> QED BY <3>2 DEF StrictOrder
  <2> QED BY <2>1, <2>2 DEF Injection, IsInjective
<1>5. IsFiniteSet(0..top) /\ Cardinality(0..top) = Cardinality(S)
  <2>1. Cardinality(S) \in Nat
    BY FS_CardinalityType
  <2> QED BY <2>1, FS_Interval
<1>6. rank \in Surjection(S, 0..top)
  BY <1>4, <1>5, FS_Injection
<1>7. \A m \in 0..top : \E x \in S : RankIn(S, R, x) = m
  BY <1>6 DEF Surjection
<1> QED BY <1>1, <1>3, <1>7

\* The members of a set in order, each once.
Sorts(seq, S, R) ==
    /\ seq \in [1..Cardinality(S) -> S] /\ Cardinality(S) \in Nat
    /\ \A x \in S : \E n \in 1..Cardinality(S) : seq[n] = x
    /\ \A m, n \in 1..Cardinality(S) : m < n <=> <<seq[m], seq[n]>> \in R

LEMMA SortedByRank ==
    ASSUME NEW S, IsFiniteSet(S), NEW R, StrictOrder(S, R), NEW seq,
           DOMAIN seq = 1..Cardinality(S), seq = [n \in DOMAIN seq |-> seq[n]],
           \A n \in 1..Cardinality(S) : seq[n] \in S /\ RankIn(S, R, seq[n]) = n - 1
    PROVE  Sorts(seq, S, R)
<1>1. Cardinality(S) \in Nat
  BY FS_CardinalityType
<1>2. seq \in [1..Cardinality(S) -> S]
  OBVIOUS
<1>3. \A m, n \in 1..Cardinality(S) : m < n <=> <<seq[m], seq[n]>> \in R
  BY <1>1, Ranks
<1>4. ASSUME NEW x \in S PROVE \E n \in 1..Cardinality(S) : seq[n] = x
  <2>1. PICK n \in 1..Cardinality(S) : n = RankIn(S, R, x) + 1
    BY <1>1, Ranks
  <2>2. RankIn(S, R, seq[n]) = RankIn(S, R, x) /\ RankIn(S, R, x) \in Int
    BY <2>1, Ranks
  <2>3. <<seq[n], x>> \notin R /\ <<x, seq[n]>> \notin R
    BY <2>2, Ranks
  <2> QED BY <2>3 DEF StrictOrder
<1> QED BY <1>1, <1>2, <1>3, <1>4 DEF Sorts

-----------------------------------------------------------------------------
(* Pages of a list.                                                         *)

\* A page has the rows from the first one after those of the pages before it, and is full
\* unless the list ends in it.
IsPage(shown, S, rows, first, size) ==
    /\ shown \in Seq(S)
    /\ Len(shown) = IF first + size <= Len(rows) THEN size
                    ELSE IF first <= Len(rows) THEN Len(rows) - first ELSE 0
    /\ \A i \in 1..Len(shown) : first + i \in 1..Len(rows) /\ shown[i] = rows[first + i]

LEMMA PageHasItsRows ==
    ASSUME NEW S, NEW rows \in Seq(S), NEW page \in Int, NEW size \in Nat, NEW first \in Nat,
           first = (page - 1) * size
    PROVE  IsPage(PageOf(rows, page, size), S, rows, first, size)
<1> DEFINE upto == IF first + size < Len(rows) THEN first + size ELSE Len(rows)
<1>1. Len(rows) \in Nat /\ upto \in Int /\ \A i \in 1..Len(rows) : rows[i] \in S
  BY LenProperties, ElementOfSeq
<1>2. PageOf(rows, page, size) = SubSeq(rows, first + 1, upto)
  BY DEF PageOf
<1>3. \A i \in (first + 1)..upto : rows[i] \in S
  BY <1>1
<1> HIDE DEF upto
<1>4. /\ SubSeq(rows, first + 1, upto) \in Seq(S)
      /\ Len(SubSeq(rows, first + 1, upto)) =
            IF first + 1 <= upto THEN upto - (first + 1) + 1 ELSE 0
      /\ \A i \in 1..(upto - (first + 1) + 1) : SubSeq(rows, first + 1, upto)[i] = rows[first + 1 + i - 1]
  <2>1. first + 1 \in Int
    OBVIOUS
  <2> QED BY <1>1, <1>3, <2>1, SubSeqProperties
<1>5. ASSUME NEW i \in 1..Len(PageOf(rows, page, size))
      PROVE  /\ first + i \in 1..Len(rows)
             /\ PageOf(rows, page, size)[i] = rows[first + i]
  <2>1. i \in 1..(upto - (first + 1) + 1) /\ first + 1 + i - 1 = first + i
    BY <1>1, <1>2, <1>4, <1>5
  <2>2. first + i \in 1..Len(rows)
    BY <1>1, <2>1 DEF upto
  <2> QED BY <1>2, <1>4, <2>1, <2>2
<1>6. Len(PageOf(rows, page, size)) = IF first + size <= Len(rows) THEN size
                                      ELSE IF first <= Len(rows) THEN Len(rows) - first ELSE 0
  <2>1. first \in Int /\ size \in Int /\ size >= 0 /\ Len(rows) \in Int
    BY <1>1
  <2>2. upto = IF first + size < Len(rows) THEN first + size ELSE Len(rows)
    BY DEF upto
  <2>3. Len(PageOf(rows, page, size)) = IF first + 1 <= upto THEN upto - (first + 1) + 1 ELSE 0
    BY <1>2, <1>4
  <2>4. CASE first + size <= Len(rows)
    BY <2>1, <2>2, <2>3, <2>4
  <2>5. CASE ~(first + size <= Len(rows))
    <3>1. upto = Len(rows)
      BY <2>1, <2>2, <2>5
    <3>2. CASE first < Len(rows)
      BY <2>1, <2>3, <2>5, <3>1, <3>2
    <3>3. CASE Len(rows) <= first
      BY <2>1, <2>3, <2>5, <3>1, <3>3
    <3> QED BY <2>1, <3>2, <3>3
  <2> QED BY <2>4, <2>5
<1> QED BY <1>2, <1>4, <1>5, <1>6 DEF IsPage

-----------------------------------------------------------------------------
(* The log of the agents.                                                   *)

LEMMA CursorsInOrder ==
    ASSUME NEW a \in Int, NEW b \in Int, NEW c \in Int, NEW d \in Int
    PROVE  Before(<<a, b>>, <<c, d>>) <=> a < c \/ (a = c /\ b < d)
<1>1. Before(<<a, b>>, <<c, d>>) <=>
        \E i \in 1..2 : <<a, b>>[i] < <<c, d>>[i] /\ \A j \in 1..(i - 1) : <<a, b>>[j] = <<c, d>>[j]
  BY DEF Before
<1> QED BY <1>1

\* Events have numbers for their ids and moments, and no two have the same id: it is the key.
EventTable(table) ==
    /\ IsFiniteSet(table)
    /\ \A e \in table : e.id \in Int /\ e.created \in Int
    /\ \A d, e \in table : d.id = e.id => d = e

Newer(events) == {p \in events \X events : Before(Cursor(p[2]), Cursor(p[1]))}

LEMMA EventsInOrder ==
    ASSUME NEW events, EventTable(events)
    PROVE  /\ StrictOrder(events, Newer(events))
           /\ Sorts(InOrder(events, LAMBDA a, b : Before(Cursor(b), Cursor(a))), events, Newer(events))
<1> DEFINE R == Newer(events)
           N == Cardinality(events)
           seq == InOrder(events, LAMBDA a, b : Before(Cursor(b), Cursor(a)))
<1>1. \A a, b \in events :
         <<a, b>> \in R <=> b.created < a.created \/ (b.created = a.created /\ b.id < a.id)
  <2> SUFFICES ASSUME NEW a \in events, NEW b \in events
               PROVE  <<a, b>> \in R <=> b.created < a.created \/ (b.created = a.created /\ b.id < a.id)
    OBVIOUS
  <2>1. <<a, b>> \in R <=> Before(<<b.created, b.id>>, <<a.created, a.id>>)
    BY DEF Newer, Cursor
  <2> QED BY <2>1, CursorsInOrder DEF EventTable
<1>2. StrictOrder(events, R)
  BY <1>1 DEF StrictOrder, EventTable
<1>3. \A x \in events : RankIn(events, R, x) = Cardinality({y \in events : Before(Cursor(x), Cursor(y))})
  <2> SUFFICES ASSUME NEW x \in events
               PROVE  {y \in events : <<y, x>> \in R} = {y \in events : Before(Cursor(x), Cursor(y))}
    BY DEF RankIn
  <2> QED BY DEF Newer
<1>4. /\ DOMAIN seq = 1..N /\ seq = [n \in DOMAIN seq |-> seq[n]]
      /\ \A n \in 1..N : seq[n] =
            CHOOSE x \in events : Cardinality({y \in events : Before(Cursor(x), Cursor(y))}) = n - 1
  BY DEF InOrder
<1> HIDE DEF R, seq
<1>5. ASSUME NEW n \in 1..N PROVE seq[n] \in events /\ RankIn(events, R, seq[n]) = n - 1
  <2>1. N \in Nat /\ n - 1 \in 0..(N - 1)
    BY FS_CardinalityType DEF EventTable
  <2>2. \E x \in events : RankIn(events, R, x) = n - 1
    BY <1>2, <2>1, Ranks DEF EventTable
  <2>3. \E x \in events : Cardinality({y \in events : Before(Cursor(x), Cursor(y))}) = n - 1
    BY <1>3, <2>2
  <2>4. seq[n] \in events /\ Cardinality({y \in events : Before(Cursor(seq[n]), Cursor(y))}) = n - 1
    BY <1>4, <2>3
  <2> QED BY <1>3, <2>4
<1>6. Sorts(seq, events, R)
  BY <1>2, <1>4, <1>5, SortedByRank DEF EventTable
<1> QED BY <1>2, <1>6 DEF R, seq

\* What the log is read with: the constants, and the cursors a reader may have.
AuditConstants == Retention \in Nat /\ NoValue \notin Int \X Int
AuditCursor == {NoValue} \cup (Int \X Int)

\* The events a reader who is at the cursor has not seen.
Due(table, client, cursor, now) ==
    {e \in table : /\ e.client = client
                   /\ e.created >= RetainedFrom(now)
                   /\ cursor # NoValue => Before(Cursor(e), cursor)}

\* A page is the newest of what is due, and its cursor tells the rest.
ShowsNewest(page, due, size) ==
    /\ page.events \in Seq(due)
    /\ \A i, j \in 1..Len(page.events) :
          i < j => Before(Cursor(page.events[j]), Cursor(page.events[i]))
    /\ page.next = NoValue => \A e \in due : \E i \in 1..Len(page.events) : page.events[i] = e
    /\ page.next # NoValue =>
          /\ Len(page.events) = size /\ page.next = Cursor(page.events[size])
          /\ page.events[size] \in due /\ Cardinality(due) > size
          /\ \A e \in due : \/ \E i \in 1..size : page.events[i] = e
                           \/ Before(Cursor(e), page.next)

LEMMA PageShowsTheNewest ==
    ASSUME AuditConstants, NEW table, EventTable(table), NEW client, NEW cursor \in AuditCursor,
           NEW size \in Nat \ {0}, NEW now \in Int
    PROVE  ShowsNewest(AuditEventPage(table, client, cursor, size, now), Due(table, client, cursor, now), size)
<1> DEFINE due == Due(table, client, cursor, now)
           N == Cardinality(due)
           sorted == InOrder(due, LAMBDA a, b : Before(Cursor(b), Cursor(a)))
           rows == PageOf(sorted, 1, size + 1)
           shown == PageOf(rows, 1, size)
           page == AuditEventPage(table, client, cursor, size, now)
<1>1. due \in SUBSET table /\ EventTable(due)
  BY FS_Subset DEF Due, EventTable
<1>2. StrictOrder(due, Newer(due)) /\ Sorts(sorted, due, Newer(due))
  BY <1>1, EventsInOrder
<1>3. rows = ListAuditEvents(table, client, cursor, RetainedFrom(now), size + 1)
  BY DEF ListAuditEvents, Due
<1>4. page = IF cursor # NoValue /\ cursor[1] < RetainedFrom(now)
             THEN [events |-> <<>>, next |-> NoValue]
             ELSE [events |-> shown, next |-> IF Len(rows) > size THEN Cursor(shown[Len(shown)]) ELSE NoValue]
  BY <1>3 DEF AuditEventPage
<1> HIDE DEF due, sorted, rows, shown, page
<1>5. /\ N \in Nat /\ sorted \in [1..N -> due] /\ sorted \in Seq(due) /\ Len(sorted) = N
      /\ \A e \in due : \E i \in 1..N : sorted[i] = e
      /\ \A i, j \in 1..N : i < j => Before(Cursor(sorted[j]), Cursor(sorted[i]))
  <2>1. N \in Nat /\ sorted \in [1..N -> due] /\ \A e \in due : \E i \in 1..N : sorted[i] = e
    BY <1>2 DEF Sorts
  <2>2. ASSUME NEW i \in 1..N, NEW j \in 1..N, i < j
        PROVE  Before(Cursor(sorted[j]), Cursor(sorted[i]))
    <3>1. <<sorted[i], sorted[j]>> \in Newer(due)
      BY <1>2, <2>2 DEF Sorts
    <3> QED BY <3>1 DEF Newer
  <2>3. sorted \in Seq(due) /\ Len(sorted) = N
    BY <2>1, SeqDef, LenProperties
  <2> QED BY <2>1, <2>2, <2>3
<1>6. /\ rows \in Seq(due) /\ Len(rows) = IF size + 1 <= N THEN size + 1 ELSE N
      /\ \A i \in 1..Len(rows) : i \in 1..N /\ rows[i] = sorted[i]
  <2>1. 0 = (1 - 1) * (size + 1)
    OBVIOUS
  <2>2. /\ rows \in Seq(due)
        /\ Len(rows) = IF 0 + (size + 1) <= N THEN size + 1 ELSE IF 0 <= N THEN N - 0 ELSE 0
        /\ \A i \in 1..Len(rows) : 0 + i \in 1..N /\ rows[i] = sorted[0 + i]
    <3>1. 0 \in Nat /\ 1 \in Int /\ size + 1 \in Nat
      OBVIOUS
    <3>2. IsPage(rows, due, sorted, 0, size + 1)
      BY <1>5, <2>1, <3>1, PageHasItsRows DEF rows
    <3> QED BY <1>5, <3>2 DEF IsPage
  <2> QED BY <1>5, <2>2
<1>7. /\ shown \in Seq(due) /\ Len(shown) = IF size <= N THEN size ELSE N
      /\ \A i \in 1..Len(shown) : i \in 1..N /\ shown[i] = sorted[i]
  <2>1. 0 = (1 - 1) * size
    OBVIOUS
  <2>2. /\ shown \in Seq(due)
        /\ Len(shown) = IF 0 + size <= Len(rows) THEN size ELSE IF 0 <= Len(rows) THEN Len(rows) - 0 ELSE 0
        /\ \A i \in 1..Len(shown) : 0 + i \in 1..Len(rows) /\ shown[i] = rows[0 + i]
    <3>1. 0 \in Nat /\ 1 \in Int /\ size \in Nat
      OBVIOUS
    <3>2. IsPage(shown, due, rows, 0, size)
      BY <1>6, <2>1, <3>1, PageHasItsRows DEF shown
    <3> QED BY <3>2 DEF IsPage
  <2>3. Len(shown) = IF size <= N THEN size ELSE N
    BY <1>5, <1>6, <2>2
  <2>4. ASSUME NEW i \in 1..Len(shown) PROVE i \in 1..N /\ shown[i] = sorted[i]
    <3>1. i \in 1..Len(rows) /\ shown[i] = rows[i]
      BY <1>5, <2>2, <2>3, <2>4
    <3> QED BY <1>6, <3>1
  <2> QED BY <2>2, <2>3, <2>4
<1> SUFFICES ShowsNewest(page, due, size)
  BY DEF due, page
<1>8. CASE cursor # NoValue /\ cursor[1] < RetainedFrom(now)
  <2>1. page.events = <<>> /\ page.next = NoValue
    BY <1>4, <1>8
  <2>2. ASSUME NEW e \in due PROVE FALSE
    <3>1. e.created \in Int /\ e.id \in Int
      BY <1>1 DEF EventTable
    <3>2. e.created >= RetainedFrom(now) /\ Before(Cursor(e), cursor)
      BY <1>8 DEF due, Due
    <3>3. cursor = <<cursor[1], cursor[2]>> /\ cursor[1] \in Int /\ cursor[2] \in Int
      BY <1>8 DEF AuditCursor
    <3>4. e.created <= cursor[1]
      BY <3>1, <3>2, <3>3, CursorsInOrder DEF Cursor
    <3> QED BY <1>8, <3>1, <3>2, <3>3, <3>4 DEF RetainedFrom, AuditConstants
  <2>3. <<>> \in Seq(due) /\ Len(<<>>) = 0
    BY EmptySeq
  <2> QED BY <2>1, <2>2, <2>3 DEF ShowsNewest
<1>9. CASE ~(cursor # NoValue /\ cursor[1] < RetainedFrom(now))
  <2>1. /\ page.events = shown
        /\ page.next = IF Len(rows) > size THEN Cursor(shown[Len(shown)]) ELSE NoValue
    BY <1>4, <1>9
  <2>2. \A i, j \in 1..Len(shown) : i < j => Before(Cursor(shown[j]), Cursor(shown[i]))
    BY <1>5, <1>7
  <2>3. CASE N <= size
    <3>1. page.next = NoValue /\ Len(shown) = N
      BY <1>5, <1>6, <1>7, <2>1, <2>3
    <3>2. \A e \in due : \E i \in 1..Len(shown) : shown[i] = e
      BY <1>5, <1>7, <3>1
    <3> QED BY <1>7, <2>1, <2>2, <3>1, <3>2 DEF ShowsNewest
  <2>4. CASE size < N
    <3>1. page.next = Cursor(shown[size]) /\ Len(shown) = size
      BY <1>5, <1>6, <1>7, <2>1, <2>4
    <3>2. page.next # NoValue /\ shown[size] \in due
      <4>1. shown[size] \in due
        BY <1>7, <3>1, ElementOfSeq
      <4>2. Cursor(shown[size]) \in Int \X Int
        BY <1>1, <4>1 DEF EventTable, Cursor
      <4> QED BY <3>1, <4>1, <4>2 DEF AuditConstants
    <3>3. ASSUME NEW e \in due
          PROVE  (\E i \in 1..size : shown[i] = e) \/ Before(Cursor(e), page.next)
      <4>1. PICK i \in 1..N : sorted[i] = e
        BY <1>5
      <4>2. CASE i <= size
        BY <1>5, <1>7, <3>1, <4>1, <4>2
      <4>3. CASE size < i
        <5>1. size \in 1..N /\ shown[size] = sorted[size]
          BY <1>5, <1>7, <2>4, <3>1
        <5> QED BY <1>5, <3>1, <4>1, <4>3, <5>1
      <4> QED BY <1>5, <4>2, <4>3
    <3> QED BY <1>7, <2>1, <2>2, <2>4, <3>1, <3>2, <3>3 DEF ShowsNewest
  <2> QED BY <1>5, <2>3, <2>4
<1> QED BY <1>8, <1>9

\* A reader who follows the cursors through n pages, while the table and the clock change.
CursorAt(pages, k) == IF k = 1 THEN NoValue ELSE pages[k - 1].next
Reading(pages, tables, times, client, size, n) ==
    /\ \A k \in 1..n : EventTable(tables[k]) /\ times[k] \in Int
    /\ \A k, l \in 1..n : k <= l => times[k] <= times[l]
    /\ \A k \in 1..n : pages[k] = AuditEventPage(tables[k], client, CursorAt(pages, k), size, times[k])
    /\ \A k \in 1..n : k < n => pages[k].next # NoValue

LEMMA ReadingByPages ==
    ASSUME AuditConstants, NEW pages, NEW tables, NEW times, NEW client, NEW size \in Nat \ {0},
           NEW n \in Nat, Reading(pages, tables, times, client, size, n)
    PROVE  \A k \in 1..n :
               ShowsNewest(pages[k], Due(tables[k], client, CursorAt(pages, k), times[k]), size)
<1> DEFINE due(k) == Due(tables[k], client, CursorAt(pages, k), times[k])
           Untyped == {k \in 1..n : CursorAt(pages, k) \notin AuditCursor}
<1>1. ASSUME NEW k \in 1..n, CursorAt(pages, k) \in AuditCursor
      PROVE  ShowsNewest(pages[k], due(k), size)
  BY <1>1, PageShowsTheNewest DEF Reading
<1>2. Untyped = {}
  <2> SUFFICES ASSUME Untyped # {} PROVE FALSE
    OBVIOUS
  <2>1. PICK k \in Untyped : \A j \in Untyped : k <= j
    <3>1. Untyped \in SUBSET Nat
      OBVIOUS
    <3> HIDE DEF Untyped
    <3> QED BY <3>1, LeastNumber
  <2>2. k \in 1..n /\ k # 1 /\ pages[k - 1].next \notin AuditCursor
    BY DEF CursorAt, AuditCursor
  <2>3. k - 1 \in 1..n /\ CursorAt(pages, k - 1) \in AuditCursor
    BY <2>1, <2>2
  <2>4. pages[k - 1].next = NoValue
           \/ \E e \in tables[k - 1] : pages[k - 1].next = Cursor(e)
    BY <1>1, <2>3 DEF Due, ShowsNewest
  <2>5. \A e \in tables[k - 1] : Cursor(e) \in Int \X Int
    BY <2>3 DEF Reading, EventTable, Cursor
  <2> QED BY <2>2, <2>4, <2>5 DEF AuditCursor
<1>3. \A k \in 1..n : CursorAt(pages, k) \in AuditCursor
  BY <1>2
<1> HIDE DEF Untyped
<1> QED BY <1>1, <1>3

LEMMA CursorsTransitive ==
    ASSUME NEW a \in Int \X Int, NEW b \in Int \X Int, NEW c \in Int \X Int, Before(a, b), Before(b, c)
    PROVE  Before(a, c)
<1>1. /\ a = <<a[1], a[2]>> /\ b = <<b[1], b[2]>> /\ c = <<c[1], c[2]>>
      /\ a[1] \in Int /\ a[2] \in Int /\ b[1] \in Int /\ b[2] \in Int /\ c[1] \in Int /\ c[2] \in Int
  OBVIOUS
<1>2. a[1] < b[1] \/ (a[1] = b[1] /\ a[2] < b[2])
  BY <1>1, CursorsInOrder
<1>3. b[1] < c[1] \/ (b[1] = c[1] /\ b[2] < c[2])
  BY <1>1, CursorsInOrder
<1>4. a[1] < c[1] \/ (a[1] = c[1] /\ a[2] < c[2])
  BY <1>1, <1>2, <1>3
<1> QED BY <1>1, <1>4, CursorsInOrder

\* What a page shows is older than the cursor that any page before it gave.
LEMMA LaterPagesAreOlder ==
    ASSUME AuditConstants, NEW pages, NEW tables, NEW times, NEW client, NEW size \in Nat \ {0},
           NEW n \in Nat, Reading(pages, tables, times, client, size, n),
           NEW l \in 1..n, NEW e \in Due(tables[l], client, CursorAt(pages, l), times[l])
    PROVE  \A k \in 1..(l - 1) : Before(Cursor(e), pages[k].next)
<1> DEFINE due(k) == Due(tables[k], client, CursorAt(pages, k), times[k])
           Bad == {k \in 1..(l - 1) : ~Before(Cursor(e), pages[k].next)}
<1> SUFFICES ASSUME Bad # {} PROVE FALSE
  OBVIOUS
<1>1. PICK k \in Bad : \A j \in Bad : k >= j
  <2>1. Bad \in SUBSET (0..l) /\ l \in Nat
    OBVIOUS
  <2> HIDE DEF Bad
  <2> QED BY <2>1, GreatestNumber
<1>2. k \in 1..(l - 1) /\ k + 1 \in 1..n /\ pages[k].next # NoValue /\ ~Before(Cursor(e), pages[k].next)
  BY DEF Reading
<1>3. CursorAt(pages, k + 1) = pages[k].next
  BY <1>2 DEF CursorAt
<1>4. CASE k + 1 = l
  BY <1>2, <1>3, <1>4 DEF Due
<1>5. CASE k + 1 # l
  <2>1. k + 1 \in 1..(l - 1) /\ k + 1 < n /\ k \in 1..n
    BY <1>2, <1>5
  <2>2. Before(Cursor(e), pages[k + 1].next)
    BY <1>1, <2>1
  <2>3. pages[k + 1].next # NoValue
    BY <2>1 DEF Reading
  <2>4. PICK f \in due(k + 1) : pages[k + 1].next = Cursor(f)
    <3>1. ShowsNewest(pages[k + 1], due(k + 1), size)
      BY <1>2, ReadingByPages
    <3> QED BY <2>3, <3>1 DEF ShowsNewest
  <2>5. PICK g \in due(k) : pages[k].next = Cursor(g)
    <3>1. ShowsNewest(pages[k], due(k), size)
      BY <2>1, ReadingByPages
    <3> QED BY <1>2, <3>1 DEF ShowsNewest
  <2>6. Before(Cursor(f), pages[k].next)
    BY <1>2, <1>3, <2>4 DEF Due
  <2>7. Cursor(e) \in Int \X Int /\ Cursor(f) \in Int \X Int /\ Cursor(g) \in Int \X Int
    BY <1>2, <2>1, <2>4, <2>5 DEF Due, Reading, EventTable, Cursor
  <2>8. Before(Cursor(e), Cursor(g))
    BY <2>2, <2>4, <2>5, <2>6, <2>7, CursorsTransitive
  <2> QED BY <1>2, <2>5, <2>8
<1> QED BY <1>4, <1>5

\* The owner follows the cursors through any number of pages, while agents work and the cleanup
\* runs between them: every table may be any other, and only the clock does not go back.  The
\* events come newest first over all the pages, so none is shown twice; none is of another client;
\* a next cursor is given only when there is more than the page; and when there is none, whatever
\* was in the table all along and is not past the retention has been shown.
THEOREM PagesMissNothing ==
    ASSUME AuditConstants, NEW pages, NEW tables, NEW times, NEW client, NEW size \in Nat \ {0},
           NEW n \in Nat, Reading(pages, tables, times, client, size, n)
    PROVE  /\ \A k, l \in 1..n : \A i \in 1..Len(pages[k].events), j \in 1..Len(pages[l].events) :
                 k < l \/ (k = l /\ i < j) => Before(Cursor(pages[l].events[j]), Cursor(pages[k].events[i]))
           /\ \A k \in 1..n : \A i \in 1..Len(pages[k].events) :
                 pages[k].events[i] \in tables[k] /\ pages[k].events[i].client = client
           /\ \A k \in 1..n : pages[k].next # NoValue =>
                 Cardinality({e \in PruneAuditEvents(tables[k], times[k]) : e.client = client}) > size
           /\ n > 0 /\ pages[n].next = NoValue =>
                 \A e : /\ \A k \in 1..n : e \in tables[k]
                       /\ e \in PruneAuditEvents(tables[n], times[n]) /\ e.client = client
                       => \E k \in 1..n : \E i \in 1..Len(pages[k].events) : pages[k].events[i] = e
<1> DEFINE due(k) == Due(tables[k], client, CursorAt(pages, k), times[k])
           shown(k) == 1..Len(pages[k].events)
<1>0. \A k \in 1..n : ShowsNewest(pages[k], due(k), size)
  BY ReadingByPages
<1>1. \A k \in 1..n : \A i \in shown(k) :
         pages[k].events[i] \in due(k) /\ pages[k].events[i] \in tables[k] /\ pages[k].events[i].client = client
  <2> SUFFICES ASSUME NEW k \in 1..n, NEW i \in shown(k)
               PROVE  pages[k].events[i] \in due(k)
    BY DEF Due
  <2>1. pages[k].events \in Seq(due(k))
    BY <1>0 DEF ShowsNewest
  <2> QED BY <2>1, ElementOfSeq
<1>2. ASSUME NEW k \in 1..n, NEW l \in 1..n, NEW i \in shown(k), NEW j \in shown(l),
             k < l \/ (k = l /\ i < j)
      PROVE  Before(Cursor(pages[l].events[j]), Cursor(pages[k].events[i]))
  <2>1. CASE k = l
    BY <1>0, <1>2, <2>1 DEF ShowsNewest
  <2>2. CASE k < l
    <3>1. pages[k].next # NoValue /\ k \in 1..(l - 1)
      BY <2>2 DEF Reading
    <3>2. Before(Cursor(pages[l].events[j]), pages[k].next)
      BY <1>1, <3>1, LaterPagesAreOlder
    <3>3. /\ Len(pages[k].events) = size /\ pages[k].next = Cursor(pages[k].events[size])
          /\ pages[k].events[size] \in due(k)
      BY <1>0, <3>1 DEF ShowsNewest
    <3>4. CASE i = size
      BY <3>2, <3>3, <3>4
    <3>5. CASE i # size
      <4>1. i < size /\ size \in shown(k)
        BY <3>3, <3>5
      <4>2. Before(Cursor(pages[k].events[size]), Cursor(pages[k].events[i]))
        BY <1>0, <4>1 DEF ShowsNewest
      <4>3. /\ pages[l].events[j] \in tables[l] /\ pages[k].events[i] \in tables[k]
            /\ pages[k].events[size] \in tables[k]
        BY <1>1, <4>1
      <4>4. /\ Cursor(pages[l].events[j]) \in Int \X Int /\ Cursor(pages[k].events[i]) \in Int \X Int
            /\ Cursor(pages[k].events[size]) \in Int \X Int
        BY <4>3 DEF Reading, EventTable, Cursor
      <4> QED BY <3>2, <3>3, <4>2, <4>4, CursorsTransitive
    <3> QED BY <3>4, <3>5
  <2> QED BY <1>2, <2>1, <2>2
<1>3. ASSUME NEW k \in 1..n, pages[k].next # NoValue
      PROVE  Cardinality({e \in PruneAuditEvents(tables[k], times[k]) : e.client = client}) > size
  <2> DEFINE all == {e \in PruneAuditEvents(tables[k], times[k]) : e.client = client}
  <2>1. due(k) \in SUBSET all /\ all \in SUBSET tables[k] /\ IsFiniteSet(tables[k])
    BY DEF Due, PruneAuditEvents, Reading, EventTable
  <2>2. Cardinality(due(k)) > size
    BY <1>0, <1>3 DEF ShowsNewest
  <2> HIDE DEF all, due
  <2>3. IsFiniteSet(all) /\ IsFiniteSet(due(k)) /\ Cardinality(due(k)) <= Cardinality(all)
    BY <2>1, FS_Subset
  <2>4. Cardinality(due(k)) \in Nat /\ Cardinality(all) \in Nat
    BY <2>3, FS_CardinalityType
  <2>5. Cardinality(all) > size
    BY <2>2, <2>3, <2>4
  <2> QED BY <2>5 DEF all
<1>4. ASSUME n > 0, pages[n].next = NoValue, NEW e, \A k \in 1..n : e \in tables[k],
             e \in PruneAuditEvents(tables[n], times[n]), e.client = client
      PROVE  \E k \in 1..n : \E i \in shown(k) : pages[k].events[i] = e
  <2> SUFFICES ASSUME \A k \in 1..n : \A i \in shown(k) : pages[k].events[i] # e
               PROVE  FALSE
    OBVIOUS
  <2> DEFINE Gone == {k \in 1..n : e \notin due(k)}
  <2>1. \A k \in 1..n : e.created >= RetainedFrom(times[k])
    BY <1>4 DEF PruneAuditEvents, RetainedFrom, Reading, EventTable, AuditConstants
  <2>2. Gone = {}
    <3> SUFFICES ASSUME Gone # {} PROVE FALSE
      OBVIOUS
    <3>1. PICK k \in Gone : \A j \in Gone : k <= j
      <4>1. Gone \in SUBSET Nat
        OBVIOUS
      <4> HIDE DEF Gone
      <4> QED BY <4>1, LeastNumber
    <3>2. CursorAt(pages, k) # NoValue /\ ~Before(Cursor(e), CursorAt(pages, k))
      BY <1>4, <2>1 DEF Due
    <3>3. k # 1 /\ k - 1 \in 1..n /\ CursorAt(pages, k) = pages[k - 1].next /\ pages[k - 1].next # NoValue
      BY <3>2 DEF CursorAt
    <3>4. e \in due(k - 1)
      BY <3>1, <3>3
    <3>5. \/ \E i \in 1..size : pages[k - 1].events[i] = e
          \/ Before(Cursor(e), pages[k - 1].next)
      BY <1>0, <3>3, <3>4 DEF ShowsNewest
    <3>6. Len(pages[k - 1].events) = size
      BY <1>0, <3>3 DEF ShowsNewest
    <3> QED BY <3>2, <3>3, <3>5, <3>6
  <2>3. e \in due(n) /\ n \in 1..n
    BY <1>4, <2>2
  <2> QED BY <1>0, <1>4, <2>3 DEF ShowsNewest
<1> HIDE DEF due
<1> QED BY <1>1, <1>2, <1>3, <1>4

\* A page never shows what the cleanup of the same moment would delete: the owner sees the same
\* log whether the cleanup has run or not.
THEOREM CleanupShowsNowhere ==
    \A table, client, cursor, size, now :
        AuditEventPage(table, client, cursor, size, now)
            = AuditEventPage(PruneAuditEvents(table, now), client, cursor, size, now)
<1> TAKE table, client, cursor, size, now
<1> DEFINE due(events) == {e \in events : /\ e.client = client
                                          /\ e.created >= RetainedFrom(now)
                                          /\ cursor # NoValue => Before(Cursor(e), cursor)}
<1>1. due(table) = due(PruneAuditEvents(table, now))
  BY DEF PruneAuditEvents
<1>2. \A events : ListAuditEvents(events, client, cursor, RetainedFrom(now), size + 1)
                    = PageOf(InOrder(due(events), LAMBDA a, b : Before(Cursor(b), Cursor(a))), 1, size + 1)
  BY DEF ListAuditEvents
<1> HIDE DEF due
<1>3. ListAuditEvents(table, client, cursor, RetainedFrom(now), size + 1)
        = ListAuditEvents(PruneAuditEvents(table, now), client, cursor, RetainedFrom(now), size + 1)
  BY <1>1, <1>2
<1> QED BY <1>3 DEF AuditEventPage

\* A request adds one event at most to the log.  A success is in the log only with what it
\* changed, and whatever an agent changed is in the log under it; and a refusal is in it under a
\* result of its own, unless the certificate names no client or writing the event failed.
THEOREM LogTellsWhatHappened ==
    ASSUME NEW events, NEW request, request.certificate \in Certificate, request.ending \in Ending,
           request.commits \in BOOLEAN, request.auditCommits \in BOOLEAN
    PROVE  LET left    == Logged({}, request)
               results == {e.result : e \in left}
               changed == Committed(request) /\ request.ending = "done"
           IN  /\ Logged(events, request) = events \cup left
               /\ Cardinality(left) <= 1
               /\ changed => results = {"success"}
               /\ "success" \in results => Committed(request)
               /\ request.certificate = "rejected" /\ request.auditCommits => results = {"rejected"}
               /\ request.certificate = "accepted" /\ request.auditCommits =>
                     /\ request.ending = "refused" => results = {"rejected"}
                     /\ request.ending = "broken" => results = {"failed"}
               /\ request.certificate = "unknown" => left = {}
<1> DEFINE success == AgentAuditEvent(request, request.action, "success")
           failure == AgentAuditEvent(request, request.action, IF Status(request) < 500 THEN "rejected" ELSE "failed")
           left == Logged({}, request)
           results == {e.result : e \in left}
<1>1. Logged(events, request) = events \cup left
  BY DEF Logged
<1>2. success.result = "success" /\ failure.result = IF Status(request) < 500 THEN "rejected" ELSE "failed"
  BY DEF AgentAuditEvent
<1>3. Status(request) = IF request.certificate # "accepted" THEN 401
                        ELSE IF request.ending = "broken" THEN 500
                        ELSE IF request.ending = "refused" THEN 409 ELSE 200
  BY DEF Status
<1>4. /\ SuccessEvents(request) = IF Status(request) >= 400 \/ (request.ending = "replayed" /\ request.action = "save")
                                 THEN {} ELSE {success}
      /\ FailureEvents(request) = IF Status(request) < 400 \/ request.certificate = "unknown" THEN {} ELSE {failure}
  BY DEF SuccessEvents, FailureEvents
<1>5. left = (IF Committed(request) THEN SuccessEvents(request) ELSE {})
               \cup (IF request.auditCommits THEN FailureEvents(request) ELSE {})
  BY DEF Logged
<1>6. Committed(request) <=> request.commits /\ Status(request) < 400
  BY <1>3 DEF Committed, RollbackRequired
<1> HIDE DEF success, failure, left
<1>7. CASE Status(request) >= 400
  <2>1. left = IF request.auditCommits /\ request.certificate # "unknown" THEN {failure} ELSE {}
    BY <1>3, <1>4, <1>5, <1>6, <1>7
  <2>2. Cardinality(left) <= 1
    <3>1. Cardinality(left) = 1 \/ Cardinality(left) = 0
      BY <2>1, FS_Singleton, FS_EmptySet
    <3> QED BY <3>1
  <2>3. \A e \in left : e.result = IF Status(request) < 500 THEN "rejected" ELSE "failed"
    BY <1>2, <2>1
  <2>4. ~Committed(request) /\ "success" \notin results
    BY <1>3, <1>6, <1>7, <2>3
  <2>5. left = {failure} => results = {IF Status(request) < 500 THEN "rejected" ELSE "failed"}
    BY <1>2
  <2>6. request.certificate = "rejected" /\ request.auditCommits => results = {"rejected"}
    BY <1>3, <2>1, <2>5
  <2>7. request.certificate = "accepted" /\ request.auditCommits =>
           /\ request.ending = "refused" => results = {"rejected"}
           /\ request.ending = "broken" => results = {"failed"}
    BY <1>3, <2>1, <2>5
  <2>8. request.certificate = "unknown" => left = {}
    BY <2>1
  <2> QED BY <1>1, <2>2, <2>4, <2>6, <2>7, <2>8 DEF left
<1>8. CASE Status(request) < 400
  <2>1. left = IF request.commits /\ ~(request.ending = "replayed" /\ request.action = "save")
               THEN {success} ELSE {}
    BY <1>3, <1>4, <1>5, <1>6, <1>8
  <2>2. Cardinality(left) <= 1
    <3>1. Cardinality(left) = 1 \/ Cardinality(left) = 0
      BY <2>1, FS_Singleton, FS_EmptySet
    <3> QED BY <3>1
  <2>3. left = {success} => results = {"success"}
    BY <1>2
  <2>4. left = {} => results = {}
    OBVIOUS
  <2>5. Committed(request) /\ request.ending = "done" => results = {"success"}
    BY <1>6, <2>1, <2>3
  <2>6. "success" \in results => Committed(request)
    BY <1>6, <1>8, <2>1, <2>3, <2>4
  <2>7. request.certificate = "accepted" /\ request.ending # "refused" /\ request.ending # "broken"
    BY <1>3, <1>8
  <2> QED BY <1>1, <2>2, <2>5, <2>6, <2>7 DEF left
<1>9. Status(request) >= 400 \/ Status(request) < 400
  BY <1>3
<1> QED BY <1>7, <1>8, <1>9

-----------------------------------------------------------------------------
(* The questions of the administrator: their orders.                        *)

\* Keys of n columns, in a form that the concatenation of keys keeps.
Key(n) == {k \in Seq(Int) : Len(k) = n}

LEMMA KeysAreFunctions ==
    ASSUME NEW n \in Nat
    PROVE  \A k \in Key(n) : k \in [1..n -> Int]
BY LenProperties DEF Key

\* A key whose last column is v.
Ends(k, n, v) == k \in Key(n) /\ k[n] = v

LEMMA KeysJoin ==
    ASSUME NEW m \in Nat, NEW n \in Nat \ {0}, NEW l \in Nat, l = m + n,
           NEW a \in Key(m), NEW b \in Key(n)
    PROVE  a \o b \in Key(l) /\ \A v : Ends(b, n, v) => Ends(a \o b, l, v)
<1>1. a \in Seq(Int) /\ b \in Seq(Int) /\ Len(a) = m /\ Len(b) = n
  BY DEF Key
<1>2. /\ a \o b \in Seq(Int) /\ Len(a \o b) = m + n
      /\ \A i \in 1..(m + n) : (a \o b)[i] = IF i <= m THEN a[i] ELSE b[i - m]
  <2>1. /\ a \o b \in Seq(Int) /\ Len(a \o b) = Len(a) + Len(b)
        /\ \A i \in 1..Len(a) + Len(b) : (a \o b)[i] = IF i <= Len(a) THEN a[i] ELSE b[i - Len(a)]
    BY <1>1, ConcatProperties
  <2> QED BY <1>1, <2>1
<1>3. l \in 1..(m + n) /\ ~(l <= m) /\ l - m = n
  OBVIOUS
<1>4. (a \o b)[l] = b[n]
  BY <1>2, <1>3
<1> QED BY <1>2, <1>4 DEF Key, Ends

LEMMA KeysOfColumns ==
    /\ \A a \in Int : <<a>> \in Key(1) /\ Ends(<<a>>, 1, a)
    /\ \A a, b \in Int : <<a, b>> \in Key(2) /\ Ends(<<a, b>>, 2, b)
    /\ \A a, b, c \in Int : <<a, b, c>> \in Key(3) /\ Ends(<<a, b, c>>, 3, c)
    /\ \A a, b, c, d \in Int : <<a, b, c, d>> \in Key(4) /\ Ends(<<a, b, c, d>>, 4, d)
BY DEF Key, Ends

NodeColumns(node) == node.priority \in Int /\ node.id \in Int

\* The columns of an item are numbers, NULL where the table allows it.
ItemColumns(item) ==
    /\ item.id \in Int /\ item.question \in Int
    /\ item.grade \in Int \cup {NoValue} /\ item.published \in Int \cup {NoValue}
    /\ NodeColumns(item.sheet) /\ NodeColumns(item.section) /\ NodeColumns(item.subsection)

\* The table: the id is the key.
ItemTable(items) ==
    /\ IsFiniteSet(items)
    /\ \A item \in items : ItemColumns(item)
    /\ \A a, b \in items : a.id = b.id => a = b

LEMMA NumbersInKeys ==
    ASSUME NEW item, ItemColumns(item)
    PROVE  /\ NullsLast(item.grade) \in Int /\ NullsLast(item.published) \in Int
           /\ DescNullsLast(item.published) \in Int /\ FrequencyRank(item.frequency) \in Int
           /\ -MissingCount(item) \in Int
           /\ Place(item.sheet) \in Key(2) /\ Place(item.section) \in Key(2)
           /\ Place(item.subsection) \in Key(2) /\ StructureOrdering(item) \in Key(6)
<1>1. NullsLast(item.grade) \in Int /\ NullsLast(item.published) \in Int /\ DescNullsLast(item.published) \in Int
  BY DEF ItemColumns, NullsLast, DescNullsLast, Null
<1>2. FrequencyRank(item.frequency) \in Int
  BY DEF FrequencyRank
<1>3. MissingCount(item) \in Nat
  <2>1. IsFiniteSet(TextField)
    <3>1. \A a, b : IsFiniteSet({a, b})
      <4> TAKE a, b
      <4>1. IsFiniteSet({a} \cup {b})
        BY FS_Singleton, FS_Union
      <4>2. {a, b} = {a} \cup {b}
        OBVIOUS
      <4> QED BY <4>1, <4>2
    <3>2. IsFiniteSet({"slug", "questionRu"} \cup {"questionEn", "answerRu"})
      BY <3>1, FS_Union
    <3>3. IsFiniteSet({"answerEn", "interviewAnswerExplanationRu"} \cup {"interviewAnswerExplanationEn"})
      BY <3>1, FS_Singleton, FS_Union
    <3>4. TextField = ({"slug", "questionRu"} \cup {"questionEn", "answerRu"})
                        \cup ({"answerEn", "interviewAnswerExplanationRu"} \cup {"interviewAnswerExplanationEn"})
      BY DEF TextField
    <3> QED BY <3>2, <3>3, <3>4, FS_Union
  <2>2. IsFiniteSet(TextField \cup {"grade"})
    BY <2>1, FS_AddElement
  <2>3. MissingConditions(item) \in SUBSET (TextField \cup {"grade"})
    BY DEF MissingConditions
  <2> QED BY <2>2, <2>3, FS_Subset, FS_CardinalityType DEF MissingCount
<1>4. \A node : NodeColumns(node) => Place(node) \in Key(2)
  BY DEF NodeColumns, Place, Key
<1>5. Place(item.sheet) \in Key(2) /\ Place(item.section) \in Key(2) /\ Place(item.subsection) \in Key(2)
  BY <1>4 DEF ItemColumns
<1>6. StructureOrdering(item) \in Key(6)
  <2>1. Place(item.sheet) \o Place(item.section) \in Key(4)
    BY <1>5, KeysJoin
  <2>2. (Place(item.sheet) \o Place(item.section)) \o Place(item.subsection) \in Key(6)
    BY <1>5, <2>1, KeysJoin
  <2> QED BY <2>2 DEF StructureOrdering
<1> QED BY <1>1, <1>2, <1>3, <1>5, <1>6

\* The length of an order's key.
Width(sort) ==
    IF sort \in {"grade", "interviewFrequency", "subsection"} THEN 9
    ELSE IF sort \in {"section", "missingFields"} THEN 8
    ELSE IF sort = "dangerousPublished" THEN 3 ELSE 2

\* Every order ends with the id.
LEMMA OrdersEndWithTheId ==
    ASSUME NEW item, ItemColumns(item), NEW sort \in Sort
    PROVE  Ends(Ordering(item, sort), Width(sort), IF sort = "newest" THEN -item.id ELSE item.id)
<1> DEFINE structure == StructureOrdering(item)
<1>1. item.id \in Int /\ item.question \in Int
  BY DEF ItemColumns
<1>2. structure \in Key(6)
  BY NumbersInKeys
<1>3. ASSUME NEW first \in Int
      PROVE  /\ Ends(<<first>> \o structure \o <<item.question, item.id>>, 9, item.id)
             /\ Ends(<<first>> \o structure \o <<item.id>>, 8, item.id)
  <2>1. /\ <<first>> \in Key(1)
        /\ <<item.id>> \in Key(1) /\ Ends(<<item.id>>, 1, item.id)
        /\ <<item.question, item.id>> \in Key(2) /\ Ends(<<item.question, item.id>>, 2, item.id)
    BY <1>1, KeysOfColumns
  <2>2. <<first>> \o structure \in Key(7)
    BY <1>2, <2>1, KeysJoin
  <2>3. Ends((<<first>> \o structure) \o <<item.question, item.id>>, 9, item.id)
    BY <2>1, <2>2, KeysJoin
  <2>4. Ends((<<first>> \o structure) \o <<item.id>>, 8, item.id)
    BY <2>1, <2>2, KeysJoin
  <2> QED BY <2>3, <2>4
<1> HIDE DEF structure
<1>4. CASE sort = "grade"
  <2>1. Ordering(item, sort) = <<NullsLast(item.grade)>> \o structure \o <<item.question, item.id>>
    BY <1>4 DEF Ordering, structure
  <2> QED BY <1>3, <1>4, <2>1, NumbersInKeys DEF Width
<1>5. CASE sort = "interviewFrequency"
  <2>1. Ordering(item, sort) = <<FrequencyRank(item.frequency)>> \o structure \o <<item.question, item.id>>
    BY <1>5 DEF Ordering, structure
  <2> QED BY <1>3, <1>5, <2>1, NumbersInKeys DEF Width
<1>6. CASE sort = "section"
  <2>1. Ordering(item, sort) = structure \o <<NullsLast(item.grade), item.id>>
    BY <1>6 DEF Ordering, structure
  <2>2. /\ <<NullsLast(item.grade), item.id>> \in Key(2)
        /\ Ends(<<NullsLast(item.grade), item.id>>, 2, item.id)
    BY <1>1, NumbersInKeys, KeysOfColumns
  <2>3. Ends(structure \o <<NullsLast(item.grade), item.id>>, 8, item.id)
    BY <1>2, <2>2, KeysJoin
  <2> QED BY <1>6, <2>1, <2>3 DEF Width
<1>7. CASE sort = "subsection"
  <2> DEFINE sheet == Place(item.sheet)
             section == Place(item.section)
             subsection == Place(item.subsection)
             rest == <<NullsLast(item.grade), item.question, item.id>>
  <2>1. Ordering(item, sort) = sheet \o subsection \o section \o rest
    BY <1>7 DEF Ordering
  <2>2. sheet \in Key(2) /\ section \in Key(2) /\ subsection \in Key(2)
    BY NumbersInKeys
  <2>3. rest \in Key(3) /\ Ends(rest, 3, item.id)
    BY <1>1, NumbersInKeys, KeysOfColumns
  <2> HIDE DEF sheet, section, subsection, rest
  <2>4. sheet \o subsection \in Key(4)
    BY <2>2, KeysJoin
  <2>5. (sheet \o subsection) \o section \in Key(6)
    BY <2>2, <2>4, KeysJoin
  <2>6. Ends(((sheet \o subsection) \o section) \o rest, 9, item.id)
    BY <2>3, <2>5, KeysJoin
  <2> QED BY <1>7, <2>1, <2>6 DEF Width
<1>8. CASE sort = "newest"
  <2>1. Ordering(item, sort) = <<DescNullsLast(item.published), -item.id>>
    BY <1>8 DEF Ordering
  <2>2. -item.id \in Int /\ DescNullsLast(item.published) \in Int
    BY <1>1, NumbersInKeys
  <2>3. Ends(Ordering(item, sort), 2, -item.id)
    BY <2>1, <2>2, KeysOfColumns
  <2> QED BY <1>8, <2>3 DEF Width
<1>9. CASE sort = "oldest"
  <2>1. Ordering(item, sort) = <<NullsLast(item.published), item.id>>
    BY <1>9 DEF Ordering
  <2>2. Ends(Ordering(item, sort), 2, item.id)
    BY <1>1, <2>1, NumbersInKeys, KeysOfColumns
  <2> QED BY <1>9, <2>2 DEF Width
<1>10. CASE sort = "missingFields"
  <2>1. Ordering(item, sort) = <<-MissingCount(item)>> \o structure \o <<item.id>>
    BY <1>10 DEF Ordering, structure
  <2> QED BY <1>3, <1>10, <2>1, NumbersInKeys DEF Width
<1>11. CASE sort = "dangerousPublished"
  <2> DEFINE danger == IF item.status = "Published" /\ MissingCondition(item) THEN 0 ELSE 1
  <2>1. Ordering(item, sort) = <<danger, DescNullsLast(item.published), item.id>>
    BY <1>11 DEF Ordering
  <2>2. danger \in Int
    OBVIOUS
  <2> HIDE DEF danger
  <2>3. Ends(Ordering(item, sort), 3, item.id)
    BY <1>1, <2>1, <2>2, NumbersInKeys, KeysOfColumns
  <2> QED BY <1>11, <2>3 DEF Width
<1> QED BY <1>4, <1>5, <1>6, <1>7, <1>8, <1>9, <1>10, <1>11 DEF Sort

Earlier(items, sort) ==
    {p \in items \X items : Before(Ordering(p[1], sort), Ordering(p[2], sort))}

\* No order leaves two questions in a place that the database may choose, else a row could be on
\* two pages or on none: whatever the table holds, each of the eight is transitive, and of two
\* rows exactly one comes first.
THEOREM OrdersAreTotal ==
    ASSUME NEW items, ItemTable(items), NEW sort \in Sort
    PROVE  /\ \A a, b, c \in items :
                 Before(Ordering(a, sort), Ordering(b, sort)) /\ Before(Ordering(b, sort), Ordering(c, sort))
                     => Before(Ordering(a, sort), Ordering(c, sort))
           /\ \A a, b \in items :
                 a # b => (Before(Ordering(a, sort), Ordering(b, sort))
                             <=> ~Before(Ordering(b, sort), Ordering(a, sort)))
<1> DEFINE n == Width(sort)
           key(item) == Ordering(item, sort)
<1>1. n \in Nat
  BY DEF Width
<1>2. \A item \in items : key(item) \in [1..n -> Int]
  <2> TAKE item \in items
  <2>1. ItemColumns(item)
    BY DEF ItemTable
  <2>2. key(item) \in Key(n)
    BY <2>1, OrdersEndWithTheId DEF Ends
  <2> QED BY <1>1, <2>2, KeysAreFunctions
<1>3. \A a, b \in items : a # b => key(a) # key(b)
  <2> SUFFICES ASSUME NEW a \in items, NEW b \in items, key(a) = key(b) PROVE a.id = b.id
    BY DEF ItemTable
  <2>1. ItemColumns(a) /\ ItemColumns(b)
    BY DEF ItemTable
  <2>2. /\ key(a)[n] = IF sort = "newest" THEN -a.id ELSE a.id
        /\ key(b)[n] = IF sort = "newest" THEN -b.id ELSE b.id
    BY <2>1, OrdersEndWithTheId DEF Ends
  <2>3. a.id \in Int /\ b.id \in Int
    BY <2>1 DEF ItemColumns
  <2> HIDE DEF key, n
  <2>4. (IF sort = "newest" THEN -a.id ELSE a.id) = IF sort = "newest" THEN -b.id ELSE b.id
    BY <2>2
  <2> QED BY <2>3, <2>4
<1> HIDE DEF n, key
<1>4. \A a, b, c \in items : Before(key(a), key(b)) /\ Before(key(b), key(c)) => Before(key(a), key(c))
  BY <1>1, <1>2, BeforeTransitive
<1>5. \A a, b \in items : Before(key(a), key(b)) => ~Before(key(b), key(a))
  BY <1>1, <1>2, BeforeAsymmetric
<1>6. \A a, b \in items : a # b => Before(key(a), key(b)) \/ Before(key(b), key(a))
  BY <1>1, <1>2, <1>3, BeforeTotal
<1>7. \A a, b \in items : a # b => (Before(key(a), key(b)) <=> ~Before(key(b), key(a)))
  BY <1>5, <1>6
<1> QED BY <1>4, <1>7 DEF key

LEMMA ItemsInOrder ==
    ASSUME NEW items, ItemTable(items), NEW sort \in Sort
    PROVE  Sorts(Ordered(items, sort), items, Earlier(items, sort))
<1> DEFINE R == Earlier(items, sort)
           N == Cardinality(items)
           seq == InOrder(items, LAMBDA a, b : Before(Ordering(a, sort), Ordering(b, sort)))
<1>1. \A a, b \in items : <<a, b>> \in R <=> Before(Ordering(a, sort), Ordering(b, sort))
  BY DEF Earlier
<1>2. StrictOrder(items, R)
  <2>1. \A a \in items : ~Before(Ordering(a, sort), Ordering(a, sort))
    <3> TAKE a \in items
    <3>1. ItemColumns(a) /\ Width(sort) \in Nat
      BY DEF ItemTable, Width
    <3>2. Ordering(a, sort) \in [1..Width(sort) -> Int]
      BY <3>1, OrdersEndWithTheId, KeysAreFunctions DEF Ends
    <3> QED BY <3>1, <3>2, BeforeAsymmetric
  <2> HIDE DEF R
  <2> QED BY <1>1, <2>1, OrdersAreTotal DEF StrictOrder
<1>3. \A x \in items : RankIn(items, R, x) =
         Cardinality({y \in items : Before(Ordering(y, sort), Ordering(x, sort))})
  <2> SUFFICES ASSUME NEW x \in items
               PROVE  {y \in items : <<y, x>> \in R}
                        = {y \in items : Before(Ordering(y, sort), Ordering(x, sort))}
    BY DEF RankIn
  <2> QED BY <1>1
<1>4. seq = [n \in 1..N |->
                CHOOSE x \in items :
                    Cardinality({y \in items : Before(Ordering(y, sort), Ordering(x, sort))}) = n - 1]
  BY DEF InOrder
<1> HIDE DEF R, seq
<1>5. ASSUME NEW n \in 1..N PROVE seq[n] \in items /\ RankIn(items, R, seq[n]) = n - 1
  <2>1. N \in Nat /\ n - 1 \in 0..(N - 1)
    BY FS_CardinalityType DEF ItemTable
  <2>2. \E x \in items : RankIn(items, R, x) = n - 1
    BY <1>2, <2>1, Ranks DEF ItemTable
  <2>3. \E x \in items : Cardinality({y \in items : Before(Ordering(y, sort), Ordering(x, sort))}) = n - 1
    BY <1>3, <2>2
  <2>4. /\ seq[n] \in items
        /\ Cardinality({y \in items : Before(Ordering(y, sort), Ordering(seq[n], sort))}) = n - 1
    BY <1>4, <2>3
  <2> QED BY <1>3, <2>4
<1>6. Sorts(seq, items, R)
  <2>1. DOMAIN seq = 1..N /\ seq = [n \in DOMAIN seq |-> seq[n]]
    BY <1>4
  <2> QED BY <1>2, <1>5, <2>1, SortedByRank DEF ItemTable
<1> QED BY <1>6 DEF R, seq, Ordered

-----------------------------------------------------------------------------
(* The questions of the administrator: their pages and their counts.        *)

LEMMA Multiples ==
    ASSUME NEW a \in Int, NEW b \in Int, NEW s \in Nat, a <= b
    PROVE  a * s <= b * s
<1>1. a * s \in Int /\ b * s \in Int /\ (b - a) * s \in Int /\ (b - a) * s = b * s - a * s
  OBVIOUS
<1>2. (b - a) * s >= 0
  OBVIOUS
<1> QED BY <1>1, <1>2

LEMMA Quotients ==
    ASSUME NEW a \in Int, NEW s \in Nat \ {0}
    PROVE  /\ a \div s \in Int
           /\ (a \div s) * s <= a /\ a < (a \div s) * s + s
OBVIOUS

\* The pages that are not empty are those up to totalPages.
LEMMA PagesAreCounted ==
    ASSUME NEW count \in Nat, NEW size \in Nat \ {0}, NEW page \in Int
    PROVE  /\ TotalPages(count, size) \in Int
           /\ (page - 1) * size < count <=> page <= TotalPages(count, size)
<1> DEFINE t == TotalPages(count, size)
<1>1. t \in Int /\ t * size <= count + size - 1 /\ count + size - 1 < t * size + size
  BY Quotients DEF TotalPages
<1> HIDE DEF t
<1>2. /\ t * size \in Int /\ (page - 1) * size \in Int
      /\ (t - 1) * size \in Int /\ (t - 1) * size = t * size - size
  BY <1>1
<1>3. ASSUME page <= t PROVE (page - 1) * size < count
  <2>1. (page - 1) * size <= (t - 1) * size
    BY <1>1, <1>3, Multiples
  <2> QED BY <1>1, <1>2, <2>1
<1>4. ASSUME ~(page <= t) PROVE ~((page - 1) * size < count)
  <2>1. t * size <= (page - 1) * size
    BY <1>1, <1>4, Multiples
  <2> QED BY <1>1, <1>2, <2>1
<1> QED BY <1>1, <1>3, <1>4 DEF t

FilterField == {"sheets", "sections", "sectionNames", "subsections", "subsectionNames", "grades",
                "frequencies", "statuses", "from", "to", "search", "missing", "sort", "page", "size"}

\* What may be asked: any filters, one of the orders, pages that hold something.
Asks(filters, values) ==
    filters \in [FilterField -> values] /\ filters.sort \in Sort /\ filters.size \in Nat \ {0}

\* Another page of the same list.
Turned(filters, page) == [filters EXCEPT !.page = page]

\* The rows are listed and counted with no write in between.
ReadTogether(read, items) == read.listed = items /\ read.counted = items

LEMMA PageOfTheList ==
    ASSUME NEW items, ItemTable(items), NEW values, NEW filters, Asks(filters, values), NEW p \in Nat \ {0},
           NEW read, ReadTogether(read, items)
    PROVE  LET found == Filtered(items, filters)
               page  == Workspace(read, Turned(filters, p))
               rows  == Ordered(found, filters.sort)
               count == Cardinality(found)
               size  == filters.size
               first == (p - 1) * size
           IN  /\ Sorts(rows, found, Earlier(found, filters.sort))
               /\ page.totalCount = count /\ page.totalPages = TotalPages(count, size)
               /\ Len(page.values) = IF first + size <= count THEN size
                                     ELSE IF first <= count THEN count - first ELSE 0
               /\ page.values # <<>> <=> Len(page.values) > 0
               /\ \A i \in 1..Len(page.values) :
                     first + i \in 1..count /\ page.values[i] = WorkspaceItem(rows[first + i])
<1> DEFINE found == Filtered(items, filters)
           page  == Workspace(read, Turned(filters, p))
           rows  == Ordered(found, filters.sort)
           count == Cardinality(found)
           size  == filters.size
           first == (p - 1) * size
           shown == PageOf(rows, p, size)
           Rows  == {WorkspaceItem(item) : item \in found}
<1>1. \A f \in FilterField \ {"page"} : Turned(filters, p)[f] = filters[f]
  BY DEF Asks, Turned
<1>2. Turned(filters, p).page = p
  BY DEF Asks, Turned, FilterField
<1>3. /\ Turned(filters, p).sheets = filters.sheets /\ Turned(filters, p).sections = filters.sections
      /\ Turned(filters, p).sectionNames = filters.sectionNames
      /\ Turned(filters, p).subsections = filters.subsections
      /\ Turned(filters, p).subsectionNames = filters.subsectionNames
      /\ Turned(filters, p).grades = filters.grades /\ Turned(filters, p).frequencies = filters.frequencies
      /\ Turned(filters, p).statuses = filters.statuses
  BY <1>1 DEF FilterField
<1>4. /\ Turned(filters, p).from = filters.from /\ Turned(filters, p).to = filters.to
      /\ Turned(filters, p).search = filters.search /\ Turned(filters, p).missing = filters.missing
      /\ Turned(filters, p).sort = filters.sort /\ Turned(filters, p).size = filters.size
  BY <1>1 DEF FilterField
<1>5. Filtered(items, Turned(filters, p)) = found
  <2>1. \A item \in items : DimensionFilter(item, Turned(filters, p)) <=> DimensionFilter(item, filters)
    BY <1>3 DEF DimensionFilter
  <2>2. \A item \in items : StateFilter(item, Turned(filters, p)) <=> StateFilter(item, filters)
    BY <1>4 DEF StateFilter
  <2> QED BY <2>1, <2>2 DEF Filtered
<1>6. ItemTable(found)
  BY FS_Subset DEF Filtered, ItemTable
<1>7. Sorts(rows, found, Earlier(found, filters.sort))
  BY <1>6, ItemsInOrder DEF Asks
<1> HIDE DEF found
<1>8. count \in Nat /\ rows \in Seq(found) /\ Len(rows) = count
  <2>1. count \in Nat /\ rows \in [1..count -> found]
    BY <1>7 DEF Sorts
  <2> HIDE DEF rows, count
  <2> QED BY <2>1, SeqDef, LenProperties
<1>9. size \in Nat /\ first \in Nat /\ p \in Int
  <2>1. size \in Nat /\ p - 1 \in Nat
    BY DEF Asks
  <2> QED BY <2>1
<1>10. /\ page.values = [i \in DOMAIN shown |-> WorkspaceItem(shown[i])]
       /\ page.totalCount = count /\ page.totalPages = TotalPages(count, size)
  BY <1>2, <1>4, <1>5 DEF Workspace, ReadTogether
<1> HIDE DEF page, rows, count, size
<1>11. /\ shown \in Seq(found)
       /\ Len(shown) = IF first + size <= count THEN size ELSE IF first <= count THEN count - first ELSE 0
       /\ \A i \in 1..Len(shown) : first + i \in 1..count /\ shown[i] = rows[first + i]
  <2>1. first \in Nat /\ first = (p - 1) * size
    BY <1>9
  <2> HIDE DEF first
  <2>2. IsPage(shown, found, rows, first, size)
    BY <1>8, <1>9, <2>1, PageHasItsRows
  <2> HIDE DEF shown
  <2> QED BY <1>8, <2>2 DEF IsPage
<1> HIDE DEF shown, first
<1>12. /\ page.values \in Seq(Rows) /\ Len(page.values) = Len(shown)
       /\ \A i \in 1..Len(shown) : page.values[i] = WorkspaceItem(shown[i])
  <2>1. /\ Len(shown) \in Nat /\ DOMAIN shown = 1..Len(shown)
        /\ \A i \in 1..Len(shown) : shown[i] \in found
    BY <1>11, LenProperties
  <2>2. page.values \in [1..Len(shown) -> Rows]
    BY <1>10, <2>1
  <2> HIDE DEF Rows
  <2>3. page.values \in Seq(Rows) /\ Len(page.values) = Len(shown)
    BY <2>1, <2>2, SeqDef, LenProperties
  <2> QED BY <1>10, <2>1, <2>3
<1>13. page.values # <<>> <=> Len(page.values) > 0
  <2>1. Len(page.values) \in Nat /\ (page.values # <<>> => Len(page.values) \in Nat \ {0}) /\ Len(<<>>) = 0
    BY <1>12, EmptySeq, LenProperties
  <2> QED BY <2>1
<1>14. \A i \in 1..Len(page.values) : first + i \in 1..count /\ page.values[i] = WorkspaceItem(rows[first + i])
  BY <1>11, <1>12
<1> QED BY <1>7, <1>8, <1>10, <1>11, <1>12, <1>13, <1>14 DEF found, page, rows, count, size, first

\* The pages of a list that no write changes while they are read partition it, whatever the table,
\* the filters, the order and the size: each row that the filters let through is on a page and at
\* no other place, the pages show nothing else, all but the last are full, totalPages is the number
\* of the pages that are not empty and totalCount the number of the rows on them.
THEOREM PagesPartitionTheList ==
    ASSUME NEW items, ItemTable(items), NEW values, NEW filters, Asks(filters, values),
           NEW read, ReadTogether(read, items)
    PROVE  LET found   == Filtered(items, filters)
               page(p) == Workspace(read, Turned(filters, p))
               total   == TotalPages(Cardinality(found), filters.size)
           IN  /\ \A p \in Nat \ {0} :
                     /\ page(p).totalCount = Cardinality(found) /\ page(p).totalPages = total
                     /\ p < total => Len(page(p).values) = filters.size
                     /\ page(p).values # <<>> <=> p <= total
                     /\ \A i \in 1..Len(page(p).values) :
                           \E item \in found : page(p).values[i] = WorkspaceItem(item)
               /\ \A item \in found : \E p \in Nat \ {0} : \E i \in 1..Len(page(p).values) :
                     p <= total /\ page(p).values[i] = WorkspaceItem(item)
               /\ \A p, q \in Nat \ {0} :
                     \A i \in 1..Len(page(p).values), j \in 1..Len(page(q).values) :
                        page(p).values[i].id = page(q).values[j].id => p = q /\ i = j
<1> DEFINE found   == Filtered(items, filters)
           page(p) == Workspace(read, Turned(filters, p))
           count   == Cardinality(found)
           size    == filters.size
           total   == TotalPages(count, size)
           rows    == Ordered(found, filters.sort)
           first(p) == (p - 1) * size
<1>1. size \in Nat \ {0}
  BY DEF Asks
<1>2. Sorts(rows, found, Earlier(found, filters.sort))
  BY PageOfTheList
<1>3. count \in Nat /\ rows \in [1..count -> found] /\ \A item \in found : \E n \in 1..count : rows[n] = item
  BY <1>2 DEF Sorts
<1>4. \A p \in Nat \ {0} :
         /\ page(p).totalCount = count /\ page(p).totalPages = total
         /\ Len(page(p).values) = IF first(p) + size <= count THEN size
                                  ELSE IF first(p) <= count THEN count - first(p) ELSE 0
         /\ page(p).values # <<>> <=> Len(page(p).values) > 0
         /\ \A i \in 1..Len(page(p).values) :
               first(p) + i \in 1..count /\ page(p).values[i] = WorkspaceItem(rows[first(p) + i])
  BY PageOfTheList
<1>5. \A p \in Int : first(p) \in Int /\ total \in Int /\ (first(p) < count <=> p <= total)
  BY <1>1, <1>3, PagesAreCounted
<1>6. \A p \in Int : first(p + 1) = first(p) + size
  BY <1>1
<1>7. \A p, q \in Int : p < q => first(p) + size <= first(q)
  <2> TAKE p, q \in Int
  <2> HAVE p < q
  <2>1. p + 1 - 1 \in Int /\ q - 1 \in Int /\ p + 1 - 1 <= q - 1
    OBVIOUS
  <2>2. first(p + 1) <= first(q)
    BY <1>1, <2>1, Multiples
  <2> QED BY <1>6, <2>2
<1>8. \A a, b \in found : a.id = b.id => a = b
  BY DEF ItemTable, Filtered
<1> HIDE DEF found, page, count, size, total, rows, first
<1>9. ASSUME NEW p \in Nat \ {0}
      PROVE  /\ p < total => Len(page(p).values) = size
             /\ page(p).values # <<>> <=> p <= total
             /\ \A i \in 1..Len(page(p).values) : \E item \in found : page(p).values[i] = WorkspaceItem(item)
  <2>0. /\ first(p) \in Int /\ total \in Int /\ p \in Int /\ (first(p) < count <=> p <= total)
        /\ Len(page(p).values) = IF first(p) + size <= count THEN size
                                 ELSE IF first(p) <= count THEN count - first(p) ELSE 0
    BY <1>4, <1>5
  <2>1. p < total => first(p) + size < count
    <3>1. p \in Int /\ p + 1 \in Int /\ total \in Int
      BY <1>5
    <3>2. first(p) + size < count <=> p + 1 <= total
      BY <1>5, <1>6, <3>1
    <3> QED BY <3>1, <3>2
  <2>2. p < total => Len(page(p).values) = size
    BY <1>1, <1>3, <2>0, <2>1
  <2>3. Len(page(p).values) > 0 <=> first(p) < count
    BY <1>1, <1>3, <2>0
  <2>4. page(p).values # <<>> <=> p <= total
    BY <1>4, <2>0, <2>3
  <2>5. \A i \in 1..Len(page(p).values) : \E item \in found : page(p).values[i] = WorkspaceItem(item)
    BY <1>3, <1>4
  <2> QED BY <2>2, <2>4, <2>5
<1>10. ASSUME NEW item \in found
       PROVE  \E p \in Nat \ {0} : \E i \in 1..Len(page(p).values) :
                 p <= total /\ page(p).values[i] = WorkspaceItem(item)
  <2>1. PICK n \in 1..count : rows[n] = item
    BY <1>3
  <2> DEFINE p == (n - 1) \div size + 1
             i == n - first(p)
  <2>2. /\ (n - 1) \div size \in Int
        /\ ((n - 1) \div size) * size <= n - 1 /\ n - 1 < ((n - 1) \div size) * size + size
    <3>1. n - 1 \in Int
      OBVIOUS
    <3> QED BY <1>1, <3>1, Quotients
  <2>3. p \in Int /\ first(p) = ((n - 1) \div size) * size
    BY <1>1, <2>2 DEF first
  <2>4. first(p) \in Int /\ first(p) <= n - 1 /\ n - 1 < first(p) + size
    BY <1>5, <2>2, <2>3
  <2>5. p \in Nat \ {0}
    <3>1. p > 0
      <4> SUFFICES ASSUME p < 1 PROVE FALSE
        BY <2>3
      <4>1. first(p) + size <= first(1)
        BY <1>7, <2>3
      <4>2. first(1) = 0
        BY <1>1 DEF first
      <4> QED BY <1>1, <2>4, <4>1, <4>2
    <3> QED BY <2>3, <3>1
  <2> HIDE DEF p
  <2>6. i \in 1..size /\ first(p) + i = n
    BY <1>1, <2>4
  <2>7. i <= Len(page(p).values) /\ Len(page(p).values) \in Int
    <3>1. /\ Len(page(p).values) = IF first(p) + size <= count THEN size
                                   ELSE IF first(p) <= count THEN count - first(p) ELSE 0
          /\ first(p) \in Int
      BY <1>4, <1>5, <2>5
    <3>2. n \in 1..count /\ count \in Nat /\ size \in Nat
      BY <1>1, <1>3
    <3> HIDE DEF i
    <3> QED BY <2>6, <3>1, <3>2
  <2>8. i \in 1..Len(page(p).values)
    BY <2>6, <2>7
  <2>9. first(p) < count
    BY <1>3, <2>4
  <2>10. p <= total
    <3>1. p \in Int
      BY <2>5
    <3> QED BY <1>5, <2>9, <3>1
  <2>11. page(p).values[i] = WorkspaceItem(rows[first(p) + i])
    BY <1>4, <2>5, <2>8
  <2>12. page(p).values[i] = WorkspaceItem(item)
    BY <2>1, <2>6, <2>11
  <2> QED BY <2>5, <2>8, <2>10, <2>12
<1>11. ASSUME NEW p \in Nat \ {0}, NEW q \in Nat \ {0},
              NEW i \in 1..Len(page(p).values), NEW j \in 1..Len(page(q).values),
              page(p).values[i].id = page(q).values[j].id
       PROVE  p = q /\ i = j
  <2>1. /\ first(p) + i \in 1..count /\ page(p).values[i] = WorkspaceItem(rows[first(p) + i])
        /\ first(q) + j \in 1..count /\ page(q).values[j] = WorkspaceItem(rows[first(q) + j])
    BY <1>4
  <2>2. rows[first(p) + i].id = rows[first(q) + j].id
    BY <1>11, <2>1 DEF WorkspaceItem
  <2>3. rows[first(p) + i] = rows[first(q) + j]
    BY <1>3, <1>8, <2>1, <2>2
  <2>4. first(p) + i = first(q) + j
    <3> DEFINE m == first(p) + i
               n == first(q) + j
    <3>1. m \in 1..count /\ n \in 1..count /\ rows[m] = rows[n]
      BY <2>1, <2>3
    <3> HIDE DEF m, n
    <3>2. /\ m < n <=> <<rows[m], rows[n]>> \in Earlier(found, filters.sort)
          /\ n < m <=> <<rows[n], rows[m]>> \in Earlier(found, filters.sort)
          /\ m < m <=> <<rows[m], rows[m]>> \in Earlier(found, filters.sort)
      BY <1>2, <3>1 DEF Sorts, count
    <3>3. m = n
      BY <1>3, <3>1, <3>2
    <3> QED BY <3>3 DEF m, n
  <2>5. first(p) \in Int /\ first(q) \in Int /\ p \in Int /\ q \in Int
    BY <1>5
  <2>6. i \in 1..size /\ j \in 1..size
    <3>1. /\ Len(page(p).values) = IF first(p) + size <= count THEN size
                                   ELSE IF first(p) <= count THEN count - first(p) ELSE 0
          /\ Len(page(q).values) = IF first(q) + size <= count THEN size
                                   ELSE IF first(q) <= count THEN count - first(q) ELSE 0
      BY <1>4
    <3>2. Len(page(p).values) <= size /\ Len(page(p).values) \in Int
      BY <1>1, <1>3, <2>5, <3>1
    <3>3. Len(page(q).values) <= size /\ Len(page(q).values) \in Int
      BY <1>1, <1>3, <2>5, <3>1
    <3> QED BY <1>1, <3>2, <3>3
  <2>7. ~(p < q) /\ ~(q < p)
    <3>1. ASSUME p < q PROVE FALSE
      <4>1. first(p) + size <= first(q)
        BY <1>7, <2>5, <3>1
      <4> QED BY <1>1, <2>4, <2>5, <2>6, <4>1
    <3>2. ASSUME q < p PROVE FALSE
      <4>1. first(q) + size <= first(p)
        BY <1>7, <2>5, <3>2
      <4> QED BY <1>1, <2>4, <2>5, <2>6, <4>1
    <3> QED BY <3>1, <3>2
  <2>8. p = q
    BY <2>5, <2>7
  <2> QED BY <2>4, <2>5, <2>6, <2>8
<1> QED BY <1>4, <1>9, <1>10, <1>11 DEF found, page, count, size, total

LEMMA DisjointUnion ==
    ASSUME NEW S, NEW T, IsFiniteSet(S), IsFiniteSet(T), S \cap T = {}
    PROVE  IsFiniteSet(S \cup T) /\ Cardinality(S \cup T) = Cardinality(S) + Cardinality(T)
<1>1. Cardinality(S) \in Nat /\ Cardinality(T) \in Nat /\ Cardinality(S \cap T) = 0
  BY FS_CardinalityType, FS_EmptySet
<1>2. IsFiniteSet(S \cup T) /\ Cardinality(S \cup T) = Cardinality(S) + Cardinality(T) - Cardinality(S \cap T)
  BY FS_Union
<1> QED BY <1>1, <1>2

\* No filter but these two.
Only(statuses, missing) ==
    [sheets |-> {}, sections |-> {}, sectionNames |-> {}, subsections |-> {}, subsectionNames |-> {},
     grades |-> {}, frequencies |-> {}, statuses |-> statuses, from |-> NoValue, to |-> NoValue,
     search |-> NoValue, missing |-> missing]

\* Each count above the list is the number of rows the administrator finds, in the table that the
\* statement of the counts saw, when he narrows the filters to what the count is about; nothing is
\* counted twice or not at all; and the total is the list's, if that was counted in the same table.
THEOREM CountsAreLists ==
    ASSUME NEW items, ItemTable(items), NEW values, NEW filters, Asks(filters, values),
           NEW read, read.summarised = items,
           \A item \in items : item.status \in {"Draft", "Published"},
           NoValue \notin {"Draft", "Published", "yes", "no"}
    PROVE  LET counts == Workspace(read, filters).summary
               Found(statuses, missing) ==
                   Cardinality(Filtered(items, filters) \cap Filtered(items, Only(statuses, missing)))
           IN  /\ read.counted = items => counts.total = Workspace(read, filters).totalCount
               /\ counts.draft = Found({"Draft"}, NoValue)
               /\ counts.missingDraft = Found({"Draft"}, "yes")
               /\ counts.dangerousPublished = Found({"Published"}, "yes")
               /\ counts.readyPublished = Found({"Published"}, "no")
               /\ counts.total = counts.draft + counts.dangerousPublished + counts.readyPublished
<1> DEFINE found == Filtered(items, filters)
           drafts == {i \in found : i.status = "Draft"}
           missing == {i \in found : i.status = "Draft" /\ MissingCondition(i)}
           dangerous == {i \in found : i.status = "Published" /\ MissingCondition(i)}
           ready == {i \in found : i.status = "Published" /\ ~MissingCondition(i)}
<1>1. /\ Summary(items, filters).total = Cardinality(found)
      /\ Summary(items, filters).draft = Cardinality(drafts)
      /\ Summary(items, filters).missingDraft = Cardinality(missing)
      /\ Summary(items, filters).dangerousPublished = Cardinality(dangerous)
      /\ Summary(items, filters).readyPublished = Cardinality(ready)
  BY DEF Summary, Count
<1>2. ItemTable(found) /\ IsFiniteSet(found)
  BY FS_Subset DEF Filtered, ItemTable
<1>3. /\ Workspace(read, filters).summary = Summary(items, filters)
      /\ read.counted = items => Workspace(read, filters).totalCount = Cardinality(found)
  BY DEF Workspace
<1>4. \A item \in items, status \in {"Draft", "Published"} :
         /\ DimensionFilter(item, Only({status}, NoValue)) <=> item.status = status
         /\ StateFilter(item, Only({status}, NoValue))
         /\ DimensionFilter(item, Only({status}, "yes")) <=> item.status = status
         /\ StateFilter(item, Only({status}, "yes")) <=> MissingCondition(item)
         /\ DimensionFilter(item, Only({status}, "no")) <=> item.status = status
         /\ StateFilter(item, Only({status}, "no")) <=> ~MissingCondition(item)
  BY DEF Only, DimensionFilter, StateFilter, Within
<1>5. found \in SUBSET items
  BY DEF Filtered
<1>6. /\ drafts = found \cap Filtered(items, Only({"Draft"}, NoValue))
      /\ missing = found \cap Filtered(items, Only({"Draft"}, "yes"))
      /\ dangerous = found \cap Filtered(items, Only({"Published"}, "yes"))
      /\ ready = found \cap Filtered(items, Only({"Published"}, "no"))
  <2>1. \A item \in items :
           /\ item \in Filtered(items, Only({"Draft"}, NoValue)) <=> item.status = "Draft"
           /\ item \in Filtered(items, Only({"Draft"}, "yes")) <=> item.status = "Draft" /\ MissingCondition(item)
           /\ item \in Filtered(items, Only({"Published"}, "yes"))
                 <=> item.status = "Published" /\ MissingCondition(item)
           /\ item \in Filtered(items, Only({"Published"}, "no"))
                 <=> item.status = "Published" /\ ~MissingCondition(item)
    BY <1>4 DEF Filtered
  <2> HIDE DEF found
  <2> QED BY <1>5, <2>1
<1>7. Cardinality(found) = Cardinality(drafts) + Cardinality(dangerous) + Cardinality(ready)
  <2>1. /\ drafts \in SUBSET found /\ dangerous \in SUBSET found /\ ready \in SUBSET found
        /\ drafts \cap dangerous = {} /\ (drafts \cup dangerous) \cap ready = {}
    OBVIOUS
  <2>2. found = (drafts \cup dangerous) \cup ready
    BY <1>5
  <2> HIDE DEF found, drafts, dangerous, ready
  <2>3. IsFiniteSet(drafts) /\ IsFiniteSet(dangerous) /\ IsFiniteSet(ready)
    BY <1>2, <2>1, FS_Subset
  <2>4. /\ IsFiniteSet(drafts \cup dangerous)
        /\ Cardinality(drafts \cup dangerous) = Cardinality(drafts) + Cardinality(dangerous)
    BY <2>1, <2>3, DisjointUnion
  <2>5. Cardinality((drafts \cup dangerous) \cup ready) = Cardinality(drafts \cup dangerous) + Cardinality(ready)
    BY <2>1, <2>3, <2>4, DisjointUnion
  <2> QED BY <2>2, <2>4, <2>5
<1> HIDE DEF found, drafts, missing, dangerous, ready
<1> QED BY <1>1, <1>3, <1>6, <1>7 DEF found

\* A published question that is counted ready is available to the readers of the site, and the
\* missing fields that the list shows are those its filter found, exactly unless a text is blank
\* and not only spaces: that one the database takes for written, the server for missing.
THEOREM ReadyIsAvailable ==
    ASSUME NEW item
    PROVE  LET odd == \E f \in TextField : item.texts[f] = "lines"
           IN  /\ MissingConditions(item) \subseteq MissingPublicationFields(item)
               /\ MissingConditions(item) = MissingPublicationFields(item) <=> ~odd
               /\ IsAvailable(item) => ~MissingCondition(item)
               /\ item.status = "Published" /\ ~MissingCondition(item) => (IsAvailable(item) <=> ~odd)
<1> DEFINE grade == IF item.grade = NoValue THEN {"grade"} ELSE {}
           server == {f \in TextField : item.texts[f] \in Blank}
           database == {f \in TextField : item.texts[f] \in TrimmedBlank}
           odd == {f \in TextField : item.texts[f] = "lines"}
<1>1. server = database \cup odd /\ database \cap odd = {}
  BY DEF Blank, TrimmedBlank
<1>2. "grade" \notin TextField
  BY DEF TextField
<1>3. MissingPublicationFields(item) = server \cup grade /\ MissingConditions(item) = database \cup grade
  BY DEF MissingPublicationFields, MissingConditions
<1>4. odd \cap grade = {}
  BY <1>2
<1>5. odd # {} <=> \E f \in TextField : item.texts[f] = "lines"
  OBVIOUS
<1> HIDE DEF server, database, odd, grade
<1> QED BY <1>1, <1>3, <1>4, <1>5 DEF IsAvailable, MissingCondition

\* No filter but the two dates.
Between(from, to) ==
    [sheets |-> {}, sections |-> {}, sectionNames |-> {}, subsections |-> {}, subsectionNames |-> {},
     grades |-> {}, frequencies |-> {}, statuses |-> {}, from |-> from, to |-> to,
     search |-> NoValue, missing |-> NoValue]

\* Both ends of a range of dates are whole days: the filter finds what was published on one of its
\* days, at whatever moment of it.
THEOREM DatesAreWholeDays ==
    ASSUME NEW items, ItemTable(items), NEW from \in Int, NEW to \in Int,
           DayLength \in Nat \ {0}, NoValue \notin Int
    PROVE  Filtered(items, Between(from, to))
             = {item \in items : item.published # NoValue /\ item.published \div DayLength \in from..to}
<1>1. ASSUME NEW moment \in Int, NEW day \in Int
      PROVE  /\ moment >= DateStart(day) <=> moment \div DayLength >= day
             /\ moment <= DateEnd(day) <=> moment \div DayLength <= day
  <2> DEFINE q == moment \div DayLength
  <2>1. q \in Int /\ q * DayLength <= moment /\ moment < q * DayLength + DayLength
    BY Quotients
  <2> HIDE DEF q
  <2>2. ASSUME NEW m \in Int, NEW n \in Int, m < n PROVE m * DayLength + DayLength <= n * DayLength
    <3>1. (m + 1) * DayLength <= n * DayLength
      BY <2>2, Multiples
    <3>2. (m + 1) * DayLength = m * DayLength + DayLength
      OBVIOUS
    <3> QED BY <3>1, <3>2
  <2> DEFINE a == q * DayLength
             b == day * DayLength
  <2>4. a \in Int /\ b \in Int /\ a <= moment /\ moment < a + DayLength
    BY <2>1
  <2>5. /\ q < day => a + DayLength <= b
        /\ day < q => b + DayLength <= a
        /\ q = day => a = b
    BY <2>1, <2>2
  <2>6. DateStart(day) = b /\ DateEnd(day) = b + DayLength - 1
    BY DEF DateStart, DateEnd
  <2> HIDE DEF a, b
  <2>7. /\ moment >= b <=> q >= day
        /\ moment <= b + DayLength - 1 <=> q <= day
    BY <2>1, <2>4, <2>5
  <2> QED BY <2>6, <2>7 DEF q
<1>2. ASSUME NEW item \in items
      PROVE  /\ DimensionFilter(item, Between(from, to))
             /\ StateFilter(item, Between(from, to))
                  <=> /\ item.published # NoValue
                      /\ item.published >= DateStart(from) /\ item.published <= DateEnd(to)
  BY DEF Between, DimensionFilter, StateFilter, Within
<1>3. ASSUME NEW item \in items, item.published # NoValue
      PROVE  (item.published >= DateStart(from) /\ item.published <= DateEnd(to))
               <=> item.published \div DayLength \in from..to
  <2>1. item.published \in Int
    BY <1>3 DEF ItemTable, ItemColumns
  <2> DEFINE day == item.published \div DayLength
  <2>2. day \in Int
    BY <2>1
  <2>3. /\ item.published >= DateStart(from) <=> day >= from
        /\ item.published <= DateEnd(to) <=> day <= to
    BY <1>1, <2>1
  <2> HIDE DEF day
  <2>4. day \in from..to <=> day >= from /\ day <= to
    BY <2>2
  <2> QED BY <2>3, <2>4 DEF day
<1> QED BY <1>2, <1>3 DEF Filtered

-----------------------------------------------------------------------------
(* The questions of the administrator: the menus of the filters.            *)

\* Every member of a set, once.
ListsOnce(seq, S) ==
    /\ DOMAIN seq = 1..Cardinality(S)
    /\ \A i \in DOMAIN seq : seq[i] \in S
    /\ \A x \in S : \E i \in DOMAIN seq : seq[i] = x
    /\ \A i, j \in DOMAIN seq : seq[i] = seq[j] => i = j

LEMMA SortedListsOnce ==
    ASSUME NEW S, NEW R, StrictOrder(S, R), NEW seq, Sorts(seq, S, R)
    PROVE  ListsOnce(seq, S)
<1>1. DOMAIN seq = 1..Cardinality(S) /\ Cardinality(S) \in Nat
  BY DEF Sorts
<1>2. ASSUME NEW i \in 1..Cardinality(S), NEW j \in 1..Cardinality(S), seq[i] = seq[j] PROVE i = j
  <2>1. <<seq[i], seq[j]>> \notin R /\ <<seq[j], seq[i]>> \notin R
    BY <1>2 DEF StrictOrder, Sorts
  <2>2. ~(i < j) /\ ~(j < i)
    BY <2>1 DEF Sorts
  <2> QED BY <1>1, <2>2
<1> QED BY <1>1, <1>2 DEF Sorts, ListsOnce

Lower(S, key, x) == {y \in S : key[y] < key[x]}

\* A key of its own for each, and in each place the one with as many before it.
Keyed(seq, S, key) ==
    /\ \A x \in S : key[x] \in Int
    /\ \A x, y \in S : key[x] = key[y] => x = y
    /\ DOMAIN seq = 1..Cardinality(S) /\ seq = [n \in DOMAIN seq |-> seq[n]]
    /\ \A n \in 1..Cardinality(S) :
          (\E x \in S : Cardinality(Lower(S, key, x)) = n - 1)
              => seq[n] \in S /\ Cardinality(Lower(S, key, seq[n])) = n - 1

\* Numbers, and what has a number of its own, are listed in the order of the numbers.
LEMMA NumbersAreListed ==
    ASSUME NEW S, IsFiniteSet(S), NEW key, NEW seq, Keyed(seq, S, key)
    PROVE  ListsOnce(seq, S)
<1> DEFINE R == {p \in S \X S : key[p[1]] < key[p[2]]}
           N == Cardinality(S)
<1>1. \A a, b \in S : <<a, b>> \in R <=> key[a] < key[b]
  OBVIOUS
<1>2. \A x \in S : RankIn(S, R, x) = Cardinality(Lower(S, key, x))
  <2> SUFFICES ASSUME NEW x \in S PROVE {y \in S : <<y, x>> \in R} = Lower(S, key, x)
    BY DEF RankIn
  <2> QED BY <1>1 DEF Lower
<1>3. R \in SUBSET (S \X S)
  OBVIOUS
<1> HIDE DEF R
<1>4. StrictOrder(S, R)
  BY <1>1 DEF StrictOrder, Keyed
<1>5. ASSUME NEW n \in 1..N PROVE seq[n] \in S /\ RankIn(S, R, seq[n]) = n - 1
  <2>1. N \in Nat /\ n - 1 \in 0..(N - 1)
    BY FS_CardinalityType
  <2>2. \E x \in S : Cardinality(Lower(S, key, x)) = n - 1
    BY <1>2, <1>4, <2>1, Ranks
  <2>3. seq[n] \in S /\ Cardinality(Lower(S, key, seq[n])) = n - 1
    BY <2>2 DEF Keyed
  <2> QED BY <1>2, <2>3
<1>6. Sorts(seq, S, R)
  BY <1>4, <1>5, SortedByRank DEF Keyed
<1> QED BY <1>4, <1>6, SortedListsOnce

LEMMA AscendingListsOnce ==
    ASSUME NEW values, IsFiniteSet(values), values \in SUBSET Int
    PROVE  ListsOnce(Ascending(values), values)
<1> DEFINE seq == InOrder(values, <)
           key == [v \in values |-> v]
           N == Cardinality(values)
           pick(n) == CHOOSE x \in values : Cardinality({y \in values : y < x}) = n - 1
<1>1. seq = [n \in 1..N |-> pick(n)]
  BY DEF InOrder
<1>2. \A x \in values : {y \in values : y < x} = Lower(values, key, x)
  BY DEF Lower
<1>3. /\ DOMAIN seq = 1..Cardinality(values) /\ seq = [n \in DOMAIN seq |-> seq[n]]
      /\ \A n \in 1..Cardinality(values) :
            (\E x \in values : Cardinality(Lower(values, key, x)) = n - 1)
                => seq[n] \in values /\ Cardinality(Lower(values, key, seq[n])) = n - 1
  <2> HIDE DEF seq, key, pick
  <2>1. DOMAIN seq = 1..Cardinality(values) /\ seq = [n \in DOMAIN seq |-> seq[n]]
    BY <1>1
  <2>2. ASSUME NEW n \in 1..Cardinality(values),
               \E x \in values : Cardinality(Lower(values, key, x)) = n - 1
        PROVE  seq[n] \in values /\ Cardinality(Lower(values, key, seq[n])) = n - 1
    <3>1. \E x \in values : Cardinality({y \in values : y < x}) = n - 1
      BY <1>2, <2>2
    <3>2. seq[n] = pick(n)
      BY <1>1
    <3>3. seq[n] \in values /\ Cardinality({y \in values : y < seq[n]}) = n - 1
      BY <3>1, <3>2 DEF pick
    <3> QED BY <1>2, <3>3
  <2> QED BY <2>1, <2>2
<1>4. (\A x \in values : key[x] \in Int) /\ \A x, y \in values : key[x] = key[y] => x = y
  OBVIOUS
<1> HIDE DEF seq, key
<1>5. Keyed(seq, values, key)
  BY <1>3, <1>4 DEF Keyed
<1>6. ListsOnce(seq, values)
  BY <1>5, NumbersAreListed
<1> QED BY <1>6 DEF Ascending, seq

LEMMA FrequenciesAreListed ==
    ASSUME NEW values \in SUBSET {"constantly", "often", "rarely", "neverSeen"}, IsFiniteSet(values)
    PROVE  ListsOnce(OrderedFrequencies(values), values)
<1> DEFINE seq == InOrder(values, LAMBDA a, b : FrequencyRank(a) < FrequencyRank(b))
           key == [v \in values |-> FrequencyRank(v)]
           N == Cardinality(values)
           pick(n) == CHOOSE x \in values : Cardinality({y \in values : FrequencyRank(y) < FrequencyRank(x)}) = n - 1
<1>1. seq = [n \in 1..N |-> pick(n)]
  BY DEF InOrder
<1>2. \A x \in values : {y \in values : FrequencyRank(y) < FrequencyRank(x)} = Lower(values, key, x)
  BY DEF Lower
<1>3. /\ DOMAIN seq = 1..Cardinality(values) /\ seq = [n \in DOMAIN seq |-> seq[n]]
      /\ \A n \in 1..Cardinality(values) :
            (\E x \in values : Cardinality(Lower(values, key, x)) = n - 1)
                => seq[n] \in values /\ Cardinality(Lower(values, key, seq[n])) = n - 1
  <2> HIDE DEF seq, key, pick
  <2>1. DOMAIN seq = 1..Cardinality(values) /\ seq = [n \in DOMAIN seq |-> seq[n]]
    BY <1>1
  <2>2. ASSUME NEW n \in 1..Cardinality(values),
               \E x \in values : Cardinality(Lower(values, key, x)) = n - 1
        PROVE  seq[n] \in values /\ Cardinality(Lower(values, key, seq[n])) = n - 1
    <3>1. \E x \in values : Cardinality({y \in values : FrequencyRank(y) < FrequencyRank(x)}) = n - 1
      BY <1>2, <2>2
    <3>2. seq[n] = pick(n)
      BY <1>1
    <3>3. seq[n] \in values /\ Cardinality({y \in values : FrequencyRank(y) < FrequencyRank(seq[n])}) = n - 1
      BY <3>1, <3>2 DEF pick
    <3> QED BY <1>2, <3>3
  <2> QED BY <2>1, <2>2
<1>4. FrequencyRank("constantly") = 0 /\ FrequencyRank("often") = 1
      /\ FrequencyRank("rarely") = 2 /\ FrequencyRank("neverSeen") = 3
  BY DEF FrequencyRank
<1>5. (\A x \in values : key[x] \in Int) /\ \A x, y \in values : key[x] = key[y] => x = y
  BY <1>4
<1> HIDE DEF seq, key
<1>6. Keyed(seq, values, key)
  BY <1>3, <1>5 DEF Keyed
<1>7. ListsOnce(seq, values)
  BY <1>6, NumbersAreListed
<1> QED BY <1>7 DEF OrderedFrequencies, seq

\* Nodes of one level: the id is the key.
NodeTable(nodes) ==
    /\ IsFiniteSet(nodes)
    /\ \A node \in nodes : NodeColumns(node)
    /\ \A a, b \in nodes : a.id = b.id => a = b

LEMMA SiblingsListsOnce ==
    ASSUME NEW nodes, NodeTable(nodes)
    PROVE  ListsOnce(Siblings(nodes), nodes)
<1> DEFINE R == {p \in nodes \X nodes : Before(Place(p[1]), Place(p[2]))}
           N == Cardinality(nodes)
           seq == InOrder(nodes, LAMBDA a, b : Before(Place(a), Place(b)))
           Nearer(x) == {y \in nodes : Before(Place(y), Place(x))}
           pick(n) == CHOOSE x \in nodes : Cardinality(Nearer(x)) = n - 1
<1>1. \A a, b \in nodes : <<a, b>> \in R <=> Before(Place(a), Place(b))
  OBVIOUS
<1>2. seq = [n \in 1..N |-> pick(n)]
  BY DEF InOrder
<1>3. R \in SUBSET (nodes \X nodes)
  OBVIOUS
<1> HIDE DEF R, seq
<1>4. StrictOrder(nodes, R)
  <2>1. \A a \in nodes : Place(a) \in [1..2 -> Int] /\ Place(a)[2] = a.id
    <3> TAKE a \in nodes
    <3>1. Place(a) = <<a.priority, a.id>> /\ a.priority \in Int /\ a.id \in Int
      BY DEF NodeTable, NodeColumns, Place
    <3>2. Place(a) \in Key(2) /\ Ends(Place(a), 2, a.id)
      BY <3>1, KeysOfColumns
    <3> QED BY <3>2, KeysAreFunctions DEF Ends
  <2>2. \A a, b \in nodes : a # b => Place(a) # Place(b)
    BY <2>1 DEF NodeTable
  <2>3. \A a, b \in nodes : Before(Place(a), Place(b)) => ~Before(Place(b), Place(a))
    BY <2>1, BeforeAsymmetric
  <2>4. \A a, b, c \in nodes : Before(Place(a), Place(b)) /\ Before(Place(b), Place(c)) => Before(Place(a), Place(c))
    BY <2>1, BeforeTransitive
  <2>5. \A a, b \in nodes : a # b => Before(Place(a), Place(b)) \/ Before(Place(b), Place(a))
    BY <2>1, <2>2, BeforeTotal
  <2> QED BY <1>1, <1>3, <2>3, <2>4, <2>5 DEF StrictOrder
<1>5. \A x \in nodes : RankIn(nodes, R, x) = Cardinality(Nearer(x))
  <2> SUFFICES ASSUME NEW x \in nodes PROVE {y \in nodes : <<y, x>> \in R} = Nearer(x)
    BY DEF RankIn
  <2> QED BY <1>1
<1> HIDE DEF Nearer, pick
<1>6. ASSUME NEW n \in 1..N PROVE seq[n] \in nodes /\ RankIn(nodes, R, seq[n]) = n - 1
  <2>1. N \in Nat /\ n - 1 \in 0..(N - 1)
    BY FS_CardinalityType DEF NodeTable
  <2>2. \E x \in nodes : Cardinality(Nearer(x)) = n - 1
    BY <1>4, <1>5, <2>1, Ranks DEF NodeTable
  <2>3. seq[n] \in nodes /\ Cardinality(Nearer(seq[n])) = n - 1
    BY <1>2, <2>2 DEF pick
  <2> QED BY <1>5, <2>3
<1>7. DOMAIN seq = 1..N /\ seq = [n \in DOMAIN seq |-> seq[n]]
  BY <1>2
<1>8. Sorts(seq, nodes, R)
  BY <1>4, <1>6, <1>7, SortedByRank DEF NodeTable
<1> QED BY <1>4, <1>8, SortedListsOnce DEF Siblings, seq

\* Each question is in a subsection of a section of a sheet, and has names for them.
ItemTree(items) ==
    /\ \A a, b \in items : /\ a.sheet.id = b.sheet.id => a.sheet = b.sheet
                           /\ a.section.id = b.section.id => a.section = b.section /\ a.sheet = b.sheet
                           /\ a.subsection.id = b.subsection.id => a.subsection = b.subsection
    /\ \A a \in items : a.section.name \in Int /\ a.subsection.name \in Int

\* The nodes of a level that the questions of a part of the table are in.
LEMMA NodesOfItems ==
    ASSUME NEW items, ItemTable(items), ItemTree(items), NEW part \in SUBSET items
    PROVE  /\ NodeTable({i.sheet : i \in part}) /\ NodeTable({i.section : i \in part})
           /\ NodeTable({i.subsection : i \in part})
<1>1. IsFiniteSet(part)
  BY FS_Subset DEF ItemTable
<1>2. /\ IsFiniteSet({i.sheet : i \in part}) /\ IsFiniteSet({i.section : i \in part})
      /\ IsFiniteSet({i.subsection : i \in part})
  <2>1. ASSUME NEW S, NEW f \in Surjection(part, S) PROVE IsFiniteSet(S)
    BY <1>1, FS_Surjection
  <2>2. [i \in part |-> i.sheet] \in Surjection(part, {i.sheet : i \in part})
    BY DEF Surjection
  <2>3. [i \in part |-> i.section] \in Surjection(part, {i.section : i \in part})
    BY DEF Surjection
  <2>4. [i \in part |-> i.subsection] \in Surjection(part, {i.subsection : i \in part})
    BY DEF Surjection
  <2> QED BY <2>1, <2>2, <2>3, <2>4
<1>3. \A i \in part : NodeColumns(i.sheet) /\ NodeColumns(i.section) /\ NodeColumns(i.subsection)
  BY DEF ItemTable, ItemColumns
<1>4. \A a, b \in part : /\ a.sheet.id = b.sheet.id => a.sheet = b.sheet
                         /\ a.section.id = b.section.id => a.section = b.section
                         /\ a.subsection.id = b.subsection.id => a.subsection = b.subsection
  BY DEF ItemTree
<1> QED BY <1>2, <1>3, <1>4 DEF NodeTable

\* The menu of the sheets is the tree of the questions: every path in it leads to one, and every
\* question is at the end of one.
MenuOfSheets(menu, items) ==
    /\ \A i \in DOMAIN menu :
          /\ \E item \in items : item.sheet.id = menu[i].id
          /\ \A j \in DOMAIN menu[i].sections :
                LET section == menu[i].sections[j]
                IN  /\ \E item \in items : item.sheet.id = menu[i].id /\ item.section.id = section.id
                    /\ \A k \in DOMAIN section.subsections :
                          \E item \in items : /\ item.sheet.id = menu[i].id /\ item.section.id = section.id
                                              /\ item.subsection.id = section.subsections[k]
    /\ \A item \in items :
          \E i \in DOMAIN menu : \E j \in DOMAIN menu[i].sections :
              \E k \in DOMAIN menu[i].sections[j].subsections :
                  /\ menu[i].id = item.sheet.id /\ menu[i].sections[j].id = item.section.id
                  /\ menu[i].sections[j].subsections[k] = item.subsection.id

LEMMA SheetsAreOffered ==
    ASSUME NEW items, ItemTable(items), ItemTree(items)
    PROVE  MenuOfSheets(SheetOptions(items), items)
<1> DEFINE paths == WithItems(items)
           Below(section) == Siblings({p.subsection : p \in {q \in paths : q.section = section}})
           Under(sheet) == Siblings({p.section : p \in {q \in paths : q.sheet = sheet}})
           sheets == Siblings({p.sheet : p \in paths})
           Names(section) == [k \in DOMAIN Below(section) |-> Below(section)[k].id]
           Sections(sheet) == [j \in DOMAIN Under(sheet) |->
                                  [id |-> Under(sheet)[j].id, subsections |-> Names(Under(sheet)[j])]]
           menu == SheetOptions(items)
<1>1. menu = [i \in DOMAIN sheets |-> [id |-> sheets[i].id, sections |-> Sections(sheets[i])]]
  BY DEF SheetOptions
<1> DEFINE InSheet(sheet) == {i.section : i \in {q \in items : q.sheet = sheet}}
           InSection(section) == {i.subsection : i \in {q \in items : q.section = section}}
<1>2. /\ {p.sheet : p \in paths} = {i.sheet : i \in items}
      /\ \A sheet : {p.section : p \in {q \in paths : q.sheet = sheet}} = InSheet(sheet)
      /\ \A section : {p.subsection : p \in {q \in paths : q.section = section}} = InSection(section)
  <2> DEFINE Path(item) == [sheet |-> item.sheet, section |-> item.section, subsection |-> item.subsection]
             Leads(p, item) == p.sheet = item.sheet /\ p.section = item.section /\ p.subsection = item.subsection
  <2>11. paths = {Path(item) : item \in items}
    BY DEF WithItems
  <2>12. \A item : Leads(Path(item), item)
    OBVIOUS
  <2> HIDE DEF Path, Leads
  <2>13. /\ \A item \in items : \E p \in paths : Leads(p, item)
        /\ \A p \in paths : \E item \in items : Leads(p, item)
    BY <2>11, <2>12
  <2>1. /\ \A item \in items :
              \E p \in paths : p.sheet = item.sheet /\ p.section = item.section /\ p.subsection = item.subsection
        /\ \A p \in paths :
              \E item \in items : p.sheet = item.sheet /\ p.section = item.section /\ p.subsection = item.subsection
    BY <2>13 DEF Leads
  <2> HIDE DEF paths
  <2>2. {p.sheet : p \in paths} = {i.sheet : i \in items}
    BY <2>1
  <2>3. ASSUME NEW sheet
        PROVE  {p.section : p \in {q \in paths : q.sheet = sheet}} = InSheet(sheet)
    <3>1. ASSUME NEW p \in paths, p.sheet = sheet PROVE p.section \in InSheet(sheet)
      BY <2>1, <3>1
    <3>2. ASSUME NEW i \in items, i.sheet = sheet
          PROVE  i.section \in {p.section : p \in {q \in paths : q.sheet = sheet}}
      BY <2>1, <3>2
    <3> QED BY <3>1, <3>2
  <2>4. ASSUME NEW section
        PROVE  {p.subsection : p \in {q \in paths : q.section = section}} = InSection(section)
    <3>1. ASSUME NEW p \in paths, p.section = section PROVE p.subsection \in InSection(section)
      BY <2>1, <3>1
    <3>2. ASSUME NEW i \in items, i.section = section
          PROVE  i.subsection \in {p.subsection : p \in {q \in paths : q.section = section}}
      BY <2>1, <3>2
    <3> QED BY <3>1, <3>2
  <2> QED BY <2>2, <2>3, <2>4
<1>3. ListsOnce(sheets, {i.sheet : i \in items})
  BY <1>2, NodesOfItems, SiblingsListsOnce
<1>4. ASSUME NEW sheet PROVE ListsOnce(Under(sheet), InSheet(sheet))
  <2>1. NodeTable(InSheet(sheet))
    BY NodesOfItems
  <2>2. {p.section : p \in {q \in paths : q.sheet = sheet}} = InSheet(sheet)
    BY <1>2
  <2> HIDE DEF InSheet
  <2>3. ListsOnce(Siblings(InSheet(sheet)), InSheet(sheet))
    BY <2>1, SiblingsListsOnce
  <2> QED BY <2>2, <2>3
<1>5. ASSUME NEW section
      PROVE  ListsOnce(Below(section), InSection(section))
  <2>1. NodeTable(InSection(section))
    BY NodesOfItems
  <2>2. {p.subsection : p \in {q \in paths : q.section = section}} = InSection(section)
    BY <1>2
  <2> HIDE DEF InSection
  <2>3. ListsOnce(Siblings(InSection(section)), InSection(section))
    BY <2>1, SiblingsListsOnce
  <2> QED BY <2>2, <2>3
<1> HIDE DEF paths, Below, Under, sheets, menu
<1>6. /\ \A i \in DOMAIN sheets : \E item \in items : sheets[i] = item.sheet
      /\ \A item \in items : \E i \in DOMAIN sheets : sheets[i] = item.sheet
  <2> DEFINE Sheets == {i.sheet : i \in items}
  <2>1. /\ \A x \in Sheets : \E item \in items : x = item.sheet
        /\ \A item \in items : item.sheet \in Sheets
    OBVIOUS
  <2> HIDE DEF Sheets
  <2>2. /\ \A i \in DOMAIN sheets : sheets[i] \in Sheets
        /\ \A x \in Sheets : \E i \in DOMAIN sheets : sheets[i] = x
    BY <1>3 DEF ListsOnce, Sheets
  <2> QED BY <2>1, <2>2
<1>7. ASSUME NEW sheet
      PROVE  /\ \A j \in DOMAIN Under(sheet) :
                   \E item \in items : item.sheet = sheet /\ Under(sheet)[j] = item.section
             /\ \A item \in items : item.sheet = sheet => \E j \in DOMAIN Under(sheet) : Under(sheet)[j] = item.section
  <2>1. /\ \A x \in InSheet(sheet) : \E item \in items : item.sheet = sheet /\ x = item.section
        /\ \A item \in items : item.sheet = sheet => item.section \in InSheet(sheet)
    OBVIOUS
  <2> HIDE DEF InSheet
  <2> QED BY <2>1, <1>4 DEF ListsOnce
<1>8. ASSUME NEW section
      PROVE  /\ \A k \in DOMAIN Below(section) :
                   \E item \in items : item.section = section /\ Below(section)[k] = item.subsection
             /\ \A item \in items : item.section = section
                   => \E k \in DOMAIN Below(section) : Below(section)[k] = item.subsection
  <2>1. /\ \A x \in InSection(section) : \E item \in items : item.section = section /\ x = item.subsection
        /\ \A item \in items : item.section = section => item.subsection \in InSection(section)
    OBVIOUS
  <2> HIDE DEF InSection
  <2> QED BY <2>1, <1>5 DEF ListsOnce
<1>9. /\ DOMAIN menu = DOMAIN sheets
      /\ \A i \in DOMAIN sheets : menu[i].id = sheets[i].id /\ menu[i].sections = Sections(sheets[i])
  BY <1>1
<1>10. \A sheet : /\ DOMAIN Sections(sheet) = DOMAIN Under(sheet)
                  /\ \A j \in DOMAIN Under(sheet) :
                        /\ Sections(sheet)[j].id = Under(sheet)[j].id
                        /\ Sections(sheet)[j].subsections = Names(Under(sheet)[j])
  OBVIOUS
<1>11. \A section : /\ DOMAIN Names(section) = DOMAIN Below(section)
                    /\ \A k \in DOMAIN Below(section) : Names(section)[k] = Below(section)[k].id
  OBVIOUS
<1> HIDE DEF Sections, Names
<1>12. ASSUME NEW i \in DOMAIN menu
       PROVE  /\ \E item \in items : item.sheet.id = menu[i].id
              /\ \A j \in DOMAIN menu[i].sections :
                    /\ \E item \in items : item.sheet.id = menu[i].id /\ item.section.id = menu[i].sections[j].id
                    /\ \A k \in DOMAIN menu[i].sections[j].subsections :
                          \E item \in items : /\ item.sheet.id = menu[i].id
                                              /\ item.section.id = menu[i].sections[j].id
                                              /\ item.subsection.id = menu[i].sections[j].subsections[k]
  <2>1. menu[i].id = sheets[i].id /\ menu[i].sections = Sections(sheets[i]) /\ i \in DOMAIN sheets
    BY <1>9
  <2>2. \E item \in items : item.sheet.id = menu[i].id
    BY <1>6, <2>1
  <2>3. ASSUME NEW j \in DOMAIN menu[i].sections
        PROVE  /\ \E item \in items : item.sheet.id = menu[i].id /\ item.section.id = menu[i].sections[j].id
               /\ \A k \in DOMAIN menu[i].sections[j].subsections :
                     \E item \in items : /\ item.sheet.id = menu[i].id
                                         /\ item.section.id = menu[i].sections[j].id
                                         /\ item.subsection.id = menu[i].sections[j].subsections[k]
    <3> DEFINE section == Under(sheets[i])[j]
    <3>1. j \in DOMAIN Under(sheets[i]) /\ menu[i].sections[j].id = section.id
          /\ menu[i].sections[j].subsections = Names(section)
      BY <1>10, <2>1
    <3>2. PICK above \in items : above.sheet = sheets[i] /\ section = above.section
      BY <1>7, <3>1
    <3>3. ASSUME NEW k \in DOMAIN menu[i].sections[j].subsections
          PROVE  \E item \in items : /\ item.sheet.id = menu[i].id
                                     /\ item.section.id = menu[i].sections[j].id
                                     /\ item.subsection.id = menu[i].sections[j].subsections[k]
      <4>1. k \in DOMAIN Below(section) /\ menu[i].sections[j].subsections[k] = Below(section)[k].id
        BY <1>11, <3>1
      <4>2. PICK item \in items : item.section = section /\ Below(section)[k] = item.subsection
        BY <1>8, <4>1
      <4>3. item.sheet = above.sheet
        BY <3>2, <4>2 DEF ItemTree
      <4> QED BY <2>1, <3>1, <3>2, <4>1, <4>2, <4>3
    <3> QED BY <2>1, <3>1, <3>2, <3>3
  <2> QED BY <2>2, <2>3
<1>13. ASSUME NEW item \in items
       PROVE  \E i \in DOMAIN menu : \E j \in DOMAIN menu[i].sections :
                  \E k \in DOMAIN menu[i].sections[j].subsections :
                      /\ menu[i].id = item.sheet.id /\ menu[i].sections[j].id = item.section.id
                      /\ menu[i].sections[j].subsections[k] = item.subsection.id
  <2>1. PICK i \in DOMAIN menu : sheets[i] = item.sheet
    BY <1>6, <1>9
  <2>2. menu[i].id = item.sheet.id /\ menu[i].sections = Sections(item.sheet)
    BY <1>9, <2>1
  <2>3. PICK j \in DOMAIN Under(item.sheet) : Under(item.sheet)[j] = item.section
    BY <1>7
  <2>4. /\ j \in DOMAIN menu[i].sections /\ menu[i].sections[j].id = item.section.id
        /\ menu[i].sections[j].subsections = Names(item.section)
    BY <1>10, <2>2, <2>3
  <2>5. PICK k \in DOMAIN Below(item.section) : Below(item.section)[k] = item.subsection
    BY <1>8
  <2>6. k \in DOMAIN menu[i].sections[j].subsections /\ menu[i].sections[j].subsections[k] = item.subsection.id
    BY <1>11, <2>4, <2>5
  <2> QED BY <2>2, <2>4, <2>6
<1> QED BY <1>12, <1>13 DEF MenuOfSheets, menu

\* No filter but what is chosen in the menus.
Chosen(sheets, sections, subsections) ==
    [sheets |-> sheets, sections |-> sections, sectionNames |-> {}, subsections |-> subsections,
     subsectionNames |-> {}, grades |-> {}, frequencies |-> {}, statuses |-> {}, from |-> NoValue,
     to |-> NoValue, search |-> NoValue, missing |-> NoValue]

\* The menus are read with no write in between.
MenusReadTogether(read, items) ==
    /\ read.sheets = items /\ read.sections = items /\ read.subsections = items
    /\ read.grades = items /\ read.frequencies = items

\* In a table that does not change, choosing any value that a menu offers finds something, whether
\* the choice is a place in the tree of the sheets or a name, a grade or a frequency; and every
\* question is found under its place in the tree and under its value in each of the other menus,
\* or has none.
THEOREM MenusOfferWhatThereIs ==
    ASSUME NEW items, ItemTable(items), ItemTree(items), NEW read, MenusReadTogether(read, items),
           \A item \in items : item.frequency \in {"constantly", "often", "rarely", "neverSeen", NoValue},
           NoValue \notin Int \cup {"constantly", "often", "rarely", "neverSeen"}
    PROVE  LET menu == FilterOptions(read)
               Finds(filters) == Filtered(items, filters) # {}
               Every == Chosen({}, {}, {})
           IN  /\ \A i \in DOMAIN menu.sheets :
                     LET sheet == menu.sheets[i]
                     IN  /\ Finds(Chosen({sheet.id}, {}, {}))
                         /\ \A j \in DOMAIN sheet.sections :
                               LET section == sheet.sections[j]
                               IN  /\ Finds(Chosen({sheet.id}, {section.id}, {}))
                                   /\ \A k \in DOMAIN section.subsections :
                                         Finds(Chosen({sheet.id}, {section.id}, {section.subsections[k]}))
               /\ \A i \in DOMAIN menu.sections : Finds([Every EXCEPT !.sectionNames = {menu.sections[i]}])
               /\ \A i \in DOMAIN menu.subsections : Finds([Every EXCEPT !.subsectionNames = {menu.subsections[i]}])
               /\ \A i \in DOMAIN menu.grades : Finds([Every EXCEPT !.grades = {menu.grades[i]}])
               /\ \A i \in DOMAIN menu.frequencies : Finds([Every EXCEPT !.frequencies = {menu.frequencies[i]}])
               /\ \A item \in items :
                     /\ \E i \in DOMAIN menu.sheets : \E j \in DOMAIN menu.sheets[i].sections :
                           \E k \in DOMAIN menu.sheets[i].sections[j].subsections :
                               item \in Filtered(items, Chosen({menu.sheets[i].id}, {menu.sheets[i].sections[j].id},
                                                               {menu.sheets[i].sections[j].subsections[k]}))
                     /\ \E i \in DOMAIN menu.sections : menu.sections[i] = item.section.name
                     /\ \E i \in DOMAIN menu.subsections : menu.subsections[i] = item.subsection.name
                     /\ item.grade # NoValue => \E i \in DOMAIN menu.grades : menu.grades[i] = item.grade
                     /\ item.frequency # NoValue =>
                           \E i \in DOMAIN menu.frequencies : menu.frequencies[i] = item.frequency
<1> DEFINE menu == FilterOptions(read)
           Every == Chosen({}, {}, {})
           sections == {i.section.name : i \in items}
           subsections == {i.subsection.name : i \in items}
           grades == {i.grade : i \in items} \ {NoValue}
           frequencies == {i.frequency : i \in items} \ {NoValue}
<1>1. /\ menu.sheets = SheetOptions(items)
      /\ menu.sections = Ascending(sections) /\ menu.subsections = Ascending(subsections)
      /\ menu.grades = Ascending(grades) /\ menu.frequencies = OrderedFrequencies(frequencies)
  BY DEF FilterOptions, MenusReadTogether
<1>2. MenuOfSheets(menu.sheets, items)
  BY <1>1, SheetsAreOffered
<1>3. /\ IsFiniteSet(sections) /\ IsFiniteSet(subsections)
      /\ IsFiniteSet(grades) /\ IsFiniteSet(frequencies)
  <2>1. ASSUME NEW S, NEW f \in Surjection(items, S) PROVE IsFiniteSet(S)
    BY FS_Surjection DEF ItemTable
  <2>2. /\ [i \in items |-> i.section.name] \in Surjection(items, sections)
        /\ [i \in items |-> i.subsection.name] \in Surjection(items, subsections)
    BY DEF Surjection
  <2>3. /\ [i \in items |-> i.grade] \in Surjection(items, {i.grade : i \in items})
        /\ [i \in items |-> i.frequency] \in Surjection(items, {i.frequency : i \in items})
    BY DEF Surjection
  <2>4. IsFiniteSet({i.grade : i \in items}) /\ IsFiniteSet({i.frequency : i \in items})
    BY <2>1, <2>3
  <2>5. grades \in SUBSET {i.grade : i \in items} /\ frequencies \in SUBSET {i.frequency : i \in items}
    OBVIOUS
  <2>6. IsFiniteSet(grades) /\ IsFiniteSet(frequencies)
    BY <2>4, <2>5, FS_Subset
  <2> QED BY <2>1, <2>2, <2>6
<1>4. sections \in SUBSET Int /\ subsections \in SUBSET Int
  BY DEF ItemTree
<1>5. grades \in SUBSET Int
  BY DEF ItemTable, ItemColumns
<1>6. frequencies \in SUBSET {"constantly", "often", "rarely", "neverSeen"}
  OBVIOUS
<1>7. /\ \A x \in sections : \E item \in items : item.section.name = x
      /\ \A x \in subsections : \E item \in items : item.subsection.name = x
      /\ \A x \in grades : x # NoValue /\ \E item \in items : item.grade = x
      /\ \A x \in frequencies : x # NoValue /\ \E item \in items : item.frequency = x
      /\ \A item \in items : /\ item.section.name \in sections /\ item.subsection.name \in subsections
                             /\ item.grade # NoValue => item.grade \in grades
                             /\ item.frequency # NoValue => item.frequency \in frequencies
  OBVIOUS
<1> HIDE DEF sections, subsections, grades, frequencies, menu
<1>8. /\ ListsOnce(menu.sections, sections) /\ ListsOnce(menu.subsections, subsections)
      /\ ListsOnce(menu.grades, grades) /\ ListsOnce(menu.frequencies, frequencies)
  BY <1>1, <1>3, <1>4, <1>5, <1>6, AscendingListsOnce, FrequenciesAreListed
<1>9. \A item \in items :
         /\ item.sheet.id # NoValue /\ item.section.id # NoValue /\ item.subsection.id # NoValue
         /\ item.section.name # NoValue /\ item.subsection.name # NoValue
  BY DEF ItemTable, ItemColumns, NodeColumns, ItemTree
<1>10. ASSUME NEW item \in items
       PROVE  /\ item \in Filtered(items, Chosen({item.sheet.id}, {}, {}))
              /\ item \in Filtered(items, Chosen({item.sheet.id}, {item.section.id}, {}))
              /\ item \in Filtered(items, Chosen({item.sheet.id}, {item.section.id}, {item.subsection.id}))
              /\ item \in Filtered(items, [Every EXCEPT !.sectionNames = {item.section.name}])
              /\ item \in Filtered(items, [Every EXCEPT !.subsectionNames = {item.subsection.name}])
              /\ item.grade # NoValue => item \in Filtered(items, [Every EXCEPT !.grades = {item.grade}])
              /\ item.frequency # NoValue =>
                    item \in Filtered(items, [Every EXCEPT !.frequencies = {item.frequency}])
  <2>1. ASSUME NEW filters,
               /\ filters.from = NoValue /\ filters.to = NoValue
               /\ filters.search = NoValue /\ filters.missing = NoValue
        PROVE  StateFilter(item, filters)
    BY <2>1 DEF StateFilter
  <2>2. \A value, list : value # NoValue /\ list = {value} => Within(value, list)
    BY DEF Within
  <2>3. \A value : Within(value, {})
    BY DEF Within
  <2>4. ASSUME NEW sheets, NEW places, NEW subplaces,
               sheets \in {{}, {item.sheet.id}}, places \in {{}, {item.section.id}},
               subplaces \in {{}, {item.subsection.id}}
        PROVE  item \in Filtered(items, Chosen(sheets, places, subplaces))
    BY <1>9, <2>1, <2>2, <2>3, <2>4, SMTT(30) DEF Chosen, DimensionFilter, Filtered
  <2>5. item \in Filtered(items, [Every EXCEPT !.sectionNames = {item.section.name}])
    BY <1>9, <2>1, <2>2, <2>3 DEF Chosen, DimensionFilter, Filtered
  <2>6. item \in Filtered(items, [Every EXCEPT !.subsectionNames = {item.subsection.name}])
    BY <1>9, <2>1, <2>2, <2>3 DEF Chosen, DimensionFilter, Filtered
  <2>7. item.grade # NoValue => item \in Filtered(items, [Every EXCEPT !.grades = {item.grade}])
    BY <2>1, <2>2, <2>3 DEF Chosen, DimensionFilter, Filtered
  <2>8. item.frequency # NoValue => item \in Filtered(items, [Every EXCEPT !.frequencies = {item.frequency}])
    BY <2>1, <2>2, <2>3 DEF Chosen, DimensionFilter, Filtered
  <2> HIDE DEF Every
  <2> QED BY <2>4, <2>5, <2>6, <2>7, <2>8
<1> HIDE DEF Every
<1>11. ASSUME NEW i \in DOMAIN menu.sheets
       PROVE  /\ Filtered(items, Chosen({menu.sheets[i].id}, {}, {})) # {}
              /\ \A j \in DOMAIN menu.sheets[i].sections :
                    /\ Filtered(items, Chosen({menu.sheets[i].id}, {menu.sheets[i].sections[j].id}, {})) # {}
                    /\ \A k \in DOMAIN menu.sheets[i].sections[j].subsections :
                          Filtered(items, Chosen({menu.sheets[i].id}, {menu.sheets[i].sections[j].id},
                                                 {menu.sheets[i].sections[j].subsections[k]})) # {}
  <2>1. PICK item \in items : item.sheet.id = menu.sheets[i].id
    BY <1>2 DEF MenuOfSheets
  <2>2. ASSUME NEW j \in DOMAIN menu.sheets[i].sections
        PROVE  Filtered(items, Chosen({menu.sheets[i].id}, {menu.sheets[i].sections[j].id}, {})) # {}
    <3>1. PICK found \in items : /\ found.sheet.id = menu.sheets[i].id
                                 /\ found.section.id = menu.sheets[i].sections[j].id
      BY <1>2 DEF MenuOfSheets
    <3> QED BY <1>10, <3>1
  <2>3. ASSUME NEW j \in DOMAIN menu.sheets[i].sections,
               NEW k \in DOMAIN menu.sheets[i].sections[j].subsections
        PROVE  Filtered(items, Chosen({menu.sheets[i].id}, {menu.sheets[i].sections[j].id},
                                      {menu.sheets[i].sections[j].subsections[k]})) # {}
    <3>1. PICK found \in items : /\ found.sheet.id = menu.sheets[i].id
                                 /\ found.section.id = menu.sheets[i].sections[j].id
                                 /\ found.subsection.id = menu.sheets[i].sections[j].subsections[k]
      BY <1>2 DEF MenuOfSheets
    <3> QED BY <1>10, <3>1
  <2> QED BY <1>10, <2>1, <2>2, <2>3
<1>12. /\ \A i \in DOMAIN menu.sections :
             Filtered(items, [Every EXCEPT !.sectionNames = {menu.sections[i]}]) # {}
       /\ \A i \in DOMAIN menu.subsections :
             Filtered(items, [Every EXCEPT !.subsectionNames = {menu.subsections[i]}]) # {}
       /\ \A i \in DOMAIN menu.grades :
             Filtered(items, [Every EXCEPT !.grades = {menu.grades[i]}]) # {}
       /\ \A i \in DOMAIN menu.frequencies :
             Filtered(items, [Every EXCEPT !.frequencies = {menu.frequencies[i]}]) # {}
  <2>1. ASSUME NEW i \in DOMAIN menu.sections
        PROVE  Filtered(items, [Every EXCEPT !.sectionNames = {menu.sections[i]}]) # {}
    <3>1. PICK item \in items : item.section.name = menu.sections[i]
      BY <1>7, <1>8 DEF ListsOnce
    <3> QED BY <1>10, <3>1
  <2>2. ASSUME NEW i \in DOMAIN menu.subsections
        PROVE  Filtered(items, [Every EXCEPT !.subsectionNames = {menu.subsections[i]}]) # {}
    <3>1. PICK item \in items : item.subsection.name = menu.subsections[i]
      BY <1>7, <1>8 DEF ListsOnce
    <3> QED BY <1>10, <3>1
  <2>3. ASSUME NEW i \in DOMAIN menu.grades
        PROVE  Filtered(items, [Every EXCEPT !.grades = {menu.grades[i]}]) # {}
    <3>1. PICK item \in items : item.grade = menu.grades[i] /\ item.grade # NoValue
      BY <1>7, <1>8 DEF ListsOnce
    <3> QED BY <1>10, <3>1
  <2>4. ASSUME NEW i \in DOMAIN menu.frequencies
        PROVE  Filtered(items, [Every EXCEPT !.frequencies = {menu.frequencies[i]}]) # {}
    <3>1. PICK item \in items : item.frequency = menu.frequencies[i] /\ item.frequency # NoValue
      BY <1>7, <1>8 DEF ListsOnce
    <3> QED BY <1>10, <3>1
  <2> QED BY <2>1, <2>2, <2>3, <2>4
<1>13. ASSUME NEW item \in items
       PROVE  /\ \E i \in DOMAIN menu.sheets : \E j \in DOMAIN menu.sheets[i].sections :
                     \E k \in DOMAIN menu.sheets[i].sections[j].subsections :
                         item \in Filtered(items, Chosen({menu.sheets[i].id}, {menu.sheets[i].sections[j].id},
                                                         {menu.sheets[i].sections[j].subsections[k]}))
              /\ \E i \in DOMAIN menu.sections : menu.sections[i] = item.section.name
              /\ \E i \in DOMAIN menu.subsections : menu.subsections[i] = item.subsection.name
              /\ item.grade # NoValue => \E i \in DOMAIN menu.grades : menu.grades[i] = item.grade
              /\ item.frequency # NoValue =>
                    \E i \in DOMAIN menu.frequencies : menu.frequencies[i] = item.frequency
  <2>1. PICK i \in DOMAIN menu.sheets : \E j \in DOMAIN menu.sheets[i].sections :
              \E k \in DOMAIN menu.sheets[i].sections[j].subsections :
                  /\ menu.sheets[i].id = item.sheet.id /\ menu.sheets[i].sections[j].id = item.section.id
                  /\ menu.sheets[i].sections[j].subsections[k] = item.subsection.id
    BY <1>2 DEF MenuOfSheets
  <2>2. \E j \in DOMAIN menu.sheets[i].sections :
            \E k \in DOMAIN menu.sheets[i].sections[j].subsections :
                item \in Filtered(items, Chosen({menu.sheets[i].id}, {menu.sheets[i].sections[j].id},
                                                {menu.sheets[i].sections[j].subsections[k]}))
    BY <1>10, <2>1
  <2> QED BY <1>7, <1>8, <2>2 DEF ListsOnce
<1> QED BY <1>11, <1>12, <1>13 DEF menu, Every

-----------------------------------------------------------------------------
(* The searches by name.                                                    *)

\* The rows of a table of names: the id is the key, the names have their rank in the collation.
NameTable(rows, language) ==
    /\ IsFiniteSet(rows)
    /\ \A row \in rows : row.id \in Int /\ row.score \in Int /\ row.names[language] \in Int
    /\ \A a, b \in rows : a.id = b.id => a = b

\* What a search may find: what the pattern matches, and for long queries what is similar.
Matching(rows, query) ==
    {row \in rows : \/ \E text \in Columns(row) : text.contains
                    \/ FuzzySearchAllowed(query) /\ \E text \in Columns(row) : text.similar}

Better(rows, language) ==
    {p \in rows \X rows : Before(SearchOrdering(p[1], language), SearchOrdering(p[2], language))}

\* The two statements find the same rows in the same order, for every table and every query.
THEOREM SearchesAgree ==
    \A rows, query : SearchTags(rows, query) = SearchResources(rows, query)
<1> TAKE rows, query
<1>1. SearchTags(rows, query) = Best(Matching(rows, query), query)
  BY DEF SearchTags, Matching
<1>2. CASE FuzzySearchAllowed(query)
  <2>1. Candidates(rows) = Matching(rows, query)
    <3>1. ASSUME NEW row \in rows
          PROVE  row \in Matching(rows, query) <=> row \in Candidates(rows)
      <4>1. row \in Matching(rows, query) <=>
               (\E text \in Columns(row) : text.contains) \/ \E text \in Columns(row) : text.similar
        BY <1>2 DEF Matching
      <4>2. row \in Candidates(rows) <=>
               \E column \in {"ru", "en", "third"} : row[column].contains \/ row[column].similar
        BY DEF Candidates
      <4>3. \E column \in {"ru", "en", "third"} : row[column].contains \/ row[column].similar
            <=> \/ row.ru.contains \/ row.ru.similar \/ row.en.contains \/ row.en.similar
                \/ row.third.contains \/ row.third.similar
        OBVIOUS
      <4>4. Columns(row) = {row.ru, row.en, row.third}
        BY DEF Columns
      <4>5. /\ (\E text \in Columns(row) : text.contains)
                 <=> row.ru.contains \/ row.en.contains \/ row.third.contains
            /\ (\E text \in Columns(row) : text.similar)
                 <=> row.ru.similar \/ row.en.similar \/ row.third.similar
        BY <4>4
      <4> QED BY <4>1, <4>2, <4>3, <4>5
    <3>4. \A row : row \in Candidates(rows) => row \in rows
      BY DEF Candidates
    <3>5. \A row : row \in Matching(rows, query) => row \in rows
      BY DEF Matching
    <3> QED BY <3>1, <3>4, <3>5
  <2> QED BY <1>1, <1>2, <2>1 DEF SearchResources
<1>3. CASE ~FuzzySearchAllowed(query)
  <2>1. Matching(rows, query) = {row \in rows : \E text \in Columns(row) : text.contains}
    BY <1>3 DEF Matching
  <2> QED BY <1>1, <1>3, <2>1 DEF SearchResources
<1> QED BY <1>2, <1>3

LEMMA SearchOrderIsTotal ==
    ASSUME NEW language, NEW rows, NameTable(rows, language)
    PROVE  StrictOrder(rows, Better(rows, language))
<1> DEFINE key(row) == SearchOrdering(row, language)
<1>1. \A row \in rows : key(row) \in [1..4 -> Int] /\ key(row)[4] = row.id
  <2> TAKE row \in rows
  <2>1. SearchRank(row, language) \in Int
    BY DEF SearchRank
  <2>2. -row.score \in Int /\ row.names[language] \in Int /\ row.id \in Int
    BY DEF NameTable
  <2>3. Ends(key(row), 4, row.id)
    BY <2>1, <2>2, KeysOfColumns DEF SearchOrdering
  <2> HIDE DEF key
  <2> QED BY <2>3, KeysAreFunctions DEF Ends
<1>2. \A a, b \in rows : a # b => key(a) # key(b)
  <2> HIDE DEF key
  <2> QED BY <1>1 DEF NameTable
<1>3. \A a, b \in rows : <<a, b>> \in Better(rows, language) <=> Before(key(a), key(b))
  BY DEF Better
<1> HIDE DEF key
<1>4. \A a, b, c \in rows : Before(key(a), key(b)) /\ Before(key(b), key(c)) => Before(key(a), key(c))
  BY <1>1, BeforeTransitive
<1>5. \A a, b \in rows : Before(key(a), key(b)) => ~Before(key(b), key(a))
  BY <1>1, BeforeAsymmetric
<1>6. \A a, b \in rows : a # b => Before(key(a), key(b)) \/ Before(key(b), key(a))
  BY <1>1, <1>2, BeforeTotal
<1> QED BY <1>3, <1>4, <1>5, <1>6 DEF StrictOrder

\* An answer is the start of all that is found, in the order of the search.
LEMMA BestInOrder ==
    ASSUME NEW language, NEW rows, NameTable(rows, language)
    PROVE  \E sorted :
               /\ Sorts(sorted, rows, Better(rows, language))
               /\ \A query : query.language = language => Best(rows, query) = PageOf(sorted, 1, query.limit)
<1> DEFINE R == Better(rows, language)
           N == Cardinality(rows)
           seq == InOrder(rows, LAMBDA a, b : Before(SearchOrdering(a, language), SearchOrdering(b, language)))
<1>1. \A a, b \in rows : <<a, b>> \in R <=> Before(SearchOrdering(a, language), SearchOrdering(b, language))
  BY DEF Better
<1>2. StrictOrder(rows, R)
  BY SearchOrderIsTotal
<1>3. \A x \in rows : RankIn(rows, R, x) =
         Cardinality({y \in rows : Before(SearchOrdering(y, language), SearchOrdering(x, language))})
  <2> SUFFICES ASSUME NEW x \in rows
               PROVE  {y \in rows : <<y, x>> \in R}
                        = {y \in rows : Before(SearchOrdering(y, language), SearchOrdering(x, language))}
    BY DEF RankIn
  <2> QED BY <1>1
<1> DEFINE pick(n) ==
        CHOOSE x \in rows :
            Cardinality({y \in rows : Before(SearchOrdering(y, language), SearchOrdering(x, language))}) = n - 1
<1>4. seq = [n \in 1..N |-> pick(n)]
  BY DEF InOrder
<1>5. \A query : query.language = language => Best(rows, query) = PageOf(seq, 1, query.limit)
  BY DEF Best
<1>6. DOMAIN seq = 1..N /\ seq = [n \in DOMAIN seq |-> seq[n]]
  <2> HIDE DEF seq, pick
  <2> QED BY <1>4
<1> HIDE DEF R, seq
<1>7. ASSUME NEW n \in 1..N PROVE seq[n] \in rows /\ RankIn(rows, R, seq[n]) = n - 1
  <2>1. N \in Nat /\ n - 1 \in 0..(N - 1)
    BY FS_CardinalityType DEF NameTable
  <2>2. \E x \in rows : RankIn(rows, R, x) = n - 1
    BY <1>2, <2>1, Ranks DEF NameTable
  <2>3. \E x \in rows : Cardinality({y \in rows : Before(SearchOrdering(y, language), SearchOrdering(x, language))})
                            = n - 1
    BY <1>3, <2>2
  <2>4. /\ seq[n] \in rows
        /\ Cardinality({y \in rows : Before(SearchOrdering(y, language), SearchOrdering(seq[n], language))}) = n - 1
    BY <1>4, <2>3
  <2> QED BY <1>3, <2>4
<1>8. Sorts(seq, rows, R)
  BY <1>2, <1>6, <1>7, SortedByRank DEF NameTable
<1> QED BY <1>5, <1>8 DEF R

\* S is all that a query of this length may find, and sorted has it in order: every answer is the
\* start of it.
AnswersFrom(rows, language, length, S, sorted) ==
    /\ S \subseteq rows /\ Sorts(sorted, S, Better(S, language)) /\ sorted \in Seq(S)
    /\ Len(sorted) = Cardinality(S) /\ Cardinality(S) \in Nat
    /\ \A query : query.language = language /\ query.length = length /\ query.limit \in Nat =>
          /\ Matching(rows, query) = S /\ SearchTags(rows, query) \in Seq(S)
          /\ Len(SearchTags(rows, query)) = IF query.limit <= Len(sorted) THEN query.limit ELSE Len(sorted)
          /\ \A i \in 1..Len(SearchTags(rows, query)) :
                i \in 1..Len(sorted) /\ SearchTags(rows, query)[i] = sorted[i]

LEMMA AnswerInOrder ==
    ASSUME NEW rows, NEW language, NameTable(rows, language), NEW length
    PROVE  \E S, sorted : AnswersFrom(rows, language, length, S, sorted)
<1> DEFINE S == {row \in rows : \/ \E text \in Columns(row) : text.contains
                                \/ length >= MinFuzzyLength /\ \E text \in Columns(row) : text.similar}
<1>1. \A query : query.length = length => Matching(rows, query) = S
  BY DEF Matching, FuzzySearchAllowed
<1>2. S \subseteq rows /\ NameTable(S, language)
  BY FS_Subset DEF NameTable
<1> HIDE DEF S
<1>3. PICK sorted : /\ Sorts(sorted, S, Better(S, language))
                    /\ \A query : query.language = language => Best(S, query) = PageOf(sorted, 1, query.limit)
  BY <1>2, BestInOrder
<1>4. sorted \in Seq(S) /\ Len(sorted) = Cardinality(S) /\ Cardinality(S) \in Nat
  <2>1. Cardinality(S) \in Nat /\ sorted \in [1..Cardinality(S) -> S]
    BY <1>3 DEF Sorts
  <2> QED BY <2>1, SeqDef, LenProperties
<1>5. ASSUME NEW query, query.language = language, query.length = length, query.limit \in Nat
      PROVE  /\ Matching(rows, query) = S /\ SearchTags(rows, query) \in Seq(S)
             /\ Len(SearchTags(rows, query)) = IF query.limit <= Len(sorted) THEN query.limit ELSE Len(sorted)
             /\ \A i \in 1..Len(SearchTags(rows, query)) :
                   i \in 1..Len(sorted) /\ SearchTags(rows, query)[i] = sorted[i]
  <2> DEFINE answer == PageOf(sorted, 1, query.limit)
  <2>1. Matching(rows, query) = S /\ SearchTags(rows, query) = Best(Matching(rows, query), query)
    BY <1>1, <1>5 DEF SearchTags, Matching
  <2>2. SearchTags(rows, query) = answer
    BY <1>3, <1>5, <2>1
  <2>3. 0 = (1 - 1) * query.limit
    BY <1>5
  <2>4. /\ answer \in Seq(S)
        /\ Len(answer) = IF 0 + query.limit <= Len(sorted) THEN query.limit
                         ELSE IF 0 <= Len(sorted) THEN Len(sorted) - 0 ELSE 0
        /\ \A i \in 1..Len(answer) : 0 + i \in 1..Len(sorted) /\ answer[i] = sorted[0 + i]
    <3>1. 0 \in Nat /\ 1 \in Int
      OBVIOUS
    <3>2. IsPage(answer, S, sorted, 0, query.limit)
      BY <1>4, <1>5, <2>3, <3>1, PageHasItsRows
    <3> HIDE DEF answer
    <3> QED BY <3>2 DEF IsPage
  <2> HIDE DEF answer
  <2>5. /\ Len(answer) = IF query.limit <= Len(sorted) THEN query.limit ELSE Len(sorted)
        /\ \A i \in 1..Len(answer) : i \in 1..Len(sorted) /\ answer[i] = sorted[i]
    BY <1>4, <1>5, <2>4
  <2> QED BY <2>1, <2>2, <2>4, <2>5
<1>6. AnswersFrom(rows, language, length, S, sorted)
  BY <1>2, <1>3, <1>4, <1>5 DEF AnswersFrom
<1> QED BY <1>6

\* A limit keeps the best: a shorter answer is the start of any longer one, and an answer that
\* does not reach its limit has everything there is.
THEOREM LimitKeepsTheBest ==
    ASSUME NEW rows, NEW query, NEW more, NameTable(rows, query.language),
           more.language = query.language, more.length = query.length,
           query.limit \in Nat, more.limit \in Nat, query.limit <= more.limit
    PROVE  LET less   == SearchTags(rows, query)
               longer == SearchTags(rows, more)
           IN  /\ Len(less) <= query.limit /\ Len(less) <= Len(longer)
               /\ \A i \in 1..Len(less) : less[i] = longer[i]
               /\ Len(less) < query.limit => /\ longer = less
                                            /\ \A row \in Matching(rows, query) :
                                                  \E i \in 1..Len(less) : less[i] = row
<1> DEFINE language == query.language
           less == SearchTags(rows, query)
           longer == SearchTags(rows, more)
<1>1. PICK S, sorted : AnswersFrom(rows, language, query.length, S, sorted)
  BY AnswerInOrder
<1>2. /\ Matching(rows, query) = S /\ less \in Seq(S)
      /\ Len(less) = IF query.limit <= Len(sorted) THEN query.limit ELSE Len(sorted)
      /\ \A i \in 1..Len(less) : i \in 1..Len(sorted) /\ less[i] = sorted[i]
  BY <1>1 DEF AnswersFrom
<1>3. /\ longer \in Seq(S) /\ Len(longer) = IF more.limit <= Len(sorted) THEN more.limit ELSE Len(sorted)
      /\ \A i \in 1..Len(longer) : i \in 1..Len(sorted) /\ longer[i] = sorted[i]
  BY <1>1 DEF AnswersFrom
<1> HIDE DEF less, longer
<1>4. Len(less) <= query.limit /\ Len(less) <= Len(longer) /\ Len(less) \in Nat /\ Len(longer) \in Nat
  BY <1>1, <1>2, <1>3 DEF AnswersFrom
<1>5. \A i \in 1..Len(less) : less[i] = longer[i]
  BY <1>2, <1>3, <1>4
<1>6. ASSUME Len(less) < query.limit
      PROVE  longer = less /\ \A row \in Matching(rows, query) : \E i \in 1..Len(less) : less[i] = row
  <2>1. Len(less) = Len(sorted) /\ Len(longer) = Len(sorted)
    BY <1>1, <1>2, <1>3, <1>6 DEF AnswersFrom
  <2>2. longer = less
    BY <1>2, <1>3, <1>5, <2>1, SeqEqual
  <2>3. \A row \in S : \E i \in 1..Len(sorted) : sorted[i] = row
    BY <1>1 DEF AnswersFrom, Sorts
  <2> QED BY <1>2, <2>1, <2>2, <2>3
<1> QED BY <1>4, <1>5, <1>6 DEF less, longer

\* The language of the request says what comes first, not what is found: whoever asks for enough
\* rows is answered with all that match, each once, in either language.
THEOREM LanguageOnlyOrders ==
    ASSUME NEW rows, NEW query, NameTable(rows, query.language), query.limit \in Nat,
           Cardinality(rows) <= query.limit
    PROVE  LET answer == SearchTags(rows, query) IN
           /\ {answer[i] : i \in 1..Len(answer)} = Matching(rows, query)
           /\ \A i, j \in 1..Len(answer) : answer[i] = answer[j] => i = j
           /\ \A other : other.length = query.length => Matching(rows, other) = Matching(rows, query)
<1> DEFINE language == query.language
           answer == SearchTags(rows, query)
<1>0. PICK S, sorted : AnswersFrom(rows, language, query.length, S, sorted)
  BY AnswerInOrder
<1>1. /\ S \subseteq rows /\ Sorts(sorted, S, Better(S, language)) /\ sorted \in Seq(S)
      /\ Len(sorted) = Cardinality(S) /\ Cardinality(S) \in Nat
      /\ Matching(rows, query) = S
      /\ Len(answer) = IF query.limit <= Len(sorted) THEN query.limit ELSE Len(sorted)
      /\ \A i \in 1..Len(answer) : i \in 1..Len(sorted) /\ answer[i] = sorted[i]
  BY <1>0 DEF AnswersFrom
<1> HIDE DEF answer
<1>2. Len(answer) = Cardinality(S)
  <2>1. Cardinality(S) <= Cardinality(rows) /\ Cardinality(rows) \in Nat
    BY <1>1, FS_Subset, FS_CardinalityType DEF NameTable
  <2>2. Len(sorted) <= query.limit
    BY <1>1, <2>1
  <2> QED BY <1>1, <2>2
<1>3. {answer[i] : i \in 1..Len(answer)} = S
  <2>1. \A i \in 1..Cardinality(S) : answer[i] = sorted[i] /\ sorted[i] \in S
    BY <1>1, <1>2 DEF Sorts
  <2>2. \A row \in S : \E i \in 1..Cardinality(S) : sorted[i] = row
    BY <1>1 DEF Sorts
  <2> QED BY <1>2, <2>1, <2>2
<1>4. \A i, j \in 1..Len(answer) : answer[i] = answer[j] => i = j
  <2> SUFFICES ASSUME NEW i \in 1..Len(answer), NEW j \in 1..Len(answer), answer[i] = answer[j]
               PROVE  i = j
    OBVIOUS
  <2>1. i \in 1..Cardinality(S) /\ j \in 1..Cardinality(S) /\ sorted[i] = sorted[j]
    BY <1>1, <1>2
  <2>2. /\ i < j <=> <<sorted[i], sorted[j]>> \in Better(S, language)
        /\ j < i <=> <<sorted[j], sorted[i]>> \in Better(S, language)
        /\ i < i <=> <<sorted[i], sorted[i]>> \in Better(S, language)
    BY <1>1, <2>1 DEF Sorts
  <2> QED BY <1>1, <2>1, <2>2
<1>5. \A other : other.length = query.length => Matching(rows, other) = Matching(rows, query)
  BY DEF Matching, FuzzySearchAllowed
<1> QED BY <1>1, <1>3, <1>4, <1>5 DEF answer

\* A row that bears the name searched for is found, unless rows of that name fill the limit, and
\* before any row of another name, if the text searched for has no backslash or is long enough
\* for similarity and similar to itself; of two rows alike but for the score the more similar
\* comes first.  (A backslash in a short text hides the row: the pattern is not escaped.)
THEOREM TheNameIsFound ==
    ASSUME NEW rows, NEW query, NameTable(rows, query.language), query.limit \in Nat,
           \A row \in rows : Columns(row) \subseteq Relation(query)
    PROVE  LET answer == SearchTags(rows, query)
               Active(row) == NameColumn(row, query.language)
           IN  /\ \A row \in rows :
                     /\ Active(row).equal
                     /\ ~query.backslash \/ (FuzzySearchAllowed(query) /\ Active(row).similar)
                     => /\ \/ \E j \in 1..Len(answer) : answer[j] = row
                           \/ /\ Len(answer) = query.limit
                              /\ \A i \in 1..Len(answer) : Active(answer[i]).equal
                        /\ \A i \in 1..Len(answer) :
                              ~Active(answer[i]).equal => \E j \in 1..(i - 1) : answer[j] = row
               /\ \A i, j \in 1..Len(answer) :
                     i < j /\ <<answer[i].ru, answer[i].en, answer[i].third>>
                               = <<answer[j].ru, answer[j].en, answer[j].third>>
                        => answer[i].score >= answer[j].score
<1> DEFINE language == query.language
           answer == SearchTags(rows, query)
           Active(row) == NameColumn(row, language)
           key(row) == SearchOrdering(row, language)
<1>0. PICK S, sorted : AnswersFrom(rows, language, query.length, S, sorted)
  BY AnswerInOrder
<1>1. /\ S \subseteq rows /\ Sorts(sorted, S, Better(S, language)) /\ sorted \in Seq(S)
      /\ Len(sorted) = Cardinality(S) /\ Cardinality(S) \in Nat
      /\ Matching(rows, query) = S
      /\ Len(answer) = IF query.limit <= Len(sorted) THEN query.limit ELSE Len(sorted)
      /\ \A i \in 1..Len(answer) : i \in 1..Len(sorted) /\ answer[i] = sorted[i]
  BY <1>0 DEF AnswersFrom
<1>2. \A row \in S : /\ SearchRank(row, language) \in 0..5
                     /\ SearchRank(row, language) = 0 <=> Active(row).equal
                     /\ row.score \in Int /\ row.names[language] \in Int /\ row.id \in Int
  BY <1>1 DEF SearchRank, NameTable
<1>3. ASSUME NEW a \in S, NEW b \in S
      PROVE  /\ SearchRank(a, language) < SearchRank(b, language) => Before(key(a), key(b))
             /\ SearchRank(a, language) = SearchRank(b, language) /\ a.score > b.score => Before(key(a), key(b))
  <2> DEFINE ra == SearchRank(a, language)
             rb == SearchRank(b, language)
  <2>1. /\ key(a) = <<ra, -a.score, a.names[language], a.id>>
        /\ key(b) = <<rb, -b.score, b.names[language], b.id>>
    BY DEF SearchOrdering
  <2>2. ra \in Int /\ rb \in Int /\ a.score \in Int /\ b.score \in Int
    BY <1>2
  <2> HIDE DEF key, ra, rb
  <2>3. ra < rb => Before(key(a), key(b))
    <3> SUFFICES ASSUME ra < rb PROVE \E i \in DOMAIN key(a) :
                    key(a)[i] < key(b)[i] /\ \A j \in 1..(i - 1) : key(a)[j] = key(b)[j]
      BY DEF Before
    <3>1. 1 \in DOMAIN key(a) /\ key(a)[1] < key(b)[1] /\ \A j \in 1..(1 - 1) : key(a)[j] = key(b)[j]
      BY <2>1, <2>2
    <3> QED BY <3>1
  <2>4. ra = rb /\ a.score > b.score => Before(key(a), key(b))
    <3> SUFFICES ASSUME ra = rb, a.score > b.score PROVE \E i \in DOMAIN key(a) :
                    key(a)[i] < key(b)[i] /\ \A j \in 1..(i - 1) : key(a)[j] = key(b)[j]
      BY DEF Before
    <3>1. 2 \in DOMAIN key(a) /\ key(a)[2] < key(b)[2] /\ \A j \in 1..(2 - 1) : key(a)[j] = key(b)[j]
      BY <2>1, <2>2
    <3> QED BY <3>1
  <2> QED BY <2>3, <2>4 DEF ra, rb
<1>4. StrictOrder(S, Better(S, language))
  <2>1. NameTable(S, language)
    BY <1>1, FS_Subset DEF NameTable
  <2> QED BY <2>1, SearchOrderIsTotal
<1>5. \A a, b \in S : Before(key(a), key(b)) => <<a, b>> \in Better(S, language) /\ <<b, a>> \notin Better(S, language)
  BY <1>4 DEF Better, StrictOrder
<1>6. \A m, n \in 1..Cardinality(S) : m < n <=> <<sorted[m], sorted[n]>> \in Better(S, language)
  BY <1>1 DEF Sorts
<1>7. \A i \in 1..Len(answer) : i \in 1..Cardinality(S) /\ answer[i] = sorted[i] /\ sorted[i] \in S
  BY <1>1 DEF Sorts
<1> HIDE DEF answer, key
<1> DEFINE Searched(row) == /\ Active(row).equal
                            /\ ~query.backslash \/ (FuzzySearchAllowed(query) /\ Active(row).similar)
<1>10. \A row \in rows : Searched(row) => row \in S
  <2> SUFFICES ASSUME NEW row \in rows, Searched(row) PROVE row \in S
    OBVIOUS
  <2>1. Active(row) \in Columns(row) /\ Active(row) \in Relation(query)
    BY DEF Columns, NameColumn
  <2>2. Active(row).contains \/ (FuzzySearchAllowed(query) /\ Active(row).similar)
    BY <2>1 DEF Relation
  <2> HIDE DEF Active
  <2> QED BY <1>1, <2>1, <2>2 DEF Matching
<1> HIDE DEF Searched
<1>8. ASSUME NEW row \in rows, Searched(row), NEW i \in 1..Len(answer), ~Active(answer[i]).equal
      PROVE  \E j \in 1..(i - 1) : answer[j] = row
  <2>1. row \in S
    BY <1>8, <1>10
  <2>2. PICK j \in 1..Cardinality(S) : sorted[j] = row
    BY <1>1, <2>1 DEF Sorts
  <2>3. SearchRank(row, language) < SearchRank(answer[i], language)
    <3>1. answer[i] \in S
      BY <1>7
    <3>2. SearchRank(row, language) = 0
      BY <1>2, <1>8, <2>1 DEF Searched
    <3>3. SearchRank(answer[i], language) \in 0..5 /\ SearchRank(answer[i], language) # 0
      BY <1>2, <1>8, <3>1
    <3> HIDE DEF language
    <3> QED BY <3>2, <3>3
  <2>4. <<sorted[j], sorted[i]>> \in Better(S, language)
    BY <1>3, <1>5, <1>7, <2>1, <2>2, <2>3
  <2>5. j < i
    BY <1>6, <1>7, <2>4
  <2>6. j \in 1..Len(answer) /\ j \in 1..(i - 1)
    BY <1>1, <2>5
  <2> QED BY <1>7, <2>2, <2>6
<1>9. ASSUME NEW i \in 1..Len(answer), NEW j \in 1..Len(answer), i < j,
             <<answer[i].ru, answer[i].en, answer[i].third>> = <<answer[j].ru, answer[j].en, answer[j].third>>
      PROVE  answer[i].score >= answer[j].score
  <2>1. SearchRank(answer[i], language) = SearchRank(answer[j], language)
    BY <1>9 DEF SearchRank, NameColumn, SecondaryNameColumn
  <2>2. answer[i] \in S /\ answer[j] \in S
    BY <1>7
  <2>3. <<answer[i], answer[j]>> \in Better(S, language)
    BY <1>6, <1>7, <1>9
  <2>4. ~(answer[j].score > answer[i].score)
    BY <1>3, <1>5, <2>1, <2>2, <2>3
  <2>5. answer[i].score \in Int /\ answer[j].score \in Int
    BY <1>2, <2>2
  <2> QED BY <2>4, <2>5
<1>11. ASSUME NEW row \in rows, Searched(row)
       PROVE  \/ \E j \in 1..Len(answer) : answer[j] = row
              \/ Len(answer) = query.limit /\ \A i \in 1..Len(answer) : Active(answer[i]).equal
  <2>1. PICK j \in 1..Cardinality(S) : sorted[j] = row
    BY <1>1, <1>10, <1>11 DEF Sorts
  <2>2. CASE Len(answer) = query.limit
    <3>1. ASSUME NEW i \in 1..Len(answer), ~Active(answer[i]).equal
          PROVE  \E n \in 1..Len(answer) : answer[n] = row
      <4>1. PICK n \in 1..(i - 1) : answer[n] = row
        BY <1>8, <1>11, <3>1
      <4>2. Len(answer) \in Nat
        BY <1>1
      <4>3. n \in 1..Len(answer)
        BY <4>1, <4>2
      <4> QED BY <4>1, <4>3
    <3> QED BY <2>2, <3>1
  <2>3. CASE Len(answer) # query.limit
    <3>1. Len(answer) = Len(sorted) /\ j \in 1..Len(answer)
      BY <1>1, <2>3
    <3>2. answer[j] = row
      BY <1>7, <2>1, <3>1
    <3> QED BY <3>1, <3>2
  <2> QED BY <2>2, <2>3
<1> QED BY <1>8, <1>9, <1>11 DEF answer, Searched

-----------------------------------------------------------------------------
(* The counters of the articles.                                            *)

Counter == [views : Nat, engaged : Nat]

\* The rows of the counters, by their key.
CounterTable(table) ==
    /\ table = [key \in DOMAIN table |-> table[key]]
    /\ \A key \in DOMAIN table : table[key] \in Counter

\* What a row holds before it is added to.
Held(table, key) == IF key \in DOMAIN table THEN table[key] ELSE [views |-> 0, engaged |-> 0]

Adds(added, table, key, views, engaged) ==
    /\ CounterTable(added) /\ DOMAIN added = DOMAIN table \cup {key}
    /\ \A k \in DOMAIN table \ {key} : added[k] = table[k]
    /\ added[key] = [views |-> Held(table, key).views + views, engaged |-> Held(table, key).engaged + engaged]

LEMMA CountersAreAddedTo ==
    ASSUME NEW table, CounterTable(table), NEW key, NEW views \in Nat, NEW engaged \in Nat
    PROVE  Adds(Posts!IncrementDailyCounter(table, key, views, engaged), table, key, views, engaged)
<1> DEFINE added == Posts!IncrementDailyCounter(table, key, views, engaged)
<1>1. CASE key \in DOMAIN table
  <2> DEFINE row == [[table[key] EXCEPT !.views = @ + views] EXCEPT !.engaged = @ + engaged]
  <2>1. added = [[table EXCEPT ![key].views = @ + views] EXCEPT ![key].engaged = @ + engaged]
    BY <1>1 DEF Posts!IncrementDailyCounter
  <2>2. table[key] \in Counter
    BY <1>1 DEF CounterTable
  <2>3. Held(table, key) = table[key]
        /\ table[key] = [views |-> table[key].views, engaged |-> table[key].engaged]
        /\ table[key].views \in Nat /\ table[key].engaged \in Nat
    BY <1>1, <2>2 DEF Counter, Held
  <2>4. row = [views |-> table[key].views + views, engaged |-> table[key].engaged + engaged]
    <3> DEFINE viewed == [table[key] EXCEPT !.views = @ + views]
    <3>1. viewed = [views |-> table[key].views + views, engaged |-> table[key].engaged]
      BY <2>3
    <3> HIDE DEF viewed
    <3>2. [viewed EXCEPT !.engaged = @ + engaged]
            = [views |-> table[key].views + views, engaged |-> table[key].engaged + engaged]
      BY <3>1
    <3> QED BY <3>2 DEF viewed
  <2>5. [views |-> table[key].views + views, engaged |-> table[key].engaged + engaged] \in Counter
    BY <2>3 DEF Counter
  <2>6. /\ DOMAIN added = DOMAIN table /\ \A k \in DOMAIN table \ {key} : added[k] = table[k]
        /\ added = [k \in DOMAIN table |-> added[k]]
    BY <2>1
  <2>7. added[key] = row
    BY <1>1, <2>1
  <2> HIDE DEF added, row
  <2>8. \A k \in DOMAIN table : added[k] \in Counter
    BY <2>4, <2>5, <2>6, <2>7 DEF CounterTable
  <2>9. CounterTable(added)
    BY <2>6, <2>8 DEF CounterTable
  <2>10. DOMAIN added = DOMAIN table \cup {key}
    BY <1>1, <2>6
  <2> QED BY <2>3, <2>4, <2>6, <2>7, <2>9, <2>10 DEF Adds, added
<1>2. CASE key \notin DOMAIN table
  <2>1. added = [k \in DOMAIN table \cup {key} |->
                    IF k = key THEN [views |-> views, engaged |-> engaged] ELSE table[k]]
    BY <1>2 DEF Posts!IncrementDailyCounter
  <2>2. [views |-> views, engaged |-> engaged] \in Counter
        /\ Held(table, key).views + views = views /\ Held(table, key).engaged + engaged = engaged
    BY <1>2 DEF Counter, Held
  <2> DEFINE row == [views |-> views, engaged |-> engaged]
  <2> HIDE DEF added, row
  <2>3. added = [k \in DOMAIN table \cup {key} |-> IF k = key THEN row ELSE table[k]]
    BY <2>1 DEF row
  <2>4. /\ DOMAIN added = DOMAIN table \cup {key} /\ added[key] = row
        /\ \A k \in DOMAIN table \ {key} : added[k] = table[k]
        /\ added = [k \in DOMAIN added |-> added[k]]
    BY <2>3
  <2>5. CounterTable(added)
    BY <2>2, <2>4 DEF CounterTable, row
  <2> QED BY <2>2, <2>4, <2>5 DEF Adds, added, row
<1> QED BY <1>1, <1>2

LEMMA CountersCommute ==
    ASSUME NEW table, CounterTable(table), NEW key, NEW other,
           NEW a \in Nat, NEW b \in Nat, NEW c \in Nat, NEW d \in Nat
    PROVE  Posts!IncrementDailyCounter(Posts!IncrementDailyCounter(table, key, a, b), other, c, d)
             = Posts!IncrementDailyCounter(Posts!IncrementDailyCounter(table, other, c, d), key, a, b)
<1> DEFINE here == Posts!IncrementDailyCounter(table, key, a, b)
           there == Posts!IncrementDailyCounter(table, other, c, d)
           one == Posts!IncrementDailyCounter(here, other, c, d)
           two == Posts!IncrementDailyCounter(there, key, a, b)
           Sum(row, v, e) == [views |-> row.views + v, engaged |-> row.engaged + e]
<1>11. Adds(here, table, key, a, b)
  BY CountersAreAddedTo
<1>1. /\ CounterTable(here) /\ DOMAIN here = DOMAIN table \cup {key}
      /\ \A k \in DOMAIN table \ {key} : here[k] = table[k]
      /\ here[key] = Sum(Held(table, key), a, b)
  BY <1>11 DEF Adds
<1>12. Adds(there, table, other, c, d)
  BY CountersAreAddedTo
<1>2. /\ CounterTable(there) /\ DOMAIN there = DOMAIN table \cup {other}
      /\ \A k \in DOMAIN table \ {other} : there[k] = table[k]
      /\ there[other] = Sum(Held(table, other), c, d)
  BY <1>12 DEF Adds
<1> HIDE DEF here, there
<1>13. Adds(one, here, other, c, d)
  BY <1>1, CountersAreAddedTo
<1>3. /\ CounterTable(one) /\ DOMAIN one = DOMAIN here \cup {other}
      /\ \A k \in DOMAIN here \ {other} : one[k] = here[k]
      /\ one[other] = Sum(Held(here, other), c, d)
  BY <1>13 DEF Adds
<1>14. Adds(two, there, key, a, b)
  BY <1>2, CountersAreAddedTo
<1>4. /\ CounterTable(two) /\ DOMAIN two = DOMAIN there \cup {key}
      /\ \A k \in DOMAIN there \ {key} : two[k] = there[k]
      /\ two[key] = Sum(Held(there, key), a, b)
  BY <1>14 DEF Adds
<1> HIDE DEF one, two
<1>5. Held(table, key) \in Counter /\ Held(table, other) \in Counter
  BY DEF Held, CounterTable, Counter
<1>6. \A row \in Counter : Sum(Sum(row, a, b), c, d) = Sum(Sum(row, c, d), a, b)
  BY DEF Counter
<1> HIDE DEF Sum
<1>7. DOMAIN one = DOMAIN two
  BY <1>1, <1>2, <1>3, <1>4
<1>8. ASSUME NEW k \in DOMAIN one PROVE one[k] = two[k]
  <2>1. CASE key = other
    <3>1. /\ one[key] = Sum(Sum(Held(table, key), a, b), c, d)
          /\ two[key] = Sum(Sum(Held(table, key), c, d), a, b)
      BY <1>1, <1>2, <1>3, <1>4, <2>1 DEF Held
    <3>2. one[key] = two[key]
      BY <1>5, <1>6, <3>1
    <3>3. CASE k # key
      BY <1>1, <1>2, <1>3, <1>4, <2>1, <3>3
    <3> QED BY <3>2, <3>3
  <2>2. CASE key # other
    <3>1. Held(here, other) = Held(table, other) /\ Held(there, key) = Held(table, key)
      BY <1>1, <1>2, <2>2 DEF Held
    <3>2. /\ one[other] = Sum(Held(table, other), c, d) /\ one[key] = Sum(Held(table, key), a, b)
          /\ two[other] = Sum(Held(table, other), c, d) /\ two[key] = Sum(Held(table, key), a, b)
      BY <1>1, <1>2, <1>3, <1>4, <2>2, <3>1
    <3>3. CASE k # key /\ k # other
      BY <1>1, <1>2, <1>3, <1>4, <3>3
    <3> QED BY <3>2, <3>3
  <2> QED BY <2>1, <2>2
<1>9. one = two
  <2>1. one = [k \in DOMAIN one |-> one[k]] /\ two = [k \in DOMAIN two |-> two[k]]
    BY <1>3, <1>4 DEF CounterTable
  <2> QED BY <1>7, <1>8, <2>1
<1> QED BY <1>9 DEF one, two, here, there

\* A request that counts: a reader opens an article, or stays with it.
Served(table, visit) ==
    IF visit.kind = "view"
    THEN Posts!TrackPublicView(table, visit.post, visit.day, visit.from, visit.admin)
    ELSE Posts!TrackEngagedView(table, visit.post, visit.day, visit.admin)

\* The order in which two requests are served does not show in the counters, whatever is counted
\* already: the row of the day is made by the one or by the other.
THEOREM VisitsCommute ==
    ASSUME NEW table, CounterTable(table), NEW visit, NEW other
    PROVE  Served(Served(table, visit), other) = Served(Served(table, other), visit)
<1>1. ASSUME NEW v
      PROVE  \/ \A t : Served(t, v) = t
             \/ \E key : \E a, b \in Nat : \A t : Served(t, v) = Posts!IncrementDailyCounter(t, key, a, b)
  <2> DEFINE counts == ~(v.admin \/ v.post.status # "Published")
             viewed == <<v.post.id, v.day, Posts!ClassifySourceCategory(v.from)>>
             stayed == <<v.post.id, v.day, "Unknown">>
  <2>1. CASE ~counts
    BY <2>1 DEF Served, Posts!TrackPublicView, Posts!TrackEngagedView
  <2>2. CASE counts /\ v.kind = "view"
    <3>1. \A t : Served(t, v) = Posts!IncrementDailyCounter(t, viewed, 1, 0)
      BY <2>2 DEF Served, Posts!TrackPublicView
    <3> QED BY <3>1
  <2>3. CASE counts /\ v.kind # "view"
    <3>1. \A t : Served(t, v) = Posts!IncrementDailyCounter(t, stayed, 0, 1)
      BY <2>3 DEF Served, Posts!TrackEngagedView
    <3> QED BY <3>1
  <2> QED BY <2>1, <2>2, <2>3
<1>2. CASE (\A t : Served(t, visit) = t) \/ (\A t : Served(t, other) = t)
  BY <1>2
<1>3. CASE /\ \E key : \E a, b \in Nat : \A t : Served(t, visit) = Posts!IncrementDailyCounter(t, key, a, b)
           /\ \E key : \E a, b \in Nat : \A t : Served(t, other) = Posts!IncrementDailyCounter(t, key, a, b)
  <2>1. PICK k : \E a, b \in Nat : \A t : Served(t, visit) = Posts!IncrementDailyCounter(t, k, a, b)
    BY <1>3
  <2>2. PICK l : \E c, d \in Nat : \A t : Served(t, other) = Posts!IncrementDailyCounter(t, l, c, d)
    BY <1>3
  <2> QED BY <2>1, <2>2, CountersCommute
<1> QED BY <1>1, <1>2, <1>3
=============================================================================
