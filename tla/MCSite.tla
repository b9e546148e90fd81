------------------------------- MODULE MCSite -------------------------------
(* Two articles and two questions, each with an identifier to spare, in two *)
(* folders and in a structure in which sheets and sections have siblings    *)
(* and a subsection can be given one.                                       *)
EXTENDS Site, MatrixWorkspaceChecks, ArticleReadingChecks, TLC

CONSTANTS a1, a2, a3, s1, s2, s3, t1, t2, g1, g2, v1, i1, i2, i3

MCKeptArticles ==
    [articles |-> (a1 :> [slug |-> s1, folder |-> 1, tags |-> {t1}, status |-> "Published", date |-> 0])
               @@ (a2 :> [slug |-> s2, folder |-> 2, tags |-> {}, status |-> "Draft", date |-> 0])
               @@ (a3 :> None),
     folders  |-> (1 :> 1 @@ 2 :> 2 @@ 3 :> None),
     tags     |-> (t1 :> g1 @@ t2 :> None),
     votes    |-> [a \in Article |-> [v \in Voter |-> IF a = a1 THEN "heart" ELSE None]]]

Child(parent, priority) == [parent |-> parent, priority |-> priority]

MCKeptMatrix ==
    [nodes |-> (1 :> Child(None, 1) @@ 2 :> Child(None, 2) @@ 3 :> None
             @@ 11 :> Child(1, 1) @@ 12 :> Child(1, 2)
             @@ 21 :> Child(11, 1) @@ 23 :> Child(12, 1) @@ 24 :> None),
     items |-> (i1 :> [slug |-> s1, text |-> 1, ready |-> TRUE, status |-> "Published", date |-> 0, sub |-> 21])
            @@ (i2 :> [slug |-> s2, text |-> 1, ready |-> TRUE, status |-> "Draft", date |-> None, sub |-> 23])
            @@ (i3 :> None),
     queue |-> [q \in [sheet : Sheet \cup {None}, text : Question] |-> 0]]

\* The list of articles is left out: it shows nothing that the tree does not.
MCAddress ==
    {[domain |-> "articles", kind |-> "article", arg |-> s1],
     [domain |-> "articles", kind |-> "tagged", arg |-> g1], [domain |-> "articles", kind |-> "tags", arg |-> None],
     [domain |-> "articles", kind |-> "tree", arg |-> None],
     [domain |-> "matrix", kind |-> "sheets", arg |-> None], [domain |-> "matrix", kind |-> "items", arg |-> 1],
     [domain |-> "matrix", kind |-> "item", arg |-> s1]}
=============================================================================
