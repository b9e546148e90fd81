------------------------ MODULE ArticleReadingChecks ------------------------
(* ArticleReading on every set of articles drawn from a few that differ in  *)
(* each column, and on every sequence of up to three views.                 *)
EXTENDS RowOrder

ReadingRank(article, query) == article.title
Read == INSTANCE ArticleReading WITH DayLength <- 2, Rank <- ReadingRank

FirstFolder == [id |-> 2, priority |-> 1]
NextFolder  == [id |-> 1, priority |-> 2]
Post(id, folder, title, status, published, updated, tags, words) ==
    [id |-> id, folder |-> folder, title |-> title, status |-> status, published |-> published,
     updated |-> updated, tags |-> tags, words |-> words]

\* An article that was published keeps its date as a draft; two were published at once.
Posts == {Post(1, NextFolder, 1, "Published", 1, 4, {"t"}, {"w"}),
          Post(2, NextFolder, 2, "Published", 1, 4, {}, {"w"}),
          Post(3, FirstFolder, 3, "Published", 2, 2, {"t"}, {}),
          Post(4, FirstFolder, 1, "Draft", 3, 5, {"t"}, {"w"}),
          Post(5, NextFolder, 2, "Draft", NoValue, 5, {}, {}),
          Post(6, FirstFolder, 1, "Published", 1, 3, {}, {"w"})}

All == [onlyPublished |-> FALSE, status |-> NoValue, tag |-> NoValue, from |-> NoValue, to |-> NoValue,
        search |-> NoValue, forSeo |-> FALSE, page |-> 1, size |-> 2]
PublicList == [All EXCEPT !.onlyPublished = TRUE]
Lists == {All, PublicList, [PublicList EXCEPT !.tag = "t"],
          [All EXCEPT !.search = "w"], [All EXCEPT !.status = "Draft"], [All EXCEPT !.from = 0, !.to = 0]}

\* The pages of every list that nobody changes hold each of its articles once, in one order, and
\* the totals are right.
ASSUME ArticlePagesPartition ==
    \A posts \in SUBSET Posts, list \in Lists, size \in 1..3 :
        LET found == Read!ApplyArticleFilters(posts, list)
            page  == [n \in 1..4 |-> Read!ListArticles(posts, posts, [list EXCEPT !.page = n, !.size = size])]
            shown == page[1].values \o page[2].values \o page[3].values \o page[4].values
        IN  /\ size > 1 => shown = Read!Ordered(found, list)
            /\ \A n \in 1..4 : /\ page[n].totalCount = Cardinality(found)
                               /\ page[n].values # <<>> <=> n <= page[n].totalPages

\* Nothing that is not published is in a list for the readers, and no draft stands before a
\* published article in the administrator's.
ASSUME DraftsComeLast ==
    \A posts \in SUBSET Posts :
        LET listed == Read!Ordered(posts, All)
        IN  /\ \A a \in Read!ApplyArticleFilters(posts, PublicList) : a.status = "Published"
            /\ \A i, j \in DOMAIN listed : listed[i].status = "Draft" /\ i < j => listed[j].status = "Draft"

\* The readers' tree, read by another statement, is the administrator's without the drafts and
\* the folders that hold nothing else.
ASSUME TreesAgree ==
    \A posts \in SUBSET Posts :
        LET tree   == Read!FromItems(Read!ListTreeItems(posts, All))
            public == Read!FromItems(Read!ListTreeItems(posts, PublicList))
            Published(folder) == [folder EXCEPT !.articles = SelectSeq(@, LAMBDA a : a.status = "Published")]
            kept == [i \in DOMAIN tree |-> Published(tree[i])]
        IN  public = SelectSeq(kept, LAMBDA f : f.articles # <<>>)

\* A folder is in a tree once, in the place its priority gives it, with all its articles.
ASSUME FoldersOnce ==
    \A posts \in SUBSET Posts :
        LET tree == Read!FromItems(Read!ListTreeItems(posts, All))
        IN  /\ \A i, j \in DOMAIN tree : i < j => <<tree[i].folder, tree[j].folder>> = <<FirstFolder.id, NextFolder.id>>
            /\ UNION {{tree[i].articles[n] : n \in DOMAIN tree[i].articles} : i \in DOMAIN tree} = posts

-----------------------------------------------------------------------------
Referrer == {NoValue, [host |-> FALSE, inside |-> FALSE, marks |-> {}],
             [host |-> TRUE, inside |-> TRUE, marks |-> {"search"}],
             [host |-> TRUE, inside |-> FALSE, marks |-> {"search", "social"}]}
Reader == {p \in Posts : p.id \in {1, 2, 4}}
Visit == [kind : {"view"}, post : Reader, day : 0..1, from : Referrer, admin : {FALSE}]
           \cup [kind : {"view", "stay"}, post : {p \in Reader : p.id = 1}, day : {1}, from : {NoValue}, admin : BOOLEAN]

Visited(table, v) ==
    IF v.kind = "view" THEN Read!TrackPublicView(table, v.post, v.day, v.from, v.admin)
    ELSE Read!TrackEngagedView(table, v.post, v.day, v.admin)
After(visits) == Visited(Visited(<<>>, visits[1]), visits[2])
Votes == {[article |-> 1, voter |-> 1, kind |-> "heart"], [article |-> 1, voter |-> 2, kind |-> "fire"],
          [article |-> 2, voter |-> 1, kind |-> "heart"]}
Kinds == {"heart", "fire"}
Counts(v) == ~v.admin /\ v.post.status = "Published"
Number(visits, Test(_)) == Cardinality({i \in DOMAIN visits : Counts(visits[i]) /\ Test(visits[i])})

\* The order in which two requests are served does not show in the counters.
ASSUME VisitsCommute == \A v, w \in Visit : After(<<v, w>>) = After(<<w, v>>)

\* Every view of a reader is counted once, under one source: the readers are shown all of them,
\* the administrator those of the days asked for, by article and in total.
ASSUME ViewsCountedOnce ==
    \A v, w \in Visit :
        LET visits == <<v, w>>
            table  == After(visits)
            public == Read!GetPublicStats(table, Votes, Kinds, <<2, 1, 2>>)
            stats(from, to) == Read!GetStats(table, Votes, Kinds, Posts, from, to)
        IN  /\ [i \in DOMAIN public |-> public[i].article] = <<2, 1>>
            /\ \A i \in 1..2 : public[i].views =
                 Number(visits, LAMBDA x : x.kind = "view" /\ x.post.id = public[i].article)
            /\ \A from, to \in 0..1 :
                 LET shown == stats(from, to)
                     In(x) == x.day \in from..to
                 IN  /\ shown.views = Number(visits, LAMBDA x : x.kind = "view" /\ In(x))
                     /\ shown.engaged = Number(visits, LAMBDA x : x.kind = "stay" /\ In(x))
                     /\ \A i \in DOMAIN shown.articles :
                          /\ shown.articles[i].views =
                               Number(visits, LAMBDA x : /\ x.kind = "view" /\ In(x)
                                                         /\ x.post.id = shown.articles[i].article)
                          /\ \A j \in i..Len(shown.articles) : shown.articles[j].views <= shown.articles[i].views
                     /\ shown.votes = Cardinality({vote \in Votes : \E i \in DOMAIN shown.articles :
                                                      shown.articles[i].article = vote.article})
=============================================================================
