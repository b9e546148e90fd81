--------------------------- MODULE ArticleReading ---------------------------
(***************************************************************************)
(* What is read of the articles: the filtered, ordered and paged list, the *)
(* tree of folders the readers and the administrator see, and the counters *)
(* of views and reactions with the statistics built from them.             *)
(*                                                                         *)
(* An article is a row [id, slug, folder, title, status, published,        *)
(* updated, tags, words]; titles are their rank in the collation of the    *)
(* request's language.  The counters are the rows of one table, keyed by   *)
(* article, day and source, and are added to by an upsert in one statement.*)
(***************************************************************************)
EXTENDS RowOrder, SequencesExt

CONSTANTS
    DayLength,    \* ticks of the clock in a day
    Rank(_, _)    \* ts_rank_cd of an article for a query

-----------------------------------------------------------------------------
(* The list. *)

DateStart(day) == day * DayLength
DateEnd(day)   == DateStart(day) + DayLength - 1

ApplyArticleFilters(articles, filters) ==
    {a \in articles :
        /\ filters.onlyPublished => a.status = "Published"
        /\ filters.status # NoValue => a.status = filters.status
        /\ filters.tag # NoValue => filters.tag \in a.tags
        /\ filters.from # NoValue => a.published # NoValue /\ a.published >= DateStart(filters.from)
        /\ filters.to # NoValue => a.published # NoValue /\ a.published <= DateEnd(filters.to)
        /\ filters.search # NoValue => filters.search \in a.words}

DefaultOrdering(a) ==
    <<IF a.status = "Published" THEN 0 ELSE 1, DescNullsLast(a.published), -a.updated, a.title>>

ArticleOrdering(a, filters) ==
    IF filters.forSeo THEN <<DescNullsLast(a.published), -a.updated>>
    ELSE IF filters.search = NoValue THEN DefaultOrdering(a)
    ELSE <<-Rank(a, filters.search)>> \o DefaultOrdering(a)

Ordered(articles, filters) ==
    InOrder(articles, LAMBDA a, b : Before(ArticleOrdering(a, filters), ArticleOrdering(b, filters)))

\* The page asked for with its two counts.  The rows are counted by one statement and listed by
\* the next, which sees what committed in between: counted and listed are the two tables.
ListArticles(counted, listed, filters) ==
    LET count == Cardinality(ApplyArticleFilters(counted, filters))
    IN  [values     |-> PageOf(Ordered(ApplyArticleFilters(listed, filters), filters), filters.page, filters.size),
         totalCount |-> count,
         totalPages |-> TotalPages(count, filters.size)]

-----------------------------------------------------------------------------
(* The tree: rows in the order of the folders, then grouped by folder in the order they come. *)

Place(folder) == <<folder.priority, folder.id>>

\* For the administrator one statement orders all the rows.
TreeRows(articles, filters) ==
    InOrder(articles, LAMBDA a, b : Before(Place(a.folder) \o ArticleOrdering(a, filters),
                                           Place(b.folder) \o ArticleOrdering(b, filters)))

\* For the readers each folder's published articles are ordered on their own and the folders
\* joined to them in their order.
PublishedOrdering(a) == <<DescNullsLast(a.published), -a.updated, a.title>>

PublishedTreeRows(articles) ==
    LET shown   == {a \in articles : a.status = "Published"}
        folders == InOrder({a.folder : a \in shown}, LAMBDA f, g : Before(Place(f), Place(g)))
        In(f)   == InOrder({a \in shown : a.folder = f},
                           LAMBDA a, b : Before(PublishedOrdering(a), PublishedOrdering(b)))
    IN  FlattenSeq([i \in DOMAIN folders |-> In(folders[i])])

ListTreeItems(articles, filters) ==
    IF filters.onlyPublished THEN PublishedTreeRows(articles) ELSE TreeRows(articles, filters)

\* A folder is added when its first row comes; its articles keep their order.
FromItems(rows) ==
    LET firsts == {i \in DOMAIN rows : \A j \in 1..(i - 1) : rows[j].folder.id # rows[i].folder.id}
        folders == InOrder(firsts, <)
    IN  [n \in DOMAIN folders |->
            LET folder == rows[folders[n]].folder
            IN  [folder |-> folder.id,
                 articles |-> SelectSeq(rows, LAMBDA a : a.folder.id = folder.id)]]

-----------------------------------------------------------------------------
(* Views and reactions. *)

Source == {"Direct", "Internal", "Search", "Social", "External", "Unknown"}

\* A referrer is NoValue, or [host, inside, marks]: whether it names a host, whether that is the
\* site's domain or one under it, and which of the marks of a search engine or of a social
\* network occur anywhere in it.
ClassifySourceCategory(referrer) ==
    IF referrer = NoValue THEN "Direct"
    ELSE IF ~referrer.host THEN "Unknown"
    ELSE IF referrer.inside THEN "Internal"
    ELSE IF "search" \in referrer.marks THEN "Search"
    ELSE IF "social" \in referrer.marks THEN "Social" ELSE "External"

\* INSERT ... ON CONFLICT DO UPDATE: the row of the day is made or added to.
IncrementDailyCounter(table, key, views, engaged) ==
    IF key \in DOMAIN table
    THEN [table EXCEPT ![key].views = @ + views, ![key].engaged = @ + engaged]
    ELSE [k \in DOMAIN table \cup {key} |->
            IF k = key THEN [views |-> views, engaged |-> engaged] ELSE table[k]]

\* A view of an article that is not available counts nothing; nor does an administrator's.
TrackPublicView(table, article, day, referrer, managesContent) ==
    IF managesContent \/ article.status # "Published" THEN table
    ELSE IncrementDailyCounter(table, <<article.id, day, ClassifySourceCategory(referrer)>>, 1, 0)

\* A reader that stays: always counted under the unknown source.
TrackEngagedView(table, article, day, managesContent) ==
    IF managesContent \/ article.status # "Published" THEN table
    ELSE IncrementDailyCounter(table, <<article.id, day, "Unknown">>, 0, 1)

ViewCount(table, id) ==
    FoldSet(LAMBDA key, sum : sum + table[key].views, 0, {key \in DOMAIN table : key[1] = id})

\* votes: the rows [article, voter, kind] of the reactions.
ReactionCounts(votes, id, kinds) ==
    [kind \in kinds |-> Cardinality({v \in votes : v.article = id /\ v.kind = kind})]

\* One entry for each article asked for, once, in the order asked for.
GetPublicStats(table, votes, kinds, ids) ==
    LET firsts == InOrder({i \in DOMAIN ids : \A j \in 1..(i - 1) : ids[j] # ids[i]}, <)
    IN  [n \in DOMAIN firsts |-> [article   |-> ids[firsts[n]],
                                  views     |-> ViewCount(table, ids[firsts[n]]),
                                  reactions |-> ReactionCounts(votes, ids[firsts[n]], kinds)]]

\* The rows of a range of days.
GetDailyStats(table, from, to) == {key \in DOMAIN table : key[2] \in from..to}

\* What the administrator is shown of the range: an entry per article with rows in it, most
\* viewed first, and totals.  The reactions of those articles are all counted, whatever their
\* day.
GetStats(table, votes, kinds, articles, from, to) ==
    LET daily    == GetDailyStats(table, from, to)
        Views(ks)   == FoldSet(LAMBDA key, sum : sum + table[key].views, 0, ks)
        Engaged(ks) == FoldSet(LAMBDA key, sum : sum + table[key].engaged, 0, ks)
        Of(a)    == {key \in daily : key[1] = a.id}
        shown    == {a \in articles : Of(a) # {}}
        entries  == InOrder(shown, LAMBDA a, b : Before(<<-Views(Of(a)), a.title>>, <<-Views(Of(b)), b.title>>))
    IN  [articles |-> [i \in DOMAIN entries |->
                        [article   |-> entries[i].id,
                         views     |-> Views(Of(entries[i])),
                         engaged   |-> Engaged(Of(entries[i])),
                         reactions |-> ReactionCounts(votes, entries[i].id, kinds)]],
         views    |-> Views(daily),
         engaged  |-> Engaged(daily),
         votes    |-> Cardinality({v \in votes : \E a \in shown : v.article = a.id /\ v.kind \in kinds})]
=============================================================================
