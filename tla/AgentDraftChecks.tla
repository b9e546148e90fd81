-------------------------- MODULE AgentDraftChecks --------------------------
(* AgentDraft on good drafts, each with one value replaced by any other, or *)
(* with two.                                                                *)
EXTENDS Integers, Sequences, FiniteSets

Draft     == INSTANCE AgentDraft WITH MinResources <- 1, MaxResources <- 3
Workspace == INSTANCE MatrixWorkspace WITH DayLength <- 1, NoValue <- "none"

GoodUrl == [scheme |-> "https", host |-> "name", user |-> FALSE, port |-> "none", size |-> "fits"]
NewResource(name, context, url) ==
    [kind |-> "new", nameRu |-> name, nameEn |-> "text", url |-> url, contextRu |-> context, contextEn |-> "text"]
ExistingResource(id, context) == [kind |-> "existing", id |-> id, contextRu |-> context, contextEn |-> "text"]

GoodResources == {NewResource("text", "text", GoodUrl), NewResource("another", "text", GoodUrl),
                  ExistingResource("hex", "text"), ExistingResource("another hex", "text")}
AnyResources ==
    GoodResources \cup {NewResource(n, c, GoodUrl) : n \in Draft!Text, c \in Draft!Text}
                  \cup {NewResource("text", "text", u) : u \in Draft!Url}
                  \cup {ExistingResource(id, c) : id \in Draft!Id, c \in Draft!Text}

\* One of each of the ways in which a resource the schemas let through is no good.
BadResources ==
    {NewResource("text", "spaces", GoodUrl), NewResource("text", "text", [GoodUrl EXCEPT !.scheme = "http"]),
     NewResource("text", "text", [GoodUrl EXCEPT !.host = "malformed"]), ExistingResource("spaces", "text"),
     NewResource("nul", "text", GoodUrl), ExistingResource("hex", "nul"), ExistingResource("nul", "text")}

Field == Draft!IdField \cup Draft!TextField \cup {"grade"}
GoodFields == [f \in Field |-> IF f \in Draft!IdField THEN "hex" ELSE IF f = "slug" THEN "slug" ELSE "text"]
Values(f) == IF f \in Draft!IdField THEN Draft!Id ELSE IF f = "slug" THEN Draft!Slug
             ELSE IF f = "grade" THEN {"text", "another"} ELSE Draft!Text
Replaced(fields) == UNION {{[fields EXCEPT ![f] = v] : v \in Values(f)} : f \in Field}

SeqOf(set, n) == UNION {[1..m -> set] : m \in 0..n}
Of(fields, resources) == [fields |-> fields, resources |-> resources]

GoodDrafts == {Of(f, r) : f \in {GoodFields}, r \in SeqOf(GoodResources, 4)}
Drafts ==
    {Of(f, r) : f \in UNION {Replaced(g) : g \in Replaced(GoodFields)}, r \in {<<ExistingResource("hex", "text")>>}}
    \cup {Of(GoodFields, <<a, b>>) : a \in AnyResources, b \in GoodResources}
    \cup {Of(GoodFields, <<b, a>>) : a \in AnyResources, b \in GoodResources}
    \cup {Of(GoodFields, <<a, b>>) : a \in BadResources, b \in BadResources}
    \cup {Of(GoodFields, <<a, b, c>>) : a \in GoodResources, b \in GoodResources, c \in BadResources}
    \cup GoodDrafts

Tables(slugs) == [resources |-> {"hex", "another hex"}, subsections |-> {"hex"}, slugs |-> slugs]
Empty == [resources |-> {}, subsections |-> {}, slugs |-> {}]
First(draft) == Draft!Save(draft, <<>>, TRUE, Tables({"another-slug"}))
Saved(draft) == "saved" \in First(draft)

\* What the tool lets through its client sends and the request schema reads: the agent is refused
\* by the bridge, which says why, or by the server's use case, never by a schema in between.  And
\* the tool refuses nothing the server would save.
ASSUME ReadersAgree ==
    \A d \in Drafts :
        /\ Draft!ToolAccepts(d) => Draft!ClientAccepts(d) /\ Draft!RequestAccepts(d)
        /\ Saved(d) => Draft!ToolAccepts(d)

\* A Draft that is saved lacks nothing that publication needs, neither for the server nor for the
\* database, and has each of its resources once, under an id of its own, with its contexts.
ASSUME SavedDraftIsReady ==
    \A d \in Drafts : Saved(d) =>
        LET item == Draft!DraftItem(d, <<"new", "newer", "newest">>)
            ids  == {r.id : r \in item.resources}
            good == {"text", "another", "wide"}
        IN  /\ Workspace!MissingPublicationFields(item) = {}
            /\ Workspace!MissingConditions(item) = {}
            /\ Cardinality(item.resources) = Len(d.resources) /\ Cardinality(ids) = Len(d.resources)
            /\ \A r \in item.resources : r.contextRu \in good /\ r.contextEn \in good

\* A retry is told that the Draft was saved exactly if it sends the same Draft, whatever the order
\* of its resources, with the claim and all that the Draft refers to gone; any other is told of
\* the conflict, or what it would have been told before the save; and what two drafts that are
\* the same make differs in nothing but the ids of new resources.
ASSUME RetryTellsTheSameDraft ==
    \A d \in GoodDrafts : Saved(d) =>
        \A e \in GoodDrafts \cup {Of(f, d.resources) : f \in Replaced(GoodFields)} :
            LET Matching == {p \in [DOMAIN d.resources -> DOMAIN d.resources] :
                                /\ \A i, j \in DOMAIN p : i # j => p[i] # p[j]
                                /\ \A i \in DOMAIN p : e.resources[i] = d.resources[p[i]]}
                same   == e.fields = d.fields /\ Len(e.resources) = Len(d.resources) /\ Matching # {}
                answer == Draft!Save(e, <<d>>, FALSE, Empty)
                fresh  == <<"new", "newer", "newest">>
            IN  /\ answer = {"replayed"} <=> same
                /\ same => \A p \in Matching :
                     Draft!DraftItem(e, [i \in DOMAIN p |-> fresh[p[i]]]) = Draft!DraftItem(d, fresh)
                /\ \/ answer \in {{"replayed"}, {"conflict"}}
                   \/ answer = First(e) /\ answer \subseteq {"invalid", "refused", "broken"}

HasNul(draft) ==
    \/ \E f \in Draft!LongField \cup {"subsection"} : draft.fields[f] = "nul"
    \/ \E i \in DOMAIN draft.resources : LET r == draft.resources[i] IN
          "nul" \in Draft!ResourceTexts(r) \cup IF r.kind = "new" THEN {r.url.size} ELSE {r.id}
WideQuestion(draft) == \E f \in {"questionRu", "questionEn"} : draft.fields[f] = "wide"

\* A draft that the schemas let through is an error of the server for a url that cannot be read,
\* a NUL somewhere or a question of more than 255 characters, and for nothing else.  After the
\* url is corrected there is nothing else to fear from the rules up to that resource, unless one
\* before it is there twice: that is looked at last.  A question too long is no conflict or
\* missing row first: with all there and the claim held it is always that error.
ASSUME ServerErrorsHaveACause ==
    \A d \in Drafts :
        LET Malformed(i) ==
                /\ d.resources[i].kind = "new" /\ d.resources[i].url.host = "malformed"
                /\ LET corrected == [d EXCEPT !.resources = SubSeq([@ EXCEPT ![i].url = GoodUrl], 1, i)]
                       twice     == \E j, k \in Draft!ExistingResources(corrected) :
                                       j # k /\ d.resources[j].id = d.resources[k].id
                   IN  Draft!EnsureValid(corrected) = IF twice THEN "refused" ELSE "valid"
            valid == Draft!RequestAccepts(d) /\ Draft!EnsureValid(d) = "valid"
        IN  /\ "broken" \in First(d) =>
                  (\E i \in DOMAIN d.resources : Malformed(i)) \/ (valid /\ (HasNul(d) \/ WideQuestion(d)))
            /\ valid /\ WideQuestion(d) /\ "not_found" \notin First(d) => First(d) = {"broken"}
=============================================================================
