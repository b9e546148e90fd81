-------------------------- MODULE AgentDraft_proofs --------------------------
(***************************************************************************)
(* The readers of what comes from outside: the Drafts of the agents, with  *)
(* what their two readers promise each other for every draft with any      *)
(* number of resources, and the files of questions, with what a preview    *)
(* promises the import for every file of any length.                       *)
(***************************************************************************)
EXTENDS AgentDraft, Numbers_proofs, FiniteSetTheorems, FunctionTheorems, SequenceTheorems

CONSTANTS NoValue, DayLength

Workspace == INSTANCE MatrixWorkspace

\* What the server reads from a request: fields, of which nothing is told here, and a list of
\* resources, each new or existing.
Resource ==
    [kind : {"new"}, nameRu : Text, nameEn : Text, url : Url, contextRu : Text, contextEn : Text]
        \cup [kind : {"existing"}, id : Id, contextRu : Text, contextEn : Text]

IsDraft(draft) ==
    /\ draft = [fields |-> draft.fields, resources |-> draft.resources]
    /\ draft.resources \in Seq(Resource)

\* The ids the server gives.
GivenId == {id \in Id : HexId(id)}

LEMMA ResourcesOfDraft ==
    ASSUME NEW draft, IsDraft(draft)
    PROVE  /\ Len(draft.resources) \in Nat /\ DOMAIN draft.resources = 1..Len(draft.resources)
           /\ \A i \in DOMAIN draft.resources : draft.resources[i] \in Resource
<1>1. Len(draft.resources) \in Nat /\ DOMAIN draft.resources = 1..Len(draft.resources)
  BY LenProperties DEF IsDraft
<1> QED BY <1>1, ElementOfSeq DEF IsDraft

-----------------------------------------------------------------------------
(* The rules of the use case. *)

\* A draft the use case lets through is good in each of its parts; one that is not is refused or
\* breaks, and the first resource that is not valid says which.
LEMMA ValidDraft ==
    ASSUME NEW draft, IsDraft(draft)
    PROVE  /\ EnsureValid(draft) = "valid" <=>
                 /\ Counted(draft) /\ \A f \in IdField \cup TextField : Written(draft.fields[f])
                 /\ \A i \in DOMAIN draft.resources : EnsureResourceValid(draft.resources[i]) = "valid"
                 /\ \A i, j \in ExistingResources(draft) :
                       i # j => draft.resources[i].id # draft.resources[j].id
           /\ EnsureValid(draft) = "broken" =>
                 /\ Counted(draft) /\ \A f \in IdField \cup TextField : Written(draft.fields[f])
                 /\ \E i \in DOMAIN draft.resources :
                       /\ EnsureResourceValid(draft.resources[i]) = "broken"
                       /\ \A j \in 1..(i - 1) : EnsureResourceValid(draft.resources[j]) = "valid"
           /\ EnsureValid(draft) \in {"valid", "refused", "broken"}
<1> DEFINE bad == {i \in DOMAIN draft.resources : EnsureResourceValid(draft.resources[i]) # "valid"}
           first == CHOOSE i \in bad : \A j \in bad : i <= j
           written == \A f \in IdField \cup TextField : Written(draft.fields[f])
           twice == \E i, j \in ExistingResources(draft) :
                        i # j /\ draft.resources[i].id = draft.resources[j].id
<1>1. EnsureValid(draft) =
        IF ~Counted(draft) \/ ~written THEN "refused"
        ELSE IF bad # {} THEN EnsureResourceValid(draft.resources[first])
        ELSE IF twice THEN "refused" ELSE "valid"
  BY DEF EnsureValid
<1>2. DOMAIN draft.resources = 1..Len(draft.resources) /\ Len(draft.resources) \in Nat
  BY ResourcesOfDraft
<1>3. bad # {} => first \in bad /\ \A j \in bad : first <= j
  <2>1. bad \in SUBSET Nat
    BY <1>2
  <2> HIDE DEF bad
  <2>2. bad # {} => \E i \in bad : \A j \in bad : i <= j
    BY <2>1, LeastNumber
  <2> QED BY <2>2
<1>4. \A r : EnsureResourceValid(r) \in {"valid", "refused", "broken"}
  BY DEF EnsureResourceValid
<1>5. bad = {} <=> \A i \in DOMAIN draft.resources : EnsureResourceValid(draft.resources[i]) = "valid"
  OBVIOUS
<1>6. twice <=> ~\A i, j \in ExistingResources(draft) : i # j => draft.resources[i].id # draft.resources[j].id
  OBVIOUS
<1>7. bad # {} => /\ first \in DOMAIN draft.resources
                  /\ EnsureResourceValid(draft.resources[first]) # "valid"
                  /\ \A j \in 1..(first - 1) : EnsureResourceValid(draft.resources[j]) = "valid"
  <2> SUFFICES ASSUME bad # {}
               PROVE  /\ first \in bad
                      /\ \A j \in 1..(first - 1) : j \in DOMAIN draft.resources /\ j \notin bad
    OBVIOUS
  <2>1. first \in bad /\ \A j \in bad : first <= j
    BY <1>3
  <2>2. first \in 1..Len(draft.resources)
    BY <1>2, <2>1
  <2> HIDE DEF bad, first
  <2> QED BY <1>2, <2>1, <2>2
<1> HIDE DEF bad, first, twice
<1> DEFINE valid == \A i \in DOMAIN draft.resources : EnsureResourceValid(draft.resources[i]) = "valid"
<1>8. EnsureValid(draft) = "valid" <=> Counted(draft) /\ written /\ valid /\ ~twice
  BY <1>1, <1>5, <1>7
<1>9. EnsureValid(draft) = "broken" => Counted(draft) /\ written /\ bad # {} /\ EnsureResourceValid(draft.resources[first]) = "broken"
  BY <1>1
<1>10. EnsureValid(draft) \in {"valid", "refused", "broken"}
  BY <1>1, <1>4
<1> QED BY <1>6, <1>7, <1>8, <1>9, <1>10

-----------------------------------------------------------------------------
(* What a save may be answered. *)

\* What each answer tells of the draft and of the rows there are.
LEMMA WhatIsSaved ==
    ASSUME NEW draft, NEW completion, NEW claimed, NEW tables
    PROVE  /\ EnsureValid(draft) \in {"valid", "refused", "broken"}
           /\ "saved" \in Save(draft, completion, claimed, tables) =>
                 /\ RequestAccepts(draft) /\ EnsureValid(draft) = "valid" /\ completion = <<>>
                 /\ \A i \in ExistingResources(draft) : draft.resources[i].id \in tables.resources
                 /\ draft.fields["subsection"] \in tables.subsections
                 /\ Save(draft, completion, claimed, tables) = {"saved"}
                 /\ ItemFits(draft) /\ \A i \in DOMAIN draft.resources : LinkFits(draft.resources[i])
<1> DEFINE answer == Save(draft, completion, claimed, tables)
           Outcome(i) == EnsureResourceValid(draft.resources[i])
           ids == {draft.resources[i].id : i \in ExistingResources(draft)}
           bad == {i \in DOMAIN draft.resources : Outcome(i) # "valid"}
<1>1. \A r : EnsureResourceValid(r) \in {"valid", "refused", "broken"}
  BY DEF EnsureResourceValid
<1>2. EnsureValid(draft) \in {"valid", "refused", "broken"}
  BY <1>1 DEF EnsureValid
<1>3. ASSUME "saved" \in answer
      PROVE  /\ RequestAccepts(draft) /\ EnsureValid(draft) = "valid" /\ completion = <<>>
             /\ ids \subseteq tables.resources /\ draft.fields["subsection"] \in tables.subsections
             /\ answer = CreateItem(draft, tables.slugs)
  <2>1. \A other : ToResult(other, draft) \in {"replayed", "conflict"}
    BY DEF ToResult
  <2> HIDE DEF ids
  <2> QED BY <1>2, <1>3, <2>1, SMTT(30) DEF Save, ids
<1>4. ASSUME "saved" \in CreateItem(draft, tables.slugs)
      PROVE  /\ CreateItem(draft, tables.slugs) = {"saved"}
             /\ ItemFits(draft) /\ \A i \in DOMAIN draft.resources : LinkFits(draft.resources[i])
  BY <1>4 DEF CreateItem
<1>5. \A i \in ExistingResources(draft) : draft.resources[i].id \in ids
  OBVIOUS
<1> HIDE DEF answer, ids
<1> QED BY <1>2, <1>3, <1>4, <1>5 DEF answer

\* What the tool lets through its client sends and the request schema reads: the agent is refused
\* by the bridge, which says why, or by the server's use case, never by a schema in between.  And
\* the tool refuses nothing the server would save.  The converses do not hold: the use case refuses
\* more than the tool, blank answers and http urls among it, and the schema alone lets through ids
\* that no row can have.
THEOREM ReadersAgree ==
    ASSUME NEW draft, NEW tables, tables.resources \in SUBSET GivenId, tables.subsections \in SUBSET GivenId,
           NEW completion, NEW claimed
    PROVE  /\ ToolAccepts(draft) => ClientAccepts(draft) /\ RequestAccepts(draft)
           /\ "saved" \in Save(draft, completion, claimed, tables) => ToolAccepts(draft)
<1>1. \A id : HexId(id) => LongEnough(id)
  BY DEF HexId, LongEnough
<1>2. ASSUME ToolAccepts(draft) PROVE ClientAccepts(draft) /\ RequestAccepts(draft)
  BY <1>1, <1>2 DEF ToolAccepts, ClientAccepts, RequestAccepts, IdField
<1>3. ASSUME "saved" \in Save(draft, completion, claimed, tables) PROVE ToolAccepts(draft)
  <2>1. RequestAccepts(draft)
    BY <1>3, WhatIsSaved
  <2>2. /\ \A i \in ExistingResources(draft) : draft.resources[i].id \in tables.resources
        /\ draft.fields["subsection"] \in tables.subsections
    BY <1>3, WhatIsSaved
  <2>3. HexId(draft.fields["subsection"]) /\ HexId(draft.fields["claim"])
    BY <2>1, <2>2 DEF GivenId, RequestAccepts
  <2>4. \A i \in DOMAIN draft.resources : draft.resources[i].kind = "existing" => HexId(draft.resources[i].id)
    BY <2>2 DEF ExistingResources, GivenId
  <2> QED BY <2>1, <2>3, <2>4 DEF ToolAccepts, RequestAccepts, IdField
<1> QED BY <1>2, <1>3

\* The url an agent puts in the place of one that cannot be read.
GoodUrl(url) == /\ url \in Url
                /\ url.scheme = "https" /\ url.host = "name" /\ ~url.user /\ url.port \notin {"bad", "zero"}

\* draft up to its resource i, with that one's url corrected.
Corrected(draft, i, url) == [draft EXCEPT !.resources = SubSeq([@ EXCEPT ![i].url = url], 1, i)]

LEMMA CorrectedDraft ==
    ASSUME NEW draft, IsDraft(draft), NEW i \in DOMAIN draft.resources, NEW url \in Url,
           draft.resources[i].kind = "new"
    PROVE  /\ IsDraft(Corrected(draft, i, url))
           /\ Corrected(draft, i, url).fields = draft.fields
           /\ DOMAIN Corrected(draft, i, url).resources = 1..i /\ Len(Corrected(draft, i, url).resources) = i
           /\ \A j \in 1..(i - 1) : Corrected(draft, i, url).resources[j] = draft.resources[j]
           /\ Corrected(draft, i, url).resources[i] = [draft.resources[i] EXCEPT !.url = url]
<1> DEFINE resources == draft.resources
           changed == [resources EXCEPT ![i].url = url]
           cut == SubSeq(changed, 1, i)
<1>1. /\ Len(resources) \in Nat /\ DOMAIN resources = 1..Len(resources) /\ i \in 1..Len(resources)
      /\ \A j \in DOMAIN resources : resources[j] \in Resource
  BY ResourcesOfDraft
<1>2. [resources[i] EXCEPT !.url = url] \in Resource
  BY <1>1 DEF Resource
<1>3. /\ \A j \in 1..i : j # i => changed[j] = resources[j]
      /\ changed[i] = [resources[i] EXCEPT !.url = url]
  BY <1>1
<1> HIDE DEF changed
<1>4. \A j \in 1..i : changed[j] \in Resource
  BY <1>1, <1>2, <1>3
<1>5. cut \in Seq(Resource) /\ Len(cut) = i /\ \A j \in 1..i : cut[j] = changed[j]
  BY <1>1, <1>4, SubSeqProperties
<1>6. DOMAIN cut = 1..i
  BY <1>5, LenProperties
<1>7. /\ Corrected(draft, i, url) = [draft EXCEPT !.resources = cut]
      /\ [draft EXCEPT !.resources = cut] = [fields |-> draft.fields, resources |-> cut]
  <2>1. Corrected(draft, i, url) = [draft EXCEPT !.resources = cut]
    BY DEF Corrected, changed
  <2> HIDE DEF cut
  <2>2. draft = [fields |-> draft.fields, resources |-> draft.resources]
    BY DEF IsDraft
  <2>3. [draft EXCEPT !.resources = cut] = [fields |-> draft.fields, resources |-> cut]
    BY <2>2
  <2> QED BY <2>1, <2>3
<1> HIDE DEF cut
<1>8. Corrected(draft, i, url) = [fields |-> draft.fields, resources |-> cut]
  BY <1>7
<1> QED BY <1>1, <1>3, <1>5, <1>6, <1>8 DEF IsDraft

\* A malformed host is the only thing the rules break on.  After the url is corrected they let the
\* draft through up to that resource, unless one before it is there twice.
LEMMA MalformedHostBreaks ==
    ASSUME NEW draft, IsDraft(draft), MinResources \in 0..1, MaxResources \in Nat,
           NEW url, GoodUrl(url), EnsureValid(draft) = "broken"
    PROVE  \E i \in DOMAIN draft.resources :
               /\ draft.resources[i].kind = "new" /\ draft.resources[i].url.host = "malformed"
               /\ LET corrected == Corrected(draft, i, url)
                      twice     == \E j, k \in ExistingResources(corrected) :
                                       j # k /\ draft.resources[j].id = draft.resources[k].id
                  IN  EnsureValid(corrected) = IF twice THEN "refused" ELSE "valid"
<1>1. EnsureValid(draft) = "broken"
  OBVIOUS
<1>2. Counted(draft) /\ \A f \in IdField \cup TextField : Written(draft.fields[f])
  BY <1>1, ValidDraft
<1>3. PICK i \in DOMAIN draft.resources :
        /\ EnsureResourceValid(draft.resources[i]) = "broken"
        /\ \A j \in 1..(i - 1) : EnsureResourceValid(draft.resources[j]) = "valid"
  BY <1>1, ValidDraft
<1>4. /\ Len(draft.resources) \in Nat /\ i \in 1..Len(draft.resources)
      /\ draft.resources[i] \in Resource
  BY ResourcesOfDraft
<1> DEFINE resource == draft.resources[i]
           mended == [resource EXCEPT !.url = url]
<1>5. /\ resource.kind = "new" /\ resource.url.host = "malformed"
      /\ \A text \in ResourceTexts(resource) : Written(text)
  BY <1>3, <1>4 DEF EnsureResourceValid, Resource
<1>6. EnsureResourceValid(mended) = "valid"
  <2>1. resource \in [kind : {"new"}, nameRu : Text, nameEn : Text, url : Url, contextRu : Text, contextEn : Text]
    BY <1>4, <1>5 DEF Resource
  <2>2. mended.kind = "new" /\ mended.url = url /\ ResourceTexts(mended) = ResourceTexts(resource)
    BY <2>1, <1>5 DEF ResourceTexts
  <2> HIDE DEF mended, resource
  <2> QED BY <2>2, <1>5 DEF EnsureResourceValid, GoodUrl
<1> DEFINE corrected == Corrected(draft, i, url)
<1>7. /\ IsDraft(corrected) /\ corrected.fields = draft.fields
      /\ DOMAIN corrected.resources = 1..i /\ Len(corrected.resources) = i
      /\ \A j \in 1..(i - 1) : corrected.resources[j] = draft.resources[j]
      /\ corrected.resources[i] = mended
  BY <1>5, CorrectedDraft DEF GoodUrl
<1> HIDE DEF corrected, mended
<1>8. Counted(corrected)
  BY <1>2, <1>4, <1>7 DEF Counted
<1>9. \A j \in DOMAIN corrected.resources : EnsureResourceValid(corrected.resources[j]) = "valid"
  BY <1>3, <1>4, <1>6, <1>7
<1>10. \A j \in ExistingResources(corrected) : j # i
  <2>1. mended.kind = "new"
    BY <1>4, <1>5 DEF mended, Resource
  <2> QED BY <1>7, <2>1 DEF ExistingResources
<1>11. \A j \in ExistingResources(corrected) : corrected.resources[j] = draft.resources[j]
  BY <1>4, <1>7, <1>10 DEF ExistingResources
<1> DEFINE twice == \E j, k \in ExistingResources(corrected) :
                        j # k /\ draft.resources[j].id = draft.resources[k].id
<1>12. EnsureValid(corrected) = IF twice THEN "refused" ELSE "valid"
  <2> DEFINE distinct == \A j, k \in ExistingResources(corrected) :
                             j # k => corrected.resources[j].id # corrected.resources[k].id
  <2>3. distinct <=> ~twice
    <3>1. ASSUME distinct PROVE ~twice
      <4> SUFFICES ASSUME NEW j \in ExistingResources(corrected), NEW k \in ExistingResources(corrected),
                          j # k
                   PROVE  draft.resources[j].id # draft.resources[k].id
        OBVIOUS
      <4>1. corrected.resources[j].id # corrected.resources[k].id
        BY <3>1
      <4> QED BY <1>11, <4>1
    <3>2. ASSUME ~twice PROVE distinct
      <4> SUFFICES ASSUME NEW j \in ExistingResources(corrected), NEW k \in ExistingResources(corrected),
                          j # k
                   PROVE  corrected.resources[j].id # corrected.resources[k].id
        OBVIOUS
      <4>1. draft.resources[j].id # draft.resources[k].id
        BY <3>2
      <4> QED BY <1>11, <4>1
    <3> QED BY <3>1, <3>2
  <2>4. Counted(corrected) /\ \A f \in IdField \cup TextField : Written(corrected.fields[f])
    BY <1>2, <1>7, <1>8
  <2> HIDE DEF distinct, twice
  <2>5. EnsureValid(corrected) = "valid" <=> distinct
    BY <1>7, <1>9, <2>4, ValidDraft DEF distinct
  <2>1. EnsureValid(corrected) = "valid" <=> ~twice
    BY <2>3, <2>5
  <2>2. EnsureValid(corrected) # "broken"
    BY <1>7, <1>9, ValidDraft
  <2> QED BY <1>7, <2>1, <2>2, ValidDraft
<1> QED BY <1>5, <1>12 DEF corrected

\* A NUL somewhere in what would be kept; a question longer than its column.
HasNul(draft) ==
    \/ \E f \in LongField \cup {"subsection"} : draft.fields[f] = "nul"
    \/ \E i \in DOMAIN draft.resources : LET r == draft.resources[i] IN
          "nul" \in ResourceTexts(r) \cup IF r.kind = "new" THEN {r.url.size} ELSE {r.id}
WideQuestion(draft) == \E f \in {"questionRu", "questionEn"} : draft.fields[f] = "wide"

LEMMA WhatBreaks ==
    ASSUME NEW draft, IsDraft(draft), NEW completion, NEW claimed, NEW tables,
           "broken" \in Save(draft, completion, claimed, tables)
    PROVE  RequestAccepts(draft) /\ (EnsureValid(draft) = "broken" \/ HasNul(draft) \/ WideQuestion(draft))
<1> DEFINE ids == {draft.resources[i].id : i \in ExistingResources(draft)}
           fits == /\ ItemFits(draft)
                   /\ \A i \in DOMAIN draft.resources : ResourceFits(draft.resources[i]) /\ LinkFits(draft.resources[i])
<1>1. RequestAccepts(draft)
  BY DEF Save
<1>2. /\ EnsureValid(draft) # "valid" => EnsureValid(draft) = "broken"
      /\ EnsureValid(draft) = "valid" =>
            "nul" \in ids \/ draft.fields["subsection"] = "nul" \/ "broken" \in CreateItem(draft, tables.slugs)
  <2>1. \A other : ToResult(other, draft) \in {"replayed", "conflict"}
    BY DEF ToResult
  <2> HIDE DEF ids
  <2> QED BY <1>1, <2>1, SMTT(30) DEF Save, ids
<1>3. "broken" \in CreateItem(draft, tables.slugs) => ~fits
  BY DEF CreateItem
<1>4. ~ItemFits(draft) => HasNul(draft) \/ WideQuestion(draft)
  BY DEF ItemFits, HasNul, WideQuestion
<1>5. ASSUME NEW i \in DOMAIN draft.resources,
             ~ResourceFits(draft.resources[i]) \/ ~LinkFits(draft.resources[i])
      PROVE  HasNul(draft)
  <2> DEFINE r == draft.resources[i]
  <2>1. r \in Resource
    BY ResourcesOfDraft
  <2>2. ~ResourceFits(r) \/ ~LinkFits(r)
    BY <1>5
  <2>3. "nul" \in ResourceTexts(r) \cup IF r.kind = "new" THEN {r.url.size} ELSE {r.id}
    <3> HIDE DEF r
    <3> QED BY <2>2 DEF ResourceFits, LinkFits, ResourceTexts
  <2> QED BY <2>3 DEF HasNul
<1>6. "nul" \in ids => HasNul(draft)
  <2> SUFFICES ASSUME NEW i \in ExistingResources(draft), draft.resources[i].id = "nul" PROVE HasNul(draft)
    OBVIOUS
  <2>1. i \in DOMAIN draft.resources /\ draft.resources[i].kind # "new"
    BY DEF ExistingResources
  <2> QED BY <2>1 DEF HasNul
<1>7. draft.fields["subsection"] = "nul" => HasNul(draft)
  BY DEF HasNul
<1> HIDE DEF ids
<1> QED BY <1>1, <1>2, <1>3, <1>4, <1>5, <1>6, <1>7

\* A draft is an error of the server for a url that cannot be read, a NUL somewhere or a question
\* of more than 255 characters, and for nothing else.  After the url is corrected there is nothing
\* else to fear from the rules up to that resource, unless one before it is there twice: that is
\* looked at last.  A question too long is that error whenever the rules let the draft through,
\* the claim is held and the rows it refers to are there: nothing looks at its length before.
THEOREM ServerErrorsHaveACause ==
    ASSUME NEW draft, IsDraft(draft), NEW completion, NEW claimed, NEW tables,
           MinResources \in 0..1, MaxResources \in Nat, NEW url, GoodUrl(url)
    PROVE  /\ "broken" \in Save(draft, completion, claimed, tables) =>
                 \/ \E i \in DOMAIN draft.resources :
                       /\ draft.resources[i].kind = "new" /\ draft.resources[i].url.host = "malformed"
                       /\ LET corrected == Corrected(draft, i, url)
                              twice     == \E j, k \in ExistingResources(corrected) :
                                               j # k /\ draft.resources[j].id = draft.resources[k].id
                          IN  EnsureValid(corrected) = IF twice THEN "refused" ELSE "valid"
                 \/ HasNul(draft) \/ WideQuestion(draft)
           /\ /\ RequestAccepts(draft) /\ EnsureValid(draft) = "valid" /\ WideQuestion(draft)
              /\ completion = <<>> /\ claimed /\ draft.fields["subsection"] \in tables.subsections
              /\ \A i \in ExistingResources(draft) : draft.resources[i].id \in tables.resources
              => Save(draft, completion, claimed, tables) = {"broken"}
<1>1. ASSUME "broken" \in Save(draft, completion, claimed, tables)
      PROVE  EnsureValid(draft) = "broken" \/ HasNul(draft) \/ WideQuestion(draft)
  BY <1>1, WhatBreaks
<1>2. ASSUME EnsureValid(draft) = "broken"
      PROVE  \E i \in DOMAIN draft.resources :
                /\ draft.resources[i].kind = "new" /\ draft.resources[i].url.host = "malformed"
                /\ LET corrected == Corrected(draft, i, url)
                       twice     == \E j, k \in ExistingResources(corrected) :
                                        j # k /\ draft.resources[j].id = draft.resources[k].id
                   IN  EnsureValid(corrected) = IF twice THEN "refused" ELSE "valid"
  BY <1>2, MalformedHostBreaks
<1>3. ASSUME RequestAccepts(draft), EnsureValid(draft) = "valid", WideQuestion(draft),
             completion = <<>>, claimed, draft.fields["subsection"] \in tables.subsections,
             \A i \in ExistingResources(draft) : draft.resources[i].id \in tables.resources
      PROVE  Save(draft, completion, claimed, tables) = {"broken"}
  <2> DEFINE ids == {draft.resources[i].id : i \in ExistingResources(draft)}
  <2>1. ids \subseteq tables.resources
    BY <1>3
  <2>2. CreateItem(draft, tables.slugs) = {"broken"}
    BY <1>3 DEF CreateItem, ItemFits, WideQuestion
  <2> HIDE DEF ids
  <2> QED BY <1>3, <2>1, <2>2 DEF Save, ids
<1> QED BY <1>1, <1>2, <1>3

-----------------------------------------------------------------------------
(* The digest that tells a repeated save. *)

Places(draft, payload) == {i \in DOMAIN draft.resources : draft.resources[i] = payload}

\* The same draft: the same fields, and the same resources in some order.
Rearranges(p, draft, other) ==
    /\ p \in Bijection(DOMAIN other.resources, DOMAIN draft.resources)
    /\ \A i \in DOMAIN other.resources : other.resources[i] = draft.resources[p[i]]

SameDraft(draft, other) == other.fields = draft.fields /\ \E p : Rearranges(p, draft, other)

LEMMA BijectionMeaning ==
    ASSUME NEW S, NEW T, NEW f
    PROVE  f \in Bijection(S, T) <=> /\ f \in [S -> T] /\ \A a, b \in S : f[a] = f[b] => a = b
                                     /\ \A t \in T : \E s \in S : f[s] = t
BY Fun_IsBij, Fun_BijectionProperties

LEMMA DigestMeaning ==
    ASSUME NEW draft, NEW other
    PROVE  CanonicalDigest(draft) = CanonicalDigest(other) <=>
              /\ draft.fields = other.fields
              /\ {draft.resources[i] : i \in DOMAIN draft.resources}
                   = {other.resources[i] : i \in DOMAIN other.resources}
              /\ \A payload \in {draft.resources[i] : i \in DOMAIN draft.resources} :
                    Cardinality(Places(draft, payload)) = Cardinality(Places(other, payload))
<1> DEFINE Payloads(d) == {d.resources[i] : i \in DOMAIN d.resources}
           Times(d) == [p \in Payloads(d) |-> Cardinality(Places(d, p))]
<1>1. \A d : CanonicalDigest(d) = [fields |-> d.fields, resources |-> Times(d)]
  BY DEF CanonicalDigest, Places
<1> HIDE DEF Times
<1>2. CanonicalDigest(draft) = CanonicalDigest(other) <=> draft.fields = other.fields /\ Times(draft) = Times(other)
  BY <1>1
<1> HIDE DEF Payloads
<1>3. Times(draft) = Times(other) <=>
        /\ Payloads(draft) = Payloads(other)
        /\ \A p \in Payloads(draft) : Cardinality(Places(draft, p)) = Cardinality(Places(other, p))
  BY DEF Times
<1> QED BY <1>2, <1>3 DEF Payloads

LEMMA PlacesAreCounted ==
    ASSUME NEW draft, IsDraft(draft), NEW payload
    PROVE  IsFiniteSet(Places(draft, payload)) /\ IsFiniteSet(DOMAIN draft.resources)
<1>1. Len(draft.resources) \in Nat /\ DOMAIN draft.resources = 1..Len(draft.resources)
  BY ResourcesOfDraft
<1>2. IsFiniteSet(DOMAIN draft.resources)
  BY <1>1, FS_Interval
<1>3. Places(draft, payload) \in SUBSET DOMAIN draft.resources
  BY DEF Places
<1> QED BY <1>2, <1>3, FS_Subset

\* The digest counts the resources; drafts in which they are as often are rearrangements of each
\* other, and the other way round.
LEMMA DigestTellsTheDraft ==
    ASSUME NEW draft, IsDraft(draft), NEW other, IsDraft(other)
    PROVE  CanonicalDigest(draft) = CanonicalDigest(other) <=> SameDraft(draft, other)
<1> DEFINE Here == DOMAIN draft.resources
           There == DOMAIN other.resources
           Payloads == {draft.resources[i] : i \in Here}
<1>1. ASSUME CanonicalDigest(draft) = CanonicalDigest(other) PROVE SameDraft(draft, other)
  <2>1. /\ draft.fields = other.fields /\ Payloads = {other.resources[i] : i \in There}
        /\ \A payload \in Payloads : Cardinality(Places(draft, payload)) = Cardinality(Places(other, payload))
    BY <1>1, DigestMeaning
  <2> DEFINE g == [payload \in Payloads |-> CHOOSE f : f \in Bijection(Places(other, payload), Places(draft, payload))]
             p == [i \in There |-> g[other.resources[i]][i]]
  <2>2. \A payload \in Payloads : g[payload] \in Bijection(Places(other, payload), Places(draft, payload))
    <3> SUFFICES ASSUME NEW payload \in Payloads
                 PROVE  \E f : f \in Bijection(Places(other, payload), Places(draft, payload))
      OBVIOUS
    <3>1. ExistsBijection(Places(other, payload), Places(draft, payload))
      BY <2>1, PlacesAreCounted, FS_SameCardinalityBij
    <3> QED BY <3>1 DEF ExistsBijection
  <2>3. \A payload \in Payloads :
          /\ g[payload] \in [Places(other, payload) -> Places(draft, payload)]
          /\ \A a, b \in Places(other, payload) : g[payload][a] = g[payload][b] => a = b
          /\ \A t \in Places(draft, payload) : \E s \in Places(other, payload) : g[payload][s] = t
    <3> HIDE DEF g, Payloads
    <3> QED BY <2>2, BijectionMeaning
  <2>4. \A i \in There : other.resources[i] \in Payloads /\ i \in Places(other, other.resources[i])
    BY <2>1 DEF Places
  <2> HIDE DEF g
  <2>5. \A i \in There : p[i] \in Places(draft, other.resources[i])
    BY <2>3, <2>4
  <2>6. \A i \in There : p[i] \in Here /\ draft.resources[p[i]] = other.resources[i]
    BY <2>5 DEF Places
  <2>7. \A i, j \in There : p[i] = p[j] => i = j
    <3> SUFFICES ASSUME NEW i \in There, NEW j \in There, p[i] = p[j] PROVE i = j
      OBVIOUS
    <3>1. other.resources[i] = other.resources[j]
      BY <2>6
    <3>2. g[other.resources[i]][i] = g[other.resources[i]][j]
      BY <3>1
    <3> QED BY <2>3, <2>4, <3>1, <3>2
  <2>8. \A k \in Here : \E i \in There : p[i] = k
    <3> SUFFICES ASSUME NEW k \in Here PROVE \E i \in There : p[i] = k
      OBVIOUS
    <3>1. draft.resources[k] \in Payloads /\ k \in Places(draft, draft.resources[k])
      BY DEF Places
    <3>2. PICK i \in Places(other, draft.resources[k]) : g[draft.resources[k]][i] = k
      BY <2>3, <3>1
    <3>3. i \in There /\ other.resources[i] = draft.resources[k]
      BY <3>2 DEF Places
    <3> QED BY <3>2, <3>3
  <2>9. p \in [There -> Here]
    BY <2>6
  <2> HIDE DEF p
  <2>10. p \in Bijection(There, Here)
    BY <2>7, <2>8, <2>9, BijectionMeaning
  <2>11. Rearranges(p, draft, other)
    BY <2>6, <2>10 DEF Rearranges
  <2> QED BY <2>1, <2>11 DEF SameDraft
<1>2. ASSUME SameDraft(draft, other) PROVE CanonicalDigest(draft) = CanonicalDigest(other)
  <2>1. PICK p : Rearranges(p, draft, other)
    BY <1>2 DEF SameDraft
  <2>2. /\ p \in [There -> Here] /\ \A a, b \in There : p[a] = p[b] => a = b
        /\ \A t \in Here : \E s \in There : p[s] = t
        /\ \A i \in There : other.resources[i] = draft.resources[p[i]]
    BY <2>1, BijectionMeaning DEF Rearranges
  <2>3. Payloads = {other.resources[i] : i \in There}
    <3>1. ASSUME NEW i \in Here PROVE \E j \in There : draft.resources[i] = other.resources[j]
      BY <2>2
    <3>2. ASSUME NEW j \in There PROVE \E i \in Here : draft.resources[i] = other.resources[j]
      BY <2>2
    <3> QED BY <3>1, <3>2
  <2>4. ASSUME NEW payload
        PROVE  Cardinality(Places(draft, payload)) = Cardinality(Places(other, payload))
    <3> DEFINE q == [i \in Places(other, payload) |-> p[i]]
    <3>1. \A i \in Places(other, payload) : i \in There /\ p[i] \in Places(draft, payload)
      BY <2>2 DEF Places
    <3>2. \A t \in Places(draft, payload) : \E s \in Places(other, payload) : p[s] = t
      BY <2>2 DEF Places
    <3>3. q \in Bijection(Places(other, payload), Places(draft, payload))
      <4>1. q \in [Places(other, payload) -> Places(draft, payload)]
        BY <3>1
      <4>2. \A a, b \in Places(other, payload) : q[a] = q[b] => a = b
        BY <2>2, <3>1
      <4>3. \A t \in Places(draft, payload) : \E s \in Places(other, payload) : q[s] = t
        BY <3>2
      <4> HIDE DEF q
      <4> QED BY <4>1, <4>2, <4>3, BijectionMeaning
    <3>4. ExistsBijection(Places(other, payload), Places(draft, payload))
      BY <3>3 DEF ExistsBijection
    <3> QED BY <3>4, PlacesAreCounted, FS_Bijection
  <2> HIDE DEF Payloads
  <2>5. other.fields = draft.fields
    BY <1>2 DEF SameDraft
  <2> QED BY <2>3, <2>4, <2>5, DigestMeaning DEF Payloads
<1> QED BY <1>1, <1>2

\* No reader looks at the order of the resources of a draft that is good.
LEMMA OrderIsNothing ==
    ASSUME NEW draft, IsDraft(draft), NEW other, IsDraft(other), SameDraft(draft, other),
           RequestAccepts(draft), EnsureValid(draft) = "valid"
    PROVE  RequestAccepts(other) /\ EnsureValid(other) = "valid"
<1> DEFINE Here == DOMAIN draft.resources
           There == DOMAIN other.resources
<1>1. PICK p : Rearranges(p, draft, other)
  BY DEF SameDraft
<1>2. /\ p \in [There -> Here] /\ \A a, b \in There : p[a] = p[b] => a = b
      /\ \A i \in There : other.resources[i] = draft.resources[p[i]]
  BY <1>1, BijectionMeaning DEF Rearranges
<1>3. Len(other.resources) = Len(draft.resources)
  <2>1. /\ Here = 1..Len(draft.resources) /\ Len(draft.resources) \in Nat
        /\ There = 1..Len(other.resources) /\ Len(other.resources) \in Nat
    BY ResourcesOfDraft
  <2>2. ExistsBijection(There, Here)
    BY <1>1 DEF Rearranges, ExistsBijection
  <2>3. IsFiniteSet(There)
    BY <2>1, FS_Interval
  <2>4. Cardinality(There) = Cardinality(Here)
    BY <2>2, <2>3, FS_Bijection
  <2>5. \A n \in Nat : Cardinality(1..n) = n
    BY FS_Interval
  <2> QED BY <2>1, <2>4, <2>5
<1>4. other.fields = draft.fields
  BY DEF SameDraft
<1>5. Counted(draft) <=> Counted(other)
  BY <1>3 DEF Counted
<1>6. RequestAccepts(other)
  BY <1>2, <1>4, <1>5 DEF RequestAccepts
<1>7. /\ Counted(draft) /\ \A f \in IdField \cup TextField : Written(draft.fields[f])
      /\ \A i \in Here : EnsureResourceValid(draft.resources[i]) = "valid"
      /\ \A i, j \in ExistingResources(draft) : i # j => draft.resources[i].id # draft.resources[j].id
  BY ValidDraft
<1>8. \A i \in There : EnsureResourceValid(other.resources[i]) = "valid"
  BY <1>2, <1>7
<1>9. \A i, j \in ExistingResources(other) : i # j => other.resources[i].id # other.resources[j].id
  <2> SUFFICES ASSUME NEW i \in ExistingResources(other), NEW j \in ExistingResources(other), i # j
               PROVE  other.resources[i].id # other.resources[j].id
    OBVIOUS
  <2>1. i \in There /\ j \in There /\ other.resources[i].kind = "existing" /\ other.resources[j].kind = "existing"
    BY DEF ExistingResources
  <2>2. p[i] \in ExistingResources(draft) /\ p[j] \in ExistingResources(draft) /\ p[i] # p[j]
    BY <1>2, <2>1 DEF ExistingResources
  <2> QED BY <1>2, <1>7, <2>1, <2>2
<1> QED BY <1>4, <1>5, <1>6, <1>7, <1>8, <1>9, ValidDraft

\* What two drafts that are the same make differs in nothing but the ids of the new resources.
LEMMA SameDraftSameItem ==
    ASSUME NEW draft, NEW other, NEW p, Rearranges(p, draft, other), other.fields = draft.fields, NEW fresh
    PROVE  DraftItem(other, [i \in DOMAIN other.resources |-> fresh[p[i]]]) = DraftItem(draft, fresh)
<1> DEFINE Here == DOMAIN draft.resources
           There == DOMAIN other.resources
           renamed == [i \in There |-> fresh[p[i]]]
           these == {Attachment(draft.resources[i], fresh[i]) : i \in Here}
           those == {Attachment(other.resources[i], renamed[i]) : i \in There}
<1>1. /\ p \in [There -> Here] /\ \A t \in Here : \E s \in There : p[s] = t
      /\ \A i \in There : other.resources[i] = draft.resources[p[i]]
  BY BijectionMeaning DEF Rearranges
<1>2. \A i \in There : Attachment(other.resources[i], renamed[i]) = Attachment(draft.resources[p[i]], fresh[p[i]])
  BY <1>1
<1> HIDE DEF Here, There, renamed
<1>3. these = those
  <2>1. ASSUME NEW i \in Here
        PROVE  \E j \in There : Attachment(draft.resources[i], fresh[i]) = Attachment(other.resources[j], renamed[j])
    BY <1>1, <1>2
  <2>2. ASSUME NEW j \in There
        PROVE  \E i \in Here : Attachment(draft.resources[i], fresh[i]) = Attachment(other.resources[j], renamed[j])
    BY <1>1, <1>2
  <2> QED BY <2>1, <2>2
<1> HIDE DEF these, those
<1> QED BY <1>3 DEF DraftItem, these, those, Here, There, renamed

\* A retry is told that the Draft was saved exactly if it sends the same Draft, whatever the order
\* of its resources and whatever has become of the claim and of the rows since; any other is told
\* of the conflict, or what it would have been told before the save; and what two drafts that are
\* the same make differs in nothing but the ids of new resources.
THEOREM RetryTellsTheSameDraft ==
    ASSUME NEW draft, IsDraft(draft), NEW other, IsDraft(other),
           NEW claimed, NEW tables, NEW claimedLater, NEW tablesLater,
           "saved" \in Save(draft, <<>>, claimed, tables)
    PROVE  LET answer == Save(other, <<draft>>, claimedLater, tablesLater)
               first  == Save(other, <<>>, claimed, tables)
           IN  /\ answer = {"replayed"} <=> SameDraft(draft, other)
               /\ \/ answer \in {{"replayed"}, {"conflict"}}
                  \/ answer = first /\ answer \subseteq {"invalid", "refused", "broken"}
               /\ answer = {"replayed"} =>
                     \E p : /\ Rearranges(p, draft, other)
                            /\ \A fresh : DraftItem(other, [i \in DOMAIN other.resources |-> fresh[p[i]]])
                                             = DraftItem(draft, fresh)
<1> DEFINE answer == Save(other, <<draft>>, claimedLater, tablesLater)
           first  == Save(other, <<>>, claimed, tables)
           good   == RequestAccepts(other) /\ EnsureValid(other) = "valid"
<1>1. RequestAccepts(draft) /\ EnsureValid(draft) = "valid"
  BY WhatIsSaved
<1>2. <<draft>> # <<>> /\ <<draft>>[1] = draft
  OBVIOUS
<1>3. good => answer = {IF CanonicalDigest(draft) = CanonicalDigest(other) THEN "replayed" ELSE "conflict"}
  BY <1>2 DEF Save, ToResult
<1>4. ~good => \E a \in {"invalid", "refused", "broken"} : answer = {a} /\ first = {a}
  BY WhatIsSaved DEF Save
<1>5. SameDraft(draft, other) => good
  BY <1>1, OrderIsNothing
<1> HIDE DEF answer, first, good
<1>6. /\ answer = {"replayed"} <=> SameDraft(draft, other)
      /\ \/ answer \in {{"replayed"}, {"conflict"}}
         \/ answer = first /\ answer \subseteq {"invalid", "refused", "broken"}
  BY <1>3, <1>4, <1>5, DigestTellsTheDraft
<1>7. ASSUME SameDraft(draft, other)
      PROVE  \E p : /\ Rearranges(p, draft, other)
                    /\ \A fresh : DraftItem(other, [i \in DOMAIN other.resources |-> fresh[p[i]]])
                                     = DraftItem(draft, fresh)
  BY <1>7, SameDraftSameItem DEF SameDraft
<1> QED BY <1>6, <1>7 DEF answer, first

-----------------------------------------------------------------------------
(* What is saved. *)

\* An id for each place, as the generator gives them: none twice, and none there is a row of.
FreshIds(fresh, draft, known) ==
    /\ \A i \in DOMAIN draft.resources : fresh[i] \notin known
    /\ \A i, j \in DOMAIN draft.resources : i # j => fresh[i] # fresh[j]

\* A Draft that is saved lacks nothing that publication needs, neither for the server nor for the
\* database, and has each of its resources once, under an id of its own, with its contexts.
THEOREM SavedDraftIsReady ==
    ASSUME NEW draft, IsDraft(draft), draft.fields["grade"] # NoValue, NEW claimed, NEW tables,
           NEW fresh, FreshIds(fresh, draft, tables.resources), "saved" \in Save(draft, <<>>, claimed, tables)
    PROVE  LET item == DraftItem(draft, fresh)
               ids  == {r.id : r \in item.resources}
           IN  /\ Workspace!MissingPublicationFields(item) = {}
               /\ Workspace!MissingConditions(item) = {}
               /\ Cardinality(item.resources) = Len(draft.resources) /\ Cardinality(ids) = Len(draft.resources)
               /\ \A r \in item.resources : {r.contextRu, r.contextEn} \subseteq {"text", "another", "wide"}
<1> DEFINE item == DraftItem(draft, fresh)
           Here == DOMAIN draft.resources
           Made(i) == Attachment(draft.resources[i], fresh[i])
           ids == {r.id : r \in item.resources}
<1>1. /\ RequestAccepts(draft) /\ EnsureValid(draft) = "valid"
      /\ \A i \in DOMAIN draft.resources : LinkFits(draft.resources[i])
  BY WhatIsSaved
<1>2. \A i \in ExistingResources(draft) : draft.resources[i].id \in tables.resources
  BY WhatIsSaved
<1>3. /\ \A f \in IdField \cup TextField : Written(draft.fields[f])
      /\ \A i \in Here : EnsureResourceValid(draft.resources[i]) = "valid"
      /\ \A i, j \in ExistingResources(draft) : i # j => draft.resources[i].id # draft.resources[j].id
  BY <1>1, ValidDraft
<1>4. /\ item.texts = [f \in TextField |-> draft.fields[f]] /\ item.grade = draft.fields["grade"]
      /\ item.resources = {Made(i) : i \in Here}
  BY DEF DraftItem
<1> HIDE DEF item
<1>5. /\ Workspace!MissingPublicationFields(item) = {}
      /\ Workspace!MissingConditions(item) = {}
  <2>1. \A f \in Workspace!TextField : item.texts[f] \notin {"", "spaces", "lines"}
    BY <1>3, <1>4 DEF Workspace!TextField, TextField, LongField, Written, Blank
  <2> QED BY <1>4, <2>1 DEF Workspace!MissingPublicationFields, Workspace!MissingConditions,
                           Workspace!Blank, Workspace!TrimmedBlank
<1>6. \A i \in Here : /\ Made(i).id = IF draft.resources[i].kind = "new" THEN fresh[i] ELSE draft.resources[i].id
                      /\ Made(i).contextRu = draft.resources[i].contextRu
                      /\ Made(i).contextEn = draft.resources[i].contextEn
  BY DEF Attachment
<1>7. \A i \in Here : draft.resources[i] \in Resource
  BY ResourcesOfDraft
<1> HIDE DEF Made
<1>8. \A i, j \in Here : Made(i).id = Made(j).id => i = j
  <2>1. \A i \in Here : draft.resources[i].kind = "new" \/ i \in ExistingResources(draft)
    BY <1>7 DEF ExistingResources, Resource
  <2>2. \A i \in ExistingResources(draft) : draft.resources[i].kind # "new"
    BY DEF ExistingResources
  <2> QED BY <1>2, <1>3, <1>6, <2>1, <2>2 DEF FreshIds
<1>9. Len(draft.resources) \in Nat /\ Here = 1..Len(draft.resources)
  BY ResourcesOfDraft
<1>10. Cardinality(item.resources) = Len(draft.resources)
  <2> DEFINE made == [i \in Here |-> Made(i)]
  <2>1. made \in [Here -> item.resources]
    BY <1>4
  <2>2. \A i, j \in Here : made[i] = made[j] => i = j
    BY <1>8
  <2>3. \A t \in item.resources : \E i \in Here : made[i] = t
    BY <1>4
  <2> HIDE DEF made
  <2>4. made \in Bijection(Here, item.resources)
    BY <2>1, <2>2, <2>3, BijectionMeaning
  <2>5. ExistsBijection(1..Len(draft.resources), item.resources)
    BY <1>9, <2>4 DEF ExistsBijection
  <2> QED BY <1>9, <2>5, FS_CountingElements
<1>11. Cardinality(ids) = Len(draft.resources)
  <2> DEFINE named == [i \in Here |-> Made(i).id]
  <2>1. ids = {Made(i).id : i \in Here}
    BY <1>4
  <2> HIDE DEF ids
  <2>2. named \in [Here -> ids]
    BY <2>1
  <2>3. \A i, j \in Here : named[i] = named[j] => i = j
    BY <1>8
  <2>4. \A t \in ids : \E i \in Here : named[i] = t
    BY <2>1
  <2> HIDE DEF named
  <2>5. named \in Bijection(Here, ids)
    BY <2>2, <2>3, <2>4, BijectionMeaning
  <2>6. ExistsBijection(1..Len(draft.resources), ids)
    BY <1>9, <2>5 DEF ExistsBijection
  <2> QED BY <1>9, <2>6, FS_CountingElements
<1>12. \A r \in item.resources : {r.contextRu, r.contextEn} \subseteq {"text", "another", "wide"}
  <2> SUFFICES ASSUME NEW i \in Here
               PROVE  {draft.resources[i].contextRu, draft.resources[i].contextEn}
                        \subseteq {"text", "another", "wide"}
    BY <1>4, <1>6
  <2> DEFINE resource == draft.resources[i]
  <2>1. /\ resource \in Resource /\ SizedResource(resource) /\ EnsureResourceValid(resource) = "valid"
        /\ LinkFits(resource)
    BY <1>1, <1>3, <1>7 DEF RequestAccepts
  <2>2. resource.contextRu \in ResourceTexts(resource) /\ resource.contextEn \in ResourceTexts(resource)
    BY DEF ResourceTexts
  <2> HIDE DEF resource
  <2>3. \A text \in ResourceTexts(resource) : Sized(text) /\ Written(text)
    BY <2>1 DEF SizedResource, EnsureResourceValid
  <2>4. resource.contextRu \in Text /\ resource.contextEn \in Text
    BY <2>1 DEF Resource
  <2>5. {resource.contextRu, resource.contextEn} \subseteq {"text", "another", "wide"}
    BY <2>1, <2>2, <2>3, <2>4 DEF Text, Sized, Written, Blank, LinkFits
  <2> QED BY <2>5 DEF resource
<1> HIDE DEF ids
<1> QED BY <1>5, <1>10, <1>11, <1>12 DEF item, ids

-----------------------------------------------------------------------------
(* The files of questions. *)

CONSTANTS
    CellText, EmptyText, Spelling(_), Stripped(_), Folded(_), Characters(_),
    QuestionHeader, SheetHeader, GradeHeader, Grade, MaxLength

Reader == INSTANCE MatrixImport WITH
    Text <- CellText, Blank <- EmptyText, Strip <- Stripped, Fold <- Folded, Length <- Characters

\* Stripping is done once; the empty text is a text, an empty cell of a workbook is none.
StripsTexts ==
    /\ \A text : Stripped(Stripped(text)) = Stripped(text)
    /\ EmptyText \in CellText /\ Stripped(EmptyText) = EmptyText
    /\ NoValue \notin CellText

\* A file of text has a text for every cell: what a text says, and nothing for an empty cell.
SpellsCells ==
    /\ \A cell : Spelling(cell) \in CellText
    /\ \A text \in CellText : Spelling(text) = text
    /\ Spelling(NoValue) = EmptyText

\* The lines of a file are sequences of cells, of one cell in a text file.
IsFile(file) ==
    /\ \E lines : file.lines \in Seq(lines)
    /\ file.extension = ".txt" => \A n \in DOMAIN file.lines : 1 \in DOMAIN file.lines[n]

\* What a row must be to be imported.
LEMMA Importable ==
    ASSUME NEW row
    PROVE  Reader!CanImport(Reader!PreviewRow(row)) <=>
              /\ row.question \in CellText /\ Stripped(row.question) # EmptyText
              /\ ~(Characters(Stripped(row.question)) > MaxLength)
              /\ row.sheet \in CellText \cup {NoValue} /\ row.grade \in CellText \cup {NoValue}
              /\ row.grade \in CellText => Reader!OptionalText(row.grade) \in Grade \cup {NoValue}
<1> DEFINE wrong == Reader!Wrong(row)
           codes == {"questionNotText", "questionBlank", "questionTooLong", "sheetNotText", "gradeNotText", "gradeInvalid"}
<1>1. DOMAIN wrong = codes
  BY DEF Reader!Wrong
<1>2. Reader!CanImport(Reader!PreviewRow(row)) <=> \A code \in codes : ~wrong[code]
  BY <1>1 DEF Reader!CanImport, Reader!PreviewRow
<1>3. /\ wrong["questionNotText"] = (row.question \notin CellText)
      /\ wrong["questionBlank"] = (row.question \in CellText /\ Stripped(row.question) = EmptyText)
      /\ wrong["questionTooLong"] = (row.question \in CellText /\ Characters(Stripped(row.question)) > MaxLength)
      /\ wrong["sheetNotText"] = (row.sheet \notin CellText \cup {NoValue})
      /\ wrong["gradeNotText"] = (row.grade \notin CellText \cup {NoValue})
      /\ wrong["gradeInvalid"] =
            (row.grade \in CellText /\ Reader!OptionalText(row.grade) \notin Grade \cup {NoValue})
  BY DEF Reader!Wrong
<1> HIDE DEF wrong
<1> QED BY <1>2, <1>3, Zenon

\* The reader of a csv file changes what the cells hold, never where they are.
LEMMA SpelledLines ==
    ASSUME NEW given, NEW lines \in Seq(given)
    PROVE  /\ Len(Reader!Spelled(lines)) = Len(lines) /\ Len(lines) \in Nat /\ DOMAIN lines = 1..Len(lines)
           /\ DOMAIN Reader!Spelled(lines) = DOMAIN lines
           /\ \A n \in DOMAIN lines :
                 /\ DOMAIN Reader!Spelled(lines)[n] = DOMAIN lines[n]
                 /\ \A c \in DOMAIN lines[n] : Reader!Spelled(lines)[n][c] = Spelling(lines[n][c])
<1> DEFINE Line(n) == [c \in DOMAIN lines[n] |-> Spelling(lines[n][c])]
           spelled == Reader!Spelled(lines)
<1>1. Len(lines) \in Nat /\ DOMAIN lines = 1..Len(lines)
  BY LenProperties
<1>2. spelled = [n \in DOMAIN lines |-> Line(n)]
  BY DEF Reader!Spelled
<1>3. \A n : DOMAIN Line(n) = DOMAIN lines[n] /\ \A c \in DOMAIN lines[n] : Line(n)[c] = Spelling(lines[n][c])
  OBVIOUS
<1> HIDE DEF spelled, Line
<1>4. spelled \in [1..Len(lines) -> {Line(n) : n \in DOMAIN lines}]
  BY <1>1, <1>2
<1>5. Len(spelled) = Len(lines)
  BY <1>1, <1>4, SeqDef, LenProperties
<1> QED BY <1>1, <1>2, <1>3, <1>5 DEF spelled

\* What the extension of a file decides.
LEMMA RowsOfFile ==
    ASSUME NEW file
    PROVE  /\ file.extension = ".txt" => Reader!ParseRows(file) = Reader!ParseTxt(Reader!DecodeText(file))
           /\ file.extension = ".csv" => Reader!ParseRows(file) = Reader!ParseCsv(Reader!DecodeText(file))
           /\ file.extension \in {".xlsx", ".xlsm"} =>
                Reader!ParseRows(file) = Reader!ParseExcel(Reader!ReadRows(file))
           /\ file.extension \notin {".txt", ".csv", ".xlsx", ".xlsm"} => Reader!ParseRows(file) = <<>>
<1> DEFINE kind == file.extension
<1>1. /\ ".txt" # ".csv" /\ ".txt" \notin {".xlsx", ".xlsm"}
      /\ ".csv" \notin {".xlsx", ".xlsm"}
  OBVIOUS
<1>2. ASSUME kind = ".txt" PROVE Reader!ParseRows(file) = Reader!ParseTxt(Reader!DecodeText(file))
  BY <1>1, <1>2, Zenon DEF Reader!ParseRows, Reader!ExcelExtension
<1>3. ASSUME kind = ".csv" PROVE Reader!ParseRows(file) = Reader!ParseCsv(Reader!DecodeText(file))
  BY <1>1, <1>3, Zenon DEF Reader!ParseRows, Reader!ExcelExtension
<1>4. ASSUME kind \in {".xlsx", ".xlsm"} PROVE Reader!ParseRows(file) = Reader!ParseExcel(Reader!ReadRows(file))
  BY <1>1, <1>4, Zenon DEF Reader!ParseRows, Reader!ExcelExtension
<1>5. ASSUME kind \notin {".txt", ".csv", ".xlsx", ".xlsm"} PROVE Reader!ParseRows(file) = <<>>
  BY <1>5, Zenon DEF Reader!ParseRows, Reader!ExcelExtension
<1> QED BY <1>2, <1>3, <1>4, <1>5

\* The same table as a csv file and as a workbook gives the same rows under the same numbers, when
\* the questions' column has a header and the header reads the same from both.  The workbook is the
\* stricter of the two, by exactly the rows with a cell that is neither empty nor text: what the
\* workbook lets be imported is imported as the same question from the csv file, and what only the
\* csv file lets through is a number, a date or the like, of which it has the spelling.
THEOREM CsvAndWorkbookAgree ==
    ASSUME StripsTexts, SpellsCells, NEW cells, NEW lines \in Seq(Seq(cells)), lines # <<>>,
           Reader!ColumnIndexes(lines[1]).question # 0,
           Reader!ColumnIndexes(Reader!Spelled(lines)[1]) = Reader!ColumnIndexes(lines[1])
    PROVE  LET csv  == Reader!Preview([extension |-> ".csv", readable |-> TRUE, lines |-> lines])
               xlsx == Reader!Preview([extension |-> ".xlsx", readable |-> TRUE, lines |-> lines])
           IN  /\ DOMAIN csv = DOMAIN xlsx
               /\ \A i \in DOMAIN csv :
                     /\ csv[i].row.number = xlsx[i].row.number
                     /\ Reader!CanImport(xlsx[i]) <=>
                           /\ Reader!CanImport(csv[i])
                           /\ {xlsx[i].row.question, xlsx[i].row.sheet, xlsx[i].row.grade} \subseteq CellText \cup {NoValue}
                     /\ Reader!CanImport(xlsx[i]) => Reader!Params(csv[i].row) = Reader!Params(xlsx[i].row)
<1> DEFINE text == [extension |-> ".csv", readable |-> TRUE, lines |-> lines]
           book == [extension |-> ".xlsx", readable |-> TRUE, lines |-> lines]
           columns == Reader!ColumnIndexes(lines[1])
           spelled == Reader!Spelled(lines)
           these == Reader!RowsAfter(spelled, 1, columns, EmptyText)
           those == Reader!RowsAfter(lines, 1, columns, NoValue)
<1>0. /\ Len(spelled) = Len(lines) /\ Len(lines) \in Nat /\ DOMAIN spelled = DOMAIN lines /\ DOMAIN lines = 1..Len(lines)
      /\ \A n \in DOMAIN lines : /\ DOMAIN spelled[n] = DOMAIN lines[n]
                                 /\ \A c \in DOMAIN lines[n] : spelled[n][c] = Spelling(lines[n][c])
  BY SpelledLines
<1>1. Reader!ParseRows(text) = these
  <2>1. Reader!ParseRows(text) = Reader!ParseCsv(spelled)
    <3>1. text.extension = ".csv" /\ text.readable /\ text.lines = lines
      OBVIOUS
    <3> HIDE DEF text
    <3> QED BY <3>1, RowsOfFile DEF Reader!DecodeText
  <2>2. spelled # <<>>
    <3>1. Len(lines) # 0
      BY EmptySeq
    <3> HIDE DEF spelled
    <3> QED BY <1>0, <3>1
  <2> HIDE DEF spelled
  <2> QED BY <2>1, <2>2 DEF Reader!ParseCsv, spelled
<1>2. Reader!ParseRows(book) = those
  <2>1. Reader!ParseRows(book) = Reader!ParseExcel(lines)
    BY DEF Reader!ParseRows, Reader!ReadRows, Reader!ExcelExtension
  <2>2. Reader!ExcelColumnIndexes(lines[1]) = [skipped |-> 1, columns |-> columns]
    BY DEF Reader!ExcelColumnIndexes
  <2> QED BY <2>1, <2>2 DEF Reader!ParseExcel
<1> HIDE DEF text, book, columns, spelled
<1>3. /\ Reader!Preview(text) = [i \in DOMAIN these |-> Reader!PreviewRow(these[i])]
      /\ Reader!Preview(book) = [i \in DOMAIN those |-> Reader!PreviewRow(those[i])]
  BY <1>1, <1>2 DEF Reader!Preview
<1> DEFINE Respelled(row, other) ==
        /\ row.number = other.number /\ row.question = Spelling(other.question)
        /\ row.sheet = Spelling(other.sheet) \/ (row.sheet = NoValue /\ other.sheet = NoValue)
        /\ row.grade = Spelling(other.grade) \/ (row.grade = NoValue /\ other.grade = NoValue)
<1>4. DOMAIN these = DOMAIN those /\ \A i \in DOMAIN these : Respelled(these[i], those[i])
  <2>1. DOMAIN these = 1..(Len(lines) - 1) /\ DOMAIN those = 1..(Len(lines) - 1)
    BY <1>0 DEF Reader!RowsAfter
  <2>2. ASSUME NEW i \in 1..(Len(lines) - 1) PROVE Respelled(these[i], those[i])
    <3> DEFINE line == lines[i + 1]
               other == spelled[i + 1]
    <3>1. these[i] = [number |-> i + 1, question |-> Reader!Cell(other, columns.question, EmptyText),
                      sheet |-> Reader!Cell(other, columns.sheet, NoValue),
                      grade |-> Reader!Cell(other, columns.grade, NoValue)]
      BY <1>0 DEF Reader!RowsAfter
    <3>2. those[i] = [number |-> i + 1, question |-> Reader!Cell(line, columns.question, NoValue),
                      sheet |-> Reader!Cell(line, columns.sheet, NoValue),
                      grade |-> Reader!Cell(line, columns.grade, NoValue)]
      BY DEF Reader!RowsAfter
    <3>3. DOMAIN other = DOMAIN line /\ \A c \in DOMAIN line : other[c] = Spelling(line[c])
      <4>1. i + 1 \in DOMAIN lines
        BY <1>0
      <4> QED BY <1>0, <4>1
    <3> HIDE DEF these, those, line, other
    <3>4. Reader!Cell(other, columns.question, EmptyText) = Spelling(Reader!Cell(line, columns.question, NoValue))
      BY <3>3 DEF Reader!Cell, SpellsCells
    <3>5. \A c : \/ Reader!Cell(other, c, NoValue) = Spelling(Reader!Cell(line, c, NoValue))
                 \/ Reader!Cell(other, c, NoValue) = NoValue /\ Reader!Cell(line, c, NoValue) = NoValue
      BY <3>3 DEF Reader!Cell
    <3> QED BY <3>1, <3>2, <3>4, <3>5
  <2> QED BY <2>1, <2>2
<1> HIDE DEF these, those
<1>5. ASSUME NEW row, NEW other, Respelled(row, other)
      PROVE  /\ Reader!CanImport(Reader!PreviewRow(other)) <=>
                    /\ Reader!CanImport(Reader!PreviewRow(row))
                    /\ {other.question, other.sheet, other.grade} \subseteq CellText \cup {NoValue}
             /\ Reader!CanImport(Reader!PreviewRow(other)) => Reader!Params(row) = Reader!Params(other)
  <2> DEFINE good == {other.question, other.sheet, other.grade} \subseteq CellText \cup {NoValue}
  <2>1. /\ other.question \in CellText => row.question = other.question
        /\ other.question = NoValue => row.question = EmptyText
        /\ row.question \in CellText
    BY <1>5 DEF SpellsCells
  <2>2. ASSUME NEW mine, NEW yours, mine = Spelling(yours) \/ (mine = NoValue /\ yours = NoValue)
        PROVE  /\ yours \in CellText => mine = yours
               /\ yours = NoValue => mine \in {EmptyText, NoValue}
               /\ mine \in CellText \cup {NoValue}
               /\ yours \in CellText \cup {NoValue} => Reader!OptionalText(mine) = Reader!OptionalText(yours)
    BY <2>2 DEF SpellsCells, StripsTexts, Reader!OptionalText
  <2>3. /\ other.sheet \in CellText \cup {NoValue} => Reader!OptionalText(row.sheet) = Reader!OptionalText(other.sheet)
        /\ row.sheet \in CellText \cup {NoValue}
    BY <1>5, <2>2
  <2>4. /\ other.grade \in CellText => row.grade = other.grade
        /\ other.grade = NoValue => row.grade \in {EmptyText, NoValue}
        /\ other.grade \in CellText \cup {NoValue} => Reader!OptionalText(row.grade) = Reader!OptionalText(other.grade)
        /\ row.grade \in CellText \cup {NoValue}
    BY <1>5, <2>2
  <2>5. Reader!OptionalText(EmptyText) = NoValue
    BY DEF Reader!OptionalText, StripsTexts
  <2>6. ASSUME Reader!CanImport(Reader!PreviewRow(other))
        PROVE  good /\ Reader!CanImport(Reader!PreviewRow(row)) /\ Reader!Params(row) = Reader!Params(other)
    <3>1. /\ other.question \in CellText /\ Stripped(other.question) # EmptyText
          /\ ~(Characters(Stripped(other.question)) > MaxLength)
          /\ other.sheet \in CellText \cup {NoValue} /\ other.grade \in CellText \cup {NoValue}
          /\ other.grade \in CellText => Reader!OptionalText(other.grade) \in Grade \cup {NoValue}
      BY <2>6, Importable
    <3>2. row.grade \in CellText => Reader!OptionalText(row.grade) \in Grade \cup {NoValue}
      BY <2>4, <2>5, <3>1 DEF StripsTexts
    <3>3. Reader!CanImport(Reader!PreviewRow(row))
      BY <2>1, <2>3, <2>4, <3>1, <3>2, Importable
    <3>4. Reader!Params(row) = Reader!Params(other)
      BY <2>1, <2>3, <2>4, <3>1 DEF Reader!Params
    <3> QED BY <3>1, <3>3, <3>4
  <2>7. ASSUME good, Reader!CanImport(Reader!PreviewRow(row))
        PROVE  Reader!CanImport(Reader!PreviewRow(other))
    <3>1. /\ Stripped(row.question) # EmptyText /\ ~(Characters(Stripped(row.question)) > MaxLength)
          /\ row.grade \in CellText => Reader!OptionalText(row.grade) \in Grade \cup {NoValue}
      BY <2>7, Importable
    <3>2. other.question \in CellText
      BY <2>1, <2>7, <3>1 DEF StripsTexts
    <3>3. other.grade \in CellText => Reader!OptionalText(other.grade) \in Grade \cup {NoValue}
      BY <2>4, <3>1
    <3>4. other.sheet \in CellText \cup {NoValue} /\ other.grade \in CellText \cup {NoValue}
      BY <2>7
    <3> QED BY <2>1, <3>1, <3>2, <3>3, <3>4, Importable
  <2> QED BY <2>6, <2>7
<1> HIDE DEF Respelled
<1>6. \A row : Reader!PreviewRow(row).row = row
  BY DEF Reader!PreviewRow
<1>7. DOMAIN Reader!Preview(text) = DOMAIN these /\ DOMAIN Reader!Preview(book) = DOMAIN these
  BY <1>3, <1>4
<1>8. ASSUME NEW i \in DOMAIN Reader!Preview(text)
      PROVE  LET csv  == Reader!Preview(text)[i]
                 xlsx == Reader!Preview(book)[i]
             IN  /\ csv.row.number = xlsx.row.number
                 /\ Reader!CanImport(xlsx) <=>
                       /\ Reader!CanImport(csv)
                       /\ {xlsx.row.question, xlsx.row.sheet, xlsx.row.grade} \subseteq CellText \cup {NoValue}
                 /\ Reader!CanImport(xlsx) => Reader!Params(csv.row) = Reader!Params(xlsx.row)
  <2>1. i \in DOMAIN these /\ i \in DOMAIN those
    BY <1>4, <1>7
  <2>2. /\ Reader!Preview(text)[i] = Reader!PreviewRow(these[i]) /\ Reader!Preview(text)[i].row = these[i]
        /\ Reader!Preview(book)[i] = Reader!PreviewRow(those[i]) /\ Reader!Preview(book)[i].row = those[i]
    BY <1>3, <1>6, <2>1
  <2>3. Respelled(these[i], those[i]) /\ these[i].number = those[i].number
    BY <1>4, <2>1 DEF Respelled
  <2> QED BY <1>5, <2>2, <2>3
<1> QED BY <1>7, <1>8 DEF text, book

\* A number shown in the preview names one line of the file, and the question that would be
\* imported under it is what a cell of that line spells, stripped.
THEOREM PreviewNamesLines ==
    ASSUME StripsTexts, SpellsCells, NEW file, IsFile(file)
    PROVE  LET rows == Reader!Preview(file)
           IN  \A i \in DOMAIN rows :
                  /\ rows[i].row.number \in DOMAIN file.lines
                  /\ \A j \in DOMAIN rows : rows[j].row.number = rows[i].row.number => j = i
                  /\ Reader!CanImport(rows[i]) =>
                       LET line == file.lines[rows[i].row.number]
                       IN  \E c \in DOMAIN line : Reader!Params(rows[i].row).question = Stripped(Spelling(line[c]))
<1> DEFINE lines == file.lines
           spelled == Reader!Spelled(lines)
           read == Reader!ParseRows(file)
           rows == Reader!Preview(file)
           Shown(question, line) ==
               \/ question = EmptyText \/ question \notin CellText
               \/ \E c \in DOMAIN line : Stripped(question) = Stripped(Spelling(line[c]))
           Named(given, skipped) ==
               /\ DOMAIN given = 1..(Len(lines) - skipped)
               /\ \A i \in DOMAIN given :
                     given[i].number = i + skipped /\ Shown(given[i].question, lines[i + skipped])
<1>1. /\ Len(spelled) = Len(lines) /\ Len(lines) \in Nat /\ DOMAIN lines = 1..Len(lines) /\ DOMAIN spelled = DOMAIN lines
      /\ \A n \in DOMAIN lines : /\ DOMAIN spelled[n] = DOMAIN lines[n]
                                 /\ \A c \in DOMAIN lines[n] : spelled[n][c] = Spelling(lines[n][c])
  BY SpelledLines DEF IsFile
<1> HIDE DEF spelled
<1>2. ASSUME NEW columns, NEW missing \in {EmptyText, NoValue}, NEW skipped \in Nat, NEW held \in {lines, spelled}
      PROVE  Named(Reader!RowsAfter(held, skipped, columns, missing), skipped)
  <2> DEFINE given == Reader!RowsAfter(held, skipped, columns, missing)
  <2>1. DOMAIN given = 1..(Len(lines) - skipped)
    BY <1>1 DEF Reader!RowsAfter
  <2>2. ASSUME NEW i \in DOMAIN given
        PROVE  /\ given[i].number = i + skipped
               /\ \/ given[i].question = missing
                  \/ /\ columns.question \in DOMAIN held[i + skipped]
                     /\ given[i].question = held[i + skipped][columns.question]
    <3>1. DOMAIN given = 1..(Len(held) - skipped)
      BY DEF Reader!RowsAfter
    <3> QED BY <2>2, <3>1 DEF Reader!RowsAfter, Reader!Cell
  <2> HIDE DEF given
  <2>3. ASSUME NEW i \in DOMAIN given PROVE Shown(given[i].question, lines[i + skipped])
    <3>1. CASE given[i].question = missing
      BY <3>1 DEF StripsTexts
    <3>2. CASE /\ columns.question \in DOMAIN held[i + skipped]
               /\ given[i].question = held[i + skipped][columns.question]
      <4>1. i + skipped \in DOMAIN lines
        BY <1>1, <2>1
      <4> DEFINE line == lines[i + skipped]
      <4>2. columns.question \in DOMAIN line
        BY <1>1, <3>2, <4>1
      <4>3. given[i].question \in {line[columns.question], Spelling(line[columns.question])}
        BY <1>1, <3>2, <4>1, <4>2
      <4> HIDE DEF line
      <4>4. given[i].question \in CellText => given[i].question = Spelling(line[columns.question])
        BY <4>3 DEF SpellsCells
      <4> QED BY <4>2, <4>4 DEF line
    <3> QED BY <2>2, <3>1, <3>2
  <2> HIDE DEF Shown
  <2>4. Named(given, skipped)
    BY <2>1, <2>2, <2>3
  <2> QED BY <2>4 DEF given
<1>3. ASSUME file.extension = ".txt" PROVE Named(Reader!ParseTxt(spelled), 0)
  <2> DEFINE given == Reader!ParseTxt(spelled)
  <2>1. DOMAIN given = 1..Len(lines)
    BY <1>1 DEF Reader!ParseTxt
  <2>2. ASSUME NEW i \in 1..Len(lines)
        PROVE  /\ given[i].number = i /\ given[i].question = Stripped(spelled[i][1])
               /\ 1 \in DOMAIN lines[i]
    BY <1>1, <1>3 DEF Reader!ParseTxt, IsFile
  <2> HIDE DEF given
  <2>3. Len(lines) - 0 = Len(lines) /\ \A i \in 1..Len(lines) : i + 0 = i
    BY <1>1
  <2>4. ASSUME NEW i \in 1..Len(lines) PROVE Shown(given[i].question, lines[i])
    <3>1. spelled[i][1] = Spelling(lines[i][1]) /\ 1 \in DOMAIN lines[i]
      BY <1>1, <2>2
    <3>2. Stripped(given[i].question) = Stripped(Spelling(lines[i][1]))
      BY <2>2, <3>1 DEF StripsTexts
    <3> QED BY <3>1, <3>2
  <2> HIDE DEF Shown
  <2>5. Named(given, 0)
    BY <2>1, <2>2, <2>3, <2>4
  <2> QED BY <2>5 DEF given
<1> HIDE DEF Shown
<1>4. read = <<>> \/ \E skipped \in Nat : Named(read, skipped)
  <2> HIDE DEF Named
  <2>1. CASE ~file.readable
    <3>1. Reader!ParseTxt(<<>>) = <<>>
      BY DEF Reader!ParseTxt
    <3> QED BY <2>1, <3>1 DEF Reader!ParseRows, Reader!DecodeText, Reader!ReadRows, Reader!ParseCsv, Reader!ParseExcel
  <2>2. CASE file.readable /\ file.extension = ".txt"
    <3>1. read = Reader!ParseTxt(spelled)
      BY <2>2, RowsOfFile DEF Reader!DecodeText, spelled
    <3> QED BY <1>3, <2>2, <3>1
  <2>3. CASE file.readable /\ file.extension = ".csv"
    <3>1. read = Reader!ParseCsv(spelled)
      BY <2>3, RowsOfFile DEF Reader!DecodeText, spelled
    <3> QED BY <1>2, <3>1 DEF Reader!ParseCsv
  <2>4. CASE file.readable /\ file.extension \in {".xlsx", ".xlsm"}
    <3>1. read = Reader!ParseExcel(lines)
      BY <2>4 DEF Reader!ParseRows, Reader!ReadRows, Reader!ExcelExtension
    <3>2. Reader!ExcelColumnIndexes(lines[1]).skipped \in Nat
      BY DEF Reader!ExcelColumnIndexes
    <3> QED BY <1>2, <3>1, <3>2 DEF Reader!ParseExcel
  <2>5. CASE file.extension \notin {".txt", ".csv", ".xlsx", ".xlsm"}
    BY <2>5 DEF Reader!ParseRows, Reader!ExcelExtension
  <2> QED BY <2>1, <2>2, <2>3, <2>4, <2>5
<1>5. /\ DOMAIN rows = DOMAIN read
      /\ \A i \in DOMAIN read : rows[i] = Reader!PreviewRow(read[i]) /\ rows[i].row = read[i]
  BY DEF Reader!Preview, Reader!PreviewRow
<1> HIDE DEF read, rows
<1>6. ASSUME NEW i \in DOMAIN rows
      PROVE  /\ rows[i].row.number \in DOMAIN file.lines
             /\ \A j \in DOMAIN rows : rows[j].row.number = rows[i].row.number => j = i
             /\ Reader!CanImport(rows[i]) =>
                  \E c \in DOMAIN file.lines[rows[i].row.number] :
                      Reader!Params(rows[i].row).question = Stripped(Spelling(file.lines[rows[i].row.number][c]))
  <2>1. PICK skipped \in Nat : Named(read, skipped)
    BY <1>4, <1>5
  <2>2. /\ DOMAIN read = 1..(Len(lines) - skipped) /\ i \in DOMAIN read
        /\ \A j \in DOMAIN read : read[j].number = j + skipped
    BY <1>5, <2>1
  <2>3. read[i].number \in 1..Len(lines) /\ \A j \in DOMAIN read : read[j].number = read[i].number => j = i
    BY <1>1, <2>2
  <2>4. ASSUME Reader!CanImport(rows[i])
        PROVE  \E c \in DOMAIN lines[read[i].number] :
                   Reader!Params(read[i]).question = Stripped(Spelling(lines[read[i].number][c]))
    <3>1. read[i].question \in CellText /\ read[i].question # EmptyText
      BY <1>5, <2>2, <2>4, Importable DEF StripsTexts
    <3>2. PICK c \in DOMAIN lines[i + skipped] : Stripped(read[i].question) = Stripped(Spelling(lines[i + skipped][c]))
      BY <2>1, <2>2, <3>1 DEF Shown
    <3>3. Reader!Params(read[i]).question = Stripped(read[i].question)
      BY DEF Reader!Params
    <3> QED BY <2>2, <3>2, <3>3
  <2> QED BY <1>1, <1>5, <2>2, <2>3, <2>4
<1> QED BY <1>6 DEF rows
=============================================================================
