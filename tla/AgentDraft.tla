----------------------------- MODULE AgentDraft -----------------------------
(***************************************************************************)
(* The Draft an agent sends, and the five that read it: the tool of the    *)
(* bridge, the bridge's client of the Agent API, the request schema of the *)
(* server, the rules of the use case, and the digest that tells a repeated *)
(* save from another one.                                                  *)
(*                                                                         *)
(* A draft is [fields, resources]: a function from its fields to what they *)
(* hold, and the sequence of its resources.  Of a value is told what the   *)
(* five look at, what PostgreSQL then takes of it, and which of two good   *)
(* ones it is.                                                             *)
(***************************************************************************)
EXTENDS Naturals, Sequences, FiniteSets

CONSTANTS MinResources, MaxResources    \* minimum_resource_count and maximum_resource_count

IdField   == {"claim", "subsection"}
LongField == {"questionRu", "questionEn", "answerRu", "answerEn",
              "interviewAnswerExplanationRu", "interviewAnswerExplanationEn"}
TextField == LongField \cup {"slug"}

\* Two of at most 255 characters; 256 to 20000; more; only spaces; white space with a line break
\* in it; a text with a NUL, which JSON can write and PostgreSQL cannot keep.
Text == {"text", "another", "wide", "long", "", "spaces", "lines", "nul"}

\* Words of small letters and digits; something else.
Slug == Text \cup {"slug", "another-slug"}

\* 32 hexadecimal digits, 32 other characters, 32 spaces, 32 with a NUL, not 32 characters.
Id == {"hex", "another hex", "other", "spaces", "nul", "short"}

\* What urlsplit makes of a url; it refuses one with a malformed host, and to give a bad port.
Url == [scheme : {"https", "http"}, host : {"name", "address", "none", "malformed"},
        user : BOOLEAN, port : {"none", "zero", "some", "bad"}, size : {"fits", "nul", "empty", "long"}]

-----------------------------------------------------------------------------
(* What the schemas ask of a value. *)

Sized(text) == text \notin {"", "long"}                  \* 1 to 20000 characters
Short(text) == Sized(text) /\ text # "wide"              \* 1 to 255
SlugPattern(text) == text \in {"slug", "another-slug"}
HexId(id)  == id \in {"hex", "another hex"}
LongEnough(id) == id # "short"

ResourceTexts(resource) ==
    IF resource.kind = "new" THEN {resource.nameRu, resource.nameEn, resource.contextRu, resource.contextEn}
    ELSE {resource.contextRu, resource.contextEn}

SizedResource(resource) ==
    /\ \A text \in ResourceTexts(resource) : Sized(text)
    /\ resource.kind = "new" => /\ Short(resource.nameRu) /\ Short(resource.nameEn)
                                /\ resource.url.size \in {"fits", "nul"}

Counted(draft) == Len(draft.resources) \in MinResources..MaxResources

-----------------------------------------------------------------------------
(* The four that may refuse it. *)

ToolAccepts(draft) ==
    /\ \A f \in IdField : HexId(draft.fields[f])
    /\ SlugPattern(draft.fields["slug"])
    /\ \A f \in LongField : Sized(draft.fields[f])
    /\ Counted(draft)
    /\ \A i \in DOMAIN draft.resources : LET r == draft.resources[i] IN
          SizedResource(r) /\ (r.kind = "existing" => HexId(r.id))

\* The client only looks at the ids: it must not put anything else in a path.
ClientAccepts(draft) ==
    /\ \A f \in IdField : HexId(draft.fields[f])
    /\ \A i \in DOMAIN draft.resources : LET r == draft.resources[i] IN r.kind = "existing" => HexId(r.id)

\* The claim's id comes in the path, the rest in the body.
RequestAccepts(draft) ==
    /\ HexId(draft.fields["claim"]) /\ LongEnough(draft.fields["subsection"])
    /\ SlugPattern(draft.fields["slug"])
    /\ \A f \in LongField : Sized(draft.fields[f])
    /\ Counted(draft)
    /\ \A i \in DOMAIN draft.resources : LET r == draft.resources[i] IN
          SizedResource(r) /\ (r.kind = "existing" => LongEnough(r.id))

Blank == {"", "spaces", "lines"}
Written(text) == text \notin Blank

\* What the use case does with a resource: nothing, refuse it, or break on it.
EnsureResourceValid(resource) ==
    IF (\E text \in ResourceTexts(resource) : ~Written(text)) \/ (resource.kind = "existing" /\ ~Written(resource.id))
    THEN "refused"
    ELSE IF resource.kind = "existing" THEN "valid"
    ELSE LET url == resource.url IN
         IF url.host = "malformed" THEN "broken"
         ELSE IF /\ url.port \notin {"bad", "zero"}
                 /\ url.scheme = "https" /\ url.host = "name" /\ ~url.user
              THEN "valid" ELSE "refused"

ExistingResources(draft) == {i \in DOMAIN draft.resources : draft.resources[i].kind = "existing"}

\* The first resource that is not valid decides.
EnsureValid(draft) ==
    LET Outcome(i) == EnsureResourceValid(draft.resources[i])
        bad == {i \in DOMAIN draft.resources : Outcome(i) # "valid"}
    IN  IF ~Counted(draft) \/ \E f \in IdField \cup TextField : ~Written(draft.fields[f]) THEN "refused"
        ELSE IF bad # {} THEN Outcome(CHOOSE i \in bad : \A j \in bad : i <= j)
        ELSE IF \E i, j \in ExistingResources(draft) : i # j /\ draft.resources[i].id = draft.resources[j].id
             THEN "refused" ELSE "valid"

-----------------------------------------------------------------------------
(* What is kept of it. *)

\* The resources are sorted before they are hashed: how often each is there, not where.
CanonicalDigest(draft) ==
    LET payloads == {draft.resources[i] : i \in DOMAIN draft.resources}
    IN  [fields    |-> draft.fields,
         resources |-> [p \in payloads |-> Cardinality({i \in DOMAIN draft.resources : draft.resources[i] = p})]]

\* A save of a claim that has been saved.
ToResult(saved, draft) == IF CanonicalDigest(saved) = CanonicalDigest(draft) THEN "replayed" ELSE "conflict"

\* A new resource gets an id of its own; the links of the item have its id and theirs as key.
Attachment(resource, fresh) ==
    [id |-> IF resource.kind = "new" THEN fresh ELSE resource.id,
     contextRu |-> resource.contextRu, contextEn |-> resource.contextEn]

\* fresh are the ids the generator gives next.
DraftItem(draft, fresh) ==
    [texts     |-> [f \in TextField |-> draft.fields[f]],
     grade     |-> draft.fields["grade"],
     status    |-> "Draft",
     resources |-> {Attachment(draft.resources[i], fresh[i]) : i \in DOMAIN draft.resources}]

\* What the columns take: the questions' are of 255 characters, and no NUL goes into any.
ItemFits(draft) == /\ \A f \in LongField : draft.fields[f] # "nul"
                   /\ draft.fields["questionRu"] # "wide" /\ draft.fields["questionEn"] # "wide"
ResourceFits(resource) ==
    resource.kind = "new" => resource.nameRu # "nul" /\ resource.nameEn # "nul" /\ resource.url.size # "nul"
LinkFits(resource) == resource.contextRu # "nul" /\ resource.contextEn # "nul"

\* The flush writes the item, its new resources and, after these, its links.  Of an error of the
\* database only a broken constraint is caught: an item beside a resource that does not fit fails
\* by whichever is written first, and nothing says which.
CreateItem(draft, slugs) ==
    LET resources == \A i \in DOMAIN draft.resources : ResourceFits(draft.resources[i])
        links     == \A i \in DOMAIN draft.resources : LinkFits(draft.resources[i])
    IN  IF ~ItemFits(draft) THEN {"broken"}
        ELSE IF draft.fields["slug"] \in slugs THEN {"conflict"} \cup (IF resources THEN {} ELSE {"broken"})
        ELSE IF resources /\ links THEN {"saved"} ELSE {"broken"}

\* What an authenticated agent with the scope may be answered: completion is the draft the claim
\* was saved with, <<>> before; claimed says that the claim is the agent's and has not expired;
\* tables holds the ids of the resources and of the subsections there are and the items' slugs.
Save(draft, completion, claimed, tables) ==
    LET ids        == {draft.resources[i].id : i \in ExistingResources(draft)}
        subsection == draft.fields["subsection"]
    IN  IF ~RequestAccepts(draft) THEN {"invalid"}
        ELSE IF EnsureValid(draft) # "valid" THEN {EnsureValid(draft)}
        ELSE IF completion # <<>> THEN {ToResult(completion[1], draft)}
        ELSE IF ~claimed THEN {"not_found"}
        ELSE IF "nul" \in ids THEN {"broken"}
        ELSE IF ~(ids \subseteq tables.resources) THEN {"not_found"}
        ELSE IF subsection = "nul" THEN {"broken"}
        ELSE IF subsection \notin tables.subsections THEN {"not_found"}
        ELSE CreateItem(draft, tables.slugs)
=============================================================================
