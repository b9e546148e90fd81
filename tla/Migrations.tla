----------------------------- MODULE Migrations -----------------------------
(***************************************************************************)
(* A database that is migrated up and down the chain of revisions while    *)
(* the releases in between write to it.                                    *)
(*                                                                         *)
(* One step is one revision, up or down, in one transaction                *)
(* (alembic/env.py): it is committed whole, or PostgreSQL refuses one of   *)
(* its statements and nothing happens.  "upgrade head" over several        *)
(* revisions runs them in a single transaction: it ends where the model    *)
(* ends after the same steps, or where it started.                         *)
(*                                                                         *)
(* Writes stand for the release that runs at a revision (Released).  They  *)
(* are not code of the migrations: they fill tables the way the schema of  *)
(* that revision allows, in bundles that belong together.                  *)
(***************************************************************************)
EXTENDS Revisions

CONSTANTS
    Released,     \* the revisions at which a release runs and writes
    Contents,     \* what it may write at once: a set of bundles, sequences
                  \* of [table, choice]
    MaxWrites     \* bound: how often it writes or deletes

VARIABLES
    revision,     \* alembic_version; 0 before the first revision
    db,           \* the database
    writes,       \* how often a release has written or deleted
    refusal       \* what PostgreSQL refused in the last step, if anything

vars == <<revision, db, writes, refusal>>

Latest == Len(Upgrades)
NoRefusal == [at |-> 0, doing |-> "nothing", why |-> "no"]

-----------------------------------------------------------------------------
(* Migrating. *)

Attempt(doing, at, statements, then) ==
    LET next == Migrate(db, statements)
    IN  /\ writes' = writes
        /\ IF next.refused = "no"
           THEN db' = next /\ revision' = then /\ refusal' = NoRefusal
           ELSE /\ refusal' = [at |-> at, doing |-> doing, why |-> next.refused]
                /\ UNCHANGED <<db, revision>>

(* "alembic upgrade": the next revision. *)
Upgrade == /\ revision < Latest
           /\ Attempt("upgrade", revision + 1, Upgrades[revision + 1], revision + 1)

(* "make downgrade": one revision back. *)
Downgrade == /\ revision > 0
             /\ Attempt("downgrade", revision, Downgrades[revision], revision - 1)

-----------------------------------------------------------------------------
(* The releases. *)

(* Columns that name a row of another table although no foreign key says   *)
(* so: questions and items outlive the users who asked them.               *)
LooseLinks == {<<"question", "suggested_by_username">>, <<"item", "suggested_by_username">>}

LinkOf(d, t, c) ==
    {[to |-> ref.to, key |-> ref.key] :
        ref \in {x \in d.references : x.table = t /\ x.column = c}}
    \cup IF <<t, c>> \in LooseLinks THEN {[to |-> "user", key |-> "username"]} ELSE {}

Newest(rows) == CHOOSE r \in rows : \A s \in rows : s.key <= r.key
Oldest(rows) == CHOOSE r \in rows : \A s \in rows : s.key >= r.key

(* Two columns of one row that must not name the same row. *)
FirstOfTwo == {"source_person_id", "current_certificate_id"}

(* A row for table t as the release writes it: links to the newest rows,   *)
(* derived columns as the code derives them, anything else its own value,  *)
(* and, when it is to be bare, nothing where nothing is required.          *)
NewRow(d, t, key, choice) ==
    LET Own(c) == <<c, key>>
        folder == FolderNames[choice.folder]
        Value(c) ==
            LET links == LinkOf(d, t, c)
                link == CHOOSE l \in links : TRUE
                targets == d.rows[link.to]
            IN  CASE c = "folder_id" -> <<"folder", choice.folder>>
                  [] links # {} /\ c # "folder_id" ->
                        IF targets = {} \/ (choice.bare /\ ~d.tables[t][c].required) THEN None
                        ELSE (IF c \in FirstOfTwo THEN Oldest(targets) ELSE Newest(targets)).of[link.key]
                  [] t = "article" /\ c = "folder_ru" -> <<folder.ru, 0>>
                  [] t = "article" /\ c = "folder_en" -> <<folder.en, 0>>
                  [] t = "folder" /\ c = "id" -> <<"folder", choice.folder>>
                  [] t = "folder" /\ c = "name_ru" -> <<folder.ru, 0>>
                  [] t = "folder" /\ c = "name_en" -> <<folder.en, 0>>
                  [] t = "user" /\ c = "role" -> <<"USER", 0>>
                  [] t = "knowledge_item" /\ c = "kind" -> <<choice.kind, 0>>
                  [] t # "folder" /\ c = "id" -> NewId(d, t, key)
                  [] c \in {"question_ru_fingerprint", "question_en_fingerprint"} ->
                        QuestionFingerprintDigest(
                            Own(IF c = "question_ru_fingerprint" THEN "question_ru" ELSE "question_en"))
                  [] c = "question_fingerprint" -> QuestionFingerprintDigest(Own("question"))
                  [] c = "absolute_expires_at" -> <<"absolute expiry of", key>>
                  [] OTHER -> IF choice.bare /\ ~d.tables[t][c].required THEN None ELSE Own(c)
    IN  [key |-> key, of |-> [c \in DOMAIN d.tables[t] |-> Value(c)]]

(* The i-th row of a bundle; tables the schema does not have, and the      *)
(* folder that is there already, are passed over.                          *)
Put(d, entry, key) ==
    LET t == entry.table
        rowkey == IF t = "folder" THEN 1000 + entry.choice.folder ELSE key
        row == NewRow(d, t, rowkey, entry.choice)
    IN  IF d.refused # "no" \/ t \notin DOMAIN d.tables
           \/ \E r \in d.rows[t] : r.key = rowkey
        THEN d
        ELSE IF \E c \in DOMAIN row.of : d.tables[t][c].required /\ row.of[c] = None
        THEN Refuse(d, "nothing to link to")
        ELSE InsertRow(d, t, row)

(* The release keeps the mark of unused files right. *)
Marked(d) ==
    IF ~HasColumn(d, "file", "orphaned_at") THEN d
    ELSE SetColumn(d, "file", "orphaned_at",
                   LAMBDA f : IF Used(d, f) THEN None ELSE <<"orphaned_at", 0>>)

Write == /\ revision \in Released
         /\ writes < MaxWrites
         /\ \E bundle \in Contents :
               LET next == FoldLeft(LAMBDA d, i : Put(d, bundle[i], 100 * writes + i),
                                    db, [i \in DOMAIN bundle |-> i])
               IN  \/ /\ next.refused = "no"
                      /\ next # db
                      /\ db' = Marked(next)
                      /\ writes' = writes + 1
                      /\ refusal' = NoRefusal
                      /\ UNCHANGED revision
                   \/ /\ next.refused = "id taken"
                      /\ refusal' = [at |-> revision, doing |-> "insert", why |-> "id taken"]
                      /\ UNCHANGED <<revision, db, writes>>

(* An account that is not the owner's is deleted, an article is deleted. *)
Delete == /\ revision \in Released
          /\ writes < MaxWrites
          /\ \E t \in {"user", "article"} : \E r \in RowsOf(db, t) :
                /\ t = "user" => r.of["role"] # <<"OWNER", 0>>
                /\ db' = Marked(DeleteRows(db, t, {r}))
                /\ db'.refused = "no"
          /\ writes' = writes + 1
          /\ refusal' = NoRefusal
          /\ UNCHANGED revision

-----------------------------------------------------------------------------
Init == /\ revision = 0
        /\ db = EmptyDatabase
        /\ writes = 0
        /\ refusal = NoRefusal

Next == Upgrade \/ Downgrade \/ Write \/ Delete

Spec == Init /\ [][Next]_vars

-----------------------------------------------------------------------------
(* What the rows of a database say, however the revision stores it.        *)

(* A tag that was hidden by "deleted_at" is no tag, nor are its links.     *)
IsHidden(d, t, r) ==
    \/ t = "tag" /\ "deleted_at" \in DOMAIN r.of /\ r.of["deleted_at"] # None
    \/ t = "article_tag" /\ "deleted_at" \in DOMAIN d.tables["tag"]
       /\ \E tag \in d.rows["tag"] : tag.of["id"] = r.of["tag_id"] /\ tag.of["deleted_at"] # None

(* Columns whose meaning is stated by itself below, or that have none. *)
Rephrased == {"id", "deleted_at", "folder_id", "folder_ru", "folder_en", "orphaned_at",
              "absolute_expires_at", "question_fingerprint", "question_ru_fingerprint",
              "question_en_fingerprint"}

NameOf(c) == CASE c = "interview_expected_answer_ru" -> "interview_answer_explanation_ru"
               [] c = "interview_expected_answer_en" -> "interview_answer_explanation_en"
               [] OTHER -> c

(* A link says which row it names. *)
Shown(d, t, r, c) ==
    LET named == {x.key : x \in UNION {{y \in d.rows[l.to] : y.of[l.key] = r.of[c]} : l \in LinkOf(d, t, c)}}
    IN  IF named = {} THEN r.of[c] ELSE <<"row", CHOOSE k \in named : TRUE>>

Plain(d, t, r) ==
    {[column |-> NameOf(c), value |-> Shown(d, t, r, c)] :
        c \in {x \in DOMAIN r.of \ Rephrased : r.of[x] # None /\ <<t, x>> # <<"question", "suggested_by_username">>}}

(* The folder of an article: its own two names, or those of the row it     *)
(* points at.                                                              *)
FolderSaid(d, r) ==
    LET f == IF "folder_id" \notin DOMAIN r.of THEN r.of
             ELSE LET row == CHOOSE x \in d.rows["folder"] : x.of["id"] = r.of["folder_id"]
                  IN  [folder_ru |-> row.of["name_ru"], folder_en |-> row.of["name_en"]]
    IN  {[column |-> "folder", value |-> f["folder_ru"]], [column |-> "folder", value |-> f["folder_en"]]}

(* Who asked a question: the account it names while there is one, the      *)
(* owner otherwise.                                                        *)
AskerSaid(d, r) ==
    LET askers == {u.key : u \in {x \in d.rows["user"] : x.of["username"] = r.of["suggested_by_username"]}}
    IN  {[column |-> "asker", value |-> <<"row", IF askers = {} THEN 0 ELSE CHOOSE k \in askers : TRUE>>]}

DigestSaid(r, question, digest) ==
    {[column |-> "digest", value |-> IF digest \in DOMAIN r.of THEN r.of[digest]
                                     ELSE QuestionFingerprintDigest(r.of[question])]}

Said(d, t, r) ==
    CASE t = "article"  -> FolderSaid(d, r)
      [] t = "question" -> AskerSaid(d, r) \cup DigestSaid(r, "question", "question_fingerprint")
      [] t = "item"     -> DigestSaid(r, "question_ru", "question_ru_fingerprint")
                           \cup DigestSaid(r, "question_en", "question_en_fingerprint")
      [] t = "session"  -> {[column |-> "lasts until",
                             value |-> IF "absolute_expires_at" \in DOMAIN r.of
                                       THEN r.of["absolute_expires_at"] ELSE AbsoluteExpiry(r)]}
      [] t = "file"     -> {[column |-> "unused",
                             value |-> IF "orphaned_at" \in DOMAIN r.of
                                       THEN <<"is", IF r.of["orphaned_at"] = None THEN 0 ELSE 1>>
                                       ELSE <<"is", IF Used(d, r) THEN 0 ELSE 1>>]}
      [] OTHER          -> {}

Meaning(d) ==
    UNION {UNION {{[table |-> t, row |-> r.key, says |-> x] : x \in Plain(d, t, r) \cup Said(d, t, r)} :
                      r \in {y \in d.rows[t] : ~IsHidden(d, t, y)}} : t \in DOMAIN d.rows}

(* What a revision is meant to lose or to make up: whole tables, columns,  *)
(* and, where dates go, the rows that belong to a date.                    *)
AgentTables == {"agent_client", "agent_certificate", "claim", "completion", "audit_event", "rotation"}
DateTables == {"date_details", "date_person"}
KnowledgeTables == DateTables \cup {"knowledge_item", "knowledge_tag", "relationship_type",
    "knowledge_file", "knowledge_item_tag", "person_details", "relationship"}

TablesOf(r, up) ==
    CASE r = 1        -> DOMAIN db.tables \cup DOMAIN db'.tables
      [] r = 3        -> {"folder"}
      [] r = 4 /\ ~up -> {"file", "file_usage"}
      [] r = 6        -> {"session"}
      [] r = 7 /\ up  -> {"session"}
      [] r = 12       -> AgentTables
      [] r = 14       -> KnowledgeTables
      [] r = 15       -> DateTables
      [] r = 18 /\ up -> KnowledgeTables \cup {"resume"}
      [] OTHER        -> {}

ColumnsOf(r, up) ==
    CASE r = 4        -> {<<"article", "cover_image_url">>, <<"article", "cover_image_file_id">>}
      [] r = 5 /\ ~up -> {<<"file", "original_sha256">>}
      [] r = 7 /\ ~up -> {"session"} \X {"last_used_at", "auth_method", "user_agent_display",
                             "user_agent_browser", "user_agent_os", "user_agent_device"}
      [] r = 9        -> {<<"item", "suggested_by_username">>}
      [] OTHER        -> {}

DateRows(d) ==
    LET dates == {x \in RowsOf(d, "knowledge_item") : x.of["kind"][1] = "DATE"}
    IN  {<<"knowledge_item", x.key>> : x \in dates}
        \cup UNION {{<<t, x.key>> : x \in {y \in RowsOf(d, t) : y.of["item_id"] \in {z.of["id"] : z \in dates}}} :
                    t \in {"knowledge_item_tag", "knowledge_file"}}

Accountable(facts, r, up) ==
    {f \in facts : /\ f.table \notin TablesOf(r, up)
                   /\ <<f.table, f.says.column>> \notin ColumnsOf(r, up)
                   /\ (r = 15 /\ ~up) => <<f.table, f.row>> \notin DateRows(db)}

-----------------------------------------------------------------------------
(* Properties. *)

(* A revision changes how things are stored and not what they say: every   *)
(* row, link and value is there afterwards as before, through new ids, new *)
(* columns and new tables, except for what the revision is about to drop:  *)
(* which article is in which folder (0003), which tags it has (0002,       *)
(* 0011), who asked a question (0009), which questions are duplicates      *)
(* (0010), which files are unused (0017), what kind a knowledge item is    *)
(* (0015).                                                                 *)
MeaningKept ==
    [][revision' # revision =>
          LET up == revision' > revision
              r == IF up THEN revision' ELSE revision
          IN  Accountable(Meaning(db), r, up) = Accountable(Meaning(db'), r, up)]_vars

(* The databases a fresh installation goes through. *)
FreshDatabases ==
    FoldLeft(LAMBDA built, statements : Append(built, Migrate(Last(built), statements)),
             <<EmptyDatabase>>, Upgrades)

(* The revision says what the schema is: whatever way up and down led to   *)
(* it, the database has the tables, columns, foreign keys with their       *)
(* rules, constraints, indexes and types that a fresh installation has at  *)
(* that revision, so that the next revision finds what it was written for. *)
SchemaOfRevision == SchemaOf(db) = SchemaOf(FreshDatabases[revision + 1])

(* Some article folder key is taken twice: base-N of one name is the base  *)
(* of another (0003, _article_folder_rows).                                *)
FolderKeysCollide ==
    LET rows == ArticleFolderRows(db)
    IN  \E a, b \in rows : a # b /\ a.of["key"] = b.of["key"]

(* No revision is refused and no insert fails, whatever the releases have  *)
(* written, but for two cases the code leaves open: folder names whose     *)
(* keys collide stop 0003, and an integer id may be taken once 0002 has    *)
(* been downgraded twice, because the second time the sequence is not      *)
(* started anew (CreateSequence with if_not_exists).                       *)
RefusalsHaveReason ==
    \/ refusal = NoRefusal
    \/ refusal.at = 3 /\ refusal.doing = "upgrade" /\ refusal.why = "duplicate" /\ FolderKeysCollide
    \/ refusal.at = 1 /\ refusal.doing = "insert" /\ DOMAIN db.kept # {}
=============================================================================
