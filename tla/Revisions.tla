----------------------------- MODULE Revisions -----------------------------
(***************************************************************************)
(* The eighteen revisions of                                               *)
(*   src/backend/src/infra/postgresql/alembic/versions                     *)
(* each as the sequence of statements its upgrade() and its downgrade()    *)
(* send, and the statements that move data, which the revisions write in   *)
(* Python.                                                                 *)
(*                                                                         *)
(* Tables have short names: "item" is                                      *)
(* competency_matrix__competency_matrix_item_model and so on.  Columns,    *)
(* constraints and indexes keep theirs.  Column types are told apart only  *)
(* where a revision changes them (ids, enum types).  A foreign key over    *)
(* (id, author_username) is modelled as the key over the id it contains.   *)
(* Dropping an index in the same breath as its table is the table's drop.  *)
(***************************************************************************)
EXTENDS Database, SequencesExt

CONSTANT
    FolderNames   \* the folder names articles use, ordered by lower(name):
                  \* a sequence of [ru, en, key], key being what
                  \* _folder_key makes of the English name

(* Statements. *)
Create(t, columns, references, rules) ==
    [do |-> "create table", table |-> t, columns |-> columns,
     references |-> references, rules |-> rules]
Drop(t)              == [do |-> "drop table", table |-> t]
Add(t, columns)      == [do |-> "add columns", table |-> t, columns |-> columns]
Discard(t, c)         == [do |-> "drop column", table |-> t, column |-> c]
Require(t, c)        == [do |-> "require", table |-> t, column |-> c]
Relax(t, c)          == [do |-> "relax", table |-> t, column |-> c]
Rename(t, c, name)   == [do |-> "rename", table |-> t, column |-> c, name |-> name]
Refer(t, f)          == [do |-> "add foreign key", table |-> t, key |-> f]
Unrefer(t, c)        == [do |-> "drop foreign key", table |-> t, column |-> c]
Rule(t, r)           == [do |-> "add rule", table |-> t, rule |-> r]
Unrule(t, name)      == [do |-> "drop rule", table |-> t, name |-> name]
Type(name, if_absent)      == [do |-> "create type", name |-> name, labels |-> {}, if |-> if_absent]
Enum(name, labels)         == [do |-> "create type", name |-> name, labels |-> labels, if |-> FALSE]
Untype(name, if_present)   == [do |-> "drop type", name |-> name, if |-> if_present]
Data(what)           == [do |-> what]

Each(seq, Statement(_)) == [i \in DOMAIN seq |-> Statement(seq[i])]

-----------------------------------------------------------------------------
(* 0001: the initial schema. *)

Articles == Create("article",
    Required("data", {"title_ru", "title_en", "content_ru", "content_en", "slug", "folder_ru",
        "folder_en", "author_username", "search_vector_ru", "search_vector_en", "created_at",
        "updated_at"})
    @@ Optional("data", {"seo_title_ru", "seo_title_en", "seo_description_ru",
           "seo_description_en", "cover_image_url", "cover_image_alt_ru", "cover_image_alt_en",
           "published_at"})
    @@ Required("publish_status_enum", {"publish_status"})
    @@ Required("uuid", {"id"}),
    {},
    {Key({"id"}),
     Index("articles_article_publish_status_published_at_idx", {"publish_status", "published_at"}),
     Index("articles_article_publish_status_published_updated_idx", {"publish_status", "published_at", "updated_at"}),
     Index("articles_article_search_vector_en_gin_idx", {"search_vector_en"}),
     Index("articles_article_search_vector_gin_idx", {"search_vector_ru"}),
     Index("articles_article_tree_en_published_idx", {"folder_en", "published_at", "updated_at", "title_en", "slug", "publish_status"}),
     Index("articles_article_tree_ru_published_idx", {"folder_ru", "published_at", "updated_at", "title_ru", "slug", "publish_status"}),
     Unique("ix_articles__article_model_slug", {"slug"})})

Tags == Create("tag",
    Required("data", {"name_ru", "name_en", "slug", "created_at", "updated_at"})
    @@ Optional("data", {"deleted_at"})
    @@ Required("int", {"id"}),
    {},
    {Key({"id"}), Index("articles_tag_name_en_trgm_idx", {"name_en"}),
     Index("articles_tag_name_ru_trgm_idx", {"name_ru"}),
     Index("articles_tag_slug_trgm_idx", {"slug"}),
     Unique("ix_articles__tag_model_slug", {"slug"})})

Users == Create("user",
    Required("data", {"username", "password_hash", "is_active"})
    @@ Required("role_enum", {"role"}),
    {},
    {Key({"username"}), Index("users_managed_accounts_list_idx", {"role", "username"}),
     Partial("users_single_owner_uniq", {"role"}), Index("users_username_idx", {"username"}),
     Unique("users_username_lower_uniq", {"username"})})

Sheets == Create("sheet",
    Required("data", {"key", "name_ru", "name_en", "priority"})
    @@ Required("int", {"id"}),
    {},
    {Key({"id"}), Unique("sheet_key_key", {"key"}), Index("cm_sheet_key_lower_idx", {"key"}),
     Index("cm_sheet_priority_idx", {"priority", "id"})})

Resources == Create("resource",
    Required("data", {"name_ru", "name_en", "url"})
    @@ Required("int", {"id"}),
    {},
    {Key({"id"}), Index("cm_external_resource_name_en_trgm_idx", {"name_en"}),
     Index("cm_external_resource_name_ru_trgm_idx", {"name_ru"}),
     Index("cm_external_resource_url_trgm_idx", {"url"})})

Contacts == Create("contact",
    Optional("data", {"name", "email", "telegram"})
    @@ Required("data", {"message"})
    @@ Required("uuid", {"id"}),
    {},
    {Key({"id"})})

Resumes(id) == Create("resume",
    Required("data", {"title", "author_username", "content", "created_at", "updated_at"})
    @@ Required("language_enum", {"language"})
    @@ Required(id, {"id"}),
    {},
    {Key({"id"}),
     Index("resumes_resume_author_updated_id_idx", {"author_username", "updated_at", "id"})})

ArticleDailyAnalytics == Create("analytics",
    Required("uuid", {"article_id"})
    @@ Required("data", {"date", "view_count", "engaged_view_count"})
    @@ Required("article_view_source_category_enum", {"source_category"})
    @@ Required("int", {"id"}),
    {Foreign("article_id", "article", "CASCADE")},
    {Key({"id"}),
     Unique("articles_daily_analytics_article_date_source_uniq", {"article_id", "date", "source_category"})})

ArticleReactions == Create("reaction",
    Required("uuid", {"article_id"})
    @@ Required("data", {"article_scoped_voter_hash", "created_at", "updated_at"})
    @@ Required("article_reaction_kind_enum", {"reaction_kind"})
    @@ Required("int", {"id"}),
    {Foreign("article_id", "article", "CASCADE")},
    {Key({"id"}),
     Unique("articles_reaction_article_voter_uniq", {"article_id", "article_scoped_voter_hash"})})

ArticleTags == Create("article_tag",
    Required("uuid", {"article_id"})
    @@ Required("int", {"tag_id", "id"}),
    {Foreign("article_id", "article", "CASCADE"), Foreign("tag_id", "tag", "CASCADE")},
    {Key({"id"}), Unique("articles_article_tag_uniq", {"article_id", "tag_id"})})

Sections == Create("section",
    Required("int", {"sheet_id", "id"})
    @@ Required("data", {"name_ru", "name_en", "priority"}),
    {Foreign("sheet_id", "sheet", "CASCADE")},
    {Key({"id"}), Unique("cm_section_sheet_name_en_uniq", {"sheet_id", "name_en"}),
     Unique("cm_section_sheet_name_ru_uniq", {"sheet_id", "name_ru"}),
     Index("cm_section_sheet_en_idx", {"sheet_id", "name_en", "id"}),
     Index("cm_section_sheet_ru_idx", {"sheet_id", "name_ru", "id"}),
     Index("cm_section_sheet_priority_idx", {"sheet_id", "priority", "id"})})

QueuedQuestions == Create("question",
    Required("data", {"question", "created_at"})
    @@ Optional("grade_enum", {"grade"})
    @@ Optional("data", {"sheet", "section", "subsection", "suggested_by_username"})
    @@ Required("int", {"id"}),
    {Foreign("suggested_by_username", "user", "SET NULL")},
    {Key({"id"}), Index("cm_queued_question_fifo_idx", {"created_at"}),
     Index("cm_queued_question_suggested_by_idx", {"suggested_by_username"})})

Subsections == Create("subsection",
    Required("int", {"section_id", "id"})
    @@ Required("data", {"name_ru", "name_en", "priority"}),
    {Foreign("section_id", "section", "CASCADE")},
    {Key({"id"}), Unique("cm_subsection_section_name_en_uniq", {"section_id", "name_en"}),
     Unique("cm_subsection_section_name_ru_uniq", {"section_id", "name_ru"}),
     Index("cm_subsection_section_en_idx", {"section_id", "name_en", "id"}),
     Index("cm_subsection_section_ru_idx", {"section_id", "name_ru", "id"}),
     Index("cm_subsection_section_priority_idx", {"section_id", "priority", "id"})})

Items == Create("item",
    Required("data", {"slug", "question_ru", "question_en", "answer_ru", "answer_en",
        "interview_expected_answer_ru", "interview_expected_answer_en"})
    @@ Required("int", {"subsection_id", "id"})
    @@ Optional("grade_enum", {"grade"})
    @@ Optional("interview_frequency_enum", {"interview_frequency"})
    @@ Optional("data", {"published_at"})
    @@ Required("publish_status_enum", {"publish_status"}),
    {Foreign("subsection_id", "subsection", "RESTRICT")},
    {Key({"id"}),
     Index("cmi_subsection_status_grade_idx", {"subsection_id", "publish_status", "grade", "id"}),
     Index("cmi_workspace_missing_fields_idx", {"slug", "grade", "question_ru", "question_en", "answer_ru", "answer_en", "interview_expected_answer_ru", "interview_expected_answer_en"}),
     Index("cmi_workspace_question_en_trgm_idx", {"question_en"}),
     Index("cmi_workspace_question_ru_trgm_idx", {"question_ru"}),
     Index("cmi_workspace_slug_trgm_idx", {"slug"}),
     Index("cmi_workspace_status_published_at_idx", {"publish_status", "published_at", "id"}),
     Index("cmi_workspace_subsection_status_grade_idx", {"subsection_id", "publish_status", "grade", "id"}),
     Unique("ix_competency_matrix__competency_matrix_item_model_slug", {"slug"})})

ResourceLinks == Create("resource_link",
    Required("int", {"item_id", "resource_id", "id"})
    @@ Required("data", {"context_ru", "context_en"}),
    {Foreign("item_id", "item", "CASCADE"), Foreign("resource_id", "resource", "CASCADE")},
    {Key({"id"}), Unique("cm_resource_item_uniq", {"item_id", "resource_id"})})

InitialEnums == << "article_reaction_kind_enum", "article_view_source_category_enum",
                   "grade_enum", "interview_frequency_enum", "language_enum",
                   "publish_status_enum", "role_enum" >>

(* The owner's row; nothing is done when the name is taken already. *)
CreateInitialOwner(db) ==
    LET owner == [key |-> 0, of |-> [username |-> <<"username", 0>>,
                                     password_hash |-> <<"password_hash", 0>>,
                                     role |-> <<"OWNER", 0>>, is_active |-> <<"is_active", 0>>]]
    IN  IF \E r \in db.rows["user"] : r.of["username"] = owner.of["username"] THEN db
        ELSE InsertRow(db, "user", owner)

Upgrade0001 ==
    Each(InitialEnums, LAMBDA name : Type(name, TRUE))
    \o << Articles, Tags, Users, Data("create initial owner"), Sheets, Resources, Contacts,
          Resumes("int"), ArticleDailyAnalytics, ArticleReactions, ArticleTags, Sections,
          QueuedQuestions, Subsections, Items, ResourceLinks >>

Downgrade0001 ==
    Each(<< "resource_link", "item", "subsection", "question", "section", "article_tag",
            "reaction", "analytics", "resume", "contact", "resource", "sheet", "user", "tag",
            "article" >>, Drop)
    \o Each(Reverse(InitialEnums), LAMBDA name : Untype(name, TRUE))

-----------------------------------------------------------------------------
(* 0002: ids become 32 hexadecimal digits, or go back to UUIDs and         *)
(* integers.                                                               *)

IntegerIdTables == << "tag", "article_tag", "analytics", "reaction", "resume", "sheet",
                      "section", "subsection", "item", "resource", "question",
                      "resource_link" >>
UuidIdTables == << "article", "contact" >>
IdTables == UuidIdTables \o IntegerIdTables

(* The foreign keys between them, with what they point at. *)
DependentForeignKeys == <<
    [table |-> "analytics",     key |-> Foreign("article_id", "article", "CASCADE")],
    [table |-> "reaction",      key |-> Foreign("article_id", "article", "CASCADE")],
    [table |-> "article_tag",   key |-> Foreign("article_id", "article", "CASCADE")],
    [table |-> "article_tag",   key |-> Foreign("tag_id", "tag", "CASCADE")],
    [table |-> "section",       key |-> Foreign("sheet_id", "sheet", "CASCADE")],
    [table |-> "subsection",    key |-> Foreign("section_id", "section", "CASCADE")],
    [table |-> "item",          key |-> Foreign("subsection_id", "subsection", "RESTRICT")],
    [table |-> "resource_link", key |-> Foreign("item_id", "item", "CASCADE")],
    [table |-> "resource_link", key |-> Foreign("resource_id", "resource", "CASCADE")] >>

(* UPGRADE_COLUMNS and DOWNGRADE_COLUMNS: every id, every such foreign key. *)
IdColumns == Each(IdTables, LAMBDA t : [table |-> t, column |-> "id"])
             \o Each(DependentForeignKeys, LAMBDA f : [table |-> f.table, column |-> f.key.column])

IdType(at, up) ==
    CASE up -> "hex"
      [] ~up /\ (at.column = "article_id" \/ (at.column = "id" /\ at.table \in {"article", "contact"}))
            -> "uuid"
      [] OTHER -> "int"

DependentRules == <<
    [table |-> "analytics", rule |-> Unique("articles_daily_analytics_article_date_source_uniq",
                                            {"article_id", "date", "source_category"})],
    [table |-> "reaction", rule |-> Unique("articles_reaction_article_voter_uniq",
                                           {"article_id", "article_scoped_voter_hash"})],
    [table |-> "article_tag", rule |-> Unique("articles_article_tag_uniq", {"article_id", "tag_id"})],
    [table |-> "section", rule |-> Unique("cm_section_sheet_name_ru_uniq", {"sheet_id", "name_ru"})],
    [table |-> "section", rule |-> Unique("cm_section_sheet_name_en_uniq", {"sheet_id", "name_en"})],
    [table |-> "subsection", rule |-> Unique("cm_subsection_section_name_ru_uniq",
                                             {"section_id", "name_ru"})],
    [table |-> "subsection", rule |-> Unique("cm_subsection_section_name_en_uniq",
                                             {"section_id", "name_en"})],
    [table |-> "resource_link", rule |-> Unique("cm_resource_item_uniq", {"item_id", "resource_id"})] >>

DependentIndexes == <<
    [table |-> "resume", rule |-> Index("resumes_resume_author_updated_id_idx",
                                        {"author_username", "updated_at", "id"})],
    [table |-> "sheet", rule |-> Index("cm_sheet_priority_idx", {"priority", "id"})],
    [table |-> "section", rule |-> Index("cm_section_sheet_en_idx", {"sheet_id", "name_en", "id"})],
    [table |-> "section", rule |-> Index("cm_section_sheet_ru_idx", {"sheet_id", "name_ru", "id"})],
    [table |-> "section", rule |-> Index("cm_section_sheet_priority_idx",
                                         {"sheet_id", "priority", "id"})],
    [table |-> "subsection", rule |-> Index("cm_subsection_section_en_idx",
                                            {"section_id", "name_en", "id"})],
    [table |-> "subsection", rule |-> Index("cm_subsection_section_ru_idx",
                                            {"section_id", "name_ru", "id"})],
    [table |-> "subsection", rule |-> Index("cm_subsection_section_priority_idx",
                                            {"section_id", "priority", "id"})],
    [table |-> "item", rule |-> Index("cmi_subsection_status_grade_idx",
                                      {"subsection_id", "publish_status", "grade", "id"})],
    [table |-> "item", rule |-> Index("cmi_workspace_status_published_at_idx",
                                      {"publish_status", "published_at", "id"})],
    [table |-> "item", rule |-> Index("cmi_workspace_subsection_status_grade_idx",
                                      {"subsection_id", "publish_status", "grade", "id"})] >>

(* Old id |-> new id.  A UUID keeps its digits; an integer becomes a fresh *)
(* random value, here the row's own number; on the way back rows are       *)
(* numbered from 1 in the order of their ids.                              *)
IdMap(db, t, up) ==
    LET ids == {r.of["id"] : r \in db.rows[t]}
        Row(id) == CHOOSE r \in db.rows[t] : r.of["id"] = id
        Rank(id) == Cardinality({x \in ids : x[2] <= id[2]})
        uuid == t \in ToSet(UuidIdTables)
    IN  [id \in ids |-> CASE up /\ uuid    -> <<"hex", id[2]>>
                          [] up /\ ~uuid   -> <<"hex", Row(id).key>>
                          [] ~up /\ uuid   -> <<"uuid", id[2]>>
                          [] ~up /\ ~uuid  -> <<"int", Rank(id)>>]

TempColumn(c) == "__next_" \o c

PopulateTempColumn(db, t, c, map) ==
    SetColumn(db, t, TempColumn(c),
              LAMBDA r : IF r.of[c] \in DOMAIN map THEN map[r.of[c]] ELSE None)

PopulateIdColumns(db, up) ==
    FoldLeft(LAMBDA d, t : PopulateTempColumn(d, t, "id", IdMap(db, t, up)), db, IdTables)

PopulateFkColumns(db, up) ==
    FoldLeft(LAMBDA d, f : PopulateTempColumn(d, f.table, f.key.column, IdMap(db, f.key.to, up)),
             db, DependentForeignKeys)

DropDependentObjects ==
    Each(DependentIndexes \o DependentRules, LAMBDA x : Unrule(x.table, x.rule.name))
    \o << Data("drop reflected foreign keys") >>
    \o Each(IdTables, LAMBDA t : Unrule(t, "primary key"))

(* Every foreign key of the tables that have a dependent one. *)
DropReflectedForeignKeys(db) ==
    LET tables == {f.table : f \in ToSet(DependentForeignKeys)}
    IN  [db EXCEPT !.references = {ref \in @ : ref.table \notin tables}]

(* The old column goes, the temporary one takes its name and is required.  *)
SwapColumns ==
    FlattenSeq(Each(IdColumns, LAMBDA at :
        << Discard(at.table, at.column),
           Rename(at.table, TempColumn(at.column), at.column),
           Require(at.table, at.column) >>))

(* The sequences the integer ids count with, started after the highest id; *)
(* a sequence an earlier downgrade made is left as it is.  No column owns  *)
(* them: they outlive the columns and the tables.                          *)
IntegerSequenceDefaults(db) ==
    [db EXCEPT !.kept = @ @@ [t \in ToSet(IntegerIdTables) |-> Cardinality(db.rows[t]) + 1]]

CreateDependentObjects ==
    Each(IdTables, LAMBDA t : Rule(t, Key({"id"})))
    \o Each(DependentForeignKeys, LAMBDA f : Refer(f.table, f.key))
    \o Each(DependentRules \o DependentIndexes, LAMBDA x : Rule(x.table, x.rule))

HexOnlyIndexes == Each(<< <<"articles_tag_active_name_ru_id_idx", "name_ru">>,
                          <<"articles_tag_active_name_en_id_idx", "name_en">> >>,
    LAMBDA x : Index(x[1], {x[2], "id", "name_ru", "name_en", "slug", "deleted_at",
                            "created_at", "updated_at"}))

AddTempColumns(up) ==
    Each(IdColumns, LAMBDA at : Add(at.table, Optional(IdType(at, up), {TempColumn(at.column)})))

Upgrade0002 ==
    AddTempColumns(TRUE) \o << Data("populate ids up"), Data("populate links up") >>
    \o DropDependentObjects \o SwapColumns \o CreateDependentObjects
    \o Each(HexOnlyIndexes, LAMBDA r : Rule("tag", r))

Downgrade0002 ==
    AddTempColumns(FALSE) \o << Data("populate ids down"), Data("populate links down") >>
    \o Each(HexOnlyIndexes, LAMBDA r : Unrule("tag", r.name))
    \o DropDependentObjects \o << Data("create sequences") >> \o SwapColumns
    \o CreateDependentObjects

-----------------------------------------------------------------------------
(* 0003: the two folder names of an article become a row of their own. *)

ArticleFolders == Create("folder",
    Required("data", {"key", "name_ru", "name_en", "priority"})
    @@ Required("hex", {"id"}),
    {},
    {Key({"id"}), Index("articles_folder_name_en_idx", {"name_en", "id"}),
     Index("articles_folder_name_ru_idx", {"name_ru", "id"}),
     Index("articles_folder_priority_id_idx", {"priority", "id"}),
     Unique("articles_folder_key_lower_uniq", {"key"})})

TreeIndex(name, columns) ==
    Index(name, columns \cup {"published_at", "updated_at", "slug", "publish_status"})

InFolder(r, i) == /\ r.of["folder_ru"] = <<FolderNames[i].ru, 0>>
                  /\ r.of["folder_en"] = <<FolderNames[i].en, 0>>

(* The key of the folder with the i-th name, among the names in use: the   *)
(* base key, or base-N for the N-th folder with that base.                 *)
FolderKey(i, used) ==
    LET base == FolderNames[i].key
        N == Cardinality({j \in used : j <= i /\ FolderNames[j].key = base})
    IN  IF N = 1 THEN base ELSE base \o "-" \o ToString(N)

(* One row per pair of names, its id computed from the names. *)
ArticleFolderRows(db) ==
    LET used == {i \in DOMAIN FolderNames : \E r \in db.rows["article"] : InFolder(r, i)}
    IN  {[key |-> 1000 + i,
          of |-> [id |-> <<"folder", i>>, key |-> <<FolderKey(i, used), 0>>,
                  name_ru |-> <<FolderNames[i].ru, 0>>, name_en |-> <<FolderNames[i].en, 0>>,
                  priority |-> <<"priority", Cardinality({j \in used : j <= i})>>]] : i \in used}

InsertFolders(db) ==
    CheckedTable(db, [db EXCEPT !.rows["folder"] = ArticleFolderRows(db)], "folder")

(* Mutant: the English name is taken for the folder's identity. *)
PlaceArticlesByEnglishName(db) ==
    SetColumn(db, "article", "folder_id", LAMBDA r :
        LET found == {f \in db.rows["folder"] : f.of["name_en"] = r.of["folder_en"]}
        IN  IF found = {} THEN r.of["folder_id"] ELSE (CHOOSE f \in found : TRUE).of["id"])

(* Both names have to agree with the folder's. *)
PlaceArticles(db) ==
    SetColumn(db, "article", "folder_id", LAMBDA r :
        LET found == {f \in db.rows["folder"] : /\ f.of["name_ru"] = r.of["folder_ru"]
                                                /\ f.of["name_en"] = r.of["folder_en"]}
        IN  IF found = {} THEN r.of["folder_id"] ELSE (CHOOSE f \in found : TRUE).of["id"])

NameFolders(db) ==
    LET Folder(r) == CHOOSE f \in db.rows["folder"] : f.of["id"] = r.of["folder_id"]
    IN  SetColumn(SetColumn(db, "article", "folder_ru", LAMBDA r : Folder(r).of["name_ru"]),
                  "article", "folder_en", LAMBDA r : Folder(r).of["name_en"])

Upgrade0003 == <<
    ArticleFolders,
    Add("article", Optional("hex", {"folder_id"})),
    Data("insert folders"), Data("place articles"),
    Require("article", "folder_id"),
    Unrule("article", "articles_article_tree_en_published_idx"),
    Unrule("article", "articles_article_tree_ru_published_idx"),
    Rule("article", TreeIndex("articles_article_tree_folder_ru_published_idx",
                              {"folder_id", "title_ru"})),
    Rule("article", TreeIndex("articles_article_tree_folder_en_published_idx",
                              {"folder_id", "title_en"})),
    Refer("article", Foreign("folder_id", "folder", "RESTRICT")),
    Discard("article", "folder_ru"),
    Discard("article", "folder_en") >>

Downgrade0003 == <<
    Add("article", Optional("data", {"folder_en", "folder_ru"})),
    Data("name folders"),
    Require("article", "folder_ru"),
    Require("article", "folder_en"),
    Unrefer("article", "folder_id"),
    Unrule("article", "articles_article_tree_folder_en_published_idx"),
    Unrule("article", "articles_article_tree_folder_ru_published_idx"),
    Rule("article", TreeIndex("articles_article_tree_ru_published_idx", {"folder_ru", "title_ru"})),
    Rule("article", TreeIndex("articles_article_tree_en_published_idx", {"folder_en", "title_en"})),
    Discard("article", "folder_id"),
    Drop("folder") >>

-----------------------------------------------------------------------------
(* 0004, 0005: stored files and where articles use them. *)

Files == Create("file",
    Required("file_purpose_enum", {"purpose"})
    @@ Required("data", {"namespace", "relative_path", "mime_type", "size_bytes", "name",
           "original_name", "created_at", "updated_at"})
    @@ Required("hex", {"id"}),
    {},
    {Key({"id"}),
     Unique("files_file_namespace_relative_path_uniq", {"namespace", "relative_path"}),
     Index("files_file_purpose_created_id_idx", {"purpose", "created_at", "id"})})

ArticleFileUsages == Create("file_usage",
    Required("hex", {"article_id", "file_id", "id"})
    @@ Required("file_purpose_enum", {"usage"}),
    {Foreign("article_id", "article", "CASCADE"), Foreign("file_id", "file", "RESTRICT")},
    {Key({"id"}),
     Unique("articles_file_usage_article_file_usage_uniq", {"article_id", "file_id", "usage"}),
     Index("articles_file_usage_file_idx", {"file_id"})})

Upgrade0004 == <<
    Type("file_purpose_enum", TRUE), Files, ArticleFileUsages,
    Add("article", Optional("hex", {"cover_image_file_id"})),
    Rule("article", Index("articles_article_cover_image_file_idx", {"cover_image_file_id"})),
    Refer("article", Foreign("cover_image_file_id", "file", "RESTRICT")),
    Discard("article", "cover_image_url") >>

Downgrade0004 == <<
    Add("article", Optional("data", {"cover_image_url"})),
    Unrefer("article", "cover_image_file_id"),
    Unrule("article", "articles_article_cover_image_file_idx"),
    Discard("article", "cover_image_file_id"),
    Drop("file_usage"), Drop("file"),
    Untype("file_purpose_enum", TRUE) >>

DigestIndex == Index("files_file_namespace_purpose_original_sha256_idx",
                     {"namespace", "purpose", "original_sha256"})

Upgrade0005 == << Add("file", Optional("data", {"original_sha256"})), Rule("file", DigestIndex) >>
Downgrade0005 == << Unrule("file", DigestIndex.name), Discard("file", "original_sha256") >>

-----------------------------------------------------------------------------
(* 0006, 0007, 0008: login sessions. *)

SessionTable == Create("session",
    Required("data", {"username", "secret_hash", "expires_at", "is_revoked", "created_at",
        "updated_at"})
    @@ Required("hex", {"id"}),
    {Foreign("username", "user", "CASCADE")},
    {Key({"id"}), Unique("auth_sessions_secret_hash_uniq", {"secret_hash"}),
     Index("auth_sessions_expiry_idx", {"expires_at"}),
     Index("auth_sessions_username_lower_active_expiry_idx", {"username", "is_revoked", "expires_at"})})

Upgrade0006 == << SessionTable >>
Downgrade0006 == << Drop("session") >>

(* What a session is found by: its user, whether it lives and more. *)
SessionIndex(name, more) == Index(name, {"username", "is_revoked", "expires_at"} \cup more)
ExpiryIndex   == "auth_sessions_username_lower_active_expiry_idx"
LastUsedIndex == "auth_sessions_username_lower_active_last_used_idx"

(* Sessions have to go before columns are required of them. *)
ForgetSessions(db) == DeleteRows(db, "session", db.rows["session"])

Upgrade0007 == <<
    Data("forget sessions"),
    Type("auth_session_auth_method_enum", TRUE), Type("auth_session_device_type_enum", TRUE),
    Add("session", Required("data", {"last_used_at"})),
    Add("session", Required("auth_session_auth_method_enum", {"auth_method"})),
    Add("session", Required("data", {"user_agent_display", "user_agent_browser", "user_agent_os"})),
    Add("session", Required("auth_session_device_type_enum", {"user_agent_device"})),
    Rule("session", SessionIndex(LastUsedIndex, {"last_used_at", "id"})) >>

Downgrade0007 ==
    << Unrule("session", LastUsedIndex) >>
    \o Each(<< "user_agent_device", "user_agent_os", "user_agent_browser", "user_agent_display",
               "auth_method", "last_used_at" >>, LAMBDA c : Discard("session", c))
    \o << Untype("auth_session_device_type_enum", TRUE), Untype("auth_session_auth_method_enum", TRUE) >>

(* The latest a session may last, counted from its creation. *)
AbsoluteExpiry(r) == <<"absolute expiry of", r.of["created_at"][2]>>
SetAbsoluteExpiry(db) == SetColumn(db, "session", "absolute_expires_at", AbsoluteExpiry)

Upgrade0008 == <<
    Add("session", Optional("data", {"absolute_expires_at"})),
    Data("set absolute expiry"),
    Require("session", "absolute_expires_at"),
    Unrule("session", ExpiryIndex),
    Rule("session", SessionIndex(ExpiryIndex, {"absolute_expires_at"})),
    Unrule("session", LastUsedIndex),
    Rule("session", SessionIndex(LastUsedIndex, {"absolute_expires_at", "last_used_at", "id"})),
    Rule("session", Index("auth_sessions_absolute_expiry_idx", {"absolute_expires_at"})) >>

Downgrade0008 == <<
    Unrule("session", "auth_sessions_absolute_expiry_idx"),
    Unrule("session", LastUsedIndex),
    Rule("session", SessionIndex(LastUsedIndex, {"last_used_at", "id"})),
    Unrule("session", ExpiryIndex),
    Rule("session", SessionIndex(ExpiryIndex, {})),
    Discard("session", "absolute_expires_at") >>

-----------------------------------------------------------------------------
(* 0009: every question and item has somebody who asked it. *)

AttributeQuestions(db) ==
    LET owners == {r.of["username"] : r \in {u \in db.rows["user"] : u.of["role"][1] = "OWNER"}}
        owner == CHOOSE o \in owners : TRUE
    IN  IF Cardinality(owners) # 1 THEN Refuse(db, "not one owner")
        ELSE SetColumn(SetColumn(db, "item", "suggested_by_username", LAMBDA r : owner),
                 "question", "suggested_by_username",
                 LAMBDA r : IF r.of["suggested_by_username"] = None THEN owner
                            ELSE r.of["suggested_by_username"])

(* Names nobody has any more are forgotten, for the foreign key. *)
ForgetUnknownAskers(db) ==
    LET names == {u.of["username"] : u \in db.rows["user"]}
    IN  SetColumn(db, "question", "suggested_by_username",
                  LAMBDA r : IF r.of["suggested_by_username"] \in names
                             THEN r.of["suggested_by_username"] ELSE None)

Upgrade0009 == <<
    Add("item", Optional("data", {"suggested_by_username"})),
    Unrefer("question", "suggested_by_username"),
    Data("attribute questions"),
    Require("item", "suggested_by_username"),
    Require("question", "suggested_by_username") >>

Downgrade0009 == <<
    Relax("question", "suggested_by_username"),
    Data("forget unknown askers"),
    Refer("question", Foreign("suggested_by_username", "user", "SET NULL")),
    Discard("item", "suggested_by_username") >>

-----------------------------------------------------------------------------
(* 0010: digests of questions, by which duplicates are found. *)

QuestionFingerprintDigest(question) == <<"digest of " \o question[1], question[2]>>

FingerprintQuestions(db) ==
    LET Digested(d, t, from, to) ==
            SetColumn(d, t, to, LAMBDA r : QuestionFingerprintDigest(r.of[from]))
    IN  Digested(Digested(Digested(db,
            "item", "question_ru", "question_ru_fingerprint"),
            "item", "question_en", "question_en_fingerprint"),
            "question", "question", "question_fingerprint")

Upgrade0010 == <<
    Add("item", Optional("data", {"question_ru_fingerprint"})),
    Add("item", Optional("data", {"question_en_fingerprint"})),
    Add("question", Optional("data", {"question_fingerprint"})),
    Data("fingerprint questions"),
    Require("item", "question_ru_fingerprint"),
    Require("item", "question_en_fingerprint"),
    Require("question", "question_fingerprint"),
    Rule("item", Index("cmi_question_en_fingerprint_idx", {"question_en_fingerprint"})),
    Rule("item", Index("cmi_question_ru_fingerprint_idx", {"question_ru_fingerprint"})),
    Rule("question", Index("cm_queued_question_fingerprint_idx", {"question_fingerprint"})) >>

Downgrade0010 == <<
    Unrule("question", "cm_queued_question_fingerprint_idx"),
    Unrule("item", "cmi_question_ru_fingerprint_idx"),
    Unrule("item", "cmi_question_en_fingerprint_idx"),
    Discard("question", "question_fingerprint"),
    Discard("item", "question_en_fingerprint"),
    Discard("item", "question_ru_fingerprint") >>

-----------------------------------------------------------------------------
(* 0011: a deleted tag is a deleted row. *)

DeleteHiddenTags(db) ==
    DeleteRows(db, "tag", {r \in db.rows["tag"] : r.of["deleted_at"] # None})

Upgrade0011 ==
    << Data("delete hidden tags") >> \o Each(HexOnlyIndexes, LAMBDA r : Unrule("tag", r.name))
    \o << Discard("tag", "deleted_at") >>

Downgrade0011 ==
    << Add("tag", Optional("data", {"deleted_at"})) >>
    \o Each(HexOnlyIndexes, LAMBDA r : Rule("tag", r))

-----------------------------------------------------------------------------
(* 0012: agents. *)

AgentClients == Create("agent_client",
    Required("data", {"name", "created_at"})
    @@ Required("agent_client_status_enum", {"status"})
    @@ Required("agent_scope_enum", {"scopes"})
    @@ Optional("data", {"revoked_at"})
    @@ Required("hex", {"id"}),
    {},
    {Key({"id"}), Unique("agent_client_name_lower_uniq", {"name"}),
     Index("agent_client_status_created_idx", {"status", "created_at", "id"})})

AgentCertificates == Create("agent_certificate",
    Required("hex", {"agent_client_id", "id"})
    @@ Required("data", {"fingerprint_sha256", "serial_number", "certificate_pem", "valid_from",
           "expires_at", "created_at"})
    @@ Optional("data", {"revoked_at"}),
    {Foreign("agent_client_id", "agent_client", "RESTRICT")},
    {Key({"id"}), Unique("agent_certificate_fingerprint_sha256_key", {"fingerprint_sha256"}),
     Unique("agent_certificate_serial_number_key", {"serial_number"}),
     Index("agent_certificate_client_expiry_idx", {"agent_client_id", "expires_at", "id"}),
     Index("agent_certificate_revoked_expiry_idx", {"revoked_at", "expires_at", "id"})})

MatrixQuestionClaims == Create("claim",
    Required("hex", {"agent_client_id", "queue_item_id", "id"})
    @@ Required("data", {"claimed_at", "expires_at"}),
    {Foreign("agent_client_id", "agent_client", "CASCADE"),
     Foreign("queue_item_id", "question", "CASCADE")},
    {Key({"id"}), Unique("matrix_question_claim_client_uniq", {"agent_client_id"}),
     Unique("matrix_question_claim_queue_item_uniq", {"queue_item_id"}),
     Index("matrix_question_claim_expiry_idx", {"expires_at", "id"})})

MatrixQuestionDraftCompletions == Create("completion",
    Required("hex", {"claim_id", "agent_client_id", "queue_item_id", "matrix_item_id"})
    @@ Required("data", {"input_digest", "completed_at"}),
    {Foreign("agent_client_id", "agent_client", "RESTRICT")},
    {Key({"claim_id"}),
     Index("matrix_question_draft_completion_client_completed_idx", {"agent_client_id", "completed_at", "claim_id"})})

AgentAuditEvents == Create("audit_event",
    Required("hex", {"agent_client_id", "certificate_id", "id"})
    @@ Required("agent_action_enum", {"action"})
    @@ Optional("hex", {"queue_item_id", "matrix_item_id"})
    @@ Required("data", {"request_id", "input_digest", "created_at"})
    @@ Required("agent_audit_result_enum", {"result"}),
    {Foreign("agent_client_id", "agent_client", "RESTRICT"),
     Foreign("certificate_id", "agent_certificate", "RESTRICT")},
    {Key({"id"}),
     Index("agent_audit_action_result_created_idx", {"action", "result", "created_at", "id"}),
     Index("agent_audit_client_created_idx", {"agent_client_id", "created_at", "id"}),
     Index("agent_audit_created_idx", {"created_at", "id"})})

AgentCertificateRotations == Create("rotation",
    Required("data", {"rotation_id", "csr_digest", "created_at", "normal_access_until"})
    @@ Required("hex", {"agent_client_id", "current_certificate_id",
           "replacement_certificate_id"})
    @@ Optional("data", {"confirmed_at"}),
    {Foreign("agent_client_id", "agent_client", "RESTRICT"),
     Foreign("current_certificate_id", "agent_certificate", "RESTRICT"),
     Foreign("replacement_certificate_id", "agent_certificate", "RESTRICT")},
    {Key({"rotation_id"}), Check("agent_certificate_rotation_distinct_certificates_check"),
     Unique("agent_certificate_rotation_replacement_uniq", {"replacement_certificate_id"}),
     Index("agent_certificate_rotation_client_created_idx", {"agent_client_id", "created_at", "rotation_id"}),
     Partial("agent_certificate_rotation_pending_current_uniq", {"current_certificate_id"})})

AgentEnums == << "agent_client_status_enum", "agent_scope_enum", "agent_action_enum",
                 "agent_audit_result_enum" >>

Upgrade0012 ==
    Each(AgentEnums, LAMBDA name : Type(name, FALSE))
    \o << AgentClients, AgentCertificates, MatrixQuestionClaims, MatrixQuestionDraftCompletions,
          AgentAuditEvents, AgentCertificateRotations >>

Downgrade0012 ==
    Each(<< "rotation", "audit_event", "completion", "claim", "agent_certificate",
            "agent_client" >>, Drop)
    \o Each(Reverse(AgentEnums), LAMBDA name : Untype(name, FALSE))

-----------------------------------------------------------------------------
(* 0013: a column of items is renamed. *)

Upgrade0013 == <<
    Rename("item", "interview_expected_answer_ru", "interview_answer_explanation_ru"),
    Rename("item", "interview_expected_answer_en", "interview_answer_explanation_en") >>

Downgrade0013 == <<
    Rename("item", "interview_answer_explanation_ru", "interview_expected_answer_ru"),
    Rename("item", "interview_answer_explanation_en", "interview_expected_answer_en") >>

-----------------------------------------------------------------------------
(* 0014, 0015, 0016: people, private files and dates. *)

KindEnum == "knowledge_item_kind_enum"
FileKindEnum == "knowledge_file_kind_enum"

KnowledgeItems == Create("knowledge_item",
    Required("knowledge_item_kind_enum", {"kind"})
    @@ Required("data", {"author_username", "display_name", "description", "created_at",
           "updated_at"})
    @@ Required("hex", {"id"}),
    {Foreign("author_username", "user", "CASCADE")},
    {Key({"id"}), Check("knowledge_items_description_length_check"),
     Unique("knowledge_items_id_author_uniq", {"id", "author_username"}),
     Index("knowledge_items_author_kind_name_id_idx", {"author_username", "kind", "display_name", "id"}),
     Index("knowledge_items_author_kind_updated_id_idx", {"author_username", "kind", "updated_at", "id"})})

KnowledgeTags == Create("knowledge_tag",
    Required("data", {"author_username", "name", "created_at", "updated_at"})
    @@ Required("hex", {"id"}),
    {Foreign("author_username", "user", "CASCADE")},
    {Key({"id"}), Unique("knowledge_tags_id_author_uniq", {"id", "author_username"}),
     Index("knowledge_tags_author_name_id_idx", {"author_username", "name", "id"}),
     Unique("knowledge_tags_author_name_lower_uniq", {"author_username", "name"}),
     Index("knowledge_tags_name_trgm_idx", {"name"})})

RelationshipTypes == Create("relationship_type",
    Required("data", {"author_username", "is_symmetric", "forward_name", "reverse_name",
        "created_at", "updated_at"})
    @@ Required("hex", {"id"}),
    {Foreign("author_username", "user", "CASCADE")},
    {Key({"id"}), Check("person_relationship_types_names_check"),
     Unique("person_relationship_types_id_author_uniq", {"id", "author_username"}),
     Index("person_relationship_types_author_name_id_idx", {"author_username", "forward_name", "id"})})

KnowledgeFiles == Create("knowledge_file",
    Required("hex", {"item_id", "id"})
    @@ Required("data", {"author_username", "relative_path", "mime_type", "size_bytes", "name",
           "original_name", "original_sha256", "created_at", "updated_at"})
    @@ Required("knowledge_file_kind_enum", {"kind"}),
    {Foreign("item_id", "knowledge_item", "CASCADE")},
    {Key({"id"}), Check("knowledge_files_sha256_length_check"),
     Check("knowledge_files_names_check"), Check("knowledge_files_non_negative_size_check"),
     Unique("knowledge_files_id_author_uniq", {"id", "author_username"}),
     Unique("knowledge_file_relative_path_key", {"relative_path"}),
     Index("knowledge_files_author_item_kind_id_idx", {"author_username", "item_id", "kind", "id"}),
     Partial("knowledge_files_one_person_photo_idx", {"item_id", "kind"})})

KnowledgeItemTags == Create("knowledge_item_tag",
    Required("hex", {"item_id", "tag_id"})
    @@ Required("data", {"author_username", "created_at", "updated_at"}),
    {Foreign("item_id", "knowledge_item", "CASCADE"),
     Foreign("tag_id", "knowledge_tag", "RESTRICT")},
    {Key({"item_id", "tag_id"}),
     Index("knowledge_item_tags_author_tag_item_idx", {"author_username", "tag_id", "item_id"})})

PersonDetails == Create("person_details",
    Required("hex", {"item_id"})
    @@ Required("data", {"author_username", "last_name", "first_name", "middle_name", "email",
           "phone", "telegram"})
    @@ Optional("data", {"birthday_day", "birthday_month", "birthday_year"}),
    {Foreign("item_id", "knowledge_item", "CASCADE")},
    {Key({"item_id"}), Check("person_details_birthday_check"),
     Check("person_details_required_names_check"),
     Unique("person_details_id_author_uniq", {"item_id", "author_username"}),
     Index("person_details_author_email_item_idx", {"author_username", "email", "item_id"}),
     Index("person_details_author_name_search_idx", {"author_username", "last_name", "first_name", "item_id"}),
     Index("person_details_email_trgm_idx", {"email"}),
     Index("person_details_first_name_trgm_idx", {"first_name"}),
     Index("person_details_last_name_trgm_idx", {"last_name"}),
     Index("person_details_middle_name_trgm_idx", {"middle_name"})})

Relationships == Create("relationship",
    Required("data", {"author_username", "note", "created_at", "updated_at"})
    @@ Required("hex", {"source_person_id", "target_person_id", "relationship_type_id", "id"}),
    {Foreign("relationship_type_id", "relationship_type", "RESTRICT"),
     Foreign("source_person_id", "person_details", "CASCADE"),
     Foreign("target_person_id", "person_details", "CASCADE")},
    {Key({"id"}), Check("person_relationships_note_length_check"),
     Check("person_relationships_not_self_check"),
     Unique("person_relationships_author_pair_type_uniq", {"author_username", "source_person_id", "target_person_id", "relationship_type_id"}),
     Index("person_relationships_author_source_idx", {"author_username", "source_person_id", "id"}),
     Index("person_relationships_author_target_idx", {"author_username", "target_person_id", "id"}),
     Index("person_relationships_author_type_id_idx", {"author_username", "relationship_type_id", "id"})})

(* sa.Enum makes its type together with the table. *)
Upgrade0014 == <<
    Enum(KindEnum, {"PERSON"}), KnowledgeItems, KnowledgeTags, RelationshipTypes,
    Type(FileKindEnum, FALSE), KnowledgeFiles, KnowledgeItemTags, PersonDetails, Relationships >>

Downgrade0014 ==
    Each(<< "relationship", "person_details", "knowledge_item_tag", "knowledge_file",
            "relationship_type", "knowledge_tag", "knowledge_item" >>, Drop)
    \o << Untype(FileKindEnum, FALSE), Untype(KindEnum, FALSE) >>

KindIndexes == <<
    Index("knowledge_items_author_kind_name_id_idx", {"author_username", "kind", "display_name", "id"}),
    Index("knowledge_items_author_kind_updated_id_idx",
          {"author_username", "kind", "updated_at", "id"}) >>

(* The kind is kept as text while its type is replaced. *)
ReplaceKindEnum(labels) ==
    << Add("knowledge_item", Optional("data", {"kind_text"})), Data("kind to text") >>
    \o Each(KindIndexes, LAMBDA r : Unrule("knowledge_item", r.name))
    \o << Discard("knowledge_item", "kind"),
          Untype(KindEnum, FALSE), Enum(KindEnum, labels),
          Add("knowledge_item", Optional(KindEnum, {"kind"})), Data("text to kind"),
          Discard("knowledge_item", "kind_text"), Require("knowledge_item", "kind") >>
    \o Each(KindIndexes, LAMBDA r : Rule("knowledge_item", r))

KindToText(db) == SetColumn(db, "knowledge_item", "kind_text", LAMBDA r : r.of["kind"])

(* A text that is no label of the type cannot be cast to it. *)
TextToKind(db) ==
    LET labels == (CHOOSE t \in db.types : t.name = KindEnum).labels
    IN  IF \E r \in db.rows["knowledge_item"] : r.of["kind_text"][1] \notin labels
        THEN Refuse(db, "no such label")
        ELSE SetColumn(db, "knowledge_item", "kind", LAMBDA r : r.of["kind_text"])

DeleteDates(db) ==
    DeleteRows(db, "knowledge_item", {r \in db.rows["knowledge_item"] : r.of["kind"][1] = "DATE"})

DateDetails == Create("date_details",
    Required("hex", {"item_id"})
    @@ Required("data", {"author_username", "day", "month"})
    @@ Optional("data", {"year"}),
    {Foreign("item_id", "knowledge_item", "CASCADE")},
    {Key({"item_id"}), Check("date_details_calendar_check"),
     Unique("date_details_id_author_uniq", {"item_id", "author_username"}),
     Index("date_details_author_calendar_item_idx", {"author_username", "month", "day", "item_id"})})

DatePeople == Create("date_person",
    Required("hex", {"date_item_id", "person_item_id"})
    @@ Required("data", {"author_username"}),
    {Foreign("date_item_id", "date_details", "CASCADE"),
     Foreign("person_item_id", "person_details", "CASCADE")},
    {Key({"date_item_id", "person_item_id"}),
     Index("date_people_author_date_person_idx", {"author_username", "date_item_id", "person_item_id"}),
     Index("date_people_author_person_date_idx", {"author_username", "person_item_id", "date_item_id"})})

DisplayNameIndex == Index("knowledge_items_display_name_trgm_idx", {"display_name"})

Upgrade0015 ==
    ReplaceKindEnum({"DATE", "PERSON"})
    \o << Rule("knowledge_item", DisplayNameIndex), DateDetails, DatePeople >>

(* Mutant: items of the kind that goes are not deleted. *)
Downgrade0015KeepsDates ==
    << Drop("date_person"), Drop("date_details"),
       Unrule("knowledge_item", DisplayNameIndex.name) >>
    \o ReplaceKindEnum({"PERSON"})

Downgrade0015 ==
    << Data("delete dates"), Drop("date_person"), Drop("date_details"),
       Unrule("knowledge_item", DisplayNameIndex.name) >>
    \o ReplaceKindEnum({"PERSON"})

BirthdayIndex == Index("person_details_author_birthday_item_idx",
                       {"author_username", "birthday_month", "birthday_day", "item_id"})

Upgrade0016 == << Rule("person_details", BirthdayIndex) >>
Downgrade0016 == << Unrule("person_details", BirthdayIndex.name) >>

-----------------------------------------------------------------------------
(* 0017: since when a file is used nowhere. *)

Used(db, f) == \/ \E a \in db.rows["article"] : a.of["cover_image_file_id"] = f.of["id"]
               \/ \E u \in db.rows["file_usage"] : u.of["file_id"] = f.of["id"]

MarkUnusedFiles(db) ==
    SetColumn(db, "file", "orphaned_at",
              LAMBDA f : IF Used(db, f) THEN f.of["orphaned_at"] ELSE <<"orphaned_at", 0>>)

OrphanIndex == Index("files_file_namespace_orphaned_id_idx", {"namespace", "orphaned_at", "id"})

Upgrade0017 == << Add("file", Optional("data", {"orphaned_at"})), Data("mark unused files"),
                  Rule("file", OrphanIndex) >>
Downgrade0017 == << Unrule("file", OrphanIndex.name), Discard("file", "orphaned_at") >>

-----------------------------------------------------------------------------
(* 0018: people, dates, private files and resumes go; their tables can     *)
(* come back, as 0017 had them, empty.                                     *)

Upgrade0018 ==
    Each(<< "date_person", "relationship", "knowledge_item_tag", "knowledge_file",
            "date_details", "person_details", "relationship_type", "knowledge_tag",
            "knowledge_item", "resume" >>, Drop)
    \o << Untype(FileKindEnum, FALSE), Untype(KindEnum, FALSE) >>

RestoreResumes == << Resumes("hex") >>
RestoreKnowledgeItems ==
    << Enum(KindEnum, {"DATE", "PERSON"}), KnowledgeItems, Rule("knowledge_item", DisplayNameIndex) >>
RestoreTagsAndTypes == << KnowledgeTags, RelationshipTypes >>
RestoreFiles == << Type(FileKindEnum, FALSE), KnowledgeFiles >>
(* Mutant: the table is restored as 0014 made it. *)
RestorePersonDetailsOf0014 == << KnowledgeItemTags, PersonDetails >>

RestorePersonDetails ==
    << KnowledgeItemTags, PersonDetails, Rule("person_details", BirthdayIndex) >>
RestoreRelationships == << Relationships >>
RestoreDates == << DateDetails, DatePeople >>

Downgrade0018 ==
    RestoreResumes \o RestoreKnowledgeItems \o RestoreTagsAndTypes \o RestoreFiles
    \o RestorePersonDetails \o RestoreRelationships \o RestoreDates

-----------------------------------------------------------------------------
(* The chain of revisions. *)
Upgrades == << Upgrade0001, Upgrade0002, Upgrade0003, Upgrade0004, Upgrade0005, Upgrade0006,
               Upgrade0007, Upgrade0008, Upgrade0009, Upgrade0010, Upgrade0011, Upgrade0012,
               Upgrade0013, Upgrade0014, Upgrade0015, Upgrade0016, Upgrade0017, Upgrade0018 >>

Downgrades == << Downgrade0001, Downgrade0002, Downgrade0003, Downgrade0004, Downgrade0005,
                 Downgrade0006, Downgrade0007, Downgrade0008, Downgrade0009, Downgrade0010,
                 Downgrade0011, Downgrade0012, Downgrade0013, Downgrade0014, Downgrade0015,
                 Downgrade0016, Downgrade0017, Downgrade0018 >>

Execute(db, s) ==
    CASE s.do = "create table"      -> CreateTable(db, s)
      [] s.do = "drop table"        -> DropTable(db, s.table)
      [] s.do = "add columns"       -> AddColumns(db, s.table, s.columns)
      [] s.do = "drop column"       -> DropColumn(db, s.table, s.column)
      [] s.do = "require"           -> RequireColumn(db, s.table, s.column)
      [] s.do = "relax"             -> RelaxColumn(db, s.table, s.column)
      [] s.do = "rename"            -> RenameColumn(db, s.table, s.column, s.name)
      [] s.do = "add foreign key"   -> AddReference(db, s.table, s.key)
      [] s.do = "drop foreign key"  -> DropReference(db, s.table, s.column)
      [] s.do = "add rule"          -> AddRule(db, s.table, s.rule)
      [] s.do = "drop rule"         -> DropRule(db, s.table, s.name)
      [] s.do = "create type"       -> CreateType(db, s.name, s.labels, s.if)
      [] s.do = "drop type"         -> DropType(db, s.name, s.if)
      [] s.do = "create initial owner"        -> CreateInitialOwner(db)
      [] s.do = "populate ids up"             -> PopulateIdColumns(db, TRUE)
      [] s.do = "populate ids down"           -> PopulateIdColumns(db, FALSE)
      [] s.do = "populate links up"           -> PopulateFkColumns(db, TRUE)
      [] s.do = "populate links down"         -> PopulateFkColumns(db, FALSE)
      [] s.do = "drop reflected foreign keys" -> DropReflectedForeignKeys(db)
      [] s.do = "create sequences"            -> IntegerSequenceDefaults(db)
      [] s.do = "insert folders"              -> InsertFolders(db)
      [] s.do = "place articles"              -> PlaceArticles(db)
      [] s.do = "name folders"                -> NameFolders(db)
      [] s.do = "forget sessions"             -> ForgetSessions(db)
      [] s.do = "set absolute expiry"         -> SetAbsoluteExpiry(db)
      [] s.do = "attribute questions"         -> AttributeQuestions(db)
      [] s.do = "forget unknown askers"       -> ForgetUnknownAskers(db)
      [] s.do = "fingerprint questions"       -> FingerprintQuestions(db)
      [] s.do = "delete hidden tags"          -> DeleteHiddenTags(db)
      [] s.do = "kind to text"                -> KindToText(db)
      [] s.do = "text to kind"                -> TextToKind(db)
      [] s.do = "delete dates"                -> DeleteDates(db)
      [] s.do = "mark unused files"           -> MarkUnusedFiles(db)

(* All the statements of one revision, in one transaction: after one that  *)
(* is refused nothing is done.                                             *)
RECURSIVE Migrate(_, _)
Migrate(db, statements) ==
    IF db.refused # "no" \/ statements = <<>> THEN db
    ELSE Migrate(Execute(db, Head(statements)), Tail(statements))
=============================================================================
