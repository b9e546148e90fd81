---------------------------- MODULE MCMigrations ----------------------------
(***************************************************************************)
(* Migrations for TLC: three folder names, of which the first two have the *)
(* same key and the third the key the second would be given.               *)
(***************************************************************************)
EXTENDS Migrations

MCFolderNames == << [ru |-> "Osnovy", en |-> "Basics", key |-> "basics"],
                    [ru |-> "Osnovy 2", en |-> "Basics", key |-> "basics"],
                    [ru |-> "Osnovy 3", en |-> "Basics 2", key |-> "basics-2"] >>

MCReleased == {1, 6, 15, 18}

Choice(folder, kind, bare) == [folder |-> folder, kind |-> kind, bare |-> bare]
Entry(t) == [table |-> t, choice |-> Choice(1, "PERSON", FALSE)]
Bare(t) == [table |-> t, choice |-> Choice(1, "PERSON", TRUE)]
Dated(t) == [table |-> t, choice |-> Choice(1, "DATE", FALSE)]
Filed(t, i) == [table |-> t, choice |-> Choice(i, "PERSON", FALSE)]
Page(i) == << Filed("folder", i), Filed("article", i) >>
All(tables) == [i \in DOMAIN tables |-> Entry(tables[i])]

Articled == All(<<"file">>) \o Page(1) \o All(<<"file", "file_usage", "tag", "article_tag">>)
            \o << Bare("article"), Bare("tag") >> \o All(<<"article_tag", "analytics", "reaction">>)
Folders == Page(1) \o Page(2) \o Page(3)
Asked == All(<<"user", "question">>) \o << Bare("question") >>
         \o All(<<"session", "agent_client", "agent_certificate", "agent_certificate", "claim",
                  "completion", "audit_event", "rotation">>)
Authored == All(<<"sheet", "section", "subsection", "item">>) \o << Bare("item") >>
            \o All(<<"resource", "resource_link", "question">>)
Known == All(<<"contact", "resume", "knowledge_item", "person_details", "knowledge_item",
               "person_details", "relationship_type", "relationship", "knowledge_tag",
               "knowledge_item_tag", "knowledge_file">>)
         \o << Dated("knowledge_item") >>
         \o All(<<"date_details", "date_person", "knowledge_item_tag">>)

MCContents == {Folders, Articled \o Asked \o Authored \o Known}
=============================================================================
