------------------------------ MODULE Database ------------------------------
(***************************************************************************)
(* The part of PostgreSQL the migrations of the repository rely on:        *)
(* tables, columns, foreign keys, named rules (keys, unique and check      *)
(* constraints, indexes), enum types, sequences, and the statements that   *)
(* change them.  A statement that PostgreSQL would refuse leaves a reason  *)
(* in "refused" and everything else as it was; the statements after it do  *)
(* nothing, because they run in the same transaction.                      *)
(*                                                                         *)
(* This module models no code of the repository: it is the engine that     *)
(* alembic's op.* calls reach.                                             *)
(*                                                                         *)
(* A value is a pair <<what, number>>.  A row has a key, which is its      *)
(* identity in the model whatever becomes of its id columns, and the       *)
(* values of its columns.                                                  *)
(***************************************************************************)
EXTENDS Naturals, Sequences, FiniteSetsExt, Functions, TLC

None == <<"none", 0>>

(* No table, no type, no sequence: a database nothing was migrated into. *)
EmptyDatabase == [tables |-> <<>>, rows |-> <<>>, references |-> {}, rules |-> {},
                  types |-> {}, owned |-> <<>>, kept |-> <<>>, refused |-> "no"]

Refuse(db, why) == [db EXCEPT !.refused = why]

(* What a database is apart from its rows and the state of its sequences. *)
SchemaOf(db) == [tables |-> db.tables, references |-> db.references, rules |-> db.rules,
                 types |-> db.types]

-----------------------------------------------------------------------------
(* Columns and rules, as they are written in statements.  A column type    *)
(* is "data", the name of an enum type, or one of the three kinds of id.   *)
Required(type, columns) == [c \in columns |-> [required |-> TRUE, type |-> type]]
Optional(type, columns) == [c \in columns |-> [required |-> FALSE, type |-> type]]

IdTypes == {"uuid", "int", "hex"}
PlainTypes == IdTypes \cup {"data"}

Unique(name, columns) == [name |-> name, columns |-> columns, unique |-> TRUE]
Index(name, columns)  == [name |-> name, columns |-> columns, unique |-> FALSE]
(* A partial unique index and a check constraint are present or absent;    *)
(* the conditions they state are not modelled.                             *)
Partial(name, columns) == Index(name, columns)
Check(name) == Index(name, {})
Key(columns) == Unique("primary key", columns)

Foreign(column, to, rule) == [column |-> column, to |-> to, rule |-> rule]

-----------------------------------------------------------------------------
(* Reading. *)
RowsOf(db, t) == IF t \in DOMAIN db.rows THEN db.rows[t] ELSE {}
HasColumn(db, t, c) == t \in DOMAIN db.tables /\ c \in DOMAIN db.tables[t]
RuleOn(db, t) == {r \in db.rules : r.table = t}

(* The column another table's foreign key points at: the single column of  *)
(* the primary key (a key of two columns is never referenced).             *)
KeyColumn(db, t) == CHOOSE c \in DOMAIN db.tables[t] :
    \E r \in RuleOn(db, t) : r.name = "primary key" /\ r.columns = {c}

Duplicates(db, t, columns) ==
    \E r, s \in db.rows[t] : /\ r.key # s.key
                             /\ \A c \in columns : r.of[c] = s.of[c] /\ r.of[c] # None

Broken(db, rule) == rule.unique /\ Duplicates(db, rule.table, rule.columns)

Dangling(db, ref) ==
    LET targets == {r.of[ref.key] : r \in db.rows[ref.to]}
    IN  \E r \in db.rows[ref.table] : r.of[ref.column] \notin targets \cup {None}

(* A statement's result is kept only when it breaks none of the            *)
(* constraints it may break.                                               *)
Checked(db, next, rules, references) ==
    IF \E rule \in rules : Broken(next, rule) THEN Refuse(db, "duplicate")
    ELSE IF \E ref \in references : Dangling(next, ref) THEN Refuse(db, "dangling")
    ELSE next

(* The constraints on the rows of one table. *)
CheckedTable(db, next, t) ==
    Checked(db, next, RuleOn(db, t), {ref \in db.references : ref.table = t})

-----------------------------------------------------------------------------
(* Types. *)
TypeNames(db) == {t.name : t \in db.types}

(* "if_absent" is SQLAlchemy's checkfirst. *)
CreateType(db, name, labels, if_absent) ==
    IF name \notin TypeNames(db) THEN [db EXCEPT !.types = @ \cup {[name |-> name, labels |-> labels]}]
    ELSE IF if_absent THEN db ELSE Refuse(db, "type exists")

DropType(db, name, if_present) ==
    IF \E t \in DOMAIN db.tables : \E c \in DOMAIN db.tables[t] : db.tables[t][c].type = name
    THEN Refuse(db, "type in use")
    ELSE IF name \in TypeNames(db) THEN [db EXCEPT !.types = {t \in @ : t.name # name}]
    ELSE IF if_present THEN db ELSE Refuse(db, "no such type")

-----------------------------------------------------------------------------
(* Foreign keys and rules. *)
AddReference(db, t, f) ==
    IF ~HasColumn(db, t, f.column) \/ f.to \notin DOMAIN db.tables
       \/ ~\E r \in RuleOn(db, f.to) : r.name = "primary key"
    THEN Refuse(db, "no such column")
    ELSE LET ref == [table |-> t, column |-> f.column, to |-> f.to,
                     key |-> KeyColumn(db, f.to), rule |-> f.rule]
         IN  Checked(db, [db EXCEPT !.references = @ \cup {ref}], {}, {ref})

DropReference(db, t, c) ==
    LET gone == {ref \in db.references : ref.table = t /\ ref.column = c}
    IN  IF gone = {} THEN Refuse(db, "no such constraint")
        ELSE [db EXCEPT !.references = @ \ gone]

AddRule(db, t, r) ==
    IF \E other \in RuleOn(db, t) : other.name = r.name THEN Refuse(db, "rule exists")
    ELSE IF ~r.columns \subseteq DOMAIN db.tables[t] THEN Refuse(db, "no such column")
    ELSE LET rule == [table |-> t, name |-> r.name, columns |-> r.columns, unique |-> r.unique]
         IN  Checked(db, [db EXCEPT !.rules = @ \cup {rule}], {rule}, {})

(* A primary key that a foreign key points at cannot go. *)
DropRule(db, t, name) ==
    LET gone == {r \in RuleOn(db, t) : r.name = name}
    IN  IF gone = {} THEN Refuse(db, "no such rule")
        ELSE IF name = "primary key" /\ \E ref \in db.references : ref.to = t
        THEN Refuse(db, "still referenced")
        ELSE [db EXCEPT !.rules = @ \ gone]

-----------------------------------------------------------------------------
(* Tables and columns. *)

(* An integer id is a BIGSERIAL: it brings a sequence that it owns. *)
CreateTable(db, s) ==
    IF s.table \in DOMAIN db.tables THEN Refuse(db, "table exists")
    ELSE IF ~({s.columns[c].type : c \in DOMAIN s.columns} \subseteq PlainTypes \cup TypeNames(db))
    THEN Refuse(db, "no such type")
    ELSE LET bare == [db EXCEPT
                 !.tables = (s.table :> s.columns) @@ @,
                 !.rows   = (s.table :> {}) @@ @,
                 !.owned  = IF "id" \in DOMAIN s.columns /\ s.columns["id"].type = "int"
                            THEN (s.table :> 1) @@ @ ELSE @]
             ruled == FoldSet(LAMBDA r, d : AddRule(d, s.table, r), bare, s.rules)
         IN  FoldSet(LAMBDA f, d : IF d.refused = "no" THEN AddReference(d, s.table, f) ELSE d,
                     ruled, s.references)

DropTable(db, t) ==
    IF t \notin DOMAIN db.tables THEN Refuse(db, "no such table")
    ELSE IF \E ref \in db.references : ref.to = t /\ ref.table # t
    THEN Refuse(db, "still referenced")
    ELSE [db EXCEPT !.tables     = Restrict(@, DOMAIN @ \ {t}),
                    !.rows       = Restrict(@, DOMAIN @ \ {t}),
                    !.owned      = Restrict(@, DOMAIN @ \ {t}),
                    !.references = {ref \in @ : ref.table # t},
                    !.rules      = {r \in @ : r.table # t}]

(* Every row of table t with column c set to F(row). *)
SetColumn(db, t, c, F(_)) ==
    [db EXCEPT !.rows[t] = {[r EXCEPT !.of = (c :> F(r)) @@ @] : r \in @}]

(* No migration gives a new column a default: a required one needs an      *)
(* empty table.                                                            *)
AddColumns(db, t, columns) ==
    IF DOMAIN columns \cap DOMAIN db.tables[t] # {} THEN Refuse(db, "column exists")
    ELSE IF db.rows[t] # {} /\ \E c \in DOMAIN columns : columns[c].required
    THEN Refuse(db, "null in a required column")
    ELSE [db EXCEPT !.tables[t] = @ @@ columns,
                    !.rows[t] = {[r EXCEPT !.of = @ @@ [c \in DOMAIN columns |-> None]] : r \in @}]

(* A column takes with it the rules it is part of, its foreign key and the *)
(* sequence it owns.                                                       *)
DropColumn(db, t, c) ==
    IF ~HasColumn(db, t, c) THEN Refuse(db, "no such column")
    ELSE IF \E ref \in db.references : ref.to = t /\ ref.key = c
    THEN Refuse(db, "still referenced")
    ELSE [db EXCEPT !.tables[t]  = Restrict(@, DOMAIN @ \ {c}),
                    !.rows[t]    = {[r EXCEPT !.of = Restrict(@, DOMAIN @ \ {c})] : r \in @},
                    !.owned      = IF c = "id" THEN Restrict(@, DOMAIN @ \ {t}) ELSE @,
                    !.references = {ref \in @ : ~(ref.table = t /\ ref.column = c)},
                    !.rules      = {r \in @ : ~(r.table = t /\ c \in r.columns)}]

RequireColumn(db, t, c) ==
    IF ~HasColumn(db, t, c) THEN Refuse(db, "no such column")
    ELSE IF \E r \in db.rows[t] : r.of[c] = None THEN Refuse(db, "null in a required column")
    ELSE [db EXCEPT !.tables[t][c].required = TRUE]

RelaxColumn(db, t, c) ==
    IF ~HasColumn(db, t, c) THEN Refuse(db, "no such column")
    ELSE [db EXCEPT !.tables[t][c].required = FALSE]

RenameColumn(db, t, c, name) ==
    IF ~HasColumn(db, t, c) \/ HasColumn(db, t, name) THEN Refuse(db, "no such column")
    ELSE LET Renamed(f) == (name :> f[c]) @@ Restrict(f, DOMAIN f \ {c})
             Named(columns) == {IF x = c THEN name ELSE x : x \in columns}
         IN  [db EXCEPT
                 !.tables[t]  = Renamed(@),
                 !.rows[t]    = {[r EXCEPT !.of = Renamed(@)] : r \in @},
                 !.references = {IF ref.table = t /\ ref.column = c
                                 THEN [ref EXCEPT !.column = name] ELSE ref : ref \in @},
                 !.rules      = {IF r.table = t THEN [r EXCEPT !.columns = Named(@)] ELSE r : r \in @}]

-----------------------------------------------------------------------------
(* Rows. *)

(* Deletes the given rows of t and does with the rows that point at them   *)
(* what their foreign keys say.                                            *)
RECURSIVE DeleteRows(_, _, _)
DeleteRows(db, t, gone) ==
    IF gone = {} \/ db.refused # "no" THEN db
    ELSE LET smaller == [db EXCEPT !.rows[t] = @ \ gone]
             Pointing(d, ref) == {r \in d.rows[ref.table] :
                                    r.of[ref.column] \in {g.of[ref.key] : g \in gone}}
             Follow(ref, d) ==
                 CASE Pointing(d, ref) = {}   -> d
                   [] ref.rule = "RESTRICT"   -> Refuse(d, "still referenced")
                   [] ref.rule = "CASCADE"    -> DeleteRows(d, ref.table, Pointing(d, ref))
                   [] ref.rule = "SET NULL"   ->
                        LET pointing == Pointing(d, ref)
                        IN  SetColumn(d, ref.table, ref.column,
                                      LAMBDA r : IF r \in pointing THEN None ELSE r.of[ref.column])
             after == FoldSet(Follow, smaller, {ref \in db.references : ref.to = t})
         IN  IF after.refused = "no" THEN after ELSE Refuse(db, after.refused)

(* The id a new row gets: the row's own random value, or the next number   *)
(* of the sequence the column's default reads.                             *)
NextNumber(db, t) == IF t \in DOMAIN db.owned THEN db.owned[t] ELSE db.kept[t]

NewId(db, t, key) ==
    CASE db.tables[t]["id"].type = "int" -> <<"int", NextNumber(db, t)>>
      [] OTHER -> <<db.tables[t]["id"].type, key>>

InsertRow(db, t, row) ==
    LET numbered == "id" \in DOMAIN row.of /\ row.of["id"][1] = "int"
        advanced == IF ~numbered THEN db
                    ELSE IF t \in DOMAIN db.owned THEN [db EXCEPT !.owned[t] = @ + 1]
                    ELSE [db EXCEPT !.kept[t] = @ + 1]
    IN  IF numbered /\ row.of["id"] \in {r.of["id"] : r \in db.rows[t]} THEN Refuse(db, "id taken")
        ELSE CheckedTable(db, [advanced EXCEPT !.rows[t] = @ \cup {row}], t)
=============================================================================
