---------------------------- MODULE MCMigrationPlan ----------------------------
(***************************************************************************)
(* Instances of MigrationPlan for TLC: one table in every shape that       *)
(* matters, and two tables that appear, vanish and change places.          *)
(***************************************************************************)
EXTENDS MigrationPlan, TLC

Plain == [type |-> "text", unique |-> FALSE, clause |-> "none"]
Number == [type |-> "integer", unique |-> FALSE, clause |-> "none"]
Unique == [type |-> "text", unique |-> TRUE, clause |-> "none"]
Checked == [type |-> "text", unique |-> FALSE, clause |-> "check"]
Referring == [type |-> "integer", unique |-> FALSE, clause |-> "references"]
Computed == [type |-> "text", unique |-> FALSE, clause |-> "generated"]

MCColumnOrder == <<"author", "body", "id", "title">>
MCCol == {Plain, Number, Unique, Checked, Referring, Computed}

Optional(x, values) == {<<>>} \cup {x :> v : v \in values}

(* Tables with a key of one of these types and at most these columns, one
   index, and one of these full-text indexes. *)
Shapes(keys, authors, bodies, titles, indexed, fts) ==
    {t \in [pk : {{"id"}},
            cols : {("id" :> k) @@ a @@ b @@ c :
                        k \in keys, a \in Optional("author", authors),
                        b \in Optional("body", bodies), c \in Optional("title", titles)},
            indexes : Optional("x", indexed),
            fts : fts] : SchemaTable(t)}
Alone(shapes) == {"posts" :> s : s \in shapes}

Altered ==
    Alone(Shapes({Plain, Number}, MCCol \ {Number}, {}, {Plain, Checked},
                 {"author", "title"}, {{}}))
Reshaped ==
    Alone(Shapes({Number}, {Plain}, {Plain, Checked}, {Plain}, {}, {{}}))
Searched ==
    Alone(Shapes({Number}, {Plain, Checked}, {}, {Plain}, {"title"},
                 SUBSET {"author", "title"}))
Keyed ==
    Alone({[s EXCEPT !.pk = pk] :
              s \in Shapes({Number}, {}, {}, {Plain, Number}, {"title"}, {{}}),
              pk \in {{"id"}, {"title"}, {"id", "title"}}})
Paired ==
    LET shapes == Shapes({Number}, {Plain}, {}, {}, {"author"}, {{}})
    IN  {a @@ b : a \in Optional("posts", shapes), b \in Optional("users", shapes)}

Pairs(schemas) == schemas \X schemas
MCPush == Pairs(Altered) \cup Pairs(Reshaped) \cup Pairs(Searched) \cup Pairs(Paired)
          \cup Pairs({s \in Keyed : SchemaTable(s["posts"])})
MCReshaped == Pairs(Reshaped)
=============================================================================
