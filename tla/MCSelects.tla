------------------------------ MODULE MCSelects ------------------------------
(* Instances of Selects for TLC: users, their posts and the comments on them. *)
EXTENDS Selects

CONSTANTS ann, bob, users, posts, comments, one, two, three

MCReferences == [t \in Table |-> CASE t = users -> None [] t = posts -> users [] t = comments -> posts]
MCOwned == {posts, comments}

ByTable(u, p, c) == [t \in Table |-> CASE t = users -> u [] t = posts -> p [] t = comments -> c]
MCPolicies == {
    ByTable("open", "open", "own"), ByTable("open", "own", "own"), ByTable("member", "own", "open"),
    ByTable("open", "member", "denied"), ByTable("denied", "own", "open")}

Person(label) == [parent |-> Null, owner |-> Null, label |-> label]
Post(u, by) == [parent |-> u, owner |-> by, label |-> 2]
Comment(p, by) == [parent |-> p, owner |-> by, label |-> 1]
Rows(a, b, c) == [r \in Id |-> CASE r = one -> a [] r = two -> b [] r = three -> c]
UserRows == {Rows(Person(a), b, Absent) : a \in Value \cup {Null}, b \in {Absent, Person(1)}}
PostRows == {Rows(a, b, c) : a \in {Absent, Post(one, ann), Post(two, bob)},
                             b \in {Absent, Post(one, bob), Post(one, ann)},
                             c \in {Absent, Post(one, ann)}}
CommentRows == {Rows(a, Absent, Absent) : a \in {Absent, Comment(one, ann), Comment(two, bob)}}
MCDatabase == {d \in
    {[rows |-> [t \in Table |-> CASE t = users -> u [] t = posts -> p [] t = comments -> c],
      members |-> m] :
        u \in UserRows, p \in PostRows, c \in CommentRows, m \in {{}, {ann}}} : Whole(d)}

(* Filters on the label. *)
Label(op, v) == On("label", Test(op, <<v>>))
LabelIn(values) == On("label", Test("in", values))
Between(a, b) == On("label", Test("between", <<a, b>>))
MCFilters == {
    {Label("eq", 1)}, {Label("neq", 1), Label("lt", 3)}, {Label("gte", 2), Label("lte", 2)},
    {LabelIn(<<1, 3>>)}, {not(LabelIn(<<1, 3>>))}, {LabelIn(<<1, 2, 3>>)}, {Between(1, 2)},
    {Label("is", Null)}, {not(Label("is", Null))}, {not(Label("eq", 2))}, {not(Label("gt", 2))},
    {On("label", TestColumn("eq", "label"))}, {not(On("label", TestColumn("eq", "label")))},
    {or({Label("gt", 2), Label("is", Null)}), Label("neq", 3)}, {Label("eq", 1), or({})},
    {or({not(Label("eq", 1)), LabelIn(<<1>>)})}, {or({or({Label("eq", 1)}), Label("eq", 2)})},
    {and({Label("gt", 1), Label("lt", 3)})}, {not(or({Label("eq", 1)}))}, {{}},
    {On("color", Test("eq", <<1>>))}}
Several == {{[col |-> "label", tests |-> {Test("gt", <<1>>), Test("lt", <<3>>)}]}}
SeveralColumns == {or({On("label", Test("eq", <<1>>)) \cup On("parent", Test("is", <<Null>>))})}

(* Requests. *)
Ask(chain) ==
    [chain |-> chain, kind |-> "nested", by |-> ann, filter |-> {}, limit |-> None,
     offset |-> 0, flat |-> FALSE, star |-> FALSE, count |-> FALSE, batch |-> FALSE]
Plain == Ask(<<users>>)
Nested == Ask(<<users, posts>>)
Joined == [Nested EXCEPT !.kind = "left"]
Batched(q) == [q EXCEPT !.count = TRUE, !.batch = TRUE]

MCQuery == {
    [Plain EXCEPT !.filter = {Label("eq", 1)}, !.star = TRUE, !.count = TRUE],
    [Plain EXCEPT !.limit = 0, !.by = Service, !.count = TRUE],
    Batched(Nested), [Nested EXCEPT !.limit = 1, !.offset = 1],
    Batched(Ask(<<posts, comments>>)),
    Batched([Joined EXCEPT !.kind = "inner"]),
    [Joined EXCEPT !.flat = TRUE, !.limit = 0],
    Batched([Joined EXCEPT !.by = Service, !.filter = {Label("eq", 2)}, !.flat = TRUE]),
    [Ask(<<posts, comments>>) EXCEPT !.kind = "left"],
    Ask(<<users, comments>>), Ask(<<users, posts, comments>>)}
    \cup {[Plain EXCEPT !.filter = filter] : filter \in MCFilters}

(* docs/implementing-database-model.md, "Select with Joins"; a nested relation
   with all columns; one within another; a join with a filter. *)
FilteredQuery == {[Ask(<<posts, comments>>) EXCEPT !.filter = {Label("eq", 2)}]}
FilteredPolicies == {ByTable("open", "open", "member")}
AllColumnsQuery == {[Nested EXCEPT !.star = TRUE]}
DeepQuery == {Ask(<<users, posts, comments>>)}
JoinedQuery == {[Joined EXCEPT !.filter = {Label("eq", 1)}]}

(* Two tests of one column; two columns in one alternative; and() of the SDK. *)
OpenPolicies == {ByTable("open", "open", "open")}
SeveralTestsQuery == {[Plain EXCEPT !.filter = Several]}
SeveralColumnsQuery == {[Plain EXCEPT !.filter = SeveralColumns]}
AndQuery == {[Plain EXCEPT !.filter = {and({Label("gt", 1), Label("lt", 3)})}]}
==============================================================================
