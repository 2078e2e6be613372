------------------------------- MODULE Search -------------------------------
(***************************************************************************)
(* GET .../search/<criteria>.  The criteria in the path are parsed, turned *)
(* into one SELECT over the item's tables, which runs on a connection of   *)
(* its own, and the items it finds are then read one by one, while other   *)
(* requests go on changing them.                                           *)
(***************************************************************************)
EXTENDS ItemTables

CONSTANTS
  Text,        \* string -> what there is to know of it: its form in lower
               \* case, its letters, its place in the database's collation,
               \* the integer (or Null) and the JSON value it spells
  Criteria,    \* resource type -> criteria that are searched for
  MaxChanges   \* how many changes fall between the SELECT and the answer

VARIABLE
  search       \* the search that is being answered

vars == <<type, rows, stored, reply, search>>

NotGiven   == -1

AnyOpers == {"exact", "startswith", "contains"}
Like     == {"startswith", "contains"}
Opers    == AnyOpers \cup {"gt", "ge", "lt", "le", "ne"}

-----------------------------------------------------------------------------
(* Criteria.  The path was split at slashes; a part is taken with those    *)
(* that belong to it until none is left or an exception ends it.           *)

Unparsed == [params |-> <<>>, show |-> {}, showall |-> FALSE, sorts |-> <<>>,
             limit |-> NotGiven, offset |-> NotGiven, any |-> FALSE, status |-> 200]

Fail(q, status) == [q EXCEPT !.status = status]

\* Python's exception for a part that is missing is nobody's: 500.
Condition(c, q) ==
  LET json == Text[c[3]].json
  IN CASE Len(c) < 3 -> Fail(q, 400)
       [] Len(c) >= 3 /\ q.any /\ Kind(json) # "list" -> Fail(q, 400)
       [] OTHER ->
            [q EXCEPT !.any = FALSE, !.params = Append(@,
               [rule |-> c[1], key |-> c[2],
                values |-> IF q.any THEN ToSet(Data(json)) ELSE {Str(c[3])}])]

Show(c, q) ==
  IF Len(c) < 2 THEN Fail(q, 400) ELSE [q EXCEPT !.show = @ \cup {c[2]}]

Sort(c, q, ascending) ==
  IF Len(c) < 2 THEN Fail(q, 500)
  ELSE [q EXCEPT !.sorts = Append(@, [key |-> c[2], ascending |-> ascending])]

\* The number after `limit' or `offset'.
Amount(c) ==
  CASE Len(c) < 2 -> 500
    [] Len(c) >= 2 /\ Text[c[2]].number = Null -> 400
    [] Len(c) >= 2 /\ Data(Text[c[2]].number) < 0 -> 400
    [] OTHER -> 200

Limit(c, q) ==
  IF Amount(c) # 200 THEN Fail(q, Amount(c))
  ELSE [q EXCEPT !.limit = Data(Text[c[2]].number)]

Offset(c, q) ==
  IF Amount(c) # 200 THEN Fail(q, Amount(c))
  ELSE [q EXCEPT !.offset = Data(Text[c[2]].number)]

AnyOf(c, q) ==
  IF Len(c) < 2 THEN Fail(q, 400)
  ELSE IF c[2] \notin AnyOpers THEN Fail(q, 400) ELSE [q EXCEPT !.any = TRUE]

PartsTaken(part) ==
  CASE part \in Opers -> 3
    [] part \in {"show_all", "any"} -> 1
    [] OTHER -> 2

ParsePart(c, q) ==
  CASE c[1] \in Opers    -> Condition(c, q)
    [] c[1] = "show_all" -> [q EXCEPT !.showall = TRUE]
    [] c[1] = "show"     -> Show(c, q)
    [] c[1] = "sort"     -> Sort(c, q, TRUE)
    [] c[1] = "rsort"    -> Sort(c, q, FALSE)
    [] c[1] = "limit"    -> Limit(c, q)
    [] c[1] = "offset"   -> Offset(c, q)
    [] c[1] = "any"      -> AnyOf(c, q)
    [] OTHER             -> Fail(q, 400)

ParseAll(c) ==
  LET after[n \in 0 .. Len(c)] ==
        IF n = 0 THEN [rest |-> c, query |-> Unparsed]
        ELSE LET rest == after[n - 1].rest  q == after[n - 1].query
             IN IF rest = <<>> \/ q.status # 200 THEN after[n - 1]
                ELSE [rest  |-> SubSeq(rest, 1 + PartsTaken(rest[1]), Len(rest)),
                      query |-> ParsePart(rest, q)]
  IN after[Len(c)].query

Parse(c) ==
  LET q == ParseAll(c)
  IN IF /\ q.status = 200 /\ q.sorts = <<>>
        /\ {q.limit, q.offset} # {NotGiven}
     THEN Fail(q, 400) ELSE q

-----------------------------------------------------------------------------
(* The SELECT.  Each key is looked for in all tables of the item and its   *)
(* subitems.  The main table is joined with one more table, under an alias *)
(* of its own, for each place in another table where a key is found.       *)

FullSchema ==
  [t \in Resources |->
     SchemaFromPrototype(t.proto, MainTable(t.name), FALSE)
     \o ForEach(Alphabetical(DOMAIN t.subs), LAMBDA s :
          SchemaFromPrototype(t.subs[s], SubTable(t.name, s), TRUE))]

Entries(key) == SelectSeq(FullSchema[type], LAMBDA e : e[2] = key)

CastValue(v) ==
  LET spelled == CASE Kind(v) = "str" -> Text[Data(v)].lower
                   [] Kind(v) = "num" ->
                        CHOOSE s \in DOMAIN Text : Text[s].number = v
                   [] Kind(v) = "bool" -> IF Data(v) THEN "true" ELSE "false"
                   [] OTHER -> "none"
  IN CASE spelled = "true" -> Bool(TRUE)
       [] spelled = "false" -> Bool(FALSE)
       [] OTHER -> Str(spelled)

EmptyPlan == [joins |-> <<>>, conds |-> <<>>, sorts |-> <<>>, status |-> 200]

\* Alias 0 is the main table.
Aliases(joins, entries) ==
  LET Joined(k) == SelectSeq(SubSeq(entries, 1, k), LAMBDA e : e[1] # Main)
  IN [k \in DOMAIN entries |->
        IF entries[k][1] = Main THEN 0 ELSE Len(joins) + Len(Joined(k))]

Joins(entries, first) ==
  ForEach(SelectSeq(entries, LAMBDA e : e[1] # Main),
          LAMBDA e : <<[table |-> e[1], first |-> first]>>)

ParamOn(plan, param, es, alias) ==
  LET conds == {[alias |-> alias[k], column |-> es[k][2], kind |-> es[k][3],
                 rule |-> param.rule, value |-> CastValue(v)] :
                  k \in DOMAIN es, v \in param.values}
  IN [joins  |-> plan.joins \o Joins(es, FALSE),
      conds  |-> Append(plan.conds, conds), sorts |-> plan.sorts,
      status |-> IF conds = {} THEN 400 ELSE plan.status]

AddParamTo(plan, param, es) ==
  ParamOn(plan, param, es, Aliases(plan.joins, es))

AddParam(plan, param) == AddParamTo(plan, param, Entries(param.key))

\* A sort takes the first of the places.
AddSortTo(plan, sort, es) ==
  IF es = <<>> THEN [plan EXCEPT !.status = 400]
  ELSE LET e == <<es[1]>>
       IN [plan EXCEPT
             !.joins = @ \o Joins(e, TRUE),
             !.sorts = Append(@, [alias |-> Aliases(plan.joins, e)[1],
                                  column |-> e[1][2], kind |-> e[1][3],
                                  ascending |-> sort.ascending])]

AddSort(plan, sort) == AddSortTo(plan, sort, Entries(sort.key))

\* The database compares texts, integers and booleans, each with its own
\* kind, and LIKE wants texts.
Comparable(cond) ==
  CASE cond.kind = "str" -> cond.rule \in Like \/ Kind(cond.value) = "str"
    [] cond.kind = "num" -> /\ cond.rule \notin Like /\ Kind(cond.value) = "str"
                            /\ Text[Data(cond.value)].number # Null
    [] OTHER -> cond.rule \notin Like /\ Kind(cond.value) = "bool"

Executed(plan) ==
  IF /\ plan.status = 200
     /\ \E n \in DOMAIN plan.conds : \E c \in plan.conds[n] : ~Comparable(c)
  THEN [plan EXCEPT !.status = 500] ELSE plan

BuildQuery(q) ==
  Executed(FoldLeft(AddSort, FoldLeft(AddParam, EmptyPlan, q.params), q.sorts))

-----------------------------------------------------------------------------
(* What the database makes of it.                                          *)

ListPositions == {"list_pos", "str_list_pos", "dict_list_pos"}

NoRow == [c \in {} |-> Null]
Cell(row, column) == IF column \in DOMAIN row THEN row[column] ELSE Null

FirstOfInnerJoinCond(table, row) ==
  Cell(row, "list_pos") \in {Num(0), Null}

FirstItemJoinCond(table, row) ==
  \A e \in TypeSchema[type] :
    e[1] = table /\ e[2] \in ListPositions => Cell(row, e[2]) = Num(0)

\* Faulty variant: an inner join, which drops items without such a row.
InnerJoinRows(id, join) ==
  {row \in Found(rows, join.table, id) :
     join.first => FirstItemJoinCond(join.table, row)}

OrNoRow(found) == IF found = {} THEN {NoRow} ELSE found

JoinRows(id, join) ==
  OrNoRow({row \in Found(rows, join.table, id) :
             join.first => FirstItemJoinCond(join.table, row)})

\* The LEFT JOINs: each combination of rows, the main row last.
Joined(id, plan) ==
  LET Join(combos, join) ==
        {Append(c, row) : c \in combos, row \in JoinRows(id, join)}
  IN {Append(c, RowOf(id)) : c \in FoldLeft(Join, {<<>>}, plan.joins)}

CellAt(combo, alias, column) ==
  Cell(combo[IF alias = 0 THEN Len(combo) ELSE alias], column)

Order(v) ==
  CASE Kind(v) = "str"  -> Text[Data(v)].rank
    [] Kind(v) = "num"  -> Data(v)
    [] Kind(v) = "bool" -> IF Data(v) THEN 1 ELSE 0

\* A cell as text in lower case or as a number, and a value as its like.
Left(kind, cell) == IF kind = "str" THEN Str(Text[Data(cell)].lower) ELSE cell
Right(kind, value) ==
  CASE kind = "num" -> Text[Data(value)].number
    [] kind = "str" /\ Kind(value) = "bool" ->
         Str(IF Data(value) THEN "true" ELSE "false")
    [] OTHER -> value

Compare(rule, l, r) ==
  CASE rule = "exact" -> Order(l) = Order(r)
    [] rule = "ne"    -> Order(l) # Order(r)
    [] rule = "gt"    -> Order(l) > Order(r)
    [] rule = "ge"    -> Order(l) >= Order(r)
    [] rule = "lt"    -> Order(l) < Order(r)
    [] rule = "le"    -> Order(l) <= Order(r)
    [] rule = "startswith" -> IsPrefix(Text[Data(r)].letters, Text[Data(l)].letters)
    [] rule = "contains" ->
         \E s \in Suffixes(Text[Data(l)].letters) :
           IsPrefix(Text[Data(r)].letters, s)

Satisfied(combo, cond) ==
  LET cell == CellAt(combo, cond.alias, cond.column)
  IN cell # Null /\ Compare(cond.rule, Left(cond.kind, cell),
                                       Right(cond.kind, cond.value))

\* Each parameter's conditions are joined by OR, the parameters by AND.
Where(plan, combo) ==
  \A n \in DOMAIN plan.conds : \E c \in plan.conds[n] : Satisfied(combo, c)

SelectDistinct(plan) ==
  LET Keys(combo) == [k \in DOMAIN plan.sorts |->
        CellAt(combo, plan.sorts[k].alias, plan.sorts[k].column)]
      RowsFor(id) == {<<id, Keys(combo)>> :
                        combo \in {c \in Joined(id, plan) : Where(plan, c)}}
  IN UNION {RowsFor(id) : id \in {i \in Ids : Exists(rows, Main, i)}}

\* NULL comes after everything.
Lower(a, b)  == a # Null /\ (b = Null \/ Order(a) < Order(b))
Before(sorts, a, b) ==
  \E k \in DOMAIN sorts :
    /\ \A m \in 1 .. k - 1 : a[m] = b[m]
    /\ IF sorts[k].ascending THEN Lower(a[k], b[k]) ELSE Lower(b[k], a[k])

\* The orders in which the database may give the rows.
OrderBy(plan, found) ==
  {s \in SetToSeqs(found) :
     \A i, j \in DOMAIN s : i < j => ~Before(plan.sorts, s[j][2], s[i][2])}

LimitOffset(q, s) ==
  LET rest == SubSeq(s, 1 + Max({0, q.offset}), Len(s))
  IN IF q.limit = NotGiven THEN rest
     ELSE SubSeq(rest, 1, Min({q.limit, Len(rest)}))

-----------------------------------------------------------------------------
(* A search.  `then' is history: the items as they were at the SELECT.     *)

Idle == [pc |-> "idle"]

Begun(c, q, status, pc, all, hits) ==
  [pc |-> pc, criteria |-> c, query |-> q, status |-> status, all |-> all,
   hits |-> hits, shown |-> <<>>, changes |-> 0, then |-> stored]

Status(q, plan) == IF q.status # 200 THEN q.status ELSE plan.status

\* get_matching_items, up to the result of the SELECT.
SelectFor(c, q, plan, status) ==
  \/ /\ status # 200
     /\ search' = Begun(c, q, status, "done", <<>>, <<>>)
  \/ /\ status = 200
     /\ \E s \in OrderBy(plan, SelectDistinct(plan)) :
          LET ids == [k \in DOMAIN s |-> s[k][1]]
          IN search' = Begun(c, q, status, "show", ids, LimitOffset(q, ids))

Select(c) ==
  /\ search.pc = "idle"
  /\ \E q \in {Parse(c)} : \E plan \in {BuildQuery(q)} :
       SelectFor(c, q, plan, Status(q, plan))
  /\ UNCHANGED dataVars

\* A search that shows nothing else answers with ids.
OnlyIds == ~search.query.showall /\ search.query.show = {}

\* Faulty variant: the id is left out unless it was asked for.
WantedAsAsked == IF search.query.showall THEN {} ELSE search.query.show

Wanted  == IF search.query.showall THEN {} ELSE search.query.show \cup {"id"}

\* A variant that takes the hits from the end, as pop() does.
ShowLast ==
  /\ search.pc = "show" /\ ~OnlyIds
  /\ Len(search.shown) < Len(search.hits)
  /\ LET id == search.hits[Len(search.hits) - Len(search.shown)]
     IN search' =
          IF Exists(rows, Main, id)
          THEN [search EXCEPT !.shown =
                  Append(@, ReadWalker(rows, Main, type.proto, id, Wanted))]
          ELSE [search EXCEPT !.pc = "done", !.status = 404]
  /\ UNCHANGED dataVars

\* _build_search_result: each item whole, or what is wanted of it.
ShowNext ==
  /\ search.pc = "show" /\ ~OnlyIds
  /\ Len(search.shown) < Len(search.hits)
  /\ LET id == search.hits[Len(search.shown) + 1]
     IN search' =
          IF Exists(rows, Main, id)
          THEN [search EXCEPT !.shown =
                  Append(@, ReadWalker(rows, Main, type.proto, id, Wanted))]
          ELSE [search EXCEPT !.pc = "done", !.status = 404]
  /\ UNCHANGED dataVars

ShowIds ==
  /\ search.pc = "show" /\ OnlyIds
  /\ search' = [search EXCEPT !.pc = "done",
       !.shown = [k \in DOMAIN search.hits |-> Field("id", Str(search.hits[k]))]]
  /\ UNCHANGED dataVars

EndShow ==
  /\ search.pc = "show" /\ ~OnlyIds
  /\ Len(search.shown) = Len(search.hits)
  /\ search' = [search EXCEPT !.pc = "done"]
  /\ UNCHANGED dataVars

Respond ==
  /\ search.pc = "done"
  /\ search' = Idle
  /\ UNCHANGED dataVars

\* Other requests, between searches and while one is answered.
Meanwhile ==
  /\ DataNext
  /\ \/ search.pc = "idle" /\ UNCHANGED search
     \/ /\ search.pc = "show" /\ search.changes < MaxChanges
        /\ rows' # rows
        /\ search' = [search EXCEPT !.changes = @ + 1]

Init == DataInit /\ search = Idle

Next ==
  \/ \E c \in Criteria[type.name] : Select(c)
  \/ ShowNext
  \/ ShowIds
  \/ EndShow
  \/ Respond
  \/ Meanwhile

Spec == Init /\ [][Next]_vars

-----------------------------------------------------------------------------
(* What a search should find, told from the items themselves.              *)

\* The values that a dict has for a key, in it or in the dicts in it.
ValuesIn(d, key, InnerValues(_, _)) ==
  (IF key \notin DOMAIN d THEN {}
   ELSE IF Kind(d[key]) \in Simple THEN {d[key]}
   ELSE IF Kind(d[key]) = "list"
        THEN {v \in ToSet(Data(d[key])) : Kind(v) = "str"} ELSE {})
  \cup UNION {UNION {InnerValues(Data(v), key) :
                       v \in {e \in ToSet(Data(d[f])) : Kind(e) = "dict"}} :
                f \in {g \in DOMAIN d : Kind(d[g]) = "list"}}

InnermostValues(d, key) == ValuesIn(d, key, LAMBDA e, k : {})
InnerValues(d, key)     == ValuesIn(d, key, InnermostValues)
ValuesOf(d, key)        == ValuesIn(d, key, InnerValues)

AllValues(record, key) ==
  ValuesOf(record.item, key)
  \cup UNION {ValuesOf(record.subs[s], key) : s \in DOMAIN record.subs}

\* A value to be looked for, as it is spelled, and the value of an item that
\* it is, in either case.
Spelling(w) ==
  CASE Kind(w) = "str"  -> Data(w)
    [] Kind(w) = "num"  -> CHOOSE s \in DOMAIN Text : Text[s].number = w
    [] Kind(w) = "bool" -> IF Data(w) THEN "true" ELSE "false"

InLowerCase(s)  == Text[s].lower
SpellsBool(s)   == InLowerCase(s) \in {"true", "false"}

Equals(v, s) ==
  CASE Kind(v) = "str"  -> ~SpellsBool(s) /\ InLowerCase(Data(v)) = InLowerCase(s)
    [] Kind(v) = "num"  -> Text[s].number = v
    [] Kind(v) = "bool" -> InLowerCase(s) = IF Data(v) THEN "true" ELSE "false"

Greater(v, s) ==
  CASE Kind(v) = "str"  -> Text[InLowerCase(Data(v))].rank > Text[InLowerCase(s)].rank
    [] Kind(v) = "num"  -> Data(v) > Data(Text[s].number)
    [] Kind(v) = "bool" -> Data(v) /\ InLowerCase(s) = "false"

\* Where in a text a pattern may be; other values are matched exactly.
MatchesPart(rule, v, s) ==
  IF Kind(v) # "str" THEN Equals(v, s)
  ELSE LET text == Text[Data(v)].letters  pattern == Text[s].letters
       IN \E from \in (IF rule = "startswith" THEN {1} ELSE 1 .. Len(text) + 1) :
            IsPrefix(pattern, SubSeq(text, from, Len(text)))

Meets(rule, v, s) ==
  CASE rule = "exact" -> Equals(v, s)
    [] rule = "gt"    -> Greater(v, s)
    [] rule = "ge"    -> Greater(v, s) \/ Equals(v, s)
    [] rule = "lt"    -> ~Greater(v, s) /\ ~Equals(v, s)
    [] rule = "le"    -> ~Greater(v, s)
    [] rule \in Like  -> MatchesPart(rule, v, s)

\* The conditions of the API document.  `ne' is the inverse of `exact'.
Matches(record, param) ==
  LET values == AllValues(record, param.key)
      looked == {Spelling(w) : w \in param.values}
  IN IF param.rule = "ne"
     THEN \A v \in values, s \in looked : ~Equals(v, s)
     ELSE \E v \in values, s \in looked : Meets(param.rule, v, s)

\* Where the code does not do what the API document says: it takes `ne' as
\* "has a value that is another", which is the inverse of `exact' for a field
\* with one value only, and looks for "true" and "false" in texts too.
Disputed(record, param) ==
  \/ param.rule = "ne" /\ Cardinality(AllValues(record, param.key)) # 1
  \/ param.rule \in Like /\ \E w \in param.values : SpellsBool(Spelling(w))

\* The first value that a dict has for a key, by way of certain lists.
FirstBy(d, path) ==
  LET FirstOf(v) == IF Kind(v) = "list"
                    THEN IF Data(v) = <<>> THEN Null ELSE Data(v)[1] ELSE v
      Down(v, f) == IF v = Null THEN Null ELSE FirstOf(Data(v)[f])
  IN FoldLeft(Down, Dict(d), path)

PathsVia(proto, InnerPaths(_)) ==
  {<<f>> : f \in DOMAIN proto}
  \cup UNION {{<<f>> \o p : p \in InnerPaths(Inner(proto, f))} :
                f \in ToSet(DictLists(proto))}

InnermostPaths(proto) == PathsVia(proto, LAMBDA p : {})
InnerPaths(proto)     == PathsVia(proto, InnermostPaths)
PathsIn(proto)        == PathsVia(proto, InnerPaths)

PathsTo(key) == {p \in PathsIn(type.proto) : Last(p) = key}

-----------------------------------------------------------------------------
(* Properties.                                                             *)

\* A search that is not refused finds every item that matches all its
\* conditions as the API document has them, each in the item or a subitem,
\* finds no other, and finds each once, whatever lists were joined for it.
\* Conditions on which code and document differ (Disputed) are left out.
FindsWhatMatches ==
  search.pc # "idle" /\ search.status \in {200, 404} =>
    /\ \A id \in Ids :
         LET record  == search.then[id]
             Meet(p) == Matches(record, p) \/ Disputed(record, p)
             params  == ToSet(search.query.params)
             found   == id \in ToSet(search.all)
         IN /\ found => record.state = "live" /\ \A p \in params : Meet(p)
            /\ /\ record.state = "live"
               /\ \A p \in params : Matches(record, p) /\ ~Disputed(record, p)
               => found
    /\ Len(search.all) = Cardinality(ToSet(search.all))

\* Sorted by a field inside lists, items come in the order of its first
\* instance, those that have none last; with
\* rsort it is the other way round.
FirstInstancesSorted ==
  search.pc # "idle" /\ search.status = 200 /\ Len(search.query.sorts) = 1 =>
    LET sort == search.query.sorts[1]
        Sorted(path) == \A i, j \in DOMAIN search.all : i < j =>
          LET a == FirstBy(search.then[search.all[i]].item, path)
              b == FirstBy(search.then[search.all[j]].item, path)
          IN IF sort.ascending THEN ~Lower(b, a) ELSE ~Lower(a, b)
    IN PathsTo(sort.key) # {} =>
         \E path \in PathsTo(sort.key) : Sorted(path)

\* The answer holds the page asked for, in its order, unless one of its items
\* was deleted after it was found.
AnswersThePage ==
  search.pc = "done" =>
    /\ search.status = 200 =>
         [k \in DOMAIN search.shown |-> search.shown[k]["id"]]
           = [k \in DOMAIN search.hits |-> Str(search.hits[k])]
    /\ search.status = 404 =>
         \E id \in ToSet(search.hits) : stored[id].state = "gone"

\* Each item is shown as it is when it is read: what is asked of it and no
\* more, every field as a GET of the whole item would have it.
ShowsWhatIsStored ==
  [][search.pc = "show" /\ search'.pc = "show" /\ search'.shown # search.shown
     => LET shown == Last(search'.shown)
            item  == stored[search.hits[Len(search'.shown)]].item
        IN /\ \A f \in DOMAIN shown : shown[f] = item[f]
           /\ DOMAIN shown = IF search.query.showall THEN DOMAIN item
                ELSE (search.query.show \cup {"id"}) \cap DOMAIN item]_vars
=============================================================================
