----------------------------- MODULE ItemTables -----------------------------
(***************************************************************************)
(* From a JSON item to rows of tables, and back.                           *)
(*                                                                         *)
(* A resource type has a prototype: an item whose values stand for their   *)
(* types.  From it follow the tables (schema.py), the values of fields     *)
(* that a request leaves out (filler.py), what a request may hold          *)
(* (validate.py), and the rows that an item is kept in (walker.py,         *)
(* write_only.py, read_only.py).  Requests come one after another here;    *)
(* ItemStorage has their interleavings.                                    *)
(***************************************************************************)
EXTENDS Integers, SequencesExt

CONSTANTS
  Resources,   \* the resource types, each to be checked on its own
  FieldNames,  \* all names of fields, in alphabetical order
  Words,       \* name -> the words between its underscores
  Ids,         \* ids of items
  Revisions,   \* two revisions: of the newest of an item, and of the others
  Items,       \* resource type -> id -> bodies of POST and PUT
  Subitems,    \* resource type -> id -> bodies of PUT of a subitem
  Contents     \* id -> contents of files

VARIABLES
  type,        \* the resource type: name, prototype, subitems and files
  rows,        \* the database: <<table, row>>
  stored,      \* history: id -> what the answered requests have made of it
  reply        \* the last answer: the item, the status, did the body fit?

dataVars == <<type, rows, stored, reply>>

-----------------------------------------------------------------------------
(* Values of JSON, and of columns, are tagged with their kind.             *)

Str(s)   == <<"str", s>>
Num(n)   == <<"num", n>>
Bool(b)  == <<"bool", b>>
Blob(b)  == <<"blob", b>>
Null     == <<"null", "null">>
List(s)  == <<"list", s>>
Dict(d)  == <<"dict", d>>

Kind(v)  == v[1]
Data(v)  == v[2]

Simple     == {"str", "num", "bool", "blob"}
JsonSimple == Simple \ {"blob"}

Field(f, v)  == [x \in {f} |-> v]
Merged(d, e) == [f \in DOMAIN d \cup DOMAIN e |-> IF f \in DOMAIN d THEN d[f] ELSE e[f]]

\* The n-th of a set of numbers.
Nth(places, n) ==
  CHOOSE k \in places : Cardinality({m \in places : m <= k}) = n

Alphabetical(names) ==
  LET places == {k \in DOMAIN FieldNames : FieldNames[k] \in names}
  IN [n \in 1 .. Cardinality(places) |-> FieldNames[Nth(places, n)]]

ListsOf(proto, kind)  ==
  Alphabetical({f \in DOMAIN proto :
                  Kind(proto[f]) = "list" /\ Kind(Data(proto[f])[1]) = kind})
SimpleColumns(proto)  ==
  Alphabetical({f \in DOMAIN proto : Kind(proto[f]) \in Simple})
StrLists(proto)       == ListsOf(proto, "str")
DictLists(proto)      == ListsOf(proto, "dict")
DictIn(d, f, i)       == Data(Data(d[f])[i])
Inner(proto, f)       == DictIn(proto, f, 1)

ForEach(s, Op(_))     == FlattenSeq([i \in DOMAIN s |-> Op(s[i])])

-----------------------------------------------------------------------------
(* The walk: the visits to the parts of an item, in order.  A part is the  *)
(* path of fields to it and the positions in the lists on that path.       *)

Visit(call, path, at, columns) ==
  [call |-> call, path |-> path, at |-> at, columns |-> columns]

InnerListVisits(d, f, i, g, proto) ==
  LET inner == IF g \in DOMAIN d THEN Data(d[g]) ELSE <<>>
  IN ForEach([j \in DOMAIN inner |-> j], LAMBDA j :
       <<Visit("dict in inner list", <<f, g>>, <<i, j>>, SimpleColumns(proto))>>
       \o ForEach(StrLists(proto), LAMBDA s :
            <<Visit("inner dict's str list", <<f, g, s>>, <<i, j>>, <<>>)>>))

DictListVisits(item, f, proto) ==
  <<Visit("dict list", <<f>>, <<>>, SimpleColumns(proto))>>
  \o ForEach(DictLists(proto), LAMBDA g :
       <<Visit("inner dict list", <<f, g>>, <<>>,
               SimpleColumns(Inner(proto, g)))>>)
  \o ForEach([i \in DOMAIN Data(item[f]) |-> i], LAMBDA i :
       <<Visit("dict in list", <<f>>, <<i>>, SimpleColumns(proto))>>
       \o ForEach(StrLists(proto), LAMBDA s :
            <<Visit("dict's str list", <<f, s>>, <<i>>, <<>>)>>)
       \o ForEach(DictLists(proto), LAMBDA g :
            InnerListVisits(DictIn(item, f, i), f, i, g, Inner(proto, g))))

Walk(item, proto) ==
  <<Visit("main dict", <<>>, <<>>, SimpleColumns(proto))>>
  \o ForEach(StrLists(proto), LAMBDA f :
       <<Visit("str list", <<f>>, <<>>, <<>>)>>)
  \o ForEach(DictLists(proto), LAMBDA f :
       DictListVisits(item, f, Inner(proto, f)))

VisitsOf(visits, calls) == {v \in ToSet(visits) : v.call \in calls}

-----------------------------------------------------------------------------
(* Tables.  A table's name is its words; the code joins them with          *)
(* underscores.  The main table of a subitem is named after its path.      *)

MainTable(t)     == Words[t]
SubTable(t, sub) == Words[t] \o <<"", "path">> \o Words[sub]

TableOf(main, path) == main \o ForEach(path, LAMBDA f : Words[f])

\* table_name knows no name for three fields below a subpath: the third is
\* left out.
SchemaTable(main, path, issub) ==
  TableOf(main, IF issub THEN SubSeq(path, 1, Min({2, Len(path)})) ELSE path)

PartOf(item, visit) ==
  CASE Len(visit.at) = 0 -> item
    [] Len(visit.at) = 1 -> DictIn(item, visit.path[1], visit.at[1])
    [] OTHER -> DictIn(DictIn(item, visit.path[1], visit.at[1]),
                       visit.path[2], visit.at[2])

FirstPart(visit) ==
  [visit EXCEPT !.at = CASE Len(visit.path) = 0 -> <<>>
                         [] Len(visit.path) = 1 -> <<1>>
                         [] OTHER -> <<1, 1>>]

PositionColumns(visit) ==
  CASE visit.call = "main dict" -> <<>>
    [] visit.call \in {"str list", "dict list"} -> <<"list_pos">>
    [] visit.call \in {"dict's str list", "inner dict list"} ->
         <<"dict_list_pos", "list_pos">>
    [] OTHER -> <<"dict_list_pos", "list_pos", "str_list_pos">>

\* The columns that SchemaWalker adds at a visit, each a table, a name and a
\* kind.
ColumnsAt(proto, main, issub, visit) ==
  LET table == SchemaTable(main, visit.path, issub)
      part == PartOf(proto, FirstPart(visit))
      Fixed(names, kind) == [k \in DOMAIN names |-> <<table, names[k], kind>>]
      columns == [k \in DOMAIN visit.columns |->
                    <<table, visit.columns[k], Kind(part[visit.columns[k]])>>]
  IN CASE visit.call = "main dict" -> columns
       [] visit.call \in {"dict list", "inner dict list"} ->
            Fixed(<<"id">>, "str") \o Fixed(PositionColumns(visit), "num") \o columns
       [] visit.call \in {"str list", "dict's str list", "inner dict's str list"} ->
            Fixed(<<"id">>, "str") \o Fixed(PositionColumns(visit), "num")
              \o Fixed(<<Last(visit.path)>>, "str")
       [] OTHER -> <<>>

SchemaFromPrototype(prototype, main, issub) ==
  LET proto == Merged(prototype, Field("id", Str("")))
  IN ForEach(Walk(proto, proto), LAMBDA v : ColumnsAt(proto, main, issub, v))

\* All tables of a resource type.
TypeSchema ==
  [t \in Resources |->
    ToSet(SchemaFromPrototype(t.proto, MainTable(t.name), FALSE))
    \cup (UNION {ToSet(SchemaFromPrototype(t.subs[s], SubTable(t.name, s), TRUE)) :
                   s \in DOMAIN t.subs})
    \cup (UNION {ToSet(SchemaFromPrototype(t.files[f], SubTable(t.name, f), TRUE)) :
                   f \in DOMAIN t.files})]

-----------------------------------------------------------------------------
(* What the code takes for granted.                                        *)

IsFunction(d) == d = [f \in DOMAIN d |-> d[f]]

PositionNames == {"dict_list_pos", "list_pos", "str_list_pos"}

\* A field is simple, or a list of one string or one dict.  A table has no
\* column twice.
PrototypeIn(proto, kinds, InnerPrototype(_)) ==
  /\ IsFunction(proto)
  /\ DOMAIN proto \subseteq ToSet(FieldNames) \ PositionNames
  /\ \A f \in DOMAIN proto :
       LET p == proto[f]
       IN \/ Kind(p) \in kinds
          \/ /\ p = List(<<Data(p)[1]>>) /\ f # "id"
             /\ \/ Data(p)[1] = Str("")
                \/ /\ Data(p)[1] = Dict(Inner(proto, f))
                   /\ "id" \notin DOMAIN Inner(proto, f)
                   /\ InnerPrototype(Inner(proto, f))

InnermostPrototype(proto) == PrototypeIn(proto, JsonSimple, LAMBDA p : FALSE)
InnerPrototype(proto)     == PrototypeIn(proto, JsonSimple, InnermostPrototype)
Prototype(proto)          == PrototypeIn(proto, JsonSimple, InnerPrototype)

\* Only files have blobs: the filler crashes for want of a default for one,
\* and the validator takes no prototype that has one.
BlobPrototype(proto)      == PrototypeIn(proto, Simple, LAMBDA p : FALSE)

\* Items have the server's fields, and subitems do not.
ServerFields == {"id", "type", "revision"}

ASSUME FieldNamesAssumption ==
  /\ FieldNames \in Seq(ToSet(FieldNames)) /\ IsInjective(FieldNames)
  /\ {"body", "content_type"} \subseteq ToSet(FieldNames)
  /\ \A n \in DOMAIN Words : Words[n] \in Seq(STRING)

ASSUME ResourcesAssumption ==
  \A t \in Resources :
    /\ {t.name} \cup DOMAIN t.subs \cup DOMAIN t.files \subseteq DOMAIN Words
    /\ DOMAIN t.subs \cap (DOMAIN t.files \cup {"POST", "PUT"}) = {}
    /\ Prototype(t.proto)
    /\ ServerFields \subseteq DOMAIN t.proto
    /\ \A f \in ServerFields : Kind(t.proto[f]) = "str"
    /\ \A s \in DOMAIN t.subs :
         Prototype(t.subs[s]) /\ DOMAIN t.subs[s] \cap ServerFields = {}
    /\ \A f \in DOMAIN t.files : BlobPrototype(t.files[f])

\* The names of tables, with their words put together, tell them apart.
PathsOf(proto) == {v.path : v \in ToSet(Walk(proto, proto))}
Tables(main, proto) == {TableOf(main, path) : path \in PathsOf(proto)}
OwnTables(main, proto) ==
  \A p, q \in PathsOf(proto) : TableOf(main, p) = TableOf(main, q) => p = q

ASSUME TablesAssumption ==
  \A t \in Resources :
    /\ OwnTables(MainTable(t.name), t.proto)
    /\ \A s \in DOMAIN t.subs :
         LET tables == Tables(SubTable(t.name, s), t.subs[s])
         IN /\ OwnTables(SubTable(t.name, s), t.subs[s])
            /\ tables \cap Tables(MainTable(t.name), t.proto) = {}
            /\ \A u \in DOMAIN t.subs \ {s} :
                 tables \cap Tables(SubTable(t.name, u), t.subs[u]) = {}
            /\ \A f \in DOMAIN t.files :
                 tables \cap Tables(SubTable(t.name, f), t.files[f]) = {}
    /\ \A f \in DOMAIN t.files :
         /\ Tables(SubTable(t.name, f), t.files[f])
              \cap Tables(MainTable(t.name), t.proto) = {}
         /\ \A g \in DOMAIN t.files \ {f} : SubTable(t.name, f) # SubTable(t.name, g)

\* Bodies are JSON.
JsonKinds  == {"null", "str", "num", "bool", "list", "dict"}
IsValue(v) == v = <<Kind(v), Data(v)>> /\ Kind(v) \in JsonKinds

JsonDictIn(d, InnerJsonDict(_)) ==
  /\ IsFunction(d)
  /\ \A f \in DOMAIN d :
       LET v == d[f]
       IN /\ IsValue(v)
          /\ Kind(v) = "list" =>
               /\ Data(v) \in Seq(ToSet(Data(v)))
               /\ \A e \in ToSet(Data(v)) :
                    IsValue(e) /\ (Kind(e) = "dict" => InnerJsonDict(Data(e)))

InnermostJsonDict(d) == JsonDictIn(d, LAMBDA e : TRUE)
InnerJsonDict(d)     == JsonDictIn(d, InnermostJsonDict)
JsonDict(d)          == JsonDictIn(d, InnerJsonDict)

\* The revision of a body is one that an item may have.  (A null revision is
\* that of an item that is not there: ItemStorage has its effects.)
ASSUME BodiesAssumption ==
  \A t \in Resources, id \in Ids :
    \A body \in Items[t.name][id] \cup Subitems[t.name][id] :
      /\ IsValue(body)
      /\ Kind(body) = "dict" =>
           /\ JsonDict(Data(body))
           /\ "revision" \in DOMAIN Data(body) => Data(body)["revision"] # Null

-----------------------------------------------------------------------------
(* Writing.  Nobody writes "inner dict's str list".                        *)

StrRows(table, prefix, column, strings) ==
  {<<table, Merged(Field(column, strings[k]),
                  Merged(Field("list_pos", Num(k - 1)), prefix))>> :
     k \in DOMAIN strings}

RowsAt(main, id, item, visit) ==
  LET table   == TableOf(main, visit.path)
      part    == PartOf(item, visit)
      columns == [c \in ToSet(visit.columns) |-> part[c]]
      own     == Field("id", Str(id))
      Pos(column, k) == Field(column, Num(visit.at[k] - 1))
  IN CASE visit.call = "main dict" -> {<<table, Merged(columns, own)>>}
       [] visit.call = "str list" ->
            StrRows(table, own, visit.path[1], Data(part[visit.path[1]]))
       [] visit.call = "dict in list" ->
            {<<table, Merged(columns, Merged(Pos("list_pos", 1), own))>>}
       [] visit.call = "dict's str list" ->
            StrRows(table, Merged(Pos("dict_list_pos", 1), own), visit.path[2],
                    Data(part[visit.path[2]]))
       [] visit.call = "dict in inner list" ->
            {<<table, Merged(columns, Merged(Pos("dict_list_pos", 1),
                             Merged(Pos("list_pos", 2), own)))>>}
       [] OTHER -> {}

WriteWalker(main, proto, id, item) ==
  UNION {RowsAt(main, id, item, v) : v \in ToSet(Walk(item, proto))}

\* The database refuses a column it does not have, and a value of a kind
\* that is not the column's.
Insertable(schema, new) ==
  \A row \in new : \A c \in DOMAIN row[2] :
    \E e \in schema :
      e[1] = row[1] /\ e[2] = c /\ Kind(row[2][c]) \in {e[3], "null"}

(* Deleting.  The walk is of the prototype, whose lists have one element.  *)
DeletedTablesNotInner(main, proto) ==
  {TableOf(main, v.path) : v \in VisitsOf(Walk(proto, proto),
     {"main dict", "str list", "dict list", "dict's str list"})}

DeletedTables(main, proto) ==
  {TableOf(main, v.path) : v \in VisitsOf(Walk(proto, proto),
     {"main dict", "str list", "dict list", "dict's str list",
      "inner dict list"})}

RowsIn(db, table, id) == {r \in db : r[1] = table /\ r[2]["id"] = Str(id)}

DeleteRowsIn(db, tables, id) == db \ UNION {RowsIn(db, table, id) : table \in tables}

DeleteWalker(db, main, proto, id) == DeleteRowsIn(db, DeletedTables(main, proto), id)

-----------------------------------------------------------------------------
(* Reading.                                                                *)

Found(db, table, id) == {r[2] : r \in RowsIn(db, table, id)}

\* No two rows of a list have one position.
InOrder(found) ==
  LET places == {Data(r["list_pos"]) : r \in found}
  IN [n \in 1 .. Cardinality(places) |->
        CHOOSE r \in found : Data(r["list_pos"]) = Nth(places, n)]

StrList(found, column) ==
  LET sorted == InOrder(found)
  IN List([k \in DOMAIN sorted |-> sorted[k][column]])

OfAnyDict(found, i) == found

OfDict(found, i) == {r \in found : r["dict_list_pos"] = Num(i - 1)}

Columns(row, names) == [c \in ToSet(names) |-> row[c]]

\* The i-th dict of list f, from its row.
ReadDict(db, main, id, f, i, row, proto) ==
  LET Sub(g) == OfDict(Found(db, TableOf(main, <<f, g>>), id), i)
      InnerList(g) ==
        LET sorted == InOrder(Sub(g))
        IN List([j \in DOMAIN sorted |->
             Dict(Columns(sorted[j], SimpleColumns(Inner(proto, g))))])
  IN Dict(Merged(Columns(row, SimpleColumns(proto)),
          Merged([s \in ToSet(StrLists(proto)) |-> StrList(Sub(s), s)],
                 [g \in ToSet(DictLists(proto)) |-> InnerList(g)])))

ReadDictList(db, main, id, f, proto) ==
  LET sorted == InOrder(Found(db, TableOf(main, <<f>>), id))
  IN List([i \in DOMAIN sorted |->
            ReadDict(db, main, id, f, i, sorted[i], proto)])

Exists(db, main, id) == Found(db, main, id) # {}

\* The fields of an item that are wanted, or all if none is named.
ReadWalker(db, main, proto, id, wanted) ==
  LET Ok(f)      == wanted = {} \/ f \in wanted
      Oks(names) == {f \in ToSet(names) : Ok(f)}
      row        == CHOOSE r \in Found(db, main, id) : TRUE
  IN Merged([c \in Oks(SimpleColumns(proto)) |-> row[c]],
     Merged([f \in Oks(StrLists(proto)) |->
               StrList(Found(db, TableOf(main, <<f>>), id), f)],
            [f \in Oks(DictLists(proto)) |->
               ReadDictList(db, main, id, f, Inner(proto, f))]))

-----------------------------------------------------------------------------
(* Default values.  "Crash" is the exception that nobody catches.          *)

Crash == <<"crash", "crash">>

DefaultIsNull(proto, f) == Null

DefaultValue(proto, f) ==
  CASE Kind(proto[f]) = "list" -> List(<<>>)
    [] Kind(proto[f]) = "blob" -> Crash  \* no such key in defaults_by_type
    [] OTHER -> Null

\* The walker refuses prototypes with more than two lists of dicts in each
\* other, and so the recursion ends in the third.
FillIn(proto, d, FillInInner(_, _)) ==
  LET filled == Merged(d, [f \in DOMAIN proto |-> DefaultValue(proto, f)])
      Fill(v, f) ==
        IF Kind(v) = "dict" THEN FillInInner(Inner(proto, f), Data(v)) ELSE v
      FillList(f) ==
        LET v == filled[f]
            s == IF Kind(v) = "list"
                 THEN [k \in DOMAIN Data(v) |-> Fill(Data(v)[k], f)] ELSE <<>>
        IN CASE Kind(v) \in {"null", "num", "bool"} -> Crash  \* not iterable
             [] Kind(v) = "list" -> IF Crash \in ToSet(s) THEN Crash ELSE List(s)
             [] OTHER -> v
      result == [f \in DOMAIN filled |->
                   IF f \in ToSet(DictLists(proto)) THEN FillList(f)
                                                    ELSE filled[f]]
  IN IF \E f \in DOMAIN result : result[f] = Crash THEN Crash ELSE Dict(result)

FillInInnermost(proto, d)  == FillIn(proto, d, LAMBDA p, e : Dict(e))
FillInInner(proto, d)      == FillIn(proto, d, FillInInnermost)
FillInDictFields(proto, d) == FillIn(proto, d, FillInInner)

AddMissingItemFields(name, proto, body) ==
  IF Kind(body) # "dict" THEN body
  ELSE FillInDictFields(proto,
         Merged(Data(body), [f \in {"type"} \cap DOMAIN proto |-> Str(name)]))

(* Validation.  Python's booleans are integers.                            *)
ValidIn(proto, d, ValidInner(_, _)) ==
  /\ DOMAIN d = DOMAIN proto
  /\ \A f \in DOMAIN proto :
       LET p == proto[f]  v == d[f]
       IN IF Kind(p) = "list"
          THEN /\ Kind(v) = "list"
               /\ \A k \in DOMAIN Data(v) :
                    LET e == Data(v)[k] IN
                    /\ Kind(e) = Kind(Data(p)[1])
                    /\ Kind(e) = "dict" => ValidInner(Inner(proto, f), Data(e))
          ELSE /\ Kind(p) # "blob"
               /\ \/ Kind(v) \in {"null", Kind(p)}
                  \/ Kind(p) = "num" /\ Kind(v) = "bool"

ValidInnermost(proto, d) == ValidIn(proto, d, LAMBDA p, e : FALSE)
ValidInner(proto, d)     == ValidIn(proto, d, ValidInnermost)
ValidDict(proto, d)      == ValidIn(proto, d, ValidInner)

Valid(name, proto, body) ==
  /\ Kind(body) = "dict"
  /\ "type" \in DOMAIN proto =>
       "type" \in DOMAIN Data(body) /\ Data(body)["type"] = Str(name)
  /\ ValidDict(proto, Data(body))

-----------------------------------------------------------------------------
(* What a client may send, to compare with: any of the type's fields, each *)
(* of its kind or null, lists only of what the prototype's list has.       *)

Without(d, names) == [f \in DOMAIN d \ names |-> d[f]]

\* Python's "in".  (Of strings only the key itself has the key in it here.)
Holds(body, key) ==
  CASE Kind(body) = "dict" -> key \in DOMAIN Data(body)
    [] Kind(body) = "list" -> Str(key) \in ToSet(Data(body))
    [] Kind(body) = "str" -> Data(body) = key
    [] OTHER -> FALSE

FitsIn(proto, body, InnerFits(_, _)) ==
  /\ Kind(body) = "dict"
  /\ \A f \in DOMAIN Data(body) :
       /\ f \in DOMAIN proto
       /\ LET v == Data(body)[f]  p == proto[f]
          IN \/ Kind(p) # "list" /\ Kind(v) \in {Kind(p), "null"}
             \/ /\ Kind(p) = "list" /\ Kind(v) = "list"
                /\ \A k \in DOMAIN Data(v) :
                     \/ Kind(Data(p)[1]) = "str" /\ Kind(Data(v)[k]) = "str"
                     \/ /\ Kind(Data(p)[1]) = "dict"
                        /\ InnerFits(Inner(proto, f), Data(v)[k])

InnermostFits(proto, body) == FitsIn(proto, body, LAMBDA p, e : FALSE)
InnerFits(proto, body)     == FitsIn(proto, body, InnermostFits)
Fits(proto, body)          == FitsIn(proto, body, InnerFits)

FitsRequest(op, id, body) ==
  IF op \in DOMAIN type.subs
  THEN /\ Kind(body) = "dict"
       /\ Fits(type.subs[op], Dict(Without(Data(body), {"revision"})))
  ELSE /\ Fits(type.proto, body)
       /\ op = "POST" => DOMAIN Data(body) \cap {"id", "revision"} = {}
       /\ op = "PUT" /\ Holds(body, "id") => Data(body)["id"] = Str(id)
       /\ Holds(body, "type") => Data(body)["type"] = Str(type.name)

-----------------------------------------------------------------------------
(* The requests.  A request is answered by a status; one that fails leaves *)
(* the database as it was.                                                 *)

Main          == MainTable(type.name)
RowOf(id)     == CHOOSE r \in Found(rows, Main, id) : TRUE
Current(id)   == IF Exists(rows, Main, id) THEN RowOf(id)["revision"] ELSE Null
NewRevision(id) == Str(CHOOSE r \in Revisions : Str(r) # Current(id))

\* Python cannot look for a name in these.
Scalar(body) == Kind(body) \in {"null", "num", "bool"}

\* body[key] is a TypeError for lists and strings that have the key in them.
Tricky(body, key) == Kind(body) # "dict" /\ Holds(body, key)

InsertItem(db, id, item) == db \cup WriteWalker(Main, type.proto, id, item)
InsertSubitem(db, id, s, subitem) ==
  db \cup WriteWalker(SubTable(type.name, s), type.subs[s], id, subitem)

DeleteSubitem(db, id, s) ==
  DeleteWalker(db, SubTable(type.name, s), type.subs[s], id)

\* New items get the prototypes for subitems.
FirstSubitems(id) ==
  UNION {InsertSubitem({}, id, s, type.subs[s]) : s \in DOMAIN type.subs}

\* What the filler makes of a body, the server's own fields aside.
Filled(body) == AddMissingItemFields(type.name, type.proto, body)

Added(id, filled) ==
  Merged(Field("id", Str(id)), Merged(Field("revision", NewRevision(id)), Data(filled)))

CheckCreate(body) ==
  IF Scalar(body) \/ Tricky(body, "id") \/ Tricky(body, "revision") THEN 500
  ELSE IF Holds(body, "id") \/ Holds(body, "revision") THEN 400 ELSE 201

CheckUpdate(id, body) ==
  IF Scalar(body) \/ Tricky(body, "id") THEN 500
  ELSE IF Holds(body, "id") /\ Data(body)["id"] # Str(id) THEN 400
  ELSE IF Holds(body, "revision") THEN 200 ELSE 409

CheckItem(filled, name, proto) ==
  IF filled = Crash THEN 500 ELSE IF Valid(name, proto, filled) THEN 200 ELSE 400

NoBody == <<"none", "none">>

Answer(op, id, body, status) ==
  reply' = [id |-> id, status |-> status,
            fits |-> IF body = NoBody THEN status < 400
                                      ELSE FitsRequest(op, id, body)]

Refuse(op, id, body, status) ==
  /\ status >= 400
  /\ Answer(op, id, body, status)
  /\ UNCHANGED <<type, rows, stored>>

Change(op, id, body, status, db, record) ==
  /\ Answer(op, id, body, status)
  /\ rows' = db
  /\ stored' = [stored EXCEPT ![id] = record]
  /\ UNCHANGED type

\* What the database refuses is rolled back.
Insert(op, id, body, success, rest, new, record) ==
  IF Insertable(TypeSchema[type], new)
  THEN Change(op, id, body, success, rest \cup new, record)
  ELSE Refuse(op, id, body, 500)

PostItem(id, body) ==
  /\ stored[id].state = "never"
  /\ \E basic \in {CheckCreate(body)}, filled \in {Filled(body)} :
     \E check \in {CheckItem(filled, type.name, type.proto)} :
       \/ Refuse("POST", id, body, basic)
       \/ basic = 201 /\ Refuse("POST", id, body, check)
       \/ /\ basic = 201 /\ check = 200
          /\ \E item \in {Added(id, filled)} :
               Insert("POST", id, body, 201, rows,
                      InsertItem(FirstSubitems(id), id, item),
                      [state |-> "live", item |-> item, subs |-> type.subs,
                       files |-> <<>>])

PutItem(id, body) ==
  /\ stored[id].state # "never"
  /\ \E basic \in {CheckUpdate(id, body)}, filled \in {Filled(body)} :
     \E check \in {CheckItem(filled, type.name, type.proto)} :
       LET stale == Data(filled)["revision"] # Current(id)
       IN \/ Refuse("PUT", id, body, basic)
          \/ basic = 200 /\ Refuse("PUT", id, body, check)
          \/ basic = 200 /\ check = 200 /\ stale /\ Refuse("PUT", id, body, 409)
          \/ /\ basic = 200 /\ check = 200 /\ ~stale
             /\ \E item \in {Added(id, filled)} :
                  Insert("PUT", id, body, 200,
                         DeleteWalker(rows, Main, type.proto, id),
                         InsertItem({}, id, item),
                         [stored[id] EXCEPT !.item = item])

UpdateRevision(db, id) ==
  {IF r \in RowsIn(db, Main, id)
   THEN <<r[1], [r[2] EXCEPT !["revision"] = NewRevision(id)]>> ELSE r : r \in db}

Revised(id) == [stored[id].item EXCEPT !["revision"] = NewRevision(id)]

\* The body comes with the revision, which is no part of the subitem.
SubitemOf(s, body) ==
  LET filled == AddMissingItemFields(type.subtype[s], type.subs[s], body)
  IN IF filled = Crash THEN filled
     ELSE Dict(Without(Data(filled), {"revision"}))

PutSubitem(id, s, body) ==
  /\ stored[id].state # "never"
  /\ \E basic \in {CheckUpdate(id, body)} :
       \/ Refuse(s, id, body, basic)
       \/ basic = 200 /\ Kind(body) # "dict" /\ Refuse(s, id, body, 500)
       \/ /\ basic = 200 /\ Kind(body) = "dict"
          /\ \E subitem \in {SubitemOf(s, body)} :
             \E check \in {CheckItem(subitem, type.subtype[s], type.subs[s])} :
               LET stale == Data(body)["revision"] # Current(id)
               IN \/ Refuse(s, id, body, check)
                  \/ check = 200 /\ stale /\ Refuse(s, id, body, 409)
                  \/ /\ check = 200 /\ ~stale
                     /\ Insert(s, id, body, 200,
                          DeleteSubitem(UpdateRevision(rows, id), id, s),
                          InsertSubitem({}, id, s, Data(subitem)),
                          [stored[id] EXCEPT !.item = Revised(id),
                                             !.subs[s] = Data(subitem)])

\* FileResource has a prototype of its own, whatever the type says.
FileResourcePrototype == [body |-> Str(""), content_type |-> Str("")]

\* The length and the type of a file are looked for before its revision.
RefuseFile(id, f) ==
  /\ stored[id].state # "never"
  /\ \E status \in {411, 415, 409} : Refuse(f, id, NoBody, status)

PutFile(id, f, content, revision) ==
  /\ stored[id].state # "never"
  /\ LET main == SubTable(type.name, f)
         file == [body |-> Blob(content), content_type |-> Str(content)]
         rest == DeleteWalker(UpdateRevision(rows, id), main,
                              FileResourcePrototype, id)
         new  == WriteWalker(main, FileResourcePrototype, id, file)
     IN \/ Str(revision) # Current(id) /\ Refuse(f, id, NoBody, 409)
        \/ /\ Str(revision) = Current(id)
           /\ Change(f, id, NoBody, 200, rest \cup new,
                [stored[id] EXCEPT !.item = Revised(id),
                                   !.files = Merged(Field(f, file), @)])

\* DELETE answers 200 whether or not the item is there.
DeleteRows(db, id) ==
  DeleteRowsIn(db, DeletedTables(Main, type.proto)
    \cup UNION {DeletedTables(SubTable(type.name, s), type.subs[s]) : s \in DOMAIN type.subs},
    id)

Never == [state |-> "never", item |-> <<>>, subs |-> <<>>, files |-> <<>>]

DeleteItem(id) ==
  /\ stored[id].state # "never"
  /\ Change("DELETE", id, NoBody, 200, DeleteRows(rows, id),
            [Never EXCEPT !.state = "gone"])

DataInit ==
  /\ type \in Resources
  /\ rows = {}
  /\ stored = [id \in Ids |-> Never]
  /\ reply = [id |-> "none", status |-> 0, fits |-> FALSE]

DataNext ==
  \E id \in Ids :
    \/ \E body \in Items[type.name][id] : PostItem(id, body)
    \/ \E body \in Items[type.name][id] : PutItem(id, body)
    \/ \E s \in DOMAIN type.subs, body \in Subitems[type.name][id] :
         PutSubitem(id, s, body)
    \/ \E f \in DOMAIN type.files, content \in Contents[id], r \in Revisions :
         PutFile(id, f, content, r)
    \/ \E f \in DOMAIN type.files : RefuseFile(id, f)
    \/ DeleteItem(id)

-----------------------------------------------------------------------------
(* Properties.                                                             *)

Live == {id \in Ids : stored[id].state = "live"}

\* A GET of an item, of each subitem and of each file put answers with
\* exactly what the requests so far have made of it: no list is out of order,
\* mixed with another, cut or lost on its way through the tables.
ReadsBack ==
  \A id \in Live :
    /\ Exists(rows, Main, id)
    /\ ReadWalker(rows, Main, type.proto, id, {}) = stored[id].item
    /\ \A s \in DOMAIN type.subs :
         LET main == SubTable(type.name, s)
         IN /\ Exists(rows, main, id)
            /\ ReadWalker(rows, main, type.subs[s], id, {}) = stored[id].subs[s]
    /\ \A f \in DOMAIN stored[id].files :
         LET main == SubTable(type.name, f)
         IN /\ Exists(rows, main, id)
            /\ ReadWalker(rows, main, FileResourcePrototype, id, {})
                 = stored[id].files[f]

\* Of an item that was deleted nothing is left in any table, its files
\* excepted: the resource that deletes items does not know of files.
OnlyFilesAreLeft ==
  \A id \in Ids \ Live : \A r \in rows :
    r[2]["id"] = Str(id) =>
      \E f \in DOMAIN type.files : r[1] = SubTable(type.name, f)

\* The filler, the validator and the tables agree on what an item is: a body
\* that fits the prototype is never refused, and one that does not is never
\* stored, at whichever depth they differ.
AcceptsWhatFits ==
  /\ reply.status \in {200, 201} => reply.fits
  /\ reply.status \in {400, 500} => ~reply.fits
=============================================================================

