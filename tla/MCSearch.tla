------------------------------ MODULE MCSearch ------------------------------
(***************************************************************************)
(* Instances of Search for TLC.  "doc" has every kind of field and takes   *)
(* many bodies; "cat" has few items and is searched.                       *)
(***************************************************************************)
EXTENDS Search

Names == <<"bits", "body", "content_type", "count", "extra", "id", "kind",
           "labels", "marks", "name", "note", "ok", "part_no", "parts",
           "photo", "revision", "tags", "type", "way">>

NameWords ==
  [n \in ToSet(Names) \cup {"doc", "cat"} |->
     CASE n = "part_no" -> <<"part", "no">>
       [] n = "content_type" -> <<"content", "type">>
       [] OTHER -> <<n>>]

-----------------------------------------------------------------------------
AStr == List(<<Str("")>>)
Strings(s) == List([k \in DOMAIN s |-> Str(s[k])])

Doc ==
  [name |-> "doc",
   proto |-> [id |-> Str(""), type |-> Str(""), revision |-> Str(""),
              name |-> Str(""), count |-> Num(0), ok |-> Bool(FALSE), tags |-> AStr,
              parts |-> List(<<Dict([part_no |-> Num(0), labels |-> AStr,
                                bits |-> List(<<Dict([way |-> Str("")])>>)])>>)],
   subs |-> [extra |-> [note |-> Str(""),
               marks |-> List(<<Dict([way |-> Str(""), labels |-> AStr])>>)]],
   subtype |-> [extra |-> "doc_extra"],
   files |-> [photo |-> [body |-> Blob(""), content_type |-> Str("")]]]

Part(n, labels, ways) ==
  Dict([part_no |-> n, labels |-> Strings(labels),
        bits |-> List([k \in DOMAIN ways |-> Dict([way |-> Str(ways[k])])])])

GoodDocs ==
  {Dict([name |-> Str("x")]),
   Dict([name |-> Null, count |-> Num(1), ok |-> Bool(TRUE),
         tags |-> Strings(<<"a", "b", "a">>),
         parts |-> List(<<Part(Num(1), <<"b", "a">>, <<"v", "u">>),
                          Part(Num(2), <<"c">>, <<>>),
                          Part(Num(1), <<>>, <<"u">>)>>)]),
   Dict([type |-> Str("doc"),
         parts |-> List(<<Dict([labels |-> Strings(<<"a">>)])>>)])}

\* Wrong at every level, in every way that a step of the code looks for.
BadDocs ==
  {Dict([type |-> Str("other")]), Dict([type |-> Null]), Dict([id |-> Null]),
   Dict([id |-> Str("i1")]), Dict([count |-> Bool(TRUE)]),
   Dict([ok |-> Num(1)]), Dict([note |-> Str("x")]), Dict([tags |-> Null]),
   Dict([tags |-> List(<<Null>>)]), Dict([parts |-> Null]),
   Dict([parts |-> Str("x")]), Dict([parts |-> Dict([name |-> Str("x")])]),
   Dict([parts |-> List(<<Null>>)]),
   Dict([parts |-> List(<<Dict([bits |-> Null])>>)]),
   Dict([parts |-> List(<<Dict([bits |-> List(<<Dict([way |-> Num(0)])>>)])>>)]),
   Str("x"), Str("id"), Str("revision"), Num(1), Null, List(<<>>), List(<<Str("id")>>),
   List(<<Str("revision")>>)}

WithRevision(bodies) ==
  bodies \cup {Dict(Data(b) @@ ("revision" :> Str(r))) :
                 b \in {c \in bodies : Kind(c) = "dict"}, r \in {"r1", "r2"}}

OneDoc == {Dict([tags |-> Strings(<<"a">>),
                 parts |-> List(<<Part(Num(1), <<"b">>, <<"v">>)>>)])}

Extras ==
  {Dict([note |-> Str("y")]),
   Dict([marks |-> List(<<Dict([way |-> Str("u"), labels |-> Strings(<<"b", "a">>)]),
                          Dict([labels |-> Strings(<<"c">>)])>>)]),
   Dict([marks |-> Num(1)]), Dict([marks |-> Str("x")]), Dict([way |-> Null]),
   List(<<Str("revision")>>), Null}

-----------------------------------------------------------------------------
Cat ==
  [name |-> "cat",
   proto |-> [id |-> Str(""), type |-> Str(""), revision |-> Str(""),
              name |-> Str(""), count |-> Num(0), ok |-> Bool(FALSE), tags |-> AStr,
              parts |-> List(<<Dict([way |-> Str(""), labels |-> AStr])>>)],
   subs |-> [extra |-> [name |-> Str(""), kind |-> Str("")]],
   subtype |-> [extra |-> "cat_extra"],
   files |-> [photo |-> [body |-> Blob(""), content_type |-> Str("")]]]

CatPart(way, labels) == Dict([way |-> Str(way), labels |-> Strings(labels)])

Cats ==
  [i1 |-> {Dict([name |-> Str("Ab"), count |-> Num(2), ok |-> Bool(TRUE),
                 tags |-> Strings(<<"b", "a">>),
                 parts |-> List(<<CatPart("u", <<"b">>), CatPart("v", <<"a">>)>>)])},
   i2 |-> {Dict([name |-> Str("b"), count |-> Num(10), ok |-> Bool(FALSE),
                 parts |-> List(<<CatPart("v", <<>>), CatPart("u", <<"a">>)>>)]),
           Dict([name |-> Str("b"), revision |-> Str("r1"), tags |-> Strings(<<"Ab">>)])}]

CatExtras ==
  [i1 |-> {},
   i2 |-> {Dict([name |-> Str("Ab"), kind |-> Str("u"), revision |-> Str("r1")])}]

-----------------------------------------------------------------------------
\* What the strings that are searched for, or found, mean.
Strung == <<"", "1", "2", "10", "-1", "[", "[Ab,10]", "[true]", "[]", "a", "ab", "Ab", "b", "c1",
            "cat", "false", "i1", "i2", "r1", "r2", "true", "TRUE", "u", "v",
            "x">>

LettersOf(s) ==
  CASE s = "" -> <<>>
    [] s \in {"Ab", "ab"} -> <<"a", "b">>
    [] s = "10" -> <<"1", "0">>
    [] OTHER -> <<s>>

Texts ==
  [s \in ToSet(Strung) |->
    [lower   |-> IF s = "Ab" THEN "ab" ELSE IF s = "TRUE" THEN "true" ELSE s,
     letters |-> LettersOf(s),
     rank    |-> CHOOSE k \in DOMAIN Strung : Strung[k] = s,
     number  |-> CASE s = "1" -> Num(1) [] s = "2" -> Num(2) [] s = "10" -> Num(10)
                   [] s = "-1" -> Num(-1) [] OTHER -> Null,
     json    |-> CASE s = "[Ab,10]" -> List(<<Str("Ab"), Num(10)>>)
                   [] s = "[true]" -> List(<<Bool(TRUE)>>)
                   [] s = "[]" -> List(<<>>)
                   [] s = "1" -> Num(1)
                   [] OTHER -> <<"no json", s>>]]

Answered ==
  {<<"exact", "name", "Ab">>, <<"ne", "name", "ab">>, <<"ne", "tags", "a">>,
   <<"ge", "count", "2">>,
   <<"lt", "count", "10">>, <<"exact", "ok", "TRUE">>,
   <<"exact", "way", "u", "exact", "labels", "a">>,
   <<"exact", "way", "u", "exact", "way", "v", "show_all">>,
   <<"startswith", "name", "a", "exact", "kind", "u">>,
   <<"contains", "tags", "b", "show", "tags", "show", "x", "show", "parts">>,
   <<"any", "exact", "name", "[Ab,10]", "gt", "count", "1">>,
   <<"startswith", "name", "true">>,
   <<"sort", "labels", "show", "name">>, <<"rsort", "labels">>,
   <<"sort", "tags", "limit", "1", "offset", "1", "show_all">>,
   <<"rsort", "count", "sort", "name", "limit", "1">>,
   <<"exact", "labels", "a", "sort", "way", "show_all", "offset", "1">>,
   <<"show_all">>}

\* The code answers the last with a 500, where the API document matches
\* numbers exactly (050-api-overview.yarn:719-721).
Refused ==
  {<<"exact", "name">>, <<"show">>, <<"sort">>, <<"rsort", "x">>,
   <<"limit", "1">>, <<"offset", "-1", "sort", "name">>,
   <<"sort", "name", "limit">>, <<"sort", "name", "limit", "x">>, <<"any">>,
   <<"any", "ne", "name", "[Ab,10]">>, <<"any", "exact", "name", "1">>,
   <<"any", "exact", "name", "[]">>, <<"any", "exact", "name", "[">>, <<"x">>,
   <<"exact", "x", "1">>, <<"exact", "count", "x">>, <<"exact", "ok", "1">>,
   <<"any", "exact", "name", "[true]">>, <<"any", "exact", "count", "[Ab,10]">>, <<"">>,
   <<"exact", "name", "true">>, <<"startswith", "ok", "true">>, <<"contains", "count", "1">>}

-----------------------------------------------------------------------------
MCResources == {Doc, Cat}
MCItems     == [doc |-> [i1 |-> WithRevision(GoodDocs \cup BadDocs), i2 |-> OneDoc],
                cat |-> Cats]
MCSubitems  == [doc |-> [i1 |-> WithRevision(Extras), i2 |-> {}], cat |-> CatExtras]
MCContents  == [i1 |-> {"c1"}, i2 |-> {}]
MCCriteria  == [doc |-> {}, cat |-> Answered \cup Refused]
=============================================================================
