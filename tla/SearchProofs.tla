---------------------------- MODULE SearchProofs ----------------------------
(***************************************************************************)
(* Theorems about Search.                                                  *)
(***************************************************************************)
EXTENDS Search, ItemTablesProofs

-----------------------------------------------------------------------------
(* What is kept, while requests change it and a search reads it.           *)

\* A search that shows its items has its fields, and shows a sequence.
Fields == {"pc", "criteria", "query", "status", "all", "hits", "shown", "changes", "then"}

ShownInOrder ==
  search.pc = "show" => DOMAIN search = Fields /\ \E S : search.shown \in Seq(S)

SearchInv == DataInv /\ ShownInOrder

LEMMA EmptyIsSequence ==
  \E S : <<>> \in Seq(S)
<1>1. <<>> \in Seq({})
  OBVIOUS
<1> QED BY <1>1

LEMMA OneMoreShown ==
  ASSUME NEW s, \E S : s \in Seq(S), NEW x
  PROVE  /\ \E S : Append(s, x) \in Seq(S)
         /\ Len(Append(s, x)) = Len(s) + 1
         /\ Last(Append(s, x)) = x
         /\ Append(s, x) # s
<1>1. PICK S : s \in Seq(S)
  OBVIOUS
<1>2. PICK T : T = S \cup {x}
  OBVIOUS
<1>3. s \in Seq(T) /\ x \in T
  BY <1>1, <1>2
<1>4. PICK a : a = Append(s, x)
  OBVIOUS
<1>5. a \in Seq(T) /\ Len(a) = Len(s) + 1 /\ a[Len(s) + 1] = x /\ Len(s) \in Nat
  BY <1>3, <1>4
<1>6. Last(a) = x
  BY <1>5 DEF Last
<1> QED BY <1>4, <1>5, <1>6

LEMMA SearchSteps ==
  ASSUME SearchInv, [Next]_vars
  PROVE  /\ (UNCHANGED dataVars \/ DataNext)
         /\ ShownInOrder'
<1>1. CASE \E c \in Criteria[type.name] : Select(c)
  <2>1. PICK c : Select(c)
    BY <1>1
  <2>2. PICK q, plan, status : SelectFor(c, q, plan, status)
    BY <2>1 DEF Select
  <2>3. PICK pc, all, hits : search' = Begun(c, q, status, pc, all, hits)
    BY <2>2 DEF SelectFor
  <2>4. DOMAIN search' = Fields /\ search'.shown = <<>>
    BY <2>3 DEF Begun, Fields
  <2> QED BY <2>1, <2>4, EmptyIsSequence DEF Select, ShownInOrder
<1>2. ASSUME search.pc = "show"
      PROVE  /\ DOMAIN search = Fields /\ \E S : search.shown \in Seq(S)
             /\ \A x : \E S : Append(search.shown, x) \in Seq(S)
  BY <1>2, OneMoreShown DEF SearchInv, ShownInOrder
<1>3. CASE ShowNext
  <2>1. search.pc = "show"
    BY <1>3 DEF ShowNext
  <2>2. PICK x : \/ search' = [search EXCEPT !.shown = Append(@, x)]
                 \/ search' = [search EXCEPT !.pc = "done", !.status = 404]
    BY <1>3 DEF ShowNext
  <2>3. DOMAIN search' = DOMAIN search /\ search'.shown \in {search.shown, Append(search.shown, x)}
    BY <1>2, <2>1, <2>2 DEF Fields
  <2>4. ShownInOrder'
    BY <1>2, <2>1, <2>3 DEF ShownInOrder
  <2> QED BY <1>3, <2>4 DEF ShowNext
<1>4. CASE ShowIds
  <2>1. search.pc = "show" /\ search'.pc = "done"
    BY <1>2, <1>4 DEF ShowIds, Fields
  <2> QED BY <1>4, <2>1 DEF ShowIds, ShownInOrder
<1>5. CASE EndShow
  <2>1. search.pc = "show" /\ search'.pc = "done"
    BY <1>2, <1>5 DEF EndShow, Fields
  <2> QED BY <1>5, <2>1 DEF EndShow, ShownInOrder
<1>6. CASE Respond
  BY <1>6 DEF Respond, Idle, ShownInOrder
<1>7. CASE Meanwhile
  <2>1. CASE UNCHANGED search
    BY <1>7, <2>1 DEF Meanwhile, SearchInv, ShownInOrder
  <2>2. CASE search.pc = "show" /\ search' = [search EXCEPT !.changes = @ + 1]
    <3>1. DOMAIN search' = DOMAIN search /\ search'.shown = search.shown
      BY <1>2, <2>2 DEF Fields
    <3> QED BY <1>2, <1>7, <2>2, <3>1 DEF ShownInOrder, Meanwhile
  <2> QED BY <1>7, <2>1, <2>2 DEF Meanwhile
<1>8. CASE UNCHANGED vars
  BY <1>8 DEF vars, dataVars, SearchInv, ShownInOrder
<1> QED BY <1>1, <1>3, <1>4, <1>5, <1>6, <1>7, <1>8 DEF Next


LEMMA SearchInvHolds ==
  Spec => []SearchInv
<1>1. Init => SearchInv
  BY DataInitInv DEF Init, SearchInv, ShownInOrder, Idle
<1>2. SearchInv /\ [Next]_vars => SearchInv'
  <2> SUFFICES ASSUME SearchInv, [Next]_vars PROVE SearchInv'
    OBVIOUS
  <2>1. CASE UNCHANGED dataVars
    BY <2>1, SearchSteps DEF SearchInv, DataInv, dataVars
  <2>2. CASE DataNext
    BY <2>2, DataNextKeeps, SearchSteps DEF SearchInv
  <2> QED BY <2>1, <2>2, SearchSteps
<1> QED BY <1>1, <1>2, PTL DEF Spec

-----------------------------------------------------------------------------
(* What holds of it.                                                       *)

\* Of a deleted item nothing is left but its files.
THEOREM OnlyFilesAreLeftHolds ==
  Spec => []OnlyFilesAreLeft
<1>1. SearchInv => OnlyFilesAreLeft
  <2> SUFFICES ASSUME SearchInv, NEW id \in Ids \ Live, NEW r \in rows, r[2]["id"] = Str(id)
               PROVE  \E f \in DOMAIN type.files : r[1] = SubTable(type.name, f)
    BY DEF OnlyFilesAreLeft
  <2>1. stored[id].state # "live" /\ Kept(rows, type, id, stored[id])
    BY DEF SearchInv, DataInv, Live
  <2> QED BY <2>1 DEF Kept, InTableOf
<1> QED BY <1>1, SearchInvHolds, PTL

\* A body that fits the prototype is never refused, and one that does not is
\* never stored: filling in, validating and the tables' columns agree at every
\* depth.
THEOREM AcceptsWhatFitsHolds ==
  Spec => []AcceptsWhatFits
<1>1. Init => AcceptsWhatFits
  <2> SUFFICES ASSUME Init PROVE AcceptsWhatFits
    OBVIOUS
  <2>1. reply.status = 0
    BY DEF Init, DataInit
  <2> QED BY <2>1 DEF AcceptsWhatFits
<1>2. SearchInv /\ AcceptsWhatFits /\ [Next]_vars => AcceptsWhatFits'
  <2> SUFFICES ASSUME SearchInv, AcceptsWhatFits, [Next]_vars PROVE AcceptsWhatFits'
    OBVIOUS
  <2>1. CASE UNCHANGED dataVars
    BY <2>1 DEF AcceptsWhatFits, dataVars
  <2>2. CASE DataNext
    BY <2>2, DataNextAccepts DEF SearchInv, DataInv
  <2> QED BY <2>1, <2>2, SearchSteps
<1> QED BY <1>1, <1>2, SearchInvHolds, PTL DEF Spec

\* Nobody writes the lists of strings of dicts in inner lists.
InnerDictsAreFlat ==
  \A t \in Resources : Flat(t.proto) /\ \A s \in DOMAIN t.subs : Flat(t.subs[s])

LEMMA PartRead ==
  ASSUME NEW db, NEW main, NEW proto, NEW id, NEW item, PartTables(main, proto), Flat(proto),
         IsPart(db, main, proto, id, item)
  PROVE  Exists(db, main, id) /\ ReadWalker(db, main, proto, id, {}) = item
<1>1. InTables(db, main, proto, id, item) /\ ItemTable(main) = main
  BY DEF PartTables, IsPart, InTables
<1> QED BY <1>1, WholeItemRead

\* A GET of an item, a subitem or a file answers with what the requests have
\* made of it.
THEOREM ReadsBackHolds ==
  ASSUME InnerDictsAreFlat
  PROVE  Spec => []ReadsBack
<1>1. ASSUME SearchInv PROVE ReadsBack
  <2> SUFFICES ASSUME NEW id \in Live
               PROVE  /\ Exists(rows, Main, id)
                      /\ ReadWalker(rows, Main, type.proto, id, {}) = stored[id].item
                      /\ \A s \in DOMAIN type.subs :
                           LET main == SubTable(type.name, s)
                           IN /\ Exists(rows, main, id)
                              /\ ReadWalker(rows, main, type.subs[s], id, {})
                                   = stored[id].subs[s]
                      /\ \A f \in DOMAIN stored[id].files :
                           LET main == SubTable(type.name, f)
                           IN /\ Exists(rows, main, id)
                              /\ ReadWalker(rows, main, FileResourcePrototype, id, {})
                                   = stored[id].files[f]
    BY DEF ReadsBack
  <2>1. type \in Resources /\ AllParts(rows, type, id, stored[id])
    BY <1>1 DEF SearchInv, DataInv, Live, Kept
  <2>2. PartTables(Main, type.proto) /\ Flat(type.proto)
        /\ IsPart(rows, Main, type.proto, id, stored[id].item)
    BY <2>1, MainPart DEF InnerDictsAreFlat, AllParts, Main
  <2>3. ASSUME NEW s \in DOMAIN type.subs, NEW main, main = SubTable(type.name, s)
        PROVE  /\ Exists(rows, main, id)
               /\ ReadWalker(rows, main, type.subs[s], id, {}) = stored[id].subs[s]
    <3>1. PartTables(main, type.subs[s]) /\ Flat(type.subs[s])
          /\ IsPart(rows, main, type.subs[s], id, stored[id].subs[s])
      BY <2>1, <2>3, SubitemPart DEF InnerDictsAreFlat, AllParts
    <3> QED BY <3>1, PartRead
  <2>4. ASSUME NEW f \in DOMAIN stored[id].files, NEW main, main = SubTable(type.name, f)
        PROVE  /\ Exists(rows, main, id)
               /\ ReadWalker(rows, main, FileResourcePrototype, id, {}) = stored[id].files[f]
    <3>1. f \in DOMAIN type.files /\ Flat(FileResourcePrototype)
          /\ IsPart(rows, main, FileResourcePrototype, id, stored[id].files[f])
      BY <2>1, <2>4, FilePrototype DEF AllParts, Flat
    <3>2. PartTables(main, FileResourcePrototype)
      BY <2>1, <2>4, <3>1, FilePart
    <3> QED BY <3>1, <3>2, PartRead
  <2>5. Exists(rows, Main, id)
        /\ ReadWalker(rows, Main, type.proto, id, {}) = stored[id].item
    BY <2>2, PartRead
  <2> QED BY <2>3, <2>4, <2>5
<1>2. SearchInv => ReadsBack
  BY <1>1
<1> QED BY <1>2, SearchInvHolds, PTL

\* What is read of an id is of an item that is there.
LEMMA FoundIsLive ==
  ASSUME DataInv, NEW id, Exists(rows, Main, id)
  PROVE  id \in Live
<1>1. PICK r \in rows : r[1] = Main /\ r[2]["id"] = Str(id)
  BY DEF Exists, Found, RowsIn
<1>2. PICK x \in Ids : r[2]["id"] = Str(x)
  BY DEF DataInv
<1>3. id = x
  <2>1. Str(id) = Str(x)
    BY <1>1, <1>2
  <2> QED BY <2>1, Tagged
<1>4. InTableOf(type, stored[id].state, Main) /\ type \in Resources
  BY <1>1, <1>2, <1>3 DEF DataInv, Kept
<1>5. stored[id].state = "live"
  BY <1>4, PartsApart DEF InTableOf, Main
<1> QED BY <1>2, <1>3, <1>5 DEF Live

LEMMA WantedRead ==
  ASSUME InnerDictsAreFlat, DataInv, NEW id \in Live, NEW wanted
  PROVE  /\ DOMAIN stored[id].item = DOMAIN type.proto
         /\ ReadWalker(rows, Main, type.proto, id, wanted)
              = OnFields(stored[id].item, {f \in DOMAIN type.proto : wanted = {} \/ f \in wanted})
<1>1. PICK proto, item : proto = type.proto /\ item = stored[id].item
  OBVIOUS
<1>2. type \in Resources /\ AllParts(rows, type, id, stored[id])
  BY DEF DataInv, Live, Kept
<1>3. PartTables(Main, proto) /\ Flat(proto) /\ IsPart(rows, Main, proto, id, item)
  BY <1>1, <1>2, MainPart DEF InnerDictsAreFlat, AllParts, Main
<1>4. InTables(rows, Main, proto, id, item) /\ ItemTable(Main) = Main
  BY <1>3 DEF PartTables, IsPart, InTables
<1>5. DOMAIN item = DOMAIN proto
  BY <1>3 DEF IsPart, Formed, Shaped
<1> QED BY <1>1, <1>4, <1>5, ItemRead

ItemShown ==
  search.pc = "show" /\ search'.pc = "show" /\ search'.shown # search.shown
     => LET shown == Last(search'.shown)
            item  == stored[search.hits[Len(search'.shown)]].item
        IN /\ \A f \in DOMAIN shown : shown[f] = item[f]
           /\ DOMAIN shown = IF search.query.showall THEN DOMAIN item
                ELSE (search.query.show \cup {"id"}) \cap DOMAIN item

LEMMA ItemIsShown ==
  ASSUME InnerDictsAreFlat, SearchInv, ShowNext, search'.pc = "show"
  PROVE  LET shown == Last(search'.shown)
             item  == stored[search.hits[Len(search'.shown)]].item
         IN /\ \A f \in DOMAIN shown : shown[f] = item[f]
            /\ DOMAIN shown = IF search.query.showall THEN DOMAIN item
                 ELSE (search.query.show \cup {"id"}) \cap DOMAIN item
<1>1. DOMAIN search = Fields /\ search.pc = "show" /\ \E S : search.shown \in Seq(S)
  BY DEF SearchInv, ShownInOrder, ShowNext
<1>2. PICK id, shown : /\ id = search.hits[Len(search.shown) + 1]
                       /\ shown = ReadWalker(rows, Main, type.proto, id, Wanted)
  OBVIOUS
<1>3. Exists(rows, Main, id) /\ search' = [search EXCEPT !.shown = Append(@, shown)]
  <2>1. CASE search' = [search EXCEPT !.pc = "done", !.status = 404]
    BY <1>1, <2>1 DEF Fields
  <2> QED BY <1>2, <2>1 DEF ShowNext
<1>4. search'.shown = Append(search.shown, shown)
  BY <1>1, <1>3 DEF Fields
<1>5. Last(search'.shown) = shown /\ Len(search'.shown) = Len(search.shown) + 1
  BY <1>1, <1>4, OneMoreShown
<1>6. PICK item : item = stored[id].item
  OBVIOUS
<1>7. /\ DOMAIN item = DOMAIN type.proto
      /\ shown = OnFields(item, {f \in DOMAIN type.proto : Wanted = {} \/ f \in Wanted})
  BY <1>2, <1>3, <1>6, FoundIsLive, WantedRead DEF SearchInv
<1>8. Wanted = {} <=> search.query.showall
  BY DEF Wanted
<1>9. ~search.query.showall => Wanted = search.query.show \cup {"id"}
  BY DEF Wanted
<1>10. /\ \A f \in DOMAIN shown : shown[f] = item[f]
       /\ DOMAIN shown = IF search.query.showall THEN DOMAIN item
            ELSE (search.query.show \cup {"id"}) \cap DOMAIN item
  BY <1>7, <1>8, <1>9 DEF OnFields
<1> QED BY <1>2, <1>5, <1>6, <1>10

\* Each item is shown as it is when it is read.
THEOREM ShowsWhatIsStoredHolds ==
  ASSUME InnerDictsAreFlat
  PROVE  Spec => ShowsWhatIsStored
<1>1. ASSUME SearchInv, [Next]_vars PROVE [ItemShown]_vars
  <2> SUFFICES ASSUME Next, search.pc = "show", search'.pc = "show",
                      search'.shown # search.shown
               PROVE  ItemShown
    BY <1>1 DEF ItemShown, vars
  <2>1. DOMAIN search = Fields
    BY <1>1 DEF SearchInv, ShownInOrder
  <2>2. CASE ShowNext
    BY <1>1, <2>2, ItemIsShown DEF ItemShown
  <2>3. CASE ShowIds \/ EndShow
    BY <2>1, <2>3 DEF ShowIds, EndShow, Fields
  <2>4. CASE Respond
    BY <2>4 DEF Respond
  <2>5. CASE Meanwhile
    BY <2>1, <2>5 DEF Meanwhile, Fields
  <2>6. CASE \E c \in Criteria[type.name] : Select(c)
    BY <2>6 DEF Select
  <2> QED BY <2>2, <2>3, <2>4, <2>5, <2>6 DEF Next
<1>2. SearchInv /\ [Next]_vars => [ItemShown]_vars
  BY <1>1
<1> QED BY <1>2, SearchInvHolds, PTL DEF Spec, ShowsWhatIsStored, ItemShown
=============================================================================
