---------------------------- MODULE ItemStorage ----------------------------
(***************************************************************************)
(* The storage of one resource type: the HTTP handlers of ListResource,    *)
(* FileResource's two handlers (a file is a subitem), and the SQL that     *)
(* WriteOnlyStorage and ReadOnlyStorage execute for them in one            *)
(* transaction, statement by statement, by any number of workers.          *)
(*                                                                         *)
(* An item is spread over three tables: one row of the main table, the     *)
(* rows of its list tables and the rows of its subitem tables.  All the    *)
(* list tables are one table here, as are the subitem tables, and the      *)
(* rows one write puts in a table are one row.  Nothing in the schema      *)
(* makes an id unique: a table is a set of rows.                           *)
(*                                                                         *)
(* The database is external: rows become visible at commit, a writer holds *)
(* the lock of a row it deleted or updated until its transaction ends, and *)
(* a statement that finds a row locked waits.  No code sets an isolation   *)
(* level, so it is the database's default: READ COMMITTED unless           *)
(* PostgreSQL is configured otherwise.                                     *)
(***************************************************************************)
EXTENDS Integers, FiniteSets

CONSTANTS
  Workers,       \* the threads of all the server processes
  Ids,           \* item ids
  MaxRev,        \* bound on the number of revisions committed or in flight
  Isolation,     \* the isolation level the database is configured with
  MayRun,        \* the operations each worker is ever asked to run
  NullRevision   \* do clients send updates whose "revision" is null?

ASSUME MaxRevAssumption == MaxRev \in Nat
ASSUME IsolationAssumption == Isolation \in {"ReadCommitted", "RepeatableRead"}

Rev     == 1 .. MaxRev
NoRev   == 0      \* Python's None: no revision
NoId    == "no id"
Table   == {"main", "list", "sub"}

\* A row's key is the revision of the write that inserted it; an UPDATE keeps
\* the key.  Only in the main table does rev matter.
Row     == [id : Ids, key : Rev, rev : Rev]
NoRows  == [t \in Table |-> {}]

(***************************************************************************)
(* The handlers: each is the sequence of steps of its transaction.  Steps  *)
(* "main", "list" and "sub" are the DELETE or UPDATE of that table.        *)
(***************************************************************************)
\* Faulty variants of some handlers and steps stand before the definition they
\* vary.  No action uses them: each shows that some property would notice.
PutItemKeepsRow == [begin |-> "check", check |-> "list",
                    list |-> "insert", insert |-> "commit"]
PutItemListFirst == [begin |-> "check", check |-> "list", list |-> "main",
                     main |-> "insert", insert |-> "commit"]
PutItemDropsSubitem == [begin |-> "check", check |-> "main", main |-> "list",
                        list |-> "sub", sub |-> "insert", insert |-> "commit"]
DeleteItemKeepsRow == [begin |-> "list", list |-> "sub", sub |-> "commit"]

PostItem    == [begin |-> "insert", insert |-> "commit"]
PutItem     == [begin |-> "check", check |-> "main", main |-> "list",
                list |-> "insert", insert |-> "commit"]
PutSubitem  == [begin |-> "check", check |-> "main", main |-> "sub",
                sub |-> "insert", insert |-> "commit"]
DeleteItem  == [begin |-> "main", main |-> "list", list |-> "sub",
                sub |-> "commit"]
GetItem     == [begin |-> "readmain", readmain |-> "readlist",
                readlist |-> "commit"]
GetSubitem  == [begin |-> "readsub", readsub |-> "readmain",
                readmain |-> "readlist", readlist |-> "commit"]

Handler == [post |-> PostItem, put |-> PutItem, putsub |-> PutSubitem,
            delete |-> DeleteItem, get |-> GetItem, getsub |-> GetSubitem]

Op      == {"post", "put", "putsub", "delete", "get", "getsub"}
Updates == {"put", "putsub"}
Writes  == {"post", "put", "putsub"}
Step    == {"check", "main", "list", "sub", "insert",
            "readmain", "readlist", "readsub", "commit"}

ASSUME MayRunAssumption == MayRun \in [Workers -> SUBSET Op]
ASSUME NullRevisionAssumption == NullRevision \in BOOLEAN

VARIABLES
  db,        \* Table -> the committed rows
  pc,        \* each worker's next step, or "idle"
  req,       \* the request the worker serves
  new,       \* the revision it generated, or NoRev
  snap,      \* the rows its transaction sees (repeatable read only)
  waiting,   \* has its current DELETE or UPDATE picked its rows?
  target,    \* the rows that statement picked
  locked,    \* Table -> the committed rows it deleted or updated
  added,     \* Table -> the rows it inserted, uncommitted
  seen,      \* what it has read for the reply
  version,   \* history: Rev -> the version a committed write made of an item
  deleted    \* history: the items whose deletion was committed

storeVars == <<db, version, deleted>>
vars == <<db, pc, req, new, snap, waiting, target, locked, added,
          seen, version, deleted>>

\* A request: "stale" records that base was not current when it arrived.
Request == [op : Op, id : Ids, base : Rev \cup {NoRev}, stale : BOOLEAN]
NoReq   == [op |-> "none", id |-> NoId, base |-> NoRev, stale |-> FALSE]

Seen    == [rev : Rev \cup {NoRev}, body : Rev \cup {NoRev},
            list : SUBSET Rev, sub : Rev \cup {NoRev}]
Unseen  == [rev |-> NoRev, body |-> NoRev, list |-> {}, sub |-> NoRev]

\* What a committed write made of the item: which update of it (base), and
\* whose body and whose subitem the new version has.
Version == [id : Ids, base : Rev \cup {NoRev}, body : Rev \cup {NoRev},
            sub : Rev \cup {NoRev}]
NoVersion == [id |-> NoId, base |-> NoRev, body |-> NoRev, sub |-> NoRev]

RowsOf(rows, i)  == {x \in rows : x.id = i}
Keys(rows)       == {x.key : x \in rows}
Committed        == {r \in Rev : version[r] # NoVersion}
KnownIds         == {version[r].id : r \in Committed}
Revisions(rows)  == IF rows = {} THEN {NoRev} ELSE {x.rev : x \in rows}

View(w) == IF Isolation = "RepeatableRead" THEN snap[w] ELSE db
MyRows(w, t) == RowsOf(View(w)[t], req[w].id)

Init ==
  /\ db      = NoRows
  /\ pc      = [w \in Workers |-> "idle"]
  /\ req     = [w \in Workers |-> NoReq]
  /\ new     = [w \in Workers |-> NoRev]
  /\ snap    = [w \in Workers |-> NoRows]
  /\ waiting = [w \in Workers |-> FALSE]
  /\ target  = [w \in Workers |-> {}]
  /\ locked  = [w \in Workers |-> NoRows]
  /\ added   = [w \in Workers |-> NoRows]
  /\ seen    = [w \in Workers |-> Unseen]
  /\ version = [r \in Rev |-> NoVersion]
  /\ deleted = {}

-----------------------------------------------------------------------------
(***************************************************************************)
(* Starting and ending a transaction.                                      *)
(***************************************************************************)

\* The connection goes back to the pool and the transaction object is dropped.
End(w) ==
  /\ pc'      = [pc      EXCEPT ![w] = "idle"]
  /\ req'     = [req     EXCEPT ![w] = NoReq]
  /\ new'     = [new     EXCEPT ![w] = NoRev]
  /\ snap'    = [snap    EXCEPT ![w] = NoRows]
  /\ waiting' = [waiting EXCEPT ![w] = FALSE]
  /\ target'  = [target  EXCEPT ![w] = {}]
  /\ locked'  = [locked  EXCEPT ![w] = NoRows]
  /\ added'   = [added   EXCEPT ![w] = NoRows]
  /\ seen'    = [seen    EXCEPT ![w] = Unseen]

Advance(w) == pc' = [pc EXCEPT ![w] = Handler[req[w].op][@]]

\* Only the bound MaxRev limits updates: each will find a revision left.
RevisionsLeft ==
  Cardinality({w \in Workers : pc[w] = "check" \/ new[w] # NoRev})
    + Cardinality(Committed) < MaxRev

Start(w, op, i, base) ==
  /\ pc[w] = "idle"
  /\ op \in MayRun[w]
  /\ pc'  = [pc EXCEPT ![w] = Handler[op].begin]
  /\ req' = [req EXCEPT ![w] =
       [op |-> op, id |-> i, base |-> base,
        stale |-> base # NoRev /\ base \notin Revisions(RowsOf(db.main, i))]]
  /\ snap' = IF Isolation = "RepeatableRead"
               THEN [snap EXCEPT ![w] = db] ELSE snap
  /\ UNCHANGED <<storeVars, waiting, target, locked, added, seen>>

\* ResourceIdGenerator.new_id: a revision no one has seen.  One that a
\* transaction took before it was rolled back is as good as new.
Fresh(r) == r \notin Committed /\ \A w \in Workers : new[w] # r

Generate(w) ==
  \E r \in Rev :
    /\ Fresh(r)
    /\ \A s \in 1 .. r - 1 : ~Fresh(s)
    /\ new' = [new EXCEPT ![w] = r]

\* POST /foos: the id is a fresh UUID.
StartPost(w, i) ==
  /\ i \notin KnownIds
  /\ \A v \in Workers : req[v].id # i
  /\ RevisionsLeft
  /\ Start(w, "post", i, NoRev)
  /\ Generate(w)

\* PUT /foos/<id> and PUT /foos/<id>/sub: the client quotes any revision it
\* can have been told of, of this item or, wrongly, of another, or null.
StartUpdate(w, op, i, base) ==
  /\ RevisionsLeft
  /\ Start(w, op, i, base)
  /\ UNCHANGED new

\* GET and DELETE carry no revision.
StartOther(w, op, i) ==
  /\ Start(w, op, i, NoRev)
  /\ UNCHANGED new

\* Transaction.__exit__ without an exception.
Commit(w) ==
  /\ pc[w] = "commit"
  /\ db' = [t \in Table |-> (db[t] \ locked[w][t]) \cup added[w][t]]
  /\ LET q == req[w]
         old == IF q.base \in Rev THEN version[q.base] ELSE NoVersion
     IN version' =
          IF q.op \notin Writes THEN version
          ELSE [version EXCEPT ![new[w]] =
                 [id |-> q.id, base |-> q.base,
                  body |-> IF q.op = "putsub" THEN old.body ELSE new[w],
                  sub  |-> IF q.op = "put" THEN old.sub ELSE new[w]]]
  /\ deleted' = IF req[w].op = "delete" THEN deleted \cup {req[w].id}
                ELSE deleted
  /\ End(w)

\* The transaction ends with nothing changed: an error reply, a failed
\* statement, or the death of the worker's process at any point.
Rollback(w) ==
  /\ End(w)
  /\ UNCHANGED storeVars

Abort(w) ==
  /\ pc[w] # "idle"
  /\ Rollback(w)

-----------------------------------------------------------------------------
(***************************************************************************)
(* The statements of a write.                                              *)
(***************************************************************************)

RevisionUnchecked(w) ==
  /\ pc[w] = "check"
  /\ Generate(w)
  /\ Advance(w)
  /\ UNCHANGED <<storeVars, req, snap, waiting, target, locked, added, seen>>

RevisionKept(w) ==
  /\ pc[w] = "check"
  /\ req[w].base \in Revisions(MyRows(w, "main"))
  /\ Advance(w)
  /\ UNCHANGED <<storeVars, req, new, snap, waiting, target, locked, added,
                 seen>>

\* SELECT revision: the first row, of however many; no row is None.
RevisionMatches(w) ==
  /\ pc[w] = "check"
  /\ req[w].base \in Revisions(MyRows(w, "main"))
  /\ Generate(w)
  /\ Advance(w)
  /\ UNCHANGED <<storeVars, req, snap, waiting, target, locked, added, seen>>

\* WrongRevision, 409 Conflict.
WrongRevision(w) ==
  /\ pc[w] = "check"
  /\ \E r \in Revisions(MyRows(w, "main")) : r # req[w].base
  /\ Rollback(w)

\* A DELETE or UPDATE picks the rows it sees ...
PickRows(w) ==
  /\ pc[w] \in Table
  /\ ~waiting[w]
  /\ waiting' = [waiting EXCEPT ![w] = TRUE]
  /\ target'  = [target EXCEPT ![w] = MyRows(w, pc[w])]
  /\ UNCHANGED <<storeVars, pc, req, new, snap, locked, added, seen>>

\* ... waits for the transactions that have locked one of them ...
WaitsFor(w, v) ==
  /\ v # w
  /\ waiting[w]
  /\ Keys(target[w]) \cap Keys(locked[v][pc[w]]) # {}

Blocked(w) == \E v \in Workers : WaitsFor(w, v)

\* ... and then has the committed versions of those that are still there.
Remaining(w) == {x \in db[pc[w]] : x.key \in Keys(target[w])}

Changed(w) == Isolation = "RepeatableRead" /\ Remaining(w) # target[w]

ChangeRows(w) ==
  /\ waiting[w]
  /\ ~Blocked(w)
  /\ ~Changed(w)
  /\ locked' = [locked EXCEPT ![w] = [@ EXCEPT ![pc[w]] = Remaining(w)]]
  /\ added'  = IF req[w].op = "putsub" /\ pc[w] = "main"
                 THEN [added EXCEPT ![w] = [@ EXCEPT !["main"] =
                        {[x EXCEPT !.rev = new[w]] : x \in Remaining(w)}]]
                 ELSE added
  /\ waiting' = [waiting EXCEPT ![w] = FALSE]
  /\ target'  = [target EXCEPT ![w] = {}]
  /\ Advance(w)
  /\ UNCHANGED <<storeVars, req, new, snap, seen>>

\* "could not serialize access due to concurrent update": an error reply.
SerializationFailure(w) ==
  /\ waiting[w]
  /\ ~Blocked(w)
  /\ Changed(w)
  /\ Rollback(w)

WrittenTablesNoLists(op) ==
  CASE op = "post"   -> Table
    [] op = "put"    -> {"main"}
    [] op = "putsub" -> {"sub"}

\* The INSERTs of the item's rows, and of an empty subitem for a new item.
WrittenTables(op) ==
  CASE op = "post"   -> Table
    [] op = "put"    -> {"main", "list"}
    [] op = "putsub" -> {"sub"}

InsertRows(w) ==
  /\ pc[w] = "insert"
  /\ LET row == [id |-> req[w].id, key |-> new[w], rev |-> new[w]]
     IN added' = [added EXCEPT ![w] =
          [t \in Table |-> IF t \in WrittenTables(req[w].op)
                             THEN @[t] \cup {row} ELSE @[t]]]
  /\ Advance(w)
  /\ UNCHANGED <<storeVars, req, new, snap, waiting, target, locked, seen>>

-----------------------------------------------------------------------------
(***************************************************************************)
(* The statements of a read: one SELECT per table.                         *)
(***************************************************************************)
Keep(w, s) ==
  /\ seen' = [seen EXCEPT ![w] = s]
  /\ Advance(w)
  /\ UNCHANGED <<storeVars, req, new, snap, waiting, target, locked, added>>

ReadMain(w) ==
  /\ pc[w] = "readmain"
  /\ \E x \in MyRows(w, "main") :
       Keep(w, [seen[w] EXCEPT !.rev = x.rev, !.body = x.key])

ReadSub(w) ==
  /\ pc[w] = "readsub"
  /\ \E x \in MyRows(w, "sub") : Keep(w, [seen[w] EXCEPT !.sub = x.key])

ReadList(w) ==
  /\ pc[w] = "readlist"
  /\ Keep(w, [seen[w] EXCEPT !.list = Keys(MyRows(w, "list"))])

\* ItemDoesNotExist, 404 Not Found.
NotFound(w) ==
  /\ \/ pc[w] = "readmain" /\ MyRows(w, "main") = {}
     \/ pc[w] = "readsub" /\ MyRows(w, "sub") = {}
  /\ Rollback(w)

-----------------------------------------------------------------------------
Arrive(w) ==
  \/ \E i \in Ids : StartPost(w, i)
  \/ \E op \in Updates, i \in KnownIds, base \in Committed :
       StartUpdate(w, op, i, base)
  \/ \E op \in Updates, i \in KnownIds :
       NullRevision /\ StartUpdate(w, op, i, NoRev)
  \/ \E op \in {"delete", "get", "getsub"}, i \in KnownIds :
       StartOther(w, op, i)

Work(w) ==
  \/ RevisionMatches(w) \/ WrongRevision(w)
  \/ PickRows(w) \/ ChangeRows(w) \/ SerializationFailure(w)
  \/ InsertRows(w)
  \/ ReadMain(w) \/ ReadSub(w) \/ ReadList(w) \/ NotFound(w)
  \/ Commit(w)

Next == \E w \in Workers : Arrive(w) \/ Work(w) \/ Abort(w)

Spec == Init /\ [][Next]_vars

\* A worker that can go on does; PostgreSQL wakes the transactions waiting
\* for a row in the order they came, so none waits while others overtake it
\* again and again.
Fairness == \A w \in Workers : WF_vars(Work(w)) /\ SF_vars(ChangeRows(w))

FairSpec == Spec /\ Fairness

-----------------------------------------------------------------------------
(***************************************************************************)
(* Properties.                                                             *)
(***************************************************************************)

\* The variables have their types; what is uncommitted belongs to a request.
TypeOK ==
  /\ db      \in [Table -> SUBSET Row]
  /\ pc      \in [Workers -> Step \cup {"idle"}]
  /\ req     \in [Workers -> Request \cup {NoReq}]
  /\ new     \in [Workers -> Rev \cup {NoRev}]
  /\ snap    \in [Workers -> [Table -> SUBSET Row]]
  /\ waiting \in [Workers -> BOOLEAN]
  /\ target  \in [Workers -> SUBSET Row]
  /\ locked  \in [Workers -> [Table -> SUBSET Row]]
  /\ added   \in [Workers -> [Table -> SUBSET Row]]
  /\ seen    \in [Workers -> Seen]
  /\ version \in [Rev -> Version \cup {NoVersion}]
  /\ deleted \in SUBSET Ids

\* Requests never wait for each other in a circle: update_item,
\* update_subitem and delete_item all take the main table's row first, then
\* list rows, then subitem rows.
NoDeadlock ==
  \A S \in (SUBSET Workers) \ {{}} :
    \E w \in S : \A v \in S : ~WaitsFor(w, v)

\* An update that quotes a revision already superseded when it arrives never
\* changes anything, whatever runs beside it (the check in update_item and
\* update_subitem; no revision ever becomes current again).
StaleUpdateRejected ==
  \A w \in Workers : req[w].stale => pc[w] = "check"

\* An item has one row in the main table: get_item, get_items and the
\* revision check all take it for granted.
OneRowPerItem ==
  \A x, y \in db["main"] : x.id = y.id => x = y

\* Of the updates that quote one revision at most one is ever committed: no
\* update is lost without its client having seen a 409.
OneUpdatePerRevision ==
  \A r, s \in Committed :
    version[r].base = version[s].base /\ version[r].base # NoRev => r = s

\* Once delete_item has committed, no request brings the item back.
DeletedIsGone ==
  \A x \in db["main"] : x.id \notin deleted

\* The reply of get_item, get_subitem or get_file shows exactly the version
\* its revision names.
ReadsOneVersion ==
  \A w \in Workers :
    pc[w] = "commit" /\ req[w].op \in {"get", "getsub"} =>
      LET v == version[seen[w].rev]
      IN /\ seen[w].body = v.body
         /\ seen[w].list = {v.body}
         /\ req[w].op = "getsub" => seen[w].sub = v.sub

\* Every request ends: no lock is waited for in vain.
RequestsEnd ==
  \A w \in Workers : pc[w] # "idle" ~> pc[w] = "idle"

-----------------------------------------------------------------------------
(***************************************************************************)
(* The versioned store that the tables stand for.  An item whose rows are  *)
(* not those of one version maps to no state the store can be in.          *)
(***************************************************************************)
AbstractItem(i) ==
  LET rows == RowsOf(db["main"], i)
  IN IF i \in deleted THEN [state |-> "removed"]
     ELSE IF rows = {} THEN [state |-> "new"]
     ELSE LET x == CHOOSE y \in rows : TRUE
          IN [rev  |-> x.rev,
              body |-> IF Keys(RowsOf(db["list"], i)) = {x.key}
                         THEN x.key ELSE NoRev,
              sub  |-> LET k == Keys(RowsOf(db["sub"], i))
                       IN IF \E r \in Rev : k = {r}
                            THEN CHOOSE r \in Rev : k = {r} ELSE NoRev]

Store == INSTANCE VersionedStore
           WITH Revs   <- Rev,
                store  <- [i \in Ids |-> AbstractItem(i)],
                issued <- Committed

\* The tables, changed by interleaved statements, implement the store whose
\* changes are single steps: an update or deletion takes effect at its commit.
ImplementsStore == Store!Spec
=============================================================================
