------------------------- MODULE ItemStorageProofs -------------------------
(***************************************************************************)
(* Theorems about ItemStorage, for every set of workers and items and      *)
(* every bound on revisions: first at either isolation level, then at      *)
(* REPEATABLE READ.                                                        *)
(***************************************************************************)
EXTENDS ItemStorage, TLAPS

(***************************************************************************)
(* The inductive invariant behind type correctness: a worker is at a step  *)
(* of the handler of its request, so the handler's next step exists, and   *)
(* has a revision of its own from the moment it may write one.             *)
(***************************************************************************)
AtStep(w) ==
  \/ req[w].op = "none"   /\ pc[w] = "idle" /\ ~waiting[w]
  \/ req[w].op = "post"   /\ pc[w] \in {"insert", "commit"} /\ ~waiting[w]
                          /\ new[w] \in Rev
  \/ req[w].op = "put"    /\ pc[w] = "check" /\ ~waiting[w]
  \/ req[w].op = "put"    /\ pc[w] \in {"main", "list"} /\ new[w] \in Rev
  \/ req[w].op = "put"    /\ pc[w] \in {"insert", "commit"} /\ ~waiting[w]
                          /\ new[w] \in Rev
  \/ req[w].op = "putsub" /\ pc[w] = "check" /\ ~waiting[w]
  \/ req[w].op = "putsub" /\ pc[w] \in {"main", "sub"} /\ new[w] \in Rev
  \/ req[w].op = "putsub" /\ pc[w] \in {"insert", "commit"} /\ ~waiting[w]
                          /\ new[w] \in Rev
  \/ req[w].op = "delete" /\ pc[w] \in {"main", "list", "sub"}
  \/ req[w].op = "delete" /\ pc[w] = "commit" /\ ~waiting[w]
  \/ req[w].op = "get"    /\ pc[w] \in {"readmain", "readlist", "commit"}
                          /\ ~waiting[w]
  \/ req[w].op = "getsub" /\ ~waiting[w]
       /\ pc[w] \in {"readsub", "readmain", "readlist", "commit"}

ControlOK == \A w \in Workers : AtStep(w)

(***************************************************************************)
(* The lock order: a worker that has locked rows has passed its revision   *)
(* check, and those rows are in tables before the one its current          *)
(* statement is about.                                                     *)
(***************************************************************************)
Before(s, t) ==
  \/ s = "main" /\ t \in {"list", "sub"}
  \/ s = "list" /\ t = "sub"

LockOrder ==
  \A w \in Workers, t \in Table :
    locked[w][t] # {} =>
      /\ pc[w] \notin {"idle", "check"}
      /\ pc[w] \in Table => Before(t, pc[w])

IInv == TypeOK /\ ControlOK /\ LockOrder

-----------------------------------------------------------------------------
\* The handlers' successor function, step by step.
LEMMA HandlerSteps ==
  /\ Handler["post"]["begin"] = "insert"
  /\ Handler["post"]["insert"] = "commit"
  /\ \A op \in Updates :
       /\ Handler[op]["begin"] = "check"
       /\ Handler[op]["check"] = "main"
       /\ Handler[op]["insert"] = "commit"
  /\ Handler["put"]["main"] = "list"
  /\ Handler["put"]["list"] = "insert"
  /\ Handler["putsub"]["main"] = "sub"
  /\ Handler["putsub"]["sub"] = "insert"
  /\ Handler["delete"]["begin"] = "main"
  /\ Handler["delete"]["main"] = "list"
  /\ Handler["delete"]["list"] = "sub"
  /\ Handler["delete"]["sub"] = "commit"
  /\ Handler["get"]["begin"] = "readmain"
  /\ Handler["get"]["readmain"] = "readlist"
  /\ Handler["get"]["readlist"] = "commit"
  /\ Handler["getsub"]["begin"] = "readsub"
  /\ Handler["getsub"]["readsub"] = "readmain"
  /\ Handler["getsub"]["readmain"] = "readlist"
  /\ Handler["getsub"]["readlist"] = "commit"
BY DEF Handler, PostItem, PutItem, PutSubitem, DeleteItem, GetItem,
       GetSubitem, Updates

\* The rows a statement can be about are rows.
LEMMA RowsTyped ==
  ASSUME TypeOK, NEW w \in Workers, NEW t \in Table
  PROVE  /\ MyRows(w, t) \subseteq Row
         /\ pc[w] \in Table => Remaining(w) \subseteq Row
BY DEF TypeOK, MyRows, RowsOf, View, Remaining

\* Nothing is written before the first request.
LEMMA InitInv == Init => IInv
<1> SUFFICES ASSUME Init PROVE IInv
  OBVIOUS
<1>1. NoRows \in [Table -> SUBSET Row] /\ Unseen \in Seen
  BY DEF NoRows, Unseen, Seen
<1>2. TypeOK
  BY <1>1, MaxRevAssumption DEF Init, TypeOK
<1>3. ControlOK
  BY DEF Init, ControlOK, AtStep, NoReq
<1>4. LockOrder
  BY DEF Init, LockOrder, NoRows
<1> QED BY <1>2, <1>3, <1>4 DEF IInv

\* A worker that becomes idle has no part in any transaction.
LEMMA EndInv ==
  ASSUME IInv, NEW w \in Workers, End(w),
         db' \in [Table -> SUBSET Row],
         version' \in [Rev -> Version \cup {NoVersion}],
         deleted' \in SUBSET Ids
  PROVE  IInv'
<1>1. NoRows \in [Table -> SUBSET Row] /\ Unseen \in Seen
  BY DEF NoRows, Unseen, Seen
<1>2. TypeOK'
  BY <1>1 DEF IInv, TypeOK, End
<1>3. ControlOK'
  BY DEF IInv, TypeOK, ControlOK, AtStep, End, NoReq
<1>4. LockOrder'
  BY DEF IInv, TypeOK, LockOrder, End, NoRows
<1> QED BY <1>2, <1>3, <1>4 DEF IInv

\* A rollback leaves the store alone.
LEMMA RollbackInv ==
  ASSUME IInv, NEW w \in Workers, Rollback(w)
  PROVE  IInv'
BY EndInv DEF Rollback, storeVars, IInv, TypeOK

\* A request starts at the first step of its handler.
LEMMA ArriveInv ==
  ASSUME IInv, NEW w \in Workers, Arrive(w)
  PROVE  IInv'
<1> USE DEF IInv
<1>1. ASSUME NEW i \in Ids, StartPost(w, i)
      PROVE  IInv'
  <2>1. PICK r \in Rev : new' = [new EXCEPT ![w] = r]
    BY <1>1 DEF StartPost, Generate
  <2>2. /\ pc' = [pc EXCEPT ![w] = "insert"]
        /\ req'[w].op = "post" /\ req' \in [Workers -> Request \cup {NoReq}]
        /\ \A v \in Workers \ {w} : req'[v] = req[v]
        /\ ~waiting[w]
    BY <1>1, HandlerSteps DEF StartPost, Start, TypeOK, Request, Op,
       ControlOK, AtStep
  <2>3. snap' \in [Workers -> [Table -> SUBSET Row]]
    BY <1>1 DEF StartPost, Start, TypeOK
  <2>4. TypeOK'
    BY <1>1, <2>1, <2>2, <2>3 DEF StartPost, Start, storeVars, TypeOK, Step
  <2>5. ControlOK'
    BY <1>1, <2>1, <2>2 DEF StartPost, Start, TypeOK, ControlOK, AtStep
  <2>6. LockOrder'
    BY <1>1, <2>2 DEF StartPost, Start, TypeOK, LockOrder, Table
  <2> QED BY <2>4, <2>5, <2>6
<1>2. ASSUME NEW op \in Op \ {"post"}, NEW i \in Ids,
             NEW base \in Rev \cup {NoRev}, Start(w, op, i, base),
             UNCHANGED new
      PROVE  IInv'
  <2>1. /\ pc' = [pc EXCEPT ![w] = Handler[op].begin]
        /\ req'[w].op = op /\ req' \in [Workers -> Request \cup {NoReq}]
        /\ \A v \in Workers \ {w} : req'[v] = req[v]
        /\ ~waiting[w]
    BY <1>2 DEF Start, TypeOK, Request, ControlOK, AtStep
  <2>2. snap' \in [Workers -> [Table -> SUBSET Row]]
    BY <1>2 DEF Start, TypeOK
  <2>3. \/ op \in Updates /\ Handler[op].begin = "check"
        \/ op = "delete" /\ Handler[op].begin = "main"
        \/ op = "get" /\ Handler[op].begin = "readmain"
        \/ op = "getsub" /\ Handler[op].begin = "readsub"
    BY HandlerSteps DEF Op, Updates
  <2>4. TypeOK'
    BY <1>2, <2>1, <2>2, <2>3 DEF Start, storeVars, TypeOK, Step
  <2>5. ControlOK'
    BY <1>2, <2>1, <2>3 DEF Start, TypeOK, ControlOK, AtStep, Updates
  <2>6. LockOrder'
    BY <1>2, <2>1 DEF Start, TypeOK, LockOrder
  <2> QED BY <2>4, <2>5, <2>6
<1>3. KnownIds \subseteq Ids /\ Committed \subseteq Rev
  BY DEF KnownIds, Committed, TypeOK, Version
<1> QED BY <1>1, <1>2, <1>3 DEF Arrive, StartUpdate, StartOther, Updates, Op
\* Transaction.__exit__: the new rows are rows and the new version a version.
LEMMA CommitInv ==
  ASSUME IInv, NEW w \in Workers, Commit(w)
  PROVE  IInv'
<1>1. db' \in [Table -> SUBSET Row]
  BY DEF Commit, IInv, TypeOK
<1>2. version' \in [Rev -> Version \cup {NoVersion}]
  <2>1. CASE req[w].op \notin Writes
    BY <2>1 DEF Commit, IInv, TypeOK
  <2>2. CASE req[w].op \in Writes
    <3> DEFINE old == IF req[w].base \in Rev THEN version[req[w].base]
                      ELSE NoVersion
               made == [id |-> req[w].id, base |-> req[w].base,
                        body |-> IF req[w].op = "putsub" THEN old.body ELSE new[w],
                        sub  |-> IF req[w].op = "put" THEN old.sub ELSE new[w]]
    <3>1. new[w] \in Rev /\ req[w] \in Request
      BY <2>2 DEF Commit, IInv, TypeOK, ControlOK, AtStep, NoReq, Writes
    <3>2. old \in Version \cup {NoVersion}
      BY DEF IInv, TypeOK
    <3>3. old.body \in Rev \cup {NoRev} /\ old.sub \in Rev \cup {NoRev}
      BY <3>2 DEF Version, NoVersion
    <3>4. made \in Version
      BY <3>1, <3>3 DEF Request, Version
    <3> HIDE DEF made
    <3>5. version' = [version EXCEPT ![new[w]] = made]
      BY <2>2 DEF Commit, made
    <3> QED BY <3>1, <3>4, <3>5 DEF IInv, TypeOK
  <2> QED BY <2>1, <2>2
<1>3. deleted' \in SUBSET Ids
  BY DEF Commit, IInv, TypeOK, ControlOK, AtStep, Request, NoReq
<1> QED BY <1>1, <1>2, <1>3, EndInv DEF Commit

\* A revision check that passes takes no lock.
LEMMA RevisionMatchesInv ==
  ASSUME IInv, NEW w \in Workers, RevisionMatches(w)
  PROVE  IInv'
<1> USE DEF IInv
<1>1. PICK r \in Rev : new' = [new EXCEPT ![w] = r]
  BY DEF RevisionMatches, Generate
<1>2. req[w].op \in Updates /\ ~waiting[w] /\ pc[w] = "check"
  BY DEF RevisionMatches, ControlOK, AtStep, Updates
<1>3. pc' = [pc EXCEPT ![w] = "main"]
  BY <1>2, HandlerSteps DEF RevisionMatches, Advance, TypeOK
<1>4. TypeOK'
  BY <1>1, <1>3 DEF RevisionMatches, storeVars, TypeOK, Step
<1>5. ControlOK'
  BY <1>1, <1>2, <1>3 DEF RevisionMatches, TypeOK, ControlOK, AtStep, Updates
<1>6. LockOrder'
  BY <1>2, <1>3 DEF RevisionMatches, TypeOK, LockOrder
<1> QED BY <1>4, <1>5, <1>6

\* Picking rows changes nothing the invariant speaks of but target's type.
LEMMA PickRowsInv ==
  ASSUME IInv, NEW w \in Workers, PickRows(w)
  PROVE  IInv'
<1> USE DEF IInv
<1>1. TypeOK'
  BY RowsTyped DEF PickRows, storeVars, TypeOK
<1>2. ControlOK'
  BY DEF PickRows, TypeOK, ControlOK, AtStep, Table
<1>3. LockOrder'
  BY DEF PickRows, LockOrder
<1> QED BY <1>1, <1>2, <1>3

\* A DELETE or UPDATE locks rows of its table and moves on to a later one.
LEMMA ChangeRowsInv ==
  ASSUME IInv, NEW w \in Workers, ChangeRows(w)
  PROVE  IInv'
<1> USE DEF IInv
<1>1. /\ waiting[w]
      /\ \/ req[w].op = "put" /\ pc[w] = "main" /\ Handler[req[w].op][pc[w]] = "list"
         \/ req[w].op = "put" /\ pc[w] = "list" /\ Handler[req[w].op][pc[w]] = "insert"
         \/ req[w].op = "putsub" /\ pc[w] = "main" /\ Handler[req[w].op][pc[w]] = "sub"
         \/ req[w].op = "putsub" /\ pc[w] = "sub" /\ Handler[req[w].op][pc[w]] = "insert"
         \/ req[w].op = "delete" /\ pc[w] = "main" /\ Handler[req[w].op][pc[w]] = "list"
         \/ req[w].op = "delete" /\ pc[w] = "list" /\ Handler[req[w].op][pc[w]] = "sub"
         \/ req[w].op = "delete" /\ pc[w] = "sub" /\ Handler[req[w].op][pc[w]] = "commit"
  BY HandlerSteps DEF ChangeRows, ControlOK, AtStep, Updates
<1>2. pc[w] \in Table /\ Remaining(w) \subseteq Row
  BY <1>1, RowsTyped DEF Table
<1>3. locked' = [locked EXCEPT ![w] = [@ EXCEPT ![pc[w]] = Remaining(w)]]
  BY DEF ChangeRows
<1>4. locked' \in [Workers -> [Table -> SUBSET Row]]
  BY <1>2, <1>3 DEF TypeOK
<1>5. added' \in [Workers -> [Table -> SUBSET Row]]
  <2>1. CASE req[w].op = "putsub" /\ pc[w] = "main"
    <3>1. new[w] \in Rev
      BY <1>1, <2>1 DEF ControlOK, AtStep
    <3>2. {[x EXCEPT !.rev = new[w]] : x \in Remaining(w)} \in SUBSET Row
      BY <1>2, <3>1 DEF Row
    <3> QED BY <2>1, <3>2 DEF ChangeRows, TypeOK
  <2>2. CASE ~(req[w].op = "putsub" /\ pc[w] = "main")
    BY <2>2 DEF ChangeRows, TypeOK
  <2> QED BY <2>1, <2>2
<1>6. pc' = [pc EXCEPT ![w] = Handler[req[w].op][pc[w]]]
  BY DEF ChangeRows, Advance
<1>7. TypeOK'
  BY <1>1, <1>4, <1>5, <1>6 DEF ChangeRows, storeVars, TypeOK, Step
<1>8. ControlOK'
  BY <1>1, <1>6 DEF ChangeRows, TypeOK, ControlOK, AtStep
<1>9. LockOrder'
  BY <1>1, <1>2, <1>3, <1>6 DEF TypeOK, LockOrder, Before, Table
<1> QED BY <1>7, <1>8, <1>9

\* The INSERTs come after every lock has been taken.
LEMMA InsertRowsInv ==
  ASSUME IInv, NEW w \in Workers, InsertRows(w)
  PROVE  IInv'
<1> USE DEF IInv
<1>1. /\ pc[w] = "insert" /\ new[w] \in Rev /\ ~waiting[w]
      /\ req[w].op \in Writes /\ req[w].id \in Ids
  <2>1. /\ pc[w] = "insert" /\ new[w] \in Rev /\ ~waiting[w]
        /\ req[w].op \in Writes
    BY DEF InsertRows, ControlOK, AtStep, Writes
  <2>2. req[w] \in Request
    BY <2>1 DEF TypeOK, NoReq, Writes
  <2> QED BY <2>1, <2>2 DEF Request
<1>2. pc' = [pc EXCEPT ![w] = "commit"]
  BY <1>1, HandlerSteps DEF InsertRows, Advance, Writes, Updates
<1>3. [id |-> req[w].id, key |-> new[w], rev |-> new[w]] \in Row
  BY <1>1 DEF Row
<1>4. added' \in [Workers -> [Table -> SUBSET Row]]
  BY <1>3 DEF InsertRows, TypeOK
<1>5. TypeOK'
  BY <1>2, <1>4 DEF InsertRows, storeVars, TypeOK, Step
<1>6. ControlOK'
  BY <1>1, <1>2 DEF InsertRows, TypeOK, ControlOK, AtStep, Writes
<1>7. LockOrder'
  BY <1>1, <1>2 DEF InsertRows, TypeOK, LockOrder, Table
<1> QED BY <1>5, <1>6, <1>7

\* A SELECT of a read takes no lock.
LEMMA ReadInv ==
  ASSUME IInv, NEW w \in Workers, ReadMain(w) \/ ReadSub(w) \/ ReadList(w)
  PROVE  IInv'
<1> USE DEF IInv
<1>1. PICK s \in Seen : Keep(w, s)
  <2>1. seen[w] \in Seen
    BY DEF TypeOK
  <2>2. ASSUME ReadMain(w) PROVE \E s \in Seen : Keep(w, s)
    <3>1. PICK x \in MyRows(w, "main") :
            Keep(w, [seen[w] EXCEPT !.rev = x.rev, !.body = x.key])
      BY <2>2 DEF ReadMain
    <3>2. x \in Row
      BY RowsTyped DEF Table
    <3> QED BY <2>1, <3>1, <3>2 DEF Seen, Row
  <2>3. ASSUME ReadSub(w) PROVE \E s \in Seen : Keep(w, s)
    <3>1. PICK x \in MyRows(w, "sub") : Keep(w, [seen[w] EXCEPT !.sub = x.key])
      BY <2>3 DEF ReadSub
    <3>2. x \in Row
      BY RowsTyped DEF Table
    <3> QED BY <2>1, <3>1, <3>2 DEF Seen, Row
  <2>4. ASSUME ReadList(w) PROVE \E s \in Seen : Keep(w, s)
    <3>1. Keys(MyRows(w, "list")) \in SUBSET Rev
      BY RowsTyped DEF Keys, Row, Table
    <3> QED BY <2>1, <2>4, <3>1 DEF ReadList, Seen
  <2> QED BY <2>2, <2>3, <2>4
<1>2. \/ /\ req[w].op \in {"get", "getsub"} /\ ~waiting[w]
         /\ pc[w] \in {"readmain", "readlist"}
      \/ req[w].op = "getsub" /\ pc[w] = "readsub" /\ ~waiting[w]
  BY DEF ReadMain, ReadSub, ReadList, ControlOK, AtStep
<1>3. \E t \in {"readmain", "readlist", "commit"} : pc' = [pc EXCEPT ![w] = t]
  BY <1>1, <1>2, HandlerSteps DEF Keep, Advance, TypeOK
<1>4. TypeOK'
  BY <1>1, <1>3 DEF Keep, storeVars, TypeOK, Step
<1>5. ControlOK'
  BY <1>1, <1>2, <1>3 DEF Keep, TypeOK, ControlOK, AtStep
<1>6. LockOrder'
  BY <1>1, <1>2, <1>3 DEF Keep, TypeOK, LockOrder, Table
<1> QED BY <1>4, <1>5, <1>6

LEMMA StepInv == IInv /\ [Next]_vars => IInv'
<1> SUFFICES ASSUME IInv, [Next]_vars PROVE IInv'
  OBVIOUS
<1>1. CASE UNCHANGED vars
  BY <1>1 DEF vars, IInv, TypeOK, ControlOK, AtStep, LockOrder
<1>2. ASSUME NEW w \in Workers, Work(w) PROVE IInv'
  BY <1>2, RevisionMatchesInv, PickRowsInv, ChangeRowsInv, InsertRowsInv,
     ReadInv, CommitInv, RollbackInv
     DEF Work, WrongRevision, SerializationFailure, NotFound
<1>3. ASSUME NEW w \in Workers, Arrive(w) \/ Abort(w) PROVE IInv'
  BY <1>3, ArriveInv, RollbackInv DEF Abort
<1> QED BY <1>1, <1>2, <1>3 DEF Next

LEMMA Invariance == Spec => []IInv
BY InitInv, StepInv, PTL DEF Spec

-----------------------------------------------------------------------------
\* Type correctness, for every interleaving of the handlers' statements.
THEOREM TypeCorrect == Spec => []TypeOK
<1>1. IInv => TypeOK
  BY DEF IInv
<1> QED BY <1>1, Invariance, PTL

\* A worker waits only for one that has gone on to a later table.
LEMMA WaitingForLater ==
  ASSUME IInv, NEW w \in Workers, NEW v \in Workers, WaitsFor(w, v)
  PROVE  /\ pc[w] \in Table
         /\ pc[v] \in Table => Before(pc[w], pc[v])
BY DEF IInv, WaitsFor, ControlOK, AtStep, LockOrder, Table, Keys

\* No circle of requests waits for each other's locks, however many requests
\* run at once, under either isolation level (the order of the statements in
\* update_item, update_subitem and delete_item).
THEOREM NoDeadlockEver == Spec => []NoDeadlock
<1>1. ASSUME IInv PROVE NoDeadlock
  <2> SUFFICES ASSUME NEW S \in (SUBSET Workers) \ {{}},
                      \A w \in S : \E v \in S : WaitsFor(w, v)
               PROVE  FALSE
    BY DEF NoDeadlock
  <2>1. ASSUME NEW w \in S
        PROVE  \E v \in S : pc[w] \in Table /\ pc[v] \in Table /\ Before(pc[w], pc[v])
    <3>1. PICK v \in S : WaitsFor(w, v)
      OBVIOUS
    <3>2. PICK u \in S : WaitsFor(v, u)
      OBVIOUS
    <3> QED BY <1>1, <3>1, <3>2, WaitingForLater
  <2>2. PICK w \in S : TRUE
    OBVIOUS
  <2>3. PICK v \in S : Before(pc[w], pc[v])
    BY <2>1
  <2>4. PICK u \in S : Before(pc[v], pc[u])
    BY <2>1
  <2>5. PICK t \in S : Before(pc[u], pc[t])
    BY <2>1
  <2> QED BY <2>3, <2>4, <2>5 DEF Before
<1> QED BY <1>1, Invariance, PTL
-----------------------------------------------------------------------------
(***************************************************************************)
(* Stale updates.  The revision a worker generates is its own and in no    *)
(* committed row until the worker commits, so a commit brings no revision  *)
(* back that was current before; and a request that arrived with a stale   *)
(* revision cannot pass its check, neither in the rows as they are nor in  *)
(* its snapshot.                                                           *)
(***************************************************************************)
OwnRevision ==
  /\ \A w \in Workers : new[w] \notin Committed
  /\ \A w \in Workers : pc[w] \in {"idle", "check"} => new[w] = NoRev
  /\ \A v, w \in Workers : v # w /\ new[v] = new[w] => new[v] = NoRev
  /\ \A w \in Workers : \A x \in added[w]["main"] : x.rev = new[w]

StaleOK ==
  \A w \in Workers : req[w].stale =>
    /\ pc[w] = "check"
    /\ req[w].base \in Committed
    /\ \A x \in RowsOf(db["main"], req[w].id) : x.rev # req[w].base
    /\ Isolation = "RepeatableRead" =>
         \A x \in RowsOf(snap[w]["main"], req[w].id) : x.rev # req[w].base

SInv == OwnRevision /\ StaleOK
LEMMA NoRevIsNone == NoRev \notin Rev
BY DEF NoRev, Rev

LEMMA NoRowsEmpty == NoRows["main"] = {}
BY DEF NoRows, Table

LEMMA InitStale == Init => SInv
<1> SUFFICES ASSUME Init PROVE SInv
  OBVIOUS
<1>1. Committed = {}
  BY DEF Init, Committed
<1> QED BY <1>1, NoRowsEmpty DEF Init, SInv, OwnRevision, StaleOK, NoReq

\* A rollback, and everything else that leaves store and requests alone.
LEMMA RollbackStale ==
  ASSUME IInv, SInv, NEW w \in Workers, Rollback(w)
  PROVE  SInv'
<1>1. Committed' = Committed
  BY DEF Rollback, storeVars, Committed
<1>2. OwnRevision'
  BY <1>1, NoRevIsNone, NoRowsEmpty DEF Rollback, End, storeVars, IInv,
     TypeOK, SInv, OwnRevision, Committed
<1>3. StaleOK'
  BY <1>1 DEF Rollback, End, storeVars, IInv, TypeOK, SInv, StaleOK, NoReq,
     RowsOf
<1> QED BY <1>2, <1>3 DEF SInv

\* The base is compared with the rows the transaction will see.
LEMMA StartStale ==
  ASSUME IInv, SInv, NEW w \in Workers, NEW op \in Op, NEW i \in Ids,
         NEW base \in Committed \cup {NoRev}, Start(w, op, i, base),
         op \in Updates \/ base = NoRev
  PROVE  StaleOK'
<1>1. Committed' = Committed
  BY DEF Start, storeVars, Committed
<1>2. ASSUME NEW v \in Workers \ {w}, req'[v].stale
      PROVE  /\ pc'[v] = "check"
             /\ req'[v].base \in Committed'
             /\ \A x \in RowsOf(db'["main"], req'[v].id) : x.rev # req'[v].base
             /\ Isolation = "RepeatableRead" =>
                  \A x \in RowsOf(snap'[v]["main"], req'[v].id) :
                    x.rev # req'[v].base
  BY <1>1, <1>2 DEF Start, storeVars, IInv, TypeOK, SInv, StaleOK
<1>3. ASSUME req'[w].stale
      PROVE  /\ pc'[w] = "check"
             /\ req'[w].base \in Committed'
             /\ \A x \in RowsOf(db'["main"], req'[w].id) : x.rev # req'[w].base
             /\ Isolation = "RepeatableRead" =>
                  \A x \in RowsOf(snap'[w]["main"], req'[w].id) :
                    x.rev # req'[w].base
  <2>1. /\ req'[w].base = base /\ req'[w].id = i
        /\ base # NoRev /\ base \notin Revisions(RowsOf(db["main"], i))
    BY <1>3 DEF Start, IInv, TypeOK
  <2>2. \A x \in RowsOf(db["main"], i) : x.rev # base
    BY <2>1 DEF Revisions
  <2>3. pc'[w] = "check"
    BY <2>1, HandlerSteps DEF Start, IInv, TypeOK
  <2>4. Isolation = "RepeatableRead" => snap'[w] = db
    BY DEF Start, IInv, TypeOK
  <2> QED BY <1>1, <2>1, <2>2, <2>3, <2>4 DEF Start, storeVars
<1> QED BY <1>2, <1>3 DEF StaleOK

LEMMA ArriveStale ==
  ASSUME IInv, SInv, NEW w \in Workers, Arrive(w)
  PROVE  SInv'
<1>1. KnownIds \subseteq Ids /\ Committed \subseteq Rev
  BY DEF KnownIds, Committed, IInv, TypeOK, Version
<1>2. ASSUME NEW i \in Ids, StartPost(w, i) PROVE SInv'
  <2>1. PICK r \in Rev : Fresh(r) /\ new' = [new EXCEPT ![w] = r]
    BY <1>2 DEF StartPost, Generate
  <2>2. /\ UNCHANGED <<db, version, added>> /\ pc[w] = "idle"
        /\ pc' = [pc EXCEPT ![w] = "insert"]
    BY <1>2, HandlerSteps DEF StartPost, Start, storeVars
  <2>3. added[w]["main"] = {}
    BY <2>2, NoRevIsNone
       DEF SInv, OwnRevision, IInv, TypeOK, Row, Table
  <2>4. OwnRevision'
    BY <2>1, <2>2, <2>3 DEF Fresh, SInv, OwnRevision, Committed, IInv, TypeOK
  <2>5. StaleOK'
    BY <1>2, StartStale DEF StartPost, Op
  <2> QED BY <2>4, <2>5 DEF SInv
<1>3. ASSUME NEW op \in Op, NEW i \in Ids, NEW base \in Committed \cup {NoRev},
             Start(w, op, i, base), UNCHANGED new,
             op \in Updates \/ base = NoRev
      PROVE  SInv'
  <2>1. OwnRevision'
    BY <1>3 DEF Start, storeVars, SInv, OwnRevision, Committed, IInv, TypeOK
  <2>2. StaleOK'
    BY <1>3, StartStale
  <2> QED BY <2>1, <2>2 DEF SInv
<1>4. {"delete", "get", "getsub"} \cup Updates \subseteq Op
  BY DEF Op, Updates
<1> QED BY <1>1, <1>2, <1>3, <1>4 DEF Arrive, StartUpdate, StartOther

\* A stale request does not pass; another's fresh revision is its own.
LEMMA RevisionMatchesStale ==
  ASSUME IInv, SInv, NEW w \in Workers, RevisionMatches(w)
  PROVE  SInv'
<1>1. PICK r \in Rev : Fresh(r) /\ new' = [new EXCEPT ![w] = r]
  BY DEF RevisionMatches, Generate
<1>2. /\ UNCHANGED <<db, version, added, req, snap>> /\ pc[w] = "check"
      /\ pc' = [pc EXCEPT ![w] = Handler[req[w].op][@]]
  BY DEF RevisionMatches, storeVars, Advance
<1>3. pc'[w] = "main" /\ \A v \in Workers \ {w} : pc'[v] = pc[v]
  BY <1>2, HandlerSteps DEF IInv, TypeOK, ControlOK, AtStep, Updates
<1>4. added[w]["main"] = {}
  BY <1>2, NoRevIsNone DEF SInv, OwnRevision, IInv, TypeOK, Row, Table
<1>5. OwnRevision'
  BY <1>1, <1>2, <1>3, <1>4
     DEF Fresh, SInv, OwnRevision, Committed, IInv, TypeOK
<1>6. ~req[w].stale
  <2> SUFFICES ASSUME req[w].stale PROVE FALSE
    OBVIOUS
  <2>1. req[w].base \in Rev
    BY DEF SInv, StaleOK, Committed
  <2>2. \A x \in MyRows(w, "main") : x.rev # req[w].base
    BY DEF SInv, StaleOK, MyRows, View
  <2>3. req[w].base \notin Revisions(MyRows(w, "main"))
    BY <2>1, <2>2, NoRevIsNone DEF Revisions
  <2> QED BY <2>3 DEF RevisionMatches
<1>7. StaleOK'
  BY <1>2, <1>3, <1>6 DEF SInv, StaleOK, Committed, RowsOf
<1> QED BY <1>5, <1>7 DEF SInv

\* The rows a commit brings carry a revision no request could have quoted.
LEMMA CommitStale ==
  ASSUME IInv, SInv, NEW w \in Workers, Commit(w)
  PROVE  SInv'
<1>1. /\ pc' = [pc EXCEPT ![w] = "idle"] /\ req' = [req EXCEPT ![w] = NoReq]
      /\ new' = [new EXCEPT ![w] = NoRev]
      /\ snap' = [snap EXCEPT ![w] = NoRows]
      /\ added' = [added EXCEPT ![w] = NoRows]
  BY DEF Commit, End
<1>2. \A r \in Rev : r # new[w] => version'[r] = version[r]
  BY DEF Commit, IInv, TypeOK
<1>3. /\ Committed' \subseteq Committed \cup {new[w]}
      /\ Committed \subseteq Committed' /\ Committed' \subseteq Rev
  BY <1>2 DEF Committed, SInv, OwnRevision
<1>4. OwnRevision'
  BY <1>1, <1>3, NoRevIsNone, NoRowsEmpty DEF SInv, OwnRevision, IInv, TypeOK
<1>5. \A x \in db'["main"] : x \in db["main"] \/ x.rev = new[w]
  BY DEF Commit, SInv, OwnRevision, Table
<1>6. ASSUME NEW v \in Workers, req'[v].stale
      PROVE  /\ pc'[v] = "check"
             /\ req'[v].base \in Committed'
             /\ \A x \in RowsOf(db'["main"], req'[v].id) : x.rev # req'[v].base
             /\ Isolation = "RepeatableRead" =>
                  \A x \in RowsOf(snap'[v]["main"], req'[v].id) :
                    x.rev # req'[v].base
  <2>1. v # w /\ req'[v] = req[v] /\ pc'[v] = pc[v] /\ snap'[v] = snap[v]
    BY <1>1, <1>6 DEF IInv, TypeOK, NoReq
  <2>2. req[v].base \in Committed /\ req[v].base # new[w]
    BY <1>6, <2>1 DEF SInv, StaleOK, OwnRevision
  <2> QED BY <1>3, <1>5, <1>6, <2>1, <2>2 DEF SInv, StaleOK, RowsOf
<1>7. StaleOK'
  BY <1>6 DEF StaleOK
<1> QED BY <1>4, <1>7 DEF SInv

\* The steps in between touch the worker's own transaction only.
LEMMA InnerStale ==
  ASSUME IInv, SInv, NEW w \in Workers,
         PickRows(w) \/ ChangeRows(w) \/ InsertRows(w)
           \/ ReadMain(w) \/ ReadSub(w) \/ ReadList(w)
  PROVE  SInv'
<1>1. /\ UNCHANGED <<db, version, req, new, snap>>
      /\ pc[w] \notin {"idle", "check"}
      /\ \A v \in Workers \ {w} : pc'[v] = pc[v] /\ added'[v] = added[v]
  BY DEF PickRows, ChangeRows, InsertRows, ReadMain, ReadSub, ReadList, Keep,
     Advance, storeVars, IInv, TypeOK, ControlOK, AtStep, Table
<1>2. Committed' = Committed
  BY <1>1 DEF Committed
<1>3. pc'[w] \notin {"idle", "check"}
  <2>1. CASE PickRows(w)
    BY <1>1, <2>1 DEF PickRows
  <2>2. CASE ChangeRows(w) \/ InsertRows(w)
              \/ ReadMain(w) \/ ReadSub(w) \/ ReadList(w)
    <3>1. pc' = [pc EXCEPT ![w] = Handler[req[w].op][@]]
      BY <2>2 DEF ChangeRows, InsertRows, ReadMain, ReadSub, ReadList, Keep,
         Advance
    <3>2. pc[w] \in {"main", "list", "sub", "insert",
                     "readmain", "readsub", "readlist"}
      BY <2>2 DEF ChangeRows, InsertRows, ReadMain, ReadSub, ReadList, IInv,
         ControlOK, AtStep
    <3>3. AtStep(w)
      BY DEF IInv, ControlOK
    <3>4. Handler[req[w].op][pc[w]] \notin {"idle", "check"}
      BY <3>2, <3>3, HandlerSteps DEF AtStep, Updates
    <3> QED BY <3>1, <3>4 DEF IInv, TypeOK
  <2> QED BY <2>1, <2>2
<1>4. \A x \in added'[w]["main"] : x.rev = new[w]
  <2>1. CASE ChangeRows(w)
    <3>1. CASE req[w].op = "putsub" /\ pc[w] = "main"
      <4>1. added'[w]["main"] = {[x EXCEPT !.rev = new[w]] : x \in Remaining(w)}
        BY <2>1, <3>1 DEF ChangeRows, IInv, TypeOK, Table
      <4>2. Remaining(w) \subseteq Row
        BY <3>1, RowsTyped DEF IInv, Table
      <4> QED BY <4>1, <4>2 DEF Row
    <3>2. CASE ~(req[w].op = "putsub" /\ pc[w] = "main")
      BY <2>1, <3>2 DEF ChangeRows, SInv, OwnRevision
    <3> QED BY <3>1, <3>2
  <2>2. CASE InsertRows(w)
    BY <2>2 DEF InsertRows, IInv, TypeOK, Table, SInv, OwnRevision
  <2>3. CASE PickRows(w) \/ ReadMain(w) \/ ReadSub(w) \/ ReadList(w)
    BY <2>3 DEF PickRows, ReadMain, ReadSub, ReadList, Keep, SInv, OwnRevision
  <2> QED BY <2>1, <2>2, <2>3
<1>5. OwnRevision'
  BY <1>1, <1>2, <1>3, <1>4 DEF SInv, OwnRevision
<1>6. StaleOK'
  BY <1>1, <1>2 DEF SInv, StaleOK, RowsOf
<1> QED BY <1>5, <1>6 DEF SInv
LEMMA StepStale == IInv /\ SInv /\ [Next]_vars => SInv'
<1> SUFFICES ASSUME IInv, SInv, [Next]_vars PROVE SInv'
  OBVIOUS
<1>1. CASE UNCHANGED vars
  BY <1>1 DEF vars, SInv, OwnRevision, StaleOK, Committed, RowsOf
<1>2. ASSUME NEW w \in Workers, Work(w) PROVE SInv'
  BY <1>2, RevisionMatchesStale, InnerStale, CommitStale, RollbackStale
     DEF Work, WrongRevision, SerializationFailure, NotFound
<1>3. ASSUME NEW w \in Workers, Arrive(w) \/ Abort(w) PROVE SInv'
  BY <1>3, ArriveStale, RollbackStale DEF Abort
<1> QED BY <1>1, <1>2, <1>3 DEF Next

\* An update that arrives with a superseded revision changes nothing, under
\* either isolation level and whatever runs beside it (the revision check of
\* update_item and update_subitem, and fresh revisions from new_id).
THEOREM StaleUpdatesRejected == Spec => []StaleUpdateRejected
<1>1. SInv => StaleUpdateRejected
  BY DEF SInv, StaleOK, StaleUpdateRejected
<1>2. Spec => []SInv
  BY InitStale, StepStale, Invariance, PTL DEF Spec
<1> QED BY <1>1, <1>2, PTL

-----------------------------------------------------------------------------
(***************************************************************************)
(* What holds when the database runs at REPEATABLE READ and no client      *)
(* quotes a null revision: the tables hold whole versions only, and        *)
(* implement VersionedStore.                                               *)
(***************************************************************************)
Snapshots == Isolation = "RepeatableRead" /\ ~NullRevision

-----------------------------------------------------------------------------
(***************************************************************************)
(* The locks, under either isolation level: a locked row is a committed    *)
(* row, and locked by one transaction only.                                *)
(***************************************************************************)
LocksOK ==
  /\ \A w \in Workers, t \in Table : locked[w][t] \subseteq db[t]
  /\ \A v, w \in Workers, t \in Table :
       v # w => Keys(locked[v][t]) \cap Keys(locked[w][t]) = {}

(***************************************************************************)
(* What a transaction has locked and added, step by step, as a function of *)
(* its request, its snapshot and its place in the handler.                 *)
(***************************************************************************)
Done(w, t) ==
  \/ t = "main" /\ req[w].op \in {"put", "putsub", "delete"}
                /\ pc[w] \in {"list", "sub", "insert", "commit"}
  \/ t = "list" /\ req[w].op = "put" /\ pc[w] \in {"insert", "commit"}
  \/ t = "list" /\ req[w].op = "delete" /\ pc[w] \in {"sub", "commit"}
  \/ t = "sub" /\ req[w].op = "putsub" /\ pc[w] \in {"insert", "commit"}
  \/ t = "sub" /\ req[w].op = "delete" /\ pc[w] = "commit"

RowFor(i, key, rev) == [id |-> i, key |-> key, rev |-> rev]
NewRow(w)           == RowFor(req[w].id, new[w], new[w])

Additions(w, t) ==
  IF pc[w] = "commit" /\ req[w].op \in Writes /\ t \in WrittenTables(req[w].op)
  THEN {NewRow(w)}
  ELSE IF t = "main" /\ req[w].op = "putsub" /\ Done(w, "main")
  THEN {RowFor(x.id, x.key, new[w]) : x \in RowsOf(snap[w]["main"], req[w].id)}
  ELSE {}

TransactionOK(w) ==
  /\ waiting[w] => target[w] = RowsOf(snap[w][pc[w]], req[w].id)
  /\ \A t \in Table :
       /\ locked[w][t] = IF Done(w, t) THEN RowsOf(snap[w][t], req[w].id) ELSE {}
       /\ added[w][t] = Additions(w, t)

TInv == \A w \in Workers : TransactionOK(w)

(***************************************************************************)
(* The rows of an item: none, or those of one version.                     *)
(***************************************************************************)
Holds(d, i, r, v) ==
  /\ v.id = i
  /\ RowsOf(d["main"], i) = {RowFor(i, v.body, r)}
  /\ RowsOf(d["list"], i) = {RowFor(i, v.body, v.body)}
  /\ RowsOf(d["sub"], i)  = {RowFor(i, v.sub, v.sub)}

Absent(d, i) == \A t \in Table : RowsOf(d[t], i) = {}

\* A current revision is one that no update has quoted so far.
Current(i, r) ==
  /\ Holds(db, i, r, version[r])
  /\ \A s \in Committed : version[s].base # r

VersionsOK ==
  \A r \in Committed :
    /\ version[r] \in Version /\ version[r].body \in Rev /\ version[r].sub \in Rev
    /\ version[r].base \in Committed \cup {NoRev}

ItemOK(i) ==
  \/ Absent(db, i) /\ (i \in deleted \/ i \notin KnownIds)
  \/ i \notin deleted /\ \E r \in Committed : Current(i, r)

ItemsOK ==
  /\ deleted \subseteq KnownIds
  /\ VersionsOK
  /\ \A i \in Ids : ItemOK(i)
  /\ OneUpdatePerRevision

\* What a request may rely on: its snapshot holds whole versions; of the item
\* it is about it holds one unless that was deleted; an update past its check
\* quotes the revision it holds; and a POST has its id to itself.
RequestOK(w) ==
  /\ req[w].op = "post" =>
       /\ req[w].id \in Ids \ KnownIds
       /\ req[w].base = NoRev
       /\ \A v \in Workers :
            v # w /\ req[v].op # "none" => req[v].id # req[w].id
  /\ req[w].op \in Op \ {"post"} =>
       /\ req[w].id \in KnownIds
       /\ \/ Absent(snap[w], req[w].id) /\ req[w].id \in deleted
          \/ \E r \in Committed : Holds(snap[w], req[w].id, r, version[r])
  /\ req[w].op \in Updates =>
       /\ req[w].base \in Committed
       /\ pc[w] # "check" =>
            Holds(snap[w], req[w].id, req[w].base, version[req[w].base])

RInv == \A w \in Workers : RequestOK(w)

\* What a read has kept for its reply is what its snapshot holds.
SeenOK(w) ==
  LET i == req[w].id IN
  /\ (req[w].op \in {"get", "getsub"} /\ pc[w] \in {"readlist", "commit"}) =>
       \E x \in RowsOf(snap[w]["main"], i) :
         seen[w].rev = x.rev /\ seen[w].body = x.key
  /\ (req[w].op \in {"get", "getsub"} /\ pc[w] = "commit") =>
       seen[w].list = Keys(RowsOf(snap[w]["list"], i))
  /\ (req[w].op = "getsub" /\ pc[w] \in {"readmain", "readlist", "commit"}) =>
       seen[w].sub \in Keys(RowsOf(snap[w]["sub"], i))

ReadInvariant == \A w \in Workers : SeenOK(w)

-----------------------------------------------------------------------------
LEMMA NoRowsIn == \A t \in Table : NoRows[t] = {}
BY DEF NoRows

LEMMA KnownAreTyped == IInv => KnownIds \subseteq Ids /\ Committed \subseteq Rev
BY DEF KnownIds, Committed, IInv, TypeOK, Version

LEMMA InitLocks == Init => LocksOK
BY NoRowsIn DEF Init, LocksOK, Keys

\* A row that a commit takes away is locked by nobody else.
LEMMA CommitLocks ==
  ASSUME IInv, LocksOK, NEW w \in Workers, Commit(w)
  PROVE  LocksOK'
<1>1. locked' = [locked EXCEPT ![w] = NoRows]
  BY DEF Commit, End
<1>2. \A t \in Table : db'[t] = (db[t] \ locked[w][t]) \cup added[w][t]
  BY DEF Commit
<1>3. \A v \in Workers \ {w}, t \in Table :
        locked[v][t] \cap locked[w][t] = {}
  BY DEF LocksOK, Keys
<1>4. \A v \in Workers, t \in Table :
        locked'[v][t] = IF v = w THEN {} ELSE locked[v][t]
  BY <1>1, NoRowsIn DEF IInv, TypeOK
<1> QED BY <1>2, <1>3, <1>4 DEF LocksOK, Keys

\* A statement locks rows that are there and that nobody else has locked.
LEMMA ChangeRowsLocks ==
  ASSUME IInv, LocksOK, NEW w \in Workers, ChangeRows(w)
  PROVE  LocksOK'
<1>1. /\ pc[w] \in Table
      /\ UNCHANGED db
      /\ locked' = [locked EXCEPT ![w] = [@ EXCEPT ![pc[w]] = Remaining(w)]]
  BY DEF ChangeRows, storeVars, IInv, ControlOK, AtStep, Table
<1>2. \A v \in Workers, t \in Table :
        locked'[v][t] = IF v = w /\ t = pc[w] THEN Remaining(w) ELSE locked[v][t]
  BY <1>1 DEF IInv, TypeOK
<1>3. Remaining(w) \subseteq db[pc[w]] /\ Keys(Remaining(w)) \subseteq Keys(target[w])
  BY DEF Remaining, Keys
<1>4. \A v \in Workers \ {w} : Keys(target[w]) \cap Keys(locked[v][pc[w]]) = {}
  BY DEF ChangeRows, Blocked, WaitsFor
<1> QED BY <1>1, <1>2, <1>3, <1>4 DEF LocksOK

LEMMA StepLocks == IInv /\ LocksOK /\ [Next]_vars => LocksOK'
<1> SUFFICES ASSUME IInv, LocksOK, [Next]_vars PROVE LocksOK'
  OBVIOUS
<1>1. ASSUME UNCHANGED <<db, locked>> PROVE LocksOK'
  BY <1>1 DEF LocksOK
<1>2. ASSUME NEW w \in Workers, Rollback(w) PROVE LocksOK'
  <2>1. UNCHANGED db /\ locked' = [locked EXCEPT ![w] = NoRows]
    BY <1>2 DEF Rollback, End, storeVars
  <2>2. \A v \in Workers, t \in Table : locked'[v][t] \subseteq locked[v][t]
    BY <2>1, NoRowsIn DEF IInv, TypeOK
  <2>3. \A v \in Workers, t \in Table : Keys(locked'[v][t]) \subseteq Keys(locked[v][t])
    BY <2>2 DEF Keys
  <2> QED BY <2>1, <2>2, <2>3 DEF LocksOK
<1>3. ASSUME NEW w \in Workers, Work(w) PROVE LocksOK'
  <2>1. ASSUME RevisionMatches(w) \/ PickRows(w) \/ InsertRows(w)
                 \/ ReadMain(w) \/ ReadSub(w) \/ ReadList(w)
        PROVE  UNCHANGED <<db, locked>>
    BY <2>1 DEF RevisionMatches, PickRows, InsertRows, ReadMain, ReadSub,
       ReadList, Keep, storeVars
  <2> QED BY <1>1, <1>2, <1>3, <2>1, CommitLocks, ChangeRowsLocks
          DEF Work, WrongRevision, SerializationFailure, NotFound
<1>4. ASSUME NEW w \in Workers, Arrive(w) PROVE LocksOK'
  BY <1>1, <1>4 DEF Arrive, StartPost, StartUpdate, StartOther, Start, storeVars
<1> QED BY <1>1, <1>2, <1>3, <1>4 DEF Next, Abort, vars

LEMMA LocksInvariance == Spec => []LocksOK
BY InitLocks, StepLocks, Invariance, PTL DEF Spec

-----------------------------------------------------------------------------
\* What one worker has locked and added is no matter of the others'.
Untouched(v) ==
  /\ pc'[v] = pc[v] /\ req'[v] = req[v] /\ new'[v] = new[v]
  /\ snap'[v] = snap[v] /\ waiting'[v] = waiting[v] /\ target'[v] = target[v]
  /\ locked'[v] = locked[v] /\ added'[v] = added[v] /\ seen'[v] = seen[v]

LEMMA UntouchedTransaction ==
  ASSUME NEW v \in Workers, TransactionOK(v), Untouched(v)
  PROVE  TransactionOK(v)'
<1>1. \A t \in Table : Done(v, t)' = Done(v, t)
  BY DEF Untouched, Done
<1>2. RowsOf(snap'[v]["main"], req'[v].id) = RowsOf(snap[v]["main"], req[v].id)
  BY DEF Untouched
<1>3. \A t \in Table : Additions(v, t)' = Additions(v, t)
  BY <1>1, <1>2 DEF Untouched, Additions, NewRow, RowFor, Table
<1> QED BY <1>1, <1>3 DEF Untouched, TransactionOK

LEMMA OthersUntouched ==
  ASSUME IInv, NEW w \in Workers, Arrive(w) \/ Work(w) \/ Abort(w),
         NEW v \in Workers, v # w
  PROVE  Untouched(v)
<1> USE DEF IInv, TypeOK, Untouched
<1>1. ASSUME End(w) PROVE Untouched(v)
  BY <1>1 DEF End
<1>2. ASSUME Arrive(w) PROVE Untouched(v)
  BY <1>2 DEF Arrive, StartPost, StartUpdate, StartOther, Start, Generate
<1>3. ASSUME RevisionMatches(w) \/ PickRows(w) PROVE Untouched(v)
  BY <1>3 DEF RevisionMatches, PickRows, Generate, Advance
<1>4. ASSUME ChangeRows(w) PROVE Untouched(v)
  BY <1>4 DEF ChangeRows, Advance
<1>5. ASSUME InsertRows(w) PROVE Untouched(v)
  BY <1>5 DEF InsertRows, Advance
<1>6. ASSUME ReadMain(w) \/ ReadSub(w) \/ ReadList(w) PROVE Untouched(v)
  <2>1. PICK s : Keep(w, s)
    BY <1>6 DEF ReadMain, ReadSub, ReadList
  <2> QED BY <2>1 DEF Keep, Advance
<1> QED BY <1>1, <1>2, <1>3, <1>4, <1>5, <1>6
        DEF Work, WrongRevision, SerializationFailure, NotFound, Commit, Abort,
            Rollback

LEMMA InitTransactions == Init => TInv
BY NoRowsIn DEF Init, TInv, TransactionOK, Additions, Done, NoReq

LEMMA EndTransaction ==
  ASSUME IInv, NEW w \in Workers, End(w)
  PROVE  TransactionOK(w)'
BY NoRowsIn DEF End, IInv, TypeOK, TransactionOK, Additions, Done, NoReq

\* A transaction that is not waiting and neither starts nor ends a write of a
\* table keeps what it has.
LEMMA StartTransaction ==
  ASSUME IInv, NEW w \in Workers, TransactionOK(w), NEW op \in Op, NEW i \in Ids,
         NEW base, Start(w, op, i, base)
  PROVE  TransactionOK(w)'
<1>1. /\ UNCHANGED <<waiting, target, locked, added>>
      /\ pc[w] = "idle" /\ pc'[w] = Handler[op]["begin"] /\ req'[w].op = op
      /\ ~waiting[w]
  BY DEF Start, IInv, TypeOK, ControlOK, AtStep
<1>2. /\ pc'[w] \in {"insert", "check", "main", "readmain", "readsub"}
      /\ pc'[w] = "insert" => op = "post"
  BY <1>1, HandlerSteps DEF Op, Updates
<1>3. \A t \in Table : locked[w][t] = {} /\ added[w][t] = {}
  BY <1>1 DEF TransactionOK, Done, Additions
<1>4. \A t : ~Done(w, t)'
  BY <1>1, <1>2 DEF Done
<1>5. \A t : Additions(w, t)' = {}
  BY <1>2, <1>4 DEF Additions
<1> QED BY <1>1, <1>3, <1>4, <1>5 DEF TransactionOK

\* A statement locks the rows of its table that the snapshot has, and moves on
\* to the next table.
LEMMA ChangeRowsTransaction ==
  ASSUME Snapshots, IInv, NEW w \in Workers, TransactionOK(w), ChangeRows(w)
  PROVE  TransactionOK(w)'
<1>1. /\ waiting[w] /\ waiting'[w] = FALSE
      /\ UNCHANGED <<req, new, snap>>
      /\ pc'[w] = Handler[req[w].op][pc[w]]
      /\ \/ req[w].op = "put" /\ pc[w] \in {"main", "list"}
         \/ req[w].op = "putsub" /\ pc[w] \in {"main", "sub"}
         \/ req[w].op = "delete" /\ pc[w] \in {"main", "list", "sub"}
  BY DEF ChangeRows, Advance, IInv, TypeOK, ControlOK, AtStep
<1>2. pc[w] \in Table
  BY <1>1 DEF Table
<1>3. Remaining(w) = RowsOf(snap[w][pc[w]], req[w].id)
  BY <1>1 DEF Snapshots, ChangeRows, Changed, TransactionOK
<1>4. \A t \in Table :
        locked'[w][t] = IF t = pc[w] THEN RowsOf(snap[w][t], req[w].id)
                                     ELSE locked[w][t]
  BY <1>2, <1>3 DEF ChangeRows, IInv, TypeOK
<1>5. \A t \in Table : Done(w, t)' <=> t = pc[w] \/ Done(w, t)
  BY <1>1, HandlerSteps DEF Done, Table, Updates
<1>6. pc[w] # "commit" /\ (pc'[w] = "commit" => req[w].op \notin Writes)
  BY <1>1, HandlerSteps DEF Updates, Writes
<1>7. \A t \in Table : added'[w][t] = Additions(w, t)'
  <2>1. CASE req[w].op = "putsub" /\ pc[w] = "main"
    <3>1. Remaining(w) \subseteq Row
      BY <1>2, RowsTyped DEF IInv
    <3>2. {[x EXCEPT !.rev = new[w]] : x \in Remaining(w)}
            = {RowFor(x.id, x.key, new[w]) : x \in Remaining(w)}
      BY <3>1 DEF Row, RowFor
    <3>3. \A t \in Table :
            added'[w][t] = IF t = "main"
                           THEN {RowFor(x.id, x.key, new[w]) : x \in Remaining(w)}
                           ELSE added[w][t]
      BY <2>1, <3>2 DEF ChangeRows, IInv, TypeOK, Table
    <3>4. Done(w, "main")'
      BY <1>5, <2>1 DEF Table
    <3>5. added'[w]["main"] = Additions(w, "main")'
      <4>1. Additions(w, "main")'
              = {RowFor(x.id, x.key, new[w])
                   : x \in RowsOf(snap[w]["main"], req[w].id)}
        BY <1>1, <1>6, <2>1, <3>4 DEF Additions, RowFor
      <4> QED BY <1>3, <2>1, <3>3, <4>1 DEF Table
    <3>6. \A t \in Table \ {"main"} : Additions(w, t) = {} /\ Additions(w, t)' = {}
      BY <1>1, <1>6, <2>1 DEF Additions
    <3> QED BY <3>3, <3>5, <3>6 DEF TransactionOK
  <2>2. CASE ~(req[w].op = "putsub" /\ pc[w] = "main")
    <3>1. added' = added
      BY <2>2 DEF ChangeRows
    <3>2. req[w].op = "putsub" => (Done(w, "main")' <=> Done(w, "main"))
      BY <1>5, <2>2 DEF Table
    <3>3. pc'[w] = "commit" => req[w].op = "delete"
      BY <1>1, HandlerSteps DEF Updates
    <3>4. \A t \in Table : Additions(w, t)' = Additions(w, t)
      BY <1>1, <1>6, <3>2, <3>3 DEF Additions, Writes
    <3> QED BY <3>1, <3>4 DEF TransactionOK
  <2> QED BY <2>1, <2>2
<1> QED BY <1>1, <1>4, <1>5, <1>7 DEF TransactionOK

LEMMA InsertRowsTransaction ==
  ASSUME IInv, NEW w \in Workers, TransactionOK(w), InsertRows(w)
  PROVE  TransactionOK(w)'
<1>1. /\ pc[w] = "insert" /\ req[w].op \in Writes /\ ~waiting[w]
      /\ UNCHANGED <<req, new, snap, waiting, target, locked>>
  BY DEF InsertRows, IInv, ControlOK, AtStep, Writes
<1>2. pc'[w] = "commit"
  BY <1>1, HandlerSteps DEF InsertRows, Advance, IInv, TypeOK, Writes, Updates
<1>3. \A t \in Table : Done(w, t)' <=> Done(w, t)
  BY <1>1, <1>2 DEF Done, Writes
<1>4. \A t \in Table :
        added'[w][t] = IF t \in WrittenTables(req[w].op)
                       THEN added[w][t] \cup {NewRow(w)} ELSE added[w][t]
  BY DEF InsertRows, NewRow, RowFor, IInv, TypeOK
<1>5. \A t \in Table : t \in WrittenTables(req[w].op) => added[w][t] = {}
  BY <1>1 DEF TransactionOK, Additions, WrittenTables, Writes
<1>6. \A t \in Table : t \notin WrittenTables(req[w].op) =>
        Additions(w, t)' = Additions(w, t)
  BY <1>1, <1>2, <1>3 DEF Additions, Table
<1>7. NewRow(w)' = NewRow(w)
  BY <1>1 DEF NewRow, RowFor
<1>8. \A t \in Table : added'[w][t] = Additions(w, t)'
  BY <1>1, <1>2, <1>4, <1>5, <1>6, <1>7 DEF TransactionOK, Additions
<1> QED BY <1>1, <1>3, <1>8 DEF TransactionOK

\* The other steps lock and add nothing.
LEMMA OtherStepTransaction ==
  ASSUME Snapshots, IInv, NEW w \in Workers, TransactionOK(w),
         RevisionMatches(w) \/ PickRows(w)
           \/ ReadMain(w) \/ ReadSub(w) \/ ReadList(w)
  PROVE  TransactionOK(w)'
<1>1. UNCHANGED <<req, snap, locked, added>>
  BY DEF RevisionMatches, PickRows, ReadMain, ReadSub, ReadList, Keep
<1>2. ASSUME PickRows(w) PROVE TransactionOK(w)'
  <2>1. /\ UNCHANGED <<pc, new>>
        /\ target'[w] = RowsOf(snap[w][pc[w]], req[w].id)
    BY <1>2 DEF PickRows, MyRows, View, Snapshots, IInv, TypeOK
  <2>2. \A t \in Table : Done(w, t)' = Done(w, t)
    BY <1>1, <2>1 DEF Done
  <2>3. \A t \in Table : Additions(w, t)' = Additions(w, t)
    BY <1>1, <2>1, <2>2 DEF Additions, NewRow, RowFor, Table
  <2> QED BY <1>1, <2>1, <2>2, <2>3 DEF TransactionOK
<1>3. ASSUME ~PickRows(w) PROVE TransactionOK(w)'
  <2>1. /\ waiting' = waiting /\ ~waiting[w]
        /\ \/ req[w].op \in Updates /\ pc[w] = "check"
           \/ req[w].op \in {"get", "getsub"}
    BY <1>3 DEF RevisionMatches, ReadMain, ReadSub, ReadList, Keep, IInv,
       ControlOK, AtStep, Updates
  <2>2. req[w].op \in Updates => pc'[w] = "main"
    <3>1. pc' = [pc EXCEPT ![w] = Handler[req[w].op][pc[w]]]
      BY <1>3 DEF RevisionMatches, ReadMain, ReadSub, ReadList, Keep, Advance
    <3> QED BY <2>1, <3>1, HandlerSteps DEF IInv, TypeOK, Updates
  <2>3. \A t \in Table : ~Done(w, t) /\ ~Done(w, t)'
    BY <1>1, <2>1, <2>2 DEF Done, Updates
  <2>4. \A t \in Table : Additions(w, t) = {} /\ Additions(w, t)' = {}
    BY <1>1, <2>1, <2>2, <2>3 DEF Additions, Updates, Writes, Table
  <2> QED BY <1>1, <2>1, <2>3, <2>4 DEF TransactionOK
<1> QED BY <1>2, <1>3

LEMMA StepTransactions ==
  ASSUME Snapshots, IInv, TInv, [Next]_vars
  PROVE  TInv'
<1>1. CASE UNCHANGED vars
  BY <1>1, UntouchedTransaction DEF vars, TInv, Untouched
<1>2. ASSUME NEW w \in Workers, Arrive(w) \/ Work(w) \/ Abort(w)
      PROVE  TInv'
  <2>1. \A v \in Workers \ {w} : TransactionOK(v)'
    BY <1>2, OthersUntouched, UntouchedTransaction DEF TInv
  <2>2. TransactionOK(w)
    BY DEF TInv
  <2>3. ASSUME Arrive(w) PROVE TransactionOK(w)'
    <3>2. \E op \in Op, i \in Ids : \E base : Start(w, op, i, base)
      BY <2>3, KnownAreTyped DEF Arrive, StartPost, StartUpdate, StartOther, Op, Updates
    <3> QED BY <2>2, <3>2, StartTransaction
  <2>4. ASSUME Work(w) \/ Abort(w) PROVE TransactionOK(w)'
    BY <2>2, <2>4, EndTransaction, ChangeRowsTransaction, InsertRowsTransaction,
       OtherStepTransaction
       DEF Work, Abort, WrongRevision, SerializationFailure, NotFound, Rollback,
           Commit
  <2> QED BY <1>2, <2>1, <2>3, <2>4 DEF TInv
<1> QED BY <1>1, <1>2 DEF Next

-----------------------------------------------------------------------------
\* Before the first request there is no item.
LEMMA InitItems == Init => ItemsOK /\ RInv
<1> SUFFICES ASSUME Init PROVE ItemsOK /\ RInv
  OBVIOUS
<1>1. Committed = {} /\ KnownIds = {}
  BY DEF Init, Committed, KnownIds
<1>2. ItemsOK
  BY <1>1, NoRowsIn DEF Init, ItemsOK, VersionsOK, ItemOK, Absent, RowsOf,
     OneUpdatePerRevision
<1>3. RInv
  BY DEF Init, RInv, RequestOK, NoReq, Op, Updates
<1> QED BY <1>2, <1>3

\* Nothing but a commit is seen in the items.
LEMMA ItemsKept ==
  ASSUME ItemsOK, UNCHANGED storeVars
  PROVE  ItemsOK' /\ Committed' = Committed /\ KnownIds' = KnownIds
<1>1. Committed' = Committed /\ KnownIds' = KnownIds
  BY DEF storeVars, Committed, KnownIds
<1>2. VersionsOK' /\ OneUpdatePerRevision'
  BY <1>1 DEF storeVars, ItemsOK, VersionsOK, OneUpdatePerRevision
<1>3. \A i, r : Current(i, r)' = Current(i, r)
  BY <1>1 DEF storeVars, Current
<1>4. \A i \in Ids : ItemOK(i)'
  BY <1>1, <1>3 DEF storeVars, ItemsOK, ItemOK
<1> QED BY <1>1, <1>2, <1>4 DEF storeVars, ItemsOK

\* Idle workers ask for nothing.
LEMMA EndRequest ==
  ASSUME IInv, NEW w \in Workers, End(w)
  PROVE  RequestOK(w)' /\ req'[w].op = "none"
BY DEF End, IInv, TypeOK, RequestOK, NoReq, Op, Updates

\* A new request finds its item whole in its snapshot; a POST gets an id that
\* nobody else uses.
LEMMA ArriveRequests ==
  ASSUME Snapshots, IInv, ItemsOK, RInv, NEW w \in Workers, Arrive(w)
  PROVE  RInv'
<1>1. UNCHANGED storeVars /\ pc[w] = "idle"
  BY DEF Arrive, StartPost, StartUpdate, StartOther, Start
<1>2. Committed' = Committed /\ KnownIds' = KnownIds
  BY <1>1, ItemsKept
<1>3. \A v \in Workers \ {w} : Untouched(v)
  BY OthersUntouched
<1>4. req[w] = NoReq
  BY <1>1 DEF IInv, TypeOK, ControlOK, AtStep, Request, Op
<1>5. \A op, i, base : Start(w, op, i, base) =>
        /\ req'[w].op = op /\ req'[w].id = i /\ req'[w].base = base
        /\ pc'[w] = Handler[op]["begin"] /\ snap'[w] = db
  BY DEF Start, Snapshots, IInv, TypeOK
<1>6. KnownIds \subseteq Ids
  BY KnownAreTyped
<1>7. ASSUME NEW i \in Ids, StartPost(w, i) PROVE RInv'
  <2>1. /\ req'[w].op = "post" /\ req'[w].id = i /\ req'[w].base = NoRev
        /\ i \notin KnownIds /\ \A v \in Workers : req[v].id # i
    BY <1>5, <1>7 DEF StartPost
  <2>2. RequestOK(w)'
    BY <1>2, <1>3, <2>1 DEF RequestOK, Untouched, Updates
  <2>3. \A v \in Workers \ {w} : RequestOK(v)'
    BY <1>2, <1>1, <1>3, <2>1 DEF RInv, RequestOK, Untouched, storeVars
  <2> QED BY <2>2, <2>3 DEF RInv
<1>8. ASSUME NEW op \in Op \ {"post"}, NEW i \in KnownIds, NEW base,
             Start(w, op, i, base), op \in Updates => base \in Committed
      PROVE  RInv'
  <2>1. /\ req'[w].op = op /\ req'[w].id = i /\ req'[w].base = base
        /\ snap'[w] = db
        /\ op \in Updates => pc'[w] = "check"
    BY <1>5, <1>8, HandlerSteps
  <2>2. ItemOK(i)
    BY <1>6 DEF ItemsOK
  <2>3. \/ Absent(snap'[w], i) /\ i \in deleted'
        \/ \E r \in Committed' : Holds(snap'[w], i, r, version'[r])
    BY <1>1, <1>2, <2>1, <2>2 DEF ItemOK, Current, storeVars
  <2>4. RequestOK(w)'
    BY <1>1, <1>2, <1>8, <2>1, <2>3 DEF RequestOK, storeVars
  <2>5. \A v \in Workers \ {w} : RequestOK(v)'
    BY <1>2, <1>1, <1>3, <2>1 DEF RInv, RequestOK, Untouched, storeVars
  <2> QED BY <2>4, <2>5 DEF RInv
<1> QED BY <1>7, <1>8 DEF Arrive, StartUpdate, StartOther, Snapshots, Op, Updates

\* A request that gives up leaves the others what they rely on.
LEMMA RollbackRequests ==
  ASSUME IInv, ItemsOK, RInv, NEW w \in Workers, Rollback(w)
  PROVE  RInv'
<1>1. UNCHANGED storeVars /\ End(w)
  BY DEF Rollback
<1>2. Committed' = Committed /\ KnownIds' = KnownIds
  BY <1>1, ItemsKept
<1>3. \A v \in Workers \ {w} :
        /\ req'[v] = req[v] /\ pc'[v] = pc[v] /\ snap'[v] = snap[v]
  BY <1>1 DEF End, IInv, TypeOK
<1>4. \A v \in Workers \ {w} : RequestOK(v)'
  BY <1>1, <1>2, <1>3, EndRequest DEF RInv, RequestOK, storeVars
<1> QED BY <1>1, <1>4, EndRequest DEF RInv

\* Past the check the snapshot holds the quoted revision: it is the one the
\* check has just compared with the item's only row.
LEMMA RevisionMatchesRequests ==
  ASSUME Snapshots, IInv, ItemsOK, RInv, NEW w \in Workers, RevisionMatches(w)
  PROVE  RInv'
<1>1. /\ UNCHANGED <<storeVars, req, snap>> /\ pc[w] = "check"
      /\ req[w].op \in Updates
      /\ \A v \in Workers \ {w} : pc'[v] = pc[v]
  BY DEF RevisionMatches, Advance, IInv, TypeOK, ControlOK, AtStep, Updates
<1>2. Committed' = Committed /\ KnownIds' = KnownIds
  BY <1>1, ItemsKept
<1>3. req[w].base \in Committed /\ req[w].base # NoRev
  BY <1>1, NoRevIsNone DEF RInv, RequestOK, Committed
<1>4. PICK x \in RowsOf(snap[w]["main"], req[w].id) : x.rev = req[w].base
  BY <1>3 DEF RevisionMatches, Revisions, MyRows, View, Snapshots
<1>5. PICK r \in Committed : Holds(snap[w], req[w].id, r, version[r])
  BY <1>1, <1>4 DEF RInv, RequestOK, Updates, Op, Absent, Table
<1>6. x.rev = r
  BY <1>4, <1>5 DEF Holds, RowFor
<1>7. RequestOK(w)'
  BY <1>1, <1>2, <1>4, <1>5, <1>6 DEF RInv, RequestOK, storeVars
<1>8. \A v \in Workers \ {w} : RequestOK(v)'
  BY <1>1, <1>2 DEF RInv, RequestOK, storeVars
<1> QED BY <1>7, <1>8 DEF RInv

\* The other statements leave that as it is.
LEMMA InnerRequests ==
  ASSUME IInv, ItemsOK, RInv, NEW w \in Workers,
         PickRows(w) \/ ChangeRows(w) \/ InsertRows(w)
           \/ ReadMain(w) \/ ReadSub(w) \/ ReadList(w)
  PROVE  RInv'
<1>1. /\ UNCHANGED <<storeVars, req, snap>> /\ pc[w] # "check"
      /\ \A v \in Workers \ {w} : pc'[v] = pc[v]
  BY DEF PickRows, ChangeRows, InsertRows, ReadMain, ReadSub, ReadList, Keep,
     Advance, IInv, TypeOK, ControlOK, AtStep, Table
<1>2. Committed' = Committed /\ KnownIds' = KnownIds
  BY <1>1, ItemsKept
<1> QED BY <1>1, <1>2 DEF RInv, RequestOK, storeVars
-----------------------------------------------------------------------------
(***************************************************************************)
(* What a commit does to the items: it changes the rows of its own item    *)
(* only, and those rows are still the ones its snapshot has, because the   *)
(* transaction has locked the main table's row.                            *)
(***************************************************************************)
LEMMA CommitRows ==
  ASSUME IInv, NEW w \in Workers, TransactionOK(w), Commit(w)
  PROVE  /\ \A j : j # req[w].id => \A t \in Table : RowsOf(db'[t], j) = RowsOf(db[t], j)
         /\ \A t \in Table :
              RowsOf(db'[t], req[w].id)
                = (RowsOf(db[t], req[w].id) \ locked[w][t]) \cup added[w][t]
         /\ pc[w] = "commit"
<1>1. \A t \in Table : db'[t] = (db[t] \ locked[w][t]) \cup added[w][t]
  BY DEF Commit
<1>2. \A t \in Table : \A x \in locked[w][t] : x.id = req[w].id
  BY DEF TransactionOK, RowsOf
<1>3. \A t \in Table : \A x \in Additions(w, t) : x.id = req[w].id
  BY DEF Additions, NewRow, RowFor, RowsOf
<1>4. \A t \in Table : \A x \in added[w][t] : x.id = req[w].id
  BY <1>3 DEF TransactionOK
<1> QED BY <1>1, <1>2, <1>4 DEF RowsOf, Commit

\* A transaction that has locked the main table's row of its item still sees
\* the item as it is.
LEMMA LockedIsCurrent ==
  ASSUME LocksOK, ItemsOK, NEW w \in Workers, NEW i \in Ids, NEW r,
         Holds(snap[w], i, r, version[r]),
         RowsOf(snap[w]["main"], i) \subseteq locked[w]["main"]
  PROVE  i \notin deleted /\ Current(i, r)
<1>1. RowFor(i, version[r].body, r) \in RowsOf(db["main"], i)
  BY DEF LocksOK, Holds, Table, RowsOf, RowFor
<1>2. ItemOK(i)
  BY DEF ItemsOK
<1>3. PICK s \in Committed : i \notin deleted /\ Current(i, s)
  BY <1>1, <1>2 DEF ItemOK, Absent, Table
<1>4. RowFor(i, version[r].body, r) = RowFor(i, version[s].body, s)
  BY <1>1, <1>3 DEF Current, Holds
<1>5. r = s
  BY <1>4 DEF RowFor
<1> QED BY <1>3, <1>5

LEMMA CommitRead ==
  ASSUME IInv, NEW w \in Workers, TransactionOK(w), Commit(w),
         req[w].op \in {"get", "getsub"}
  PROVE  UNCHANGED storeVars
<1>1. \A t \in Table : locked[w][t] = {} /\ added[w][t] = {}
  BY DEF TransactionOK, Done, Additions, Writes
<1>2. db' = db
  BY <1>1 DEF Commit, IInv, TypeOK
<1> QED BY <1>2 DEF Commit, storeVars, Writes

LEMMA CommitDelete ==
  ASSUME Snapshots, IInv, LocksOK, TInv, ItemsOK, RInv, NEW w \in Workers,
         Commit(w), req[w].op = "delete"
  PROVE  /\ version' = version /\ deleted' = deleted \cup {req[w].id}
         /\ req[w].id \in KnownIds /\ Absent(db', req[w].id)
<1> DEFINE i == req[w].id
<1>1. version' = version /\ deleted' = deleted \cup {i} /\ pc[w] = "commit"
  BY DEF Commit, Writes
<1>2. /\ i \in KnownIds /\ i \in Ids
      /\ \/ Absent(snap[w], i) /\ i \in deleted
         \/ \E r \in Committed : Holds(snap[w], i, r, version[r])
  BY KnownAreTyped DEF RInv, RequestOK, Op
<1>3. \A t \in Table : locked[w][t] = RowsOf(snap[w][t], i) /\ added[w][t] = {}
  BY <1>1 DEF TInv, TransactionOK, Done, Additions, Writes, Table
<1>4. \A t \in Table : RowsOf(db'[t], i) = RowsOf(db[t], i) \ locked[w][t]
  BY <1>3, CommitRows DEF TInv
<1>5. CASE i \in deleted
  <2>1. Absent(db, i)
    BY <1>2, <1>5 DEF ItemsOK, ItemOK
  <2> QED BY <1>1, <1>2, <1>4, <2>1 DEF Absent
<1>6. ASSUME NEW r \in Committed, Holds(snap[w], i, r, version[r])
      PROVE  Absent(db', i)
  <2>1. Holds(db, i, r, version[r])
    BY <1>2, <1>3, <1>6, LockedIsCurrent DEF Current, Table
  <2> QED BY <1>3, <1>4, <1>6, <2>1 DEF Absent, Holds, Table
<1> QED BY <1>1, <1>2, <1>5, <1>6

\* What a committed write makes of its item: version v, under revision n.
Written(w, i, n, v) ==
  /\ i \in Ids /\ i = req[w].id /\ i \notin deleted
  /\ n \in Rev \ Committed /\ n = new[w]
  /\ v \in Version /\ v.body \in Rev /\ v.sub \in Rev
  /\ version' = [version EXCEPT ![n] = v]
  /\ deleted' = deleted
  /\ Holds(db', i, n, v)
  /\ \/ req[w].op = "post" /\ i \notin KnownIds
        /\ v = [id |-> i, base |-> NoRev, body |-> n, sub |-> n]
     \/ /\ req[w].op = "put" /\ Current(i, v.base) /\ v.base \in Committed
        /\ v = [id |-> i, base |-> v.base, body |-> n, sub |-> version[v.base].sub]
     \/ /\ req[w].op = "putsub" /\ Current(i, v.base) /\ v.base \in Committed
        /\ v = [id |-> i, base |-> v.base, body |-> version[v.base].body, sub |-> n]

LEMMA CommitPost ==
  ASSUME Snapshots, IInv, SInv, LocksOK, TInv, ItemsOK, RInv, NEW w \in Workers,
         Commit(w), req[w].op = "post"
  PROVE  \E i, n, v : Written(w, i, n, v)
<1> DEFINE i == req[w].id
           n == new[w]
           v == [id |-> i, base |-> NoRev, body |-> n, sub |-> n]
<1>1. pc[w] = "commit" /\ deleted' = deleted /\ n \in Rev \ Committed
  BY DEF Commit, SInv, OwnRevision, IInv, ControlOK, AtStep
<1>2. i \in Ids \ KnownIds /\ i \notin deleted /\ req[w].base = NoRev
  BY DEF RInv, RequestOK, ItemsOK
<1>3. v \in Version
  BY <1>1, <1>2 DEF Version
<1>4. version' = [version EXCEPT ![n] = v]
  BY <1>2 DEF Commit, Writes
<1>5. \A t \in Table : locked[w][t] = {} /\ added[w][t] = {RowFor(i, n, n)}
  BY <1>1 DEF TInv, TransactionOK, Done, Additions, Writes, WrittenTables, NewRow
<1>6. Absent(db, i)
  BY <1>2 DEF ItemsOK, ItemOK, Current, Holds, KnownIds
<1>7. \A t \in Table : RowsOf(db'[t], i) = {RowFor(i, n, n)}
  BY <1>5, <1>6, CommitRows DEF TInv, Absent
<1>8. Holds(db', i, n, v)
  BY <1>7 DEF Holds, Table
<1>9. Written(w, i, n, v)
  BY <1>1, <1>2, <1>3, <1>4, <1>8 DEF Written
<1> QED BY <1>9

LEMMA CommitPut ==
  ASSUME Snapshots, IInv, SInv, LocksOK, TInv, ItemsOK, RInv, NEW w \in Workers,
         Commit(w), req[w].op = "put"
  PROVE  \E i, n, v : Written(w, i, n, v)
<1> DEFINE i == req[w].id
           n == new[w]
           b == req[w].base
           v == [id |-> i, base |-> b, body |-> n, sub |-> version[b].sub]
<1>1. pc[w] = "commit" /\ deleted' = deleted /\ n \in Rev \ Committed
  BY DEF Commit, SInv, OwnRevision, IInv, ControlOK, AtStep
<1>2. /\ i \in Ids /\ b \in Committed /\ b \in Rev
      /\ Holds(snap[w], i, b, version[b])
  BY <1>1, KnownAreTyped DEF RInv, RequestOK, Op, Updates
<1>3. /\ locked[w]["main"] = RowsOf(snap[w]["main"], i)
      /\ locked[w]["list"] = RowsOf(snap[w]["list"], i)
      /\ locked[w]["sub"] = {}
  BY <1>1 DEF TInv, TransactionOK, Done, Table
<1>4. i \notin deleted /\ Current(i, b)
  BY <1>2, <1>3, LockedIsCurrent
<1>5. /\ added[w]["main"] = {RowFor(i, n, n)}
      /\ added[w]["list"] = {RowFor(i, n, n)}
      /\ added[w]["sub"] = {}
  BY <1>1 DEF TInv, TransactionOK, Additions, Writes, WrittenTables, NewRow, Table
<1>6. version[b].sub \in Rev /\ v \in Version
  BY <1>1, <1>2 DEF ItemsOK, VersionsOK, Version
<1>7. version' = [version EXCEPT ![n] = v]
  BY <1>2 DEF Commit, Writes
<1>8. /\ RowsOf(db'["main"], i) = {RowFor(i, n, n)}
      /\ RowsOf(db'["list"], i) = {RowFor(i, n, n)}
      /\ RowsOf(db'["sub"], i) = RowsOf(db["sub"], i)
  BY <1>2, <1>3, <1>4, <1>5, CommitRows DEF TInv, Table, Current, Holds
<1>9. Holds(db', i, n, v)
  BY <1>4, <1>8 DEF Holds, Current
<1>10. Written(w, i, n, v)
  BY <1>1, <1>2, <1>4, <1>6, <1>7, <1>9 DEF Written
<1> QED BY <1>10

LEMMA CommitPutsub ==
  ASSUME Snapshots, IInv, SInv, LocksOK, TInv, ItemsOK, RInv, NEW w \in Workers,
         Commit(w), req[w].op = "putsub"
  PROVE  \E i, n, v : Written(w, i, n, v)
<1> DEFINE i == req[w].id
           n == new[w]
           b == req[w].base
           v == [id |-> i, base |-> b, body |-> version[b].body, sub |-> n]
<1>1. pc[w] = "commit" /\ deleted' = deleted /\ n \in Rev \ Committed
  BY DEF Commit, SInv, OwnRevision, IInv, ControlOK, AtStep
<1>2. /\ i \in Ids /\ b \in Committed /\ b \in Rev
      /\ Holds(snap[w], i, b, version[b])
  BY <1>1, KnownAreTyped DEF RInv, RequestOK, Op, Updates
<1>3. /\ locked[w]["main"] = RowsOf(snap[w]["main"], i)
      /\ locked[w]["list"] = {}
      /\ locked[w]["sub"] = RowsOf(snap[w]["sub"], i)
  BY <1>1 DEF TInv, TransactionOK, Done, Table
<1>4. i \notin deleted /\ Current(i, b)
  BY <1>2, <1>3, LockedIsCurrent
<1>5. added[w]["list"] = {} /\ added[w]["sub"] = {RowFor(i, n, n)}
  BY <1>1 DEF TInv, TransactionOK, Additions, Writes, WrittenTables, NewRow, Table
<1>6. added[w]["main"] = {RowFor(i, version[b].body, n)}
  <2>1. added[w]["main"]
          = {RowFor(x.id, x.key, n) : x \in RowsOf(snap[w]["main"], i)}
    BY <1>1 DEF TInv, TransactionOK, Additions, Done, Writes, WrittenTables, Table
  <2>2. RowsOf(snap[w]["main"], i) = {RowFor(i, version[b].body, b)}
    BY <1>2 DEF Holds
  <2> QED BY <2>1, <2>2 DEF RowFor
<1>7. version[b].body \in Rev /\ v \in Version
  BY <1>1, <1>2 DEF ItemsOK, VersionsOK, Version
<1>8. version' = [version EXCEPT ![n] = v]
  BY <1>2 DEF Commit, Writes
<1>9. /\ RowsOf(db'["main"], i) = {RowFor(i, version[b].body, n)}
      /\ RowsOf(db'["list"], i) = RowsOf(db["list"], i)
      /\ RowsOf(db'["sub"], i) = {RowFor(i, n, n)}
  BY <1>2, <1>3, <1>4, <1>5, <1>6, CommitRows DEF TInv, Table, Current, Holds
<1>10. Holds(db', i, n, v)
  BY <1>4, <1>9 DEF Holds, Current
<1>11. Written(w, i, n, v)
  BY <1>1, <1>2, <1>4, <1>7, <1>8, <1>10 DEF Written
<1> QED BY <1>11

\* After a write, its item is whole again, under a revision nobody has quoted;
\* the others' are untouched.
LEMMA WriteItems ==
  ASSUME IInv, ItemsOK, NEW w \in Workers, TransactionOK(w), Commit(w),
         NEW i, NEW n, NEW v, Written(w, i, n, v)
  PROVE  /\ ItemsOK' /\ Committed' = Committed \cup {n}
         /\ KnownIds' = KnownIds \cup {i}
<1>1. /\ \A r \in Rev \ {n} : version'[r] = version[r]
      /\ version'[n] = v /\ n \in Rev /\ v # NoVersion /\ n \notin Committed
      /\ v.id = i
  <2>1. version'[n] = v /\ \A r \in Rev \ {n} : version'[r] = version[r]
    BY DEF Written, IInv, TypeOK
  <2>2. v # NoVersion
    BY NoRevIsNone DEF Written, NoVersion
  <2> QED BY <2>1, <2>2 DEF Written
<1>2. Committed' = Committed \cup {n}
  BY <1>1 DEF Committed
<1>3. \A r \in Committed : r \in Rev /\ version'[r] = version[r]
  BY <1>1 DEF Committed
<1>4. KnownIds' = KnownIds \cup {i}
  BY <1>1, <1>2, <1>3 DEF KnownIds
<1>5. v.base = NoRev \/ (v.base \in Committed /\ Current(i, v.base))
  BY DEF Written
<1>6. VersionsOK'
  BY <1>1, <1>2, <1>3, <1>5 DEF ItemsOK, VersionsOK, Written
<1>7. \A r \in Committed : version[r].base # n
  BY <1>1, NoRevIsNone DEF ItemsOK, VersionsOK
<1>8. OneUpdatePerRevision'
  BY <1>1, <1>2, <1>3, <1>5 DEF ItemsOK, OneUpdatePerRevision, Current
<1>9. deleted' = deleted /\ deleted \subseteq KnownIds'
  BY <1>4 DEF Written, ItemsOK
<1>10. ItemOK(i)'
  <2>1. \A s \in Committed' : version'[s].base # n
    BY <1>1, <1>2, <1>3, <1>5, <1>7, NoRevIsNone
  <2>2. Current(i, n)'
    BY <1>1, <2>1 DEF Current, Written
  <2> QED BY <1>2, <2>2, <1>9 DEF ItemOK, Written
<1>11. ASSUME NEW j \in Ids \ {i} PROVE ItemOK(j)'
  <2>1. \A t \in Table : RowsOf(db'[t], j) = RowsOf(db[t], j)
    BY CommitRows DEF Written
  <2>2. CASE Absent(db, j) /\ (j \in deleted \/ j \notin KnownIds)
    <3>1. Absent(db', j)
      BY <2>1, <2>2 DEF Absent
    <3> QED BY <1>4, <1>9, <2>2, <3>1 DEF ItemOK
  <2>3. ASSUME j \notin deleted, NEW r \in Committed, Current(j, r)
        PROVE  ItemOK(j)'
    <3>1. Holds(db', j, r, version'[r])
      BY <1>3, <2>1, <2>3 DEF Current, Holds, Table
    <3>2. v.base # r
      BY <1>5, <2>3, NoRevIsNone DEF Current, Holds, Committed
    <3>3. Current(j, r)'
      BY <1>1, <1>2, <1>3, <2>3, <3>1, <3>2 DEF Current
    <3> QED BY <1>2, <1>9, <2>3, <3>3 DEF ItemOK
  <2> QED BY <2>2, <2>3 DEF ItemsOK, ItemOK
<1>12. \A j \in Ids : ItemOK(j)'
  BY <1>10, <1>11
<1> QED BY <1>2, <1>4, <1>6, <1>8, <1>9, <1>12 DEF ItemsOK

\* A deletion leaves no row of its item.
LEMMA DeleteItems ==
  ASSUME Snapshots, IInv, LocksOK, TInv, ItemsOK, RInv, NEW w \in Workers,
         Commit(w), req[w].op = "delete"
  PROVE  /\ ItemsOK' /\ Committed' = Committed /\ KnownIds' = KnownIds
<1> DEFINE i == req[w].id
<1>1. /\ version' = version /\ deleted' = deleted \cup {i}
      /\ i \in KnownIds /\ Absent(db', i)
  BY CommitDelete
<1>2. Committed' = Committed /\ KnownIds' = KnownIds
  BY <1>1 DEF Committed, KnownIds
<1>3. VersionsOK' /\ OneUpdatePerRevision'
  BY <1>1, <1>2 DEF ItemsOK, VersionsOK, OneUpdatePerRevision
<1>4. ASSUME NEW j \in Ids, j # i PROVE ItemOK(j)'
  <2>1. \A t \in Table : RowsOf(db'[t], j) = RowsOf(db[t], j)
    BY <1>4, CommitRows DEF TInv
  <2>2. Absent(db, j) => Absent(db', j)
    BY <2>1 DEF Absent
  <2>3. \A r : Current(j, r) => Current(j, r)'
    BY <1>1, <1>2, <2>1 DEF Current, Holds, Table
  <2>4. j \in deleted' <=> j \in deleted
    BY <1>1, <1>4
  <2> QED BY <1>2, <2>2, <2>3, <2>4 DEF ItemsOK, ItemOK
<1>5. ASSUME NEW j \in Ids, j = i PROVE ItemOK(j)'
  BY <1>1, <1>5 DEF ItemOK
<1>6. \A j \in Ids : ItemOK(j)'
  BY <1>4, <1>5
<1>7. deleted' \subseteq KnownIds'
  BY <1>1, <1>2 DEF ItemsOK
<1> QED BY <1>2, <1>3, <1>6, <1>7 DEF ItemsOK

\* What a commit gives the items, whatever the operation.
LEMMA CommitItems ==
  ASSUME Snapshots, IInv, SInv, LocksOK, TInv, ItemsOK, RInv, NEW w \in Workers,
         Commit(w)
  PROVE  /\ ItemsOK' /\ Committed \subseteq Committed'
         /\ KnownIds \subseteq KnownIds' /\ KnownIds' \subseteq KnownIds \cup {req[w].id}
         /\ deleted \subseteq deleted'
         /\ \A r \in Committed : version'[r] = version[r]
<1>1. pc[w] = "commit" /\ req[w].op \in Op
  BY DEF Commit, IInv, ControlOK, AtStep, Op
<1>2. CASE req[w].op \in {"get", "getsub"}
  BY <1>2, CommitRead, ItemsKept DEF TInv, storeVars
<1>3. CASE req[w].op = "delete"
  BY <1>3, CommitDelete, DeleteItems
<1>4. CASE req[w].op \in Writes
  <2>1. PICK i, n, v : Written(w, i, n, v)
    BY <1>4, CommitPost, CommitPut, CommitPutsub DEF Writes
  <2>2. /\ ItemsOK' /\ Committed' = Committed \cup {n}
        /\ KnownIds' = KnownIds \cup {i}
    BY <2>1, WriteItems DEF TInv
  <2>3. /\ i = req[w].id /\ deleted' = deleted
        /\ \A r \in Committed : version'[r] = version[r]
    BY <2>1, KnownAreTyped DEF Written, IInv, TypeOK
  <2> QED BY <2>2, <2>3
<1> QED BY <1>1, <1>2, <1>3, <1>4 DEF Op, Writes

LEMMA CommitRequests ==
  ASSUME Snapshots, IInv, SInv, LocksOK, TInv, ItemsOK, RInv, NEW w \in Workers,
         Commit(w)
  PROVE  RInv'
<1>1. End(w) /\ req[w].op # "none"
  BY DEF Commit, IInv, ControlOK, AtStep
<1>2. \A v \in Workers \ {w} : Untouched(v)
  BY OthersUntouched DEF Work
<1>3. ASSUME NEW v \in Workers, v # w PROVE RequestOK(v)'
  <2>1. req'[v] = req[v] /\ pc'[v] = pc[v] /\ snap'[v] = snap[v] /\ RequestOK(v)
    BY <1>2, <1>3 DEF Untouched, RInv
  <2>2. /\ Committed \subseteq Committed' /\ KnownIds \subseteq KnownIds'
        /\ deleted \subseteq deleted'
        /\ \A r \in Committed : version'[r] = version[r]
    BY CommitItems
  <2>3. CASE req[v].op = "post"
    <3>1. req[v].id \notin KnownIds'
      BY <1>1, <1>3, <2>1, <2>3, CommitItems DEF RequestOK
    <3>2. \A u \in Workers : u # v /\ req'[u].op # "none" => req'[u].id # req[v].id
      BY <1>1, <1>2, <2>1, <2>3, EndRequest DEF RequestOK, Untouched
    <3> QED BY <2>1, <2>3, <3>1, <3>2 DEF RequestOK, Updates
  <2>4. CASE req[v].op # "post"
    BY <2>1, <2>2, <2>4 DEF RequestOK
  <2> QED BY <2>3, <2>4
<1> QED BY <1>1, <1>3, EndRequest DEF RInv

LEMMA StepItems ==
  ASSUME Snapshots, IInv, SInv, LocksOK, TInv, ItemsOK, RInv, [Next]_vars
  PROVE  ItemsOK' /\ RInv'
<1>1. CASE UNCHANGED vars
  BY <1>1, ItemsKept DEF vars, storeVars, RInv, RequestOK
<1>2. ASSUME NEW w \in Workers, Arrive(w) PROVE ItemsOK' /\ RInv'
  <2>1. UNCHANGED storeVars
    BY <1>2 DEF Arrive, StartPost, StartUpdate, StartOther, Start
  <2> QED BY <1>2, <2>1, ItemsKept, ArriveRequests
<1>3. ASSUME NEW w \in Workers, Rollback(w) PROVE ItemsOK' /\ RInv'
  BY <1>3, ItemsKept, RollbackRequests DEF Rollback
<1>4. ASSUME NEW w \in Workers, Commit(w) PROVE ItemsOK' /\ RInv'
  BY <1>4, CommitItems, CommitRequests
<1>5. ASSUME NEW w \in Workers,
             RevisionMatches(w) \/ PickRows(w) \/ ChangeRows(w) \/ InsertRows(w)
               \/ ReadMain(w) \/ ReadSub(w) \/ ReadList(w)
      PROVE  ItemsOK' /\ RInv'
  <2>1. UNCHANGED storeVars
    BY <1>5 DEF RevisionMatches, PickRows, ChangeRows, InsertRows, ReadMain,
       ReadSub, ReadList, Keep
  <2> QED BY <1>5, <2>1, ItemsKept, RevisionMatchesRequests, InnerRequests
<1> QED BY <1>1, <1>2, <1>3, <1>4, <1>5
        DEF Next, Work, Abort, WrongRevision, SerializationFailure, NotFound

-----------------------------------------------------------------------------
\* What one read keeps, others do not change.
LEMMA InitSeen == Init => ReadInvariant
BY DEF Init, ReadInvariant, SeenOK, NoReq

LEMMA UntouchedSeen ==
  ASSUME NEW v \in Workers, SeenOK(v), Untouched(v)
  PROVE  SeenOK(v)'
<1>1. \A t \in Table : RowsOf(snap'[v][t], req'[v].id) = RowsOf(snap[v][t], req[v].id)
  BY DEF Untouched
<1> QED BY <1>1 DEF Untouched, SeenOK, Table

LEMMA ArriveSeen ==
  ASSUME IInv, NEW w \in Workers, Arrive(w)
  PROVE  SeenOK(w)'
<1>1. PICK op \in Op : /\ req'[w].op = op
                       /\ pc'[w] = Handler[op]["begin"]
  BY DEF Arrive, StartPost, StartUpdate, StartOther, Start, IInv, TypeOK, Op, Updates
<1>2. /\ op = "get" => pc'[w] = "readmain"
      /\ op = "getsub" => pc'[w] = "readsub"
  BY <1>1, HandlerSteps
<1> QED BY <1>1, <1>2 DEF SeenOK

\* Each SELECT adds what it finds in the snapshot to what was read before.
LEMMA ReadSeen ==
  ASSUME Snapshots, IInv, NEW w \in Workers, SeenOK(w),
         ReadMain(w) \/ ReadSub(w) \/ ReadList(w)
  PROVE  SeenOK(w)'
<1> DEFINE i == req[w].id
<1>1. /\ UNCHANGED <<req, snap>> /\ seen[w] \in Seen
      /\ pc'[w] = Handler[req[w].op][pc[w]]
      /\ req[w].op \in {"get", "getsub"}
  BY DEF ReadMain, ReadSub, ReadList, Keep, Advance, IInv, TypeOK, ControlOK,
     AtStep
<1>2. ASSUME ReadSub(w) PROVE SeenOK(w)'
  <2>1. PICK x \in RowsOf(snap[w]["sub"], i) :
          seen' = [seen EXCEPT ![w] = [seen[w] EXCEPT !.sub = x.key]]
    BY <1>2 DEF ReadSub, Keep, MyRows, View, Snapshots
  <2>2. seen'[w].sub = x.key
    BY <1>1, <2>1 DEF Seen, IInv, TypeOK
  <2>3. req[w].op = "getsub" /\ pc[w] = "readsub"
    BY <1>2 DEF ReadSub, IInv, ControlOK, AtStep
  <2>4. pc'[w] = "readmain"
    BY <1>1, <2>3, HandlerSteps
  <2> QED BY <1>1, <2>2, <2>4 DEF SeenOK, Keys
<1>3. ASSUME ReadMain(w) PROVE SeenOK(w)'
  <2>1. PICK x \in RowsOf(snap[w]["main"], i) :
          seen' = [seen EXCEPT ![w] =
                     [seen[w] EXCEPT !.rev = x.rev, !.body = x.key]]
    BY <1>3 DEF ReadMain, Keep, MyRows, View, Snapshots
  <2>2. /\ seen'[w].rev = x.rev /\ seen'[w].body = x.key
        /\ seen'[w].sub = seen[w].sub
    BY <1>1, <2>1 DEF Seen, IInv, TypeOK
  <2>3. pc[w] = "readmain" /\ pc'[w] = "readlist"
    BY <1>1, <1>3, HandlerSteps DEF ReadMain
  <2> QED BY <1>1, <2>1, <2>2, <2>3 DEF SeenOK
<1>4. ASSUME ReadList(w) PROVE SeenOK(w)'
  <2>1. seen' = [seen EXCEPT ![w] =
                   [seen[w] EXCEPT !.list = Keys(RowsOf(snap[w]["list"], i))]]
    BY <1>4 DEF ReadList, Keep, MyRows, View, Snapshots
  <2>2. /\ seen'[w].list = Keys(RowsOf(snap[w]["list"], i))
        /\ seen'[w].rev = seen[w].rev /\ seen'[w].body = seen[w].body
        /\ seen'[w].sub = seen[w].sub
    BY <1>1, <2>1 DEF Seen, IInv, TypeOK
  <2>3. pc[w] = "readlist" /\ pc'[w] = "commit"
    BY <1>1, <1>4, HandlerSteps DEF ReadList
  <2> QED BY <1>1, <2>2, <2>3 DEF SeenOK
<1> QED BY <1>2, <1>3, <1>4

LEMMA StepSeen ==
  ASSUME Snapshots, IInv, ReadInvariant, [Next]_vars
  PROVE  ReadInvariant'
<1>1. CASE UNCHANGED vars
  BY <1>1, UntouchedSeen DEF vars, ReadInvariant, Untouched
<1>2. ASSUME NEW w \in Workers, Arrive(w) \/ Work(w) \/ Abort(w)
      PROVE  ReadInvariant'
  <2>1. \A v \in Workers \ {w} : SeenOK(v)'
    BY <1>2, OthersUntouched, UntouchedSeen DEF ReadInvariant
  <2>2. SeenOK(w)
    BY DEF ReadInvariant
  <2>3. ASSUME End(w) PROVE SeenOK(w)'
    BY <2>3 DEF End, IInv, TypeOK, NoReq, SeenOK
  <2>4. ASSUME RevisionMatches(w) \/ PickRows(w) \/ ChangeRows(w) \/ InsertRows(w)
        PROVE  SeenOK(w)'
    <3>1. req' = req /\ req[w].op \notin {"get", "getsub"}
      BY <2>4 DEF RevisionMatches, PickRows, ChangeRows, InsertRows, IInv,
         ControlOK, AtStep, Table
    <3> QED BY <3>1 DEF SeenOK
  <2>5. SeenOK(w)'
    BY <1>2, <2>2, <2>3, <2>4, ArriveSeen, ReadSeen
       DEF Work, Abort, Rollback, WrongRevision, SerializationFailure, NotFound, Commit
  <2> QED BY <2>1, <2>5 DEF ReadInvariant
<1> QED BY <1>1, <1>2 DEF Next

-----------------------------------------------------------------------------
(***************************************************************************)
(* The invariant of a store whose transactions see snapshots.              *)
(***************************************************************************)
SnapshotInv == SInv /\ LocksOK /\ TInv /\ ItemsOK /\ RInv /\ ReadInvariant

LEMMA SnapshotInvariance ==
  ASSUME Snapshots
  PROVE  Spec => [](IInv /\ SnapshotInv)
<1>1. Init => SnapshotInv
  BY InitStale, InitLocks, InitTransactions, InitItems, InitSeen DEF SnapshotInv
<1>2. IInv /\ SnapshotInv /\ [Next]_vars => SnapshotInv'
  BY StepStale, StepLocks, StepTransactions, StepItems, StepSeen DEF SnapshotInv
<1> QED BY <1>1, <1>2, Invariance, PTL DEF Spec

\* An item has one row in the main table, as get_item, get_items and the
\* revision check take for granted, however the requests interleave.
THEOREM OneRowPerItemEver ==
  ASSUME Snapshots
  PROVE  Spec => []OneRowPerItem
<1>1. ASSUME IInv, SnapshotInv PROVE OneRowPerItem
  <2> SUFFICES ASSUME NEW x \in db["main"], NEW y \in db["main"], x.id = y.id
               PROVE  x = y
    BY DEF OneRowPerItem
  <2>1. x.id \in Ids
    BY <1>1 DEF IInv, TypeOK, Row, Table
  <2>2. x \in RowsOf(db["main"], x.id) /\ y \in RowsOf(db["main"], x.id)
    BY DEF RowsOf
  <2>3. ItemOK(x.id)
    BY <1>1, <2>1 DEF SnapshotInv, ItemsOK
  <2> QED BY <2>2, <2>3 DEF ItemOK, Absent, Current, Holds, Table
<1> QED BY <1>1, SnapshotInvariance, PTL

\* Of the updates that quote one revision at most one is committed: no update
\* is lost without its client having seen a 409 or a failed request.
THEOREM NoLostUpdate ==
  ASSUME Snapshots
  PROVE  Spec => []OneUpdatePerRevision
<1>1. SnapshotInv => OneUpdatePerRevision
  BY DEF SnapshotInv, ItemsOK
<1> QED BY <1>1, SnapshotInvariance, PTL

\* Once delete_item has committed, no request brings the item back.
THEOREM DeletedStaysGone ==
  ASSUME Snapshots
  PROVE  Spec => []DeletedIsGone
<1>1. ASSUME IInv, SnapshotInv PROVE DeletedIsGone
  <2> SUFFICES ASSUME NEW x \in db["main"], x.id \in deleted PROVE FALSE
    BY DEF DeletedIsGone
  <2>1. ItemOK(x.id)
    BY <1>1 DEF IInv, TypeOK, Row, Table, SnapshotInv, ItemsOK
  <2> QED BY <2>1 DEF ItemOK, Absent, RowsOf, Table
<1> QED BY <1>1, SnapshotInvariance, PTL

\* A reply shows exactly the version its revision names (get_item,
\* get_subitem and get_file, whose SELECTs run one by one).
THEOREM RepliesShowOneVersion ==
  ASSUME Snapshots
  PROVE  Spec => []ReadsOneVersion
<1>1. ASSUME SnapshotInv PROVE ReadsOneVersion
  <2> SUFFICES ASSUME NEW w \in Workers, pc[w] = "commit",
                      req[w].op \in {"get", "getsub"}
               PROVE  LET v == version[seen[w].rev]
                      IN /\ seen[w].body = v.body
                         /\ seen[w].list = {v.body}
                         /\ req[w].op = "getsub" => seen[w].sub = v.sub
    BY DEF ReadsOneVersion
  <2> DEFINE i == req[w].id
  <2>1. SeenOK(w) /\ RequestOK(w)
    BY <1>1 DEF SnapshotInv, ReadInvariant, RInv
  <2>2. PICK x \in RowsOf(snap[w]["main"], i) :
          seen[w].rev = x.rev /\ seen[w].body = x.key
    BY <2>1 DEF SeenOK
  <2>3. PICK r \in Committed : Holds(snap[w], i, r, version[r])
    BY <2>1, <2>2 DEF RequestOK, Op, Absent, Table
  <2>4. seen[w].rev = r /\ seen[w].body = version[r].body
    BY <2>2, <2>3 DEF Holds, RowFor
  <2>5. seen[w].list = {version[r].body}
    BY <2>1, <2>3 DEF SeenOK, Holds, Keys, RowFor
  <2>6. req[w].op = "getsub" => seen[w].sub = version[r].sub
    BY <2>1, <2>3 DEF SeenOK, Holds, Keys, RowFor
  <2> QED BY <2>4, <2>5, <2>6
<1> QED BY <1>1, SnapshotInvariance, PTL

-----------------------------------------------------------------------------
(***************************************************************************)
(* The tables implement VersionedStore: what an item maps to, as a         *)
(* function of the tables and of the deletions committed.                  *)
(***************************************************************************)
ItemIn(d, gone, i) ==
  LET rows == RowsOf(d["main"], i)
  IN IF i \in gone THEN [state |-> "removed"]
     ELSE IF rows = {} THEN [state |-> "new"]
     ELSE LET x == CHOOSE y \in rows : TRUE
          IN [rev  |-> x.rev,
              body |-> IF Keys(RowsOf(d["list"], i)) = {x.key}
                         THEN x.key ELSE NoRev,
              sub  |-> LET k == Keys(RowsOf(d["sub"], i))
                       IN IF \E r \in Rev : k = {r}
                            THEN CHOOSE r \in Rev : k = {r} ELSE NoRev]

PresentItem(r, v) == [rev |-> r, body |-> v.body, sub |-> v.sub]

LEMMA ItemMapped ==
  /\ \A i : AbstractItem(i) = ItemIn(db, deleted, i)
  /\ \A i : AbstractItem(i)' = ItemIn(db', deleted', i)
BY DEF AbstractItem, ItemIn

\* An item maps to the version its rows are of.
LEMMA HeldItem ==
  ASSUME NEW d, NEW gone, NEW i, i \notin gone, NEW r, NEW v,
         Holds(d, i, r, v), v.sub \in Rev
  PROVE  ItemIn(d, gone, i) = PresentItem(r, v)
<1>1. RowsOf(d["main"], i) = {RowFor(i, v.body, r)}
  BY DEF Holds
<1>2. (CHOOSE y \in RowsOf(d["main"], i) : TRUE) = RowFor(i, v.body, r)
  BY <1>1
<1>3. Keys(RowsOf(d["list"], i)) = {v.body} /\ Keys(RowsOf(d["sub"], i)) = {v.sub}
  BY DEF Holds, Keys, RowFor
<1>4. (CHOOSE s \in Rev : {v.sub} = {s}) = v.sub
  BY DEF Rev
<1> QED BY <1>1, <1>2, <1>3, <1>4 DEF ItemIn, PresentItem, RowFor

LEMMA MissingItem ==
  ASSUME NEW d, NEW gone, NEW i, Absent(d, i)
  PROVE  ItemIn(d, gone, i) = IF i \in gone THEN Store!Removed ELSE Store!New
BY DEF ItemIn, Absent, Table, Store!Removed, Store!New

\* The states of an item are told apart.
LEMMA StatesDiffer ==
  \A r, v : PresentItem(r, v) \notin {Store!New, Store!Removed}
<1> SUFFICES ASSUME NEW r, NEW v
             PROVE  PresentItem(r, v) \notin {Store!New, Store!Removed}
  OBVIOUS
<1>1. "rev" \in DOMAIN PresentItem(r, v)
  BY DEF PresentItem
<1>2. "rev" \notin DOMAIN Store!New /\ "rev" \notin DOMAIN Store!Removed
  BY DEF Store!New, Store!Removed
<1> QED BY <1>1, <1>2

LEMMA StoreInit == Init => Store!Init
<1> SUFFICES ASSUME Init PROVE Store!Init
  OBVIOUS
<1>1. Committed = {}
  BY DEF Init, Committed
<1>2. \A i : AbstractItem(i) = Store!New
  BY NoRowsIn DEF Init, AbstractItem, RowsOf, Table, Store!New
<1> QED BY <1>1, <1>2 DEF Store!Init

\* Only commits are steps of the store.
LEMMA StoreStutter ==
  UNCHANGED storeVars => UNCHANGED Store!vars
<1> SUFFICES ASSUME UNCHANGED storeVars PROVE UNCHANGED Store!vars
  OBVIOUS
<1>1. Committed' = Committed
  BY DEF storeVars, Committed
<1>2. \A i \in Ids : AbstractItem(i)' = AbstractItem(i)
  BY ItemMapped DEF storeVars
<1> QED BY <1>1, <1>2 DEF Store!vars

\* A commit leaves the other items what they were.
LEMMA OtherItems ==
  ASSUME IInv, NEW w \in Workers, TransactionOK(w), Commit(w),
         NEW j \in Ids, j # req[w].id
  PROVE  AbstractItem(j)' = AbstractItem(j)
<1>1. \A t \in Table : RowsOf(db'[t], j) = RowsOf(db[t], j)
  BY CommitRows
<1>2. j \in deleted' <=> j \in deleted
  BY DEF Commit
<1> QED BY <1>1, <1>2, ItemMapped DEF ItemIn, Table

LEMMA CurrentItem ==
  ASSUME ItemsOK, NEW i \in Ids, i \notin deleted, NEW r \in Committed, Current(i, r)
  PROVE  AbstractItem(i) = PresentItem(r, version[r])
BY HeldItem, ItemMapped DEF Current, ItemsOK, VersionsOK

LEMMA PresentItemTyped ==
  ASSUME NEW r \in Rev, NEW v, v.body \in Rev, v.sub \in Rev
  PROVE  /\ PresentItem(r, v) \in Store!Version
         /\ PresentItem(r, v).rev = r
         /\ PresentItem(r, v).body = v.body /\ PresentItem(r, v).sub = v.sub
BY DEF PresentItem, Store!Version

\* POST creates, PUT updates the item or its subitem, in a single step.
LEMMA WriteImplements ==
  ASSUME IInv, ItemsOK, NEW w \in Workers, TransactionOK(w), Commit(w),
         NEW i, NEW n, NEW v, Written(w, i, n, v)
  PROVE  Store!Next
<1> DEFINE store == [j \in Ids |-> AbstractItem(j)]
<1>1. i \in Ids /\ n \in Rev /\ i \notin deleted /\ deleted' = deleted
  BY DEF Written
<1>2. Store!Issue(n)
  BY WriteItems DEF Store!Issue, Written
<1>3. AbstractItem(i)' = PresentItem(n, v)
  BY <1>1, HeldItem, ItemMapped DEF Written
<1>4. store' = [store EXCEPT ![i] = PresentItem(n, v)]
  <2>1. \A j \in Ids \ {i} : AbstractItem(j)' = AbstractItem(j)
    BY OtherItems DEF Written
  <2> QED BY <1>1, <1>3, <2>1
<1>5. CASE /\ req[w].op = "post" /\ i \notin KnownIds
           /\ v = [id |-> i, base |-> NoRev, body |-> n, sub |-> n]
  <2>1. Absent(db, i)
    BY <1>1, <1>5 DEF ItemsOK, ItemOK, Current, Holds, KnownIds
  <2>2. store[i] = Store!New
    BY <1>1, <2>1, MissingItem, ItemMapped
  <2>3. PresentItem(n, v) = [rev |-> n, body |-> n, sub |-> n]
    BY <1>5 DEF PresentItem
  <2>4. Store!Create(i, n)
    BY <1>2, <1>4, <2>2, <2>3 DEF Store!Create
  <2> QED BY <1>1, <2>4 DEF Store!Next
<1>6. ASSUME Current(i, v.base), v.base \in Committed
      PROVE  /\ store[i] = PresentItem(v.base, version[v.base])
             /\ Store!Present(i) /\ store[i].rev = v.base /\ v.base \in Rev
  <2>1. store[i] = PresentItem(v.base, version[v.base])
    BY <1>1, <1>6, CurrentItem
  <2> QED BY <2>1, <1>6, StatesDiffer DEF Store!Present, PresentItem, Committed
<1>7. CASE /\ req[w].op = "put" /\ Current(i, v.base) /\ v.base \in Committed
           /\ v = [id |-> i, base |-> v.base, body |-> n,
                   sub |-> version[v.base].sub]
  <2>1. v.body = n /\ v.sub = version[v.base].sub
    BY <1>7
  <2>2. PresentItem(n, v) = [store[i] EXCEPT !.rev = n, !.body = n]
    <3> HIDE DEF store
    <3>1. /\ PresentItem(n, v) \in Store!Version /\ store[i] \in Store!Version
          /\ store[i].body = version[v.base].body
          /\ store[i].sub = version[v.base].sub
      BY <1>1, <1>6, <1>7, PresentItemTyped DEF ItemsOK, VersionsOK, Written
    <3>2. /\ PresentItem(n, v).rev = n /\ PresentItem(n, v).body = v.body
          /\ PresentItem(n, v).sub = v.sub
      BY <1>1, PresentItemTyped DEF Written
    <3>3. ASSUME NEW x \in Store!Version, NEW y \in Store!Version,
                 x = store[i], y = PresentItem(n, v)
          PROVE  y = [x EXCEPT !.rev = n, !.body = n]
      <4>1. y.rev = n /\ y.body = v.body /\ y.sub = v.sub
        BY <3>2, <3>3
      <4>2. x.body = version[v.base].body /\ x.sub = version[v.base].sub
        BY <3>1, <3>3
      <4> QED BY <1>1, <2>1, <4>1, <4>2 DEF Store!Version
    <3> QED BY <3>1, <3>3
  <2>3. Store!Update(i, v.base, n)
    BY <1>1, <1>2, <1>4, <1>6, <1>7, <2>2 DEF Store!Update
  <2> QED BY <1>1, <1>6, <1>7, <2>3 DEF Store!Next
<1>8. CASE /\ req[w].op = "putsub" /\ Current(i, v.base) /\ v.base \in Committed
           /\ v = [id |-> i, base |-> v.base, body |-> version[v.base].body,
                   sub |-> n]
  <2>1. v.sub = n /\ v.body = version[v.base].body
    BY <1>8
  <2>2. PresentItem(n, v) = [store[i] EXCEPT !.rev = n, !.sub = n]
    <3> HIDE DEF store
    <3>1. /\ PresentItem(n, v) \in Store!Version /\ store[i] \in Store!Version
          /\ store[i].body = version[v.base].body
          /\ store[i].sub = version[v.base].sub
      BY <1>1, <1>6, <1>8, PresentItemTyped DEF ItemsOK, VersionsOK, Written
    <3>2. /\ PresentItem(n, v).rev = n /\ PresentItem(n, v).body = v.body
          /\ PresentItem(n, v).sub = v.sub
      BY <1>1, PresentItemTyped DEF Written
    <3>3. ASSUME NEW x \in Store!Version, NEW y \in Store!Version,
                 x = store[i], y = PresentItem(n, v)
          PROVE  y = [x EXCEPT !.rev = n, !.sub = n]
      <4>1. y.rev = n /\ y.body = v.body /\ y.sub = v.sub
        BY <3>2, <3>3
      <4>2. x.body = version[v.base].body /\ x.sub = version[v.base].sub
        BY <3>1, <3>3
      <4> QED BY <1>1, <2>1, <4>1, <4>2 DEF Store!Version
    <3> QED BY <3>1, <3>3
  <2>3. Store!UpdateSubitem(i, v.base, n)
    BY <1>1, <1>2, <1>4, <1>6, <1>8, <2>2 DEF Store!UpdateSubitem
  <2> QED BY <1>1, <1>6, <1>8, <2>3 DEF Store!Next
<1> QED BY <1>5, <1>7, <1>8 DEF Written

\* DELETE removes the item, or finds it removed already.
LEMMA DeleteImplements ==
  ASSUME Snapshots, IInv, LocksOK, TInv, ItemsOK, RInv, NEW w \in Workers,
         Commit(w), req[w].op = "delete"
  PROVE  Store!Next \/ UNCHANGED Store!vars
<1> DEFINE store == [j \in Ids |-> AbstractItem(j)]
<1>1. PICK i \in Ids : i = req[w].id /\ i \in KnownIds
  BY CommitDelete, KnownAreTyped
<1>2. deleted' = deleted \cup {i} /\ Absent(db', i) /\ Committed' = Committed
  BY <1>1, CommitDelete, DeleteItems
<1>3. AbstractItem(i)' = Store!Removed
  BY <1>2, MissingItem, ItemMapped
<1>4. store' = [store EXCEPT ![i] = Store!Removed]
  <2>1. \A j \in Ids \ {i} : AbstractItem(j)' = AbstractItem(j)
    BY <1>1, OtherItems DEF TInv
  <2> QED BY <1>3, <2>1
<1>5. CASE i \in deleted
  <2>1. Absent(db, i)
    BY <1>1, <1>5 DEF ItemsOK, ItemOK
  <2>2. store[i] = Store!Removed
    BY <1>5, <2>1, MissingItem, ItemMapped
  <2>3. store' = store
    BY <1>4, <2>2
  <2> QED BY <1>2, <2>3 DEF Store!vars
<1>6. CASE i \notin deleted
  <2>1. PICK r \in Committed : Current(i, r)
    BY <1>1, <1>6 DEF ItemsOK, ItemOK
  <2>2. Store!Present(i)
    BY <1>6, <2>1, CurrentItem, StatesDiffer DEF Store!Present
  <2>3. Store!Remove(i)
    BY <1>2, <1>4, <2>2 DEF Store!Remove
  <2> QED BY <2>3 DEF Store!Next
<1> QED BY <1>5, <1>6

LEMMA StoreStep ==
  ASSUME Snapshots, IInv, SnapshotInv, [Next]_vars
  PROVE  Store!Next \/ UNCHANGED Store!vars
<1> USE DEF SnapshotInv
<1>1. ASSUME NEW w \in Workers, Commit(w)
      PROVE  Store!Next \/ UNCHANGED Store!vars
  <2>1. req[w].op \in Op
    BY <1>1 DEF Commit, IInv, ControlOK, AtStep, Op
  <2>2. CASE req[w].op \in {"get", "getsub"}
    BY <1>1, <2>2, CommitRead, StoreStutter DEF TInv
  <2>3. CASE req[w].op = "delete"
    BY <1>1, <2>3, DeleteImplements
  <2>4. CASE req[w].op \in Writes
    <3>1. PICK i, n, v : Written(w, i, n, v)
      BY <1>1, <2>4, CommitPost, CommitPut, CommitPutsub DEF Writes
    <3> QED BY <1>1, <3>1, WriteImplements DEF TInv
  <2> QED BY <2>1, <2>2, <2>3, <2>4 DEF Op, Writes
<1>2. ASSUME NEW w \in Workers, Arrive(w) \/ Rollback(w)
               \/ RevisionMatches(w) \/ PickRows(w) \/ ChangeRows(w)
               \/ InsertRows(w) \/ ReadMain(w) \/ ReadSub(w) \/ ReadList(w)
      PROVE  UNCHANGED Store!vars
  <2>1. UNCHANGED storeVars
    BY <1>2 DEF Arrive, StartPost, StartUpdate, StartOther, Start, Rollback,
       RevisionMatches, PickRows, ChangeRows, InsertRows, ReadMain, ReadSub,
       ReadList, Keep
  <2> QED BY <2>1, StoreStutter
<1>3. CASE UNCHANGED vars
  BY <1>3, StoreStutter DEF vars, storeVars
<1> QED BY <1>1, <1>2, <1>3
        DEF Next, Work, Abort, WrongRevision, SerializationFailure, NotFound

\* The interleaved statements implement the store whose changes are single
\* steps: every update or deletion takes effect at its commit, or not at all.
THEOREM TablesImplementStore ==
  ASSUME Snapshots
  PROVE  Spec => ImplementsStore
<1>1. IInv /\ SnapshotInv /\ [Next]_vars => [Store!Next]_(Store!vars)
  BY StoreStep
<1> QED BY StoreInit, <1>1, SnapshotInvariance, PTL
        DEF Spec, ImplementsStore, Store!Spec
=============================================================================
