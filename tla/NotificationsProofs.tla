------------------------ MODULE NotificationsProofs ------------------------
(***************************************************************************)
(* Nobody is told of what did not happen, whatever the numbers of workers, *)
(* items, listeners and changes, and although handlers may end anywhere;   *)
(* and, with the clients of Mirror, what notifications are for is reached. *)
(***************************************************************************)
EXTENDS Mirror, FiniteSetTheorems, TLAPS

(***************************************************************************)
(* The inductive invariant.  A handler that calls notify_* has committed   *)
(* its change, and what it will tell of is true for good: revisions stay   *)
(* issued and deleted items stay deleted.                                  *)
(***************************************************************************)
Happened(op, i, r) ==
  IF op = "delete" THEN store[i] = Items!Removed ELSE r \in issued

StoreOK == store \in [Ids -> Items!Version \cup {Items!New, Items!Removed}]

Fields == {"op", "item", "base", "rev", "cause", "listener"}

AtStep(w) ==
  \/ pc[w] = "idle" \/ pc[w] = "drop"
  \/ /\ pc[w] = "write"
     /\ job[w].op \in {"post", "put"}
     /\ job[w].item \in Ids /\ job[w].rev \in Revs
  \/ /\ pc[w] = "write"
     /\ job[w].op = "delete"
     /\ job[w].item \in Ids /\ store[job[w].item] # Items!New
  \/ /\ \/ job[w].op = "post" /\ pc[w] \in {"new", "add"}
        \/ job[w].op \in {"put", "delete"} /\ pc[w] \in {"on", "all", "add"}
     /\ Happened(job[w].op, job[w].item, job[w].rev)

JobsOK ==
  /\ DOMAIN pc = Workers /\ DOMAIN job = Workers
  /\ \A w \in Workers : DOMAIN job[w] = Fields /\ AtStep(w)

NewsOK == \A n \in notes : Happened(n.op, n.item, n.rev)

NInv == StoreOK /\ JobsOK /\ NewsOK

-----------------------------------------------------------------------------
\* A version is not one of the marks that stand for no version.
LEMMA VersionIsPresent ==
  \A v \in Items!Version : v # Items!New /\ v # Items!Removed
<1> SUFFICES ASSUME NEW v \in Items!Version
             PROVE  v # Items!New /\ v # Items!Removed
  OBVIOUS
<1>1. DOMAIN v = {"rev", "body", "sub"}
  BY DEF Items!Version
<1>2. DOMAIN Items!New = {"state"} /\ DOMAIN Items!Removed = {"state"}
  BY DEF Items!New, Items!Removed
<1> QED BY <1>1, <1>2

\* The order of the steps of the three handlers.
LEMMA HandlerSteps ==
  /\ \A op \in Op : Handler[op]["begin"] = "write"
  /\ Handler["post"]["write"] = "new"
  /\ Handler["post"]["new"] = "add"
  /\ \A op \in {"put", "delete"} :
       /\ Handler[op]["write"] = "on"
       /\ Handler[op]["on"] = "all"
       /\ Handler[op]["all"] = "add"
  /\ \A op \in Op : Handler[op]["add"] = "idle"
BY DEF Handler, PostItem, PutItem, DeleteItem, Op

\* What has happened stays so while the items do not change.
LEMMA SameItems ==
  ASSUME NInv, UNCHANGED itemVars
  PROVE  /\ StoreOK'
         /\ \A op, i, r : Happened(op, i, r)' = Happened(op, i, r)
BY DEF NInv, StoreOK, itemVars, Happened

\* A change of an item brings a typed store, makes true what is told of it,
\* and leaves true what has been told of others.
LEMMA ChangeOK ==
  ASSUME NInv, NEW w \in Workers, pc[w] = "write",
         NEW q, q = job[w],
         \/ ChangeItem(q)
         \/ NothingToDelete(q) /\ UNCHANGED itemVars
  PROVE  /\ StoreOK'
         /\ Happened(q.op, q.item, q.rev)'
         /\ \A op, i, r : Happened(op, i, r) => Happened(op, i, r)'
         /\ \A i : store[i] # Items!New => store'[i] # Items!New
<1>0. /\ AtStep(w)
      /\ \A i \in Ids : Items!Present(i) <=> store[i] \in Items!Version
  BY VersionIsPresent DEF NInv, JobsOK, StoreOK, Items!Present
<1>1. CASE q.op = "post"
  <2>1. Items!Create(q.item, q.rev) /\ q.item \in Ids /\ q.rev \in Revs
    BY <1>0, <1>1 DEF AtStep, ChangeItem, NothingToDelete
  <2>2. [rev |-> q.rev, body |-> q.rev, sub |-> q.rev] \in Items!Version
    BY <2>1 DEF Items!Version
  <2>3. StoreOK'
    BY <2>1, <2>2 DEF NInv, StoreOK, Items!Create
  <2>4. issued' = issued \cup {q.rev}
    BY <2>1 DEF Items!Create, Items!Issue
  <2>5. \A i : store[i] # Items!New => store'[i] = store[i]
    BY <2>1 DEF NInv, StoreOK, Items!Create
  <2>6. Items!Removed # Items!New
    BY DEF Items!Removed, Items!New
  <2> QED BY <1>1, <2>3, <2>4, <2>5, <2>6 DEF Happened
<1>2. CASE q.op = "put"
  <2>1. /\ Items!Update(q.item, q.base, q.rev)
        /\ q.item \in Ids /\ q.rev \in Revs
    BY <1>0, <1>2 DEF AtStep, ChangeItem, NothingToDelete
  <2>2. store[q.item] \in Items!Version
    BY <1>0, <2>1 DEF Items!Update
  <2>3. [store[q.item] EXCEPT !.rev = q.rev, !.body = q.rev] \in Items!Version
    BY <2>1, <2>2 DEF Items!Version
  <2>4. store' = [store EXCEPT ![q.item] = [store[q.item] EXCEPT
                                              !.rev = q.rev, !.body = q.rev]]
    BY <2>1 DEF Items!Update
  <2>5. StoreOK'
    BY <2>1, <2>3, <2>4 DEF NInv, StoreOK
  <2>6. issued' = issued \cup {q.rev}
    BY <2>1 DEF Items!Update, Items!Issue
  <2>7. \A i : i # q.item => store'[i] = store[i]
    BY <2>4 DEF NInv, StoreOK
  <2>8. store'[q.item] \in Items!Version
    BY <2>1, <2>3, <2>4 DEF NInv, StoreOK
  <2> QED BY <1>2, <2>2, <2>5, <2>6, <2>7, <2>8, VersionIsPresent DEF Happened
<1>3. CASE q.op = "delete" /\ ChangeItem(q)
  <2>1. Items!Remove(q.item) /\ q.item \in Ids
    BY <1>0, <1>3 DEF AtStep, ChangeItem
  <2>2. /\ store' = [store EXCEPT ![q.item] = Items!Removed]
        /\ issued' = issued
    BY <2>1 DEF Items!Remove
  <2>3. StoreOK' /\ store'[q.item] = Items!Removed
    BY <2>1, <2>2 DEF NInv, StoreOK
  <2>4. \A i : i # q.item => store'[i] = store[i]
    BY <2>2 DEF NInv, StoreOK
  <2>5. Items!Removed # Items!New
    BY DEF Items!Removed, Items!New
  <2> QED BY <1>3, <2>2, <2>3, <2>4, <2>5 DEF Happened
<1>4. CASE q.op = "delete" /\ NothingToDelete(q) /\ UNCHANGED itemVars
  <2>1. q.item \in Ids /\ store[q.item] # Items!New /\ ~Items!Present(q.item)
    BY <1>0, <1>4 DEF AtStep, NothingToDelete
  <2>2. store[q.item] = Items!Removed
    BY <2>1 DEF Items!Present
  <2> QED BY <1>4, <2>2, SameItems DEF Happened, itemVars
<1> QED BY <1>0, <1>1, <1>2, <1>3, <1>4 DEF AtStep, NothingToDelete

-----------------------------------------------------------------------------
LEMMA InitInv == Init => NInv
BY DEF Init, Items!Init, NInv, StoreOK, JobsOK, AtStep, NewsOK, NoJob, Fields

\* A request ends.
LEMMA EndInv ==
  ASSUME NInv, NEW w \in Workers, Go(w, "idle"), UNCHANGED itemVars,
         \A n \in notes' : Happened(n.op, n.item, n.rev)
  PROVE  NInv'
<1>1. StoreOK' /\ \A op, i, r : Happened(op, i, r)' = Happened(op, i, r)
  BY SameItems
<1>2. JobsOK'
  <2>1. DOMAIN NoJob = Fields
    BY DEF NoJob, Fields
  <2> QED BY <1>1, <2>1 DEF NInv, JobsOK, AtStep, Go, itemVars
<1>3. NewsOK'
  BY <1>1 DEF NewsOK
<1> QED BY <1>1, <1>2, <1>3 DEF NInv

\* A search ends.
LEMMA SeekInv ==
  ASSUME NInv, NEW w \in Workers, NEW step \in {"new", "on", "all"},
         pc[w] = step, pc' = [pc EXCEPT ![w] = Handler[job[w].op][step]],
         UNCHANGED <<store, issued, job, notes>>
  PROVE  NInv'
<1>1. StoreOK' /\ \A op, i, r : Happened(op, i, r)' = Happened(op, i, r)
  BY SameItems DEF itemVars
<1>2. pc'[w] = "add" \/ (job[w].op # "post" /\ pc'[w] = "all")
  BY HandlerSteps DEF NInv, JobsOK, AtStep, Op
<1>3. JobsOK'
  BY <1>1, <1>2 DEF NInv, JobsOK, AtStep
<1>4. NewsOK'
  BY <1>1 DEF NInv, NewsOK
<1> QED BY <1>1, <1>3, <1>4 DEF NInv

\* A request that changes items begins.
LEMMA BeginInv ==
  ASSUME NInv, NEW w \in Workers, NEW op \in Op, NEW i \in Ids,
         NEW base, NEW r,
         IF op = "delete" THEN store[i] # Items!New ELSE r \in Revs,
         Begin(w, op, i, base, r)
  PROVE  NInv'
<1>1. StoreOK' /\ \A o, j, s : Happened(o, j, s)' = Happened(o, j, s)
  BY SameItems DEF Begin, itemVars
<1>2. DEFINE q == [NoJob EXCEPT !.op = op, !.item = i, !.base = base,
                                !.rev = r]
<1>3. /\ q.op = op /\ q.item = i /\ q.rev = r
      /\ DOMAIN q = Fields
  BY DEF NoJob, Fields
<1>4. /\ job' = [job EXCEPT ![w] = q]
      /\ pc' = [pc EXCEPT ![w] = "write"]
      /\ UNCHANGED <<store, notes>>
  BY HandlerSteps DEF Begin
<1>5. JobsOK'
  <2>1. /\ DOMAIN job' = Workers /\ DOMAIN pc' = Workers
        /\ \A v \in Workers : DOMAIN job'[v] = Fields
    BY <1>3, <1>4 DEF NInv, JobsOK
  <2>2. job'[w] = q /\ pc'[w] = "write"
    BY <1>4 DEF NInv, JobsOK
  <2>3. AtStep(w)'
    BY <1>3, <1>4, <2>2 DEF AtStep, Op
  <2>4. \A v \in Workers : v # w => job'[v] = job[v] /\ pc'[v] = pc[v]
    BY <1>4 DEF NInv, JobsOK
  <2>5. \A v \in Workers : v # w => AtStep(v)'
    BY <1>1, <1>4, <2>4 DEF NInv, JobsOK, AtStep
  <2> QED BY <2>1, <2>3, <2>5 DEF JobsOK
<1>6. NewsOK'
  BY <1>1, <1>4 DEF NInv, NewsOK
<1> QED BY <1>1, <1>5, <1>6 DEF NInv

\* The commit of a change, after which it has happened.
LEMMA WriteInv ==
  ASSUME NInv, NEW w \in Workers, Write(w)
  PROVE  NInv'
<1>1. PICK q : q = job[w]
  OBVIOUS
<1>2. /\ StoreOK'
      /\ Happened(q.op, q.item, q.rev)'
      /\ \A op, i, r : Happened(op, i, r) => Happened(op, i, r)'
      /\ \A i : store[i] # Items!New => store'[i] # Items!New
  BY <1>1, ChangeOK DEF Write
<1>3. q.op \in Op /\ DOMAIN q = Fields
  BY <1>1 DEF NInv, JobsOK, AtStep, Write, Op
<1>4. /\ pc' = [pc EXCEPT ![w] = Handler[q.op]["write"]]
      /\ pc'[w] = IF q.op = "post" THEN "new" ELSE "on"
  BY <1>1, <1>3, HandlerSteps DEF Write, NInv, JobsOK, Op
<1>5. job' = [job EXCEPT ![w].cause = changes + 1]
  BY <1>4 DEF Write
<1>6. /\ job'[w].op = q.op /\ job'[w].item = q.item /\ job'[w].rev = q.rev
      /\ DOMAIN job'[w] = Fields
  BY <1>1, <1>3, <1>5 DEF NInv, JobsOK, Fields
<1>7. JobsOK'
  <2>1. AtStep(w)'
    BY <1>2, <1>3, <1>4, <1>6 DEF AtStep, Op
  <2>2. ASSUME NEW v \in Workers, v # w
        PROVE  AtStep(v)' /\ DOMAIN job'[v] = Fields
    <3>1. job'[v] = job[v] /\ pc'[v] = pc[v]
      BY <1>4, <1>5, <2>2 DEF NInv, JobsOK
    <3> QED BY <1>2, <3>1 DEF NInv, JobsOK, AtStep
  <2> QED BY <1>4, <1>5, <1>6, <2>1, <2>2 DEF NInv, JobsOK
<1>8. NewsOK'
  BY <1>2 DEF NInv, NewsOK, Write
<1> QED BY <1>2, <1>7, <1>8 DEF NInv

\* What a notify_* call adds is what has happened.
LEMMA AddInv ==
  ASSUME NInv, NEW w \in Workers, Add(w)
  PROVE  NInv'
<1>1. Happened(job[w].op, job[w].item, job[w].rev) /\ job[w].op \in Op
  BY DEF NInv, JobsOK, AtStep, Add, Op
<1>2. \A n \in NewNotes(w) :
        n.op = job[w].op /\ n.item = job[w].item /\ n.rev = job[w].rev
  BY DEF NewNotes
<1>3. Go(w, "idle")
  BY <1>1, HandlerSteps DEF Add
<1>4. \A n \in notes' : Happened(n.op, n.item, n.rev)
  BY <1>1, <1>2 DEF Add, NInv, NewsOK
<1> QED BY <1>3, <1>4, EndInv DEF Add, itemVars

\* A worker takes up or finishes the deletion of a listener; nothing else
\* changes but the listeners, and the notifications, which become fewer.
LEMMA OtherInv ==
  ASSUME NInv, NEW w \in Workers,
         UNCHANGED itemVars, notes' \subseteq notes,
         \/ UNCHANGED <<pc, job>>
         \/ \E q : \E step \in {"idle", "drop"} :
              /\ DOMAIN q = Fields
              /\ pc' = [pc EXCEPT ![w] = step]
              /\ job' = [job EXCEPT ![w] = q]
  PROVE  NInv'
<1>1. StoreOK' /\ \A op, i, r : Happened(op, i, r)' = Happened(op, i, r)
  BY SameItems
<1>2. JobsOK'
  BY <1>1 DEF NInv, JobsOK, AtStep, itemVars
<1>3. NewsOK'
  BY <1>1 DEF NInv, NewsOK
<1> QED BY <1>1, <1>2, <1>3 DEF NInv

-----------------------------------------------------------------------------
\* Every step preserves the invariant.
LEMMA StepInv == NInv /\ [Next]_vars => NInv'
<1> SUFFICES ASSUME NInv, [Next]_vars PROVE NInv'
  OBVIOUS
<1>1. CASE UNCHANGED vars
  BY <1>1, SameItems DEF vars, itemVars, NInv, JobsOK, AtStep, NewsOK
<1>2. ASSUME NEW w \in Workers, Work(w)
      PROVE  NInv'
  <2>1. CASE Write(w)
    BY <2>1, WriteInv
  <2>2. CASE Refuse(w)
    BY <2>2, EndInv DEF Refuse, itemVars, NInv, NewsOK
  <2>3. CASE SeekNew(w)
    BY <2>3, SeekInv DEF SeekNew, Seek
  <2>4. CASE SeekOn(w)
    BY <2>4, SeekInv DEF SeekOn, Seek
  <2>5. CASE SeekAll(w)
    BY <2>5, SeekInv DEF SeekAll, Seek
  <2>6. CASE Add(w)
    BY <2>6, AddInv
  <2>7. CASE DropListener(w)
    <3>1. DOMAIN NoJob = Fields
      BY DEF NoJob, Fields
    <3> QED BY <2>7, <3>1, OtherInv DEF DropListener, itemVars
  <2> QED BY <1>2, <2>1, <2>2, <2>3, <2>4, <2>5, <2>6, <2>7 DEF Work
<1>3. ASSUME NEW w \in Workers, Arrive(w)
      PROVE  NInv'
  <2>1. CASE StartPost(w)
    BY <2>1, BeginInv DEF StartPost, BeginWrite, Op
  <2>2. CASE StartPut(w)
    <3>1. PICK i \in Ids, base \in issued :
            /\ BeginWrite(w, "put", i, base)
      BY <2>2 DEF StartPut
    <3> QED BY <3>1, BeginInv DEF BeginWrite, Op
  <2>3. CASE StartDelete(w)
    BY <2>3, BeginInv DEF StartDelete, Op
  <2>4. CASE \E l \in Listeners : StartDeleteListener(w, l)
    <3>1. PICK l \in Listeners : StartDeleteListener(w, l)
      BY <2>4
    <3>2. DOMAIN [NoJob EXCEPT !.op = "drop", !.listener = l] = Fields
      BY DEF NoJob, Fields
    <3> QED BY <3>1, <3>2, OtherInv DEF StartDeleteListener, itemVars
  <2> QED BY <1>3, <2>1, <2>2, <2>3, <2>4 DEF Arrive
<1>4. ASSUME NEW w \in Workers, Fail(w)
      PROVE  NInv'
  BY <1>4, EndInv DEF Fail, itemVars, NInv, NewsOK
<1>5. CASE \E l \in Listeners : PostListener(l) \/ PutListener(l)
  BY <1>5, SameItems DEF PostListener, PutListener, itemVars, NInv, JobsOK,
     AtStep, NewsOK
<1>6. CASE \E n \in notes : DeleteNotification(n)
  BY <1>6, SameItems DEF DeleteNotification, itemVars, NInv, JobsOK,
     AtStep, NewsOK
<1> QED BY <1>1, <1>2, <1>3, <1>4, <1>5, <1>6 DEF Next

\* Nobody is told of what did not happen: a notification names a committed
\* version, or an item that is not there any more.
THEOREM NoFalseNewsEver == Spec => []NoFalseNews
<1>1. NInv => NoFalseNews
  BY DEF NInv, NewsOK, Happened, NoFalseNews, Items!Present
<1> QED BY <1>1, InitInv, StepInv, PTL DEF Spec

-----------------------------------------------------------------------------
(***************************************************************************)
(* Who has been listening all along is found by one search or the other,   *)
(* unless it turns from all items to single ones in between.  The          *)
(* inductive invariant says of such a listener, at each step of the        *)
(* handler, that it is found already or will be by a search to come.       *)
(***************************************************************************)
Hearing(w, l) ==
  Exists(l) /\ Hears(listeners[l], job[w].op, job[w].item)

Reached(w, l) ==
  /\ pc[w] \in {"new", "on"} => Hearing(w, l)
  /\ pc[w] = "all" =>
       \/ <<l, "listen_on">> \in found[w]
       \/ Exists(l) /\ listeners[l].listen_on_all
  /\ pc[w] = "add" => \E via \in Via : <<l, via>> \in found[w]
  /\ pc[w] \in {"new", "on", "all", "add"}

AInv ==
  /\ listeners \in [Listeners -> Settings \cup {NotYet, Gone}]
  /\ DOMAIN found = Workers /\ DOMAIN steady = Workers
  /\ \A w \in Workers : steady[w] \subseteq Listeners
  /\ \A w \in Workers : \A l \in steady[w] : Reached(w, l)

LEMMA InitAInv == Init => AInv
BY DEF Init, AInv

\* A worker whose request ends listens to nobody.
LEMMA EndAInv ==
  ASSUME NInv, AInv, NEW w \in Workers, Go(w, "idle"), UNCHANGED listeners
  PROVE  AInv'
BY DEF NInv, JobsOK, AInv, Go, Reached, Hearing, Exists

\* Requests that only begin find no listener.
LEMMA BeginAInv ==
  ASSUME NInv, AInv, NEW w \in Workers, pc[w] = "idle",
         NEW step, pc' = [pc EXCEPT ![w] = step],
         NEW q, job' = [job EXCEPT ![w] = q],
         UNCHANGED <<listeners, found, steady>>
  PROVE  AInv'
<1>1. steady[w] = {}
  BY DEF AInv, Reached
<1>2. ASSUME NEW v \in Workers, NEW l \in steady[v]
      PROVE  Reached(v, l)'
  <2>1. v # w /\ pc'[v] = pc[v] /\ job'[v] = job[v]
    BY <1>1, <1>2 DEF NInv, JobsOK
  <2> QED BY <1>2, <2>1 DEF AInv, Reached, Hearing, Exists
<1> QED BY <1>2 DEF AInv

\* Those who listen when the change is committed.
LEMMA WriteAInv ==
  ASSUME NInv, AInv, NEW w \in Workers, Write(w)
  PROVE  AInv'
<1>1. /\ job[w].op \in Op /\ DOMAIN job[w] = Fields
      /\ pc[w] = "write" /\ UNCHANGED <<listeners, found>>
      /\ pc' = [pc EXCEPT ![w] = Handler[job[w].op]["write"]]
  BY DEF NInv, JobsOK, AtStep, Write, Op
<1>2. pc'[w] \in {"new", "on"}
  BY <1>1, HandlerSteps DEF NInv, JobsOK, Op
<1>3. /\ job' = [job EXCEPT ![w].cause = changes + 1]
      /\ steady' = [steady EXCEPT ![w] = {l \in Live :
                          Hears(listeners[l], job[w].op, job[w].item)}]
  BY <1>2 DEF Write
<1>4. job'[w].op = job[w].op /\ job'[w].item = job[w].item
  BY <1>1, <1>3 DEF NInv, JobsOK, Fields
<1>5. ASSUME NEW l \in steady'[w]
      PROVE  Reached(w, l)'
  BY <1>1, <1>2, <1>3, <1>4 DEF AInv, Reached, Hearing, Exists, Live
<1>6. ASSUME NEW v \in Workers, v # w, NEW l \in steady'[v]
      PROVE  Reached(v, l)'
  <2>1. /\ pc'[v] = pc[v] /\ job'[v] = job[v] /\ steady'[v] = steady[v]
    BY <1>1, <1>3, <1>6 DEF NInv, JobsOK, AInv
  <2> QED BY <1>1, <1>6, <2>1 DEF AInv, Reached, Hearing, Exists
<1> QED BY <1>1, <1>3, <1>5, <1>6 DEF AInv, Live

\* A search finds those it is for.
LEMMA SeekAInv ==
  ASSUME NInv, AInv, NEW w \in Workers, SeekNew(w) \/ SeekOn(w) \/ SeekAll(w)
  PROVE  AInv'
<1>1. /\ UNCHANGED <<listeners, job, steady>>
      /\ pc' = [pc EXCEPT ![w] = Handler[job[w].op][pc[w]]]
      /\ \A v \in Workers \ {w} : pc'[v] = pc[v] /\ found'[v] = found[v]
      /\ DOMAIN found' = Workers
  BY DEF NInv, JobsOK, AInv, SeekNew, SeekOn, SeekAll, Seek
<1>2. ASSUME NEW l \in steady[w]
      PROVE  Reached(w, l)'
  <2>1. CASE SeekNew(w)
    <3>1. pc[w] = "new" /\ job[w].op = "post" /\ pc'[w] = "add"
      BY <1>1, <2>1, HandlerSteps DEF NInv, JobsOK, AtStep, SeekNew, Seek
    <3>2. Exists(l) /\ listeners[l].notify_of_new /\ l \in Listeners
      BY <1>2, <3>1 DEF AInv, Reached, Hearing, Hears
    <3>3. <<l, "notify_of_new">> \in found'[w]
      BY <2>1, <3>2 DEF AInv, SeekNew, Seek, Live
    <3> QED BY <3>1, <3>3 DEF Reached, Via
  <2>2. CASE SeekOn(w)
    <3>1. /\ pc[w] = "on" /\ job[w].op \in {"put", "delete"}
          /\ pc'[w] = "all"
      BY <1>1, <2>2, HandlerSteps DEF NInv, JobsOK, AtStep, SeekOn, Seek
    <3>2. /\ Exists(l) /\ l \in Listeners
          /\ \/ job[w].item \in listeners[l].listen_on
             \/ listeners[l].listen_on_all
      BY <1>2, <3>1 DEF AInv, Reached, Hearing, Hears
    <3>3. job[w].item \in listeners[l].listen_on =>
            <<l, "listen_on">> \in found'[w]
      BY <2>2, <3>2 DEF AInv, SeekOn, Seek, Live
    <3> QED BY <1>1, <3>1, <3>2, <3>3 DEF Reached, Exists
  <2>3. CASE SeekAll(w)
    <3>1. pc[w] = "all" /\ pc'[w] = "add"
      BY <1>1, <2>3, HandlerSteps DEF NInv, JobsOK, AtStep, SeekAll, Seek
    <3>2. \/ <<l, "listen_on">> \in found[w]
          \/ Exists(l) /\ listeners[l].listen_on_all /\ l \in Listeners
      BY <1>2, <3>1 DEF AInv, Reached
    <3>3. \/ <<l, "listen_on">> \in found'[w]
          \/ <<l, "listen_on_all">> \in found'[w]
      BY <2>3, <3>2 DEF AInv, SeekAll, Seek, Live
    <3> QED BY <3>1, <3>3 DEF Reached, Via
  <2> QED BY <2>1, <2>2, <2>3
<1>3. ASSUME NEW v \in Workers, v # w, NEW l \in steady[v]
      PROVE  Reached(v, l)'
  BY <1>1, <1>3 DEF AInv, Reached, Hearing, Exists
<1> QED BY <1>1, <1>2, <1>3 DEF AInv

\* A listener that is set, changed without narrowing, or dropped.
LEMMA SetAInv ==
  ASSUME NInv, AInv, NEW l \in Listeners,
         NEW s \in Settings \cup {NotYet, Gone},
         listeners' = [listeners EXCEPT ![l] = s],
         NEW q, q \subseteq Workers,
         steady' = [w \in Workers |-> IF w \in q THEN steady[w]
                                     ELSE steady[w] \ {l}],
         \A w \in q : Hears(s, job[w].op, job[w].item)
                        /\ s \notin {NotYet, Gone},
         Exists(l) /\ s \notin {NotYet, Gone} => ~Narrows(listeners[l], s),
         \A w \in Workers :
           steady[w] # {} => pc'[w] = pc[w] /\ job'[w] = job[w],
         UNCHANGED found
  PROVE  AInv'
<1>1. ASSUME NEW w \in Workers, NEW k \in steady'[w]
      PROVE  Reached(w, k)'
  <2>1. /\ k \in steady[w] /\ Reached(w, k) /\ k \in Listeners
        /\ pc'[w] = pc[w] /\ job'[w] = job[w] /\ found'[w] = found[w]
        /\ w \in q \/ k # l
    BY <1>1 DEF AInv
  <2>2. CASE k # l
    <3>1. listeners'[k] = listeners[k]
      BY <2>1, <2>2 DEF AInv
    <3> QED BY <2>1, <3>1 DEF Reached, Hearing, Exists
  <2>3. CASE k = l
    <3>1. /\ listeners'[l] = s /\ s \notin {NotYet, Gone}
          /\ Hears(s, job[w].op, job[w].item)
      BY <2>1, <2>3 DEF AInv
    <3>2. Hearing(w, k)' /\ Exists(k)'
      BY <2>1, <2>3, <3>1 DEF Hearing, Exists
    <3>3. ASSUME pc[w] = "all", Exists(l), listeners[l].listen_on_all
          PROVE  s.listen_on_all
      <4>1. job[w].op # "post"
        BY <3>3 DEF NInv, JobsOK, AtStep
      <4>2. job[w].item \in s.listen_on \/ s.listen_on_all
        BY <3>1, <4>1 DEF Hears
      <4> QED BY <3>1, <3>3, <4>2 DEF Narrows
    <3> QED BY <2>1, <2>3, <3>1, <3>2, <3>3 DEF Reached
  <2> QED BY <2>2, <2>3
<1> QED BY <1>1 DEF AInv

-----------------------------------------------------------------------------
Unnarrowed == \A c \in Replacements : ~Narrows(c[1], c[2])

\* Every step preserves the invariant.
LEMMA StepAInv ==
  ASSUME Unnarrowed, NInv, AInv, [Next]_vars
  PROVE  AInv'
<1>1. CASE UNCHANGED vars
  BY <1>1 DEF vars, AInv, Reached, Hearing, Exists
<1>2. ASSUME NEW w \in Workers, Write(w)
      PROVE  AInv'
  BY <1>2, WriteAInv
<1>3. ASSUME NEW w \in Workers, SeekNew(w) \/ SeekOn(w) \/ SeekAll(w)
      PROVE  AInv'
  BY <1>3, SeekAInv
<1>4. ASSUME NEW w \in Workers, Refuse(w) \/ Fail(w)
      PROVE  AInv'
  BY <1>4, EndAInv DEF Refuse, Fail, itemVars
<1>5. ASSUME NEW w \in Workers, Add(w)
      PROVE  AInv'
  <2>1. job[w].op \in Op
    BY <1>5 DEF NInv, JobsOK, AtStep, Add, Op
  <2>2. Go(w, "idle") /\ UNCHANGED <<itemVars, listeners>>
    BY <1>5, <2>1, HandlerSteps DEF Add, itemVars
  <2> QED BY <2>2, EndAInv
<1>6. ASSUME NEW w \in Workers, Arrive(w)
      PROVE  AInv'
  <2>1. \E step, q : /\ pc[w] = "idle"
                     /\ pc' = [pc EXCEPT ![w] = step]
                     /\ job' = [job EXCEPT ![w] = q]
                     /\ UNCHANGED <<listeners, found, steady, store, issued>>
    BY <1>6 DEF Arrive, StartPost, StartPut, StartDelete, StartDeleteListener,
       BeginWrite, Begin
  <2> QED BY <2>1, BeginAInv
<1>7. ASSUME NEW l \in Listeners, PostListener(l) \/ PutListener(l)
      PROVE  AInv'
  <2>1. PICK s \in Settings :
          /\ SetListener(l, s)
          /\ UNCHANGED <<store, issued, notes, pc, job, found>>
          /\ \/ listeners[l] = NotYet
             \/ <<listeners[l], s>> \in Replacements
    BY <1>7 DEF PostListener, PutListener
  <2> DEFINE q == {w \in Workers :
                     /\ s \notin {NotYet, Gone}
                     /\ pc[w] # "idle" /\ job[w].op \in Op
                     /\ Hears(s, job[w].op, job[w].item)}
  <2>2. listeners' = [listeners EXCEPT ![l] = s] /\ listeners'[l] = s
    BY <2>1 DEF SetListener, AInv
  <2>3. steady' = [w \in Workers |-> IF w \in q THEN steady[w]
                                    ELSE steady[w] \ {l}]
    BY <2>1, <2>2 DEF SetListener, Exists
  <2>4. Exists(l) => ~Narrows(listeners[l], s)
    BY <2>1 DEF Unnarrowed, Exists
  <2>5. \A w \in q : Hears(s, job[w].op, job[w].item) /\ s \notin {NotYet, Gone}
    OBVIOUS
  <2>6. q \subseteq Workers
    OBVIOUS
  <2> HIDE DEF q
  <2> QED BY <2>1, <2>2, <2>3, <2>4, <2>5, <2>6, SetAInv
<1>8. ASSUME NEW w \in Workers, DropListener(w)
      PROVE  AInv'
  <2>1. PICK l : l = job[w].listener
    OBVIOUS
  <2>2. /\ listeners' = [listeners EXCEPT ![l] = Gone]
        /\ steady' = [v \in Workers |-> steady[v] \ {l}]
        /\ UNCHANGED found /\ pc[w] = "drop"
    BY <1>8, <2>1 DEF DropListener
  <2>3. \A v \in Workers :
          steady[v] # {} => pc'[v] = pc[v] /\ job'[v] = job[v]
    BY <1>8, <2>2 DEF DropListener, AInv, Reached, NInv, JobsOK
  <2>4. ASSUME NEW v \in Workers, NEW k \in steady'[v]
        PROVE  Reached(v, k)'
    <3>1. k \in steady[v] /\ k # l /\ k \in Listeners
      BY <2>2, <2>4 DEF AInv
    <3>2. listeners'[k] = listeners[k]
      BY <2>2, <3>1 DEF AInv
    <3> QED BY <2>2, <2>3, <3>1, <3>2 DEF AInv, Reached, Hearing, Exists
  <2>5. listeners' \in [Listeners -> Settings \cup {NotYet, Gone}]
    BY <2>2 DEF AInv
  <2> QED BY <2>2, <2>4, <2>5 DEF AInv
<1>9. ASSUME NEW n \in notes, DeleteNotification(n)
      PROVE  AInv'
  BY <1>9 DEF DeleteNotification, AInv, Reached, Hearing, Exists
<1> QED BY <1>1, <1>2, <1>3, <1>4, <1>5, <1>6, <1>7, <1>8, <1>9 DEF Next, Work

\* When a notify_* call ends, every listener that has been listening to the
\* item ever since it changed has been sent a notification of that change, if
\* no listener ever turns from all items to single ones.
THEOREM AudienceHearsUnlessNarrowed ==
  ASSUME Unnarrowed
  PROVE  Spec => AudienceHears
<1>1. Init => NInv /\ AInv
  BY InitInv, InitAInv
<1>2. NInv /\ AInv /\ [Next]_vars => (NInv /\ AInv)'
  BY StepInv, StepAInv
<1>3. NInv /\ AInv =>
        [\A w \in Workers :
           Add(w) => \A l \in steady[w] :
                       \E n \in notes' : n.to = l /\ n.cause = job[w].cause]_vars
  <2> SUFFICES ASSUME NInv, AInv, NEW w \in Workers, Add(w), NEW l \in steady[w]
               PROVE  \E n \in notes' : n.to = l /\ n.cause = job[w].cause
    OBVIOUS
  <2>1. PICK via \in Via : <<l, via>> \in found[w]
    BY DEF AInv, Reached, Add
  <2>2. \E n \in NewNotes(w) : n.to = l /\ n.cause = job[w].cause
    <3> DEFINE Of(f) == [to |-> f[1], cause |-> job[w].cause, via |-> f[2],
                         item |-> job[w].item, op |-> job[w].op,
                         rev |-> job[w].rev]
    <3>1. Of(<<l, via>>) \in NewNotes(w)
      BY <2>1 DEF NewNotes
    <3>2. Of(<<l, via>>).to = l /\ Of(<<l, via>>).cause = job[w].cause
      OBVIOUS
    <3> QED BY <3>1, <3>2
  <2> QED BY <2>2 DEF Add
<1> QED BY <1>1, <1>2, <1>3, PTL DEF Spec, AudienceHears

-----------------------------------------------------------------------------
(***************************************************************************)
(* The types.  A request that changes an item has its item, and its number *)
(* of the change is still to be had when it is about to write.             *)
(***************************************************************************)
Writing == {w \in Workers : pc[w] = "write"}

RequestOK(w) ==
  /\ pc[w] \in {"write", "new", "on", "all", "add"} =>
       job[w] \in Job /\ job[w].op \in Op /\ job[w].item \in Ids
  /\ pc[w] = "drop" => job[w] \in Job /\ job[w].listener \in Listeners

TypesInv ==
  /\ TypeOK
  /\ \A w \in Workers : RequestOK(w)
  /\ changes + Cardinality(Writing) <= MaxChange

LEMMA WritingIsFinite ==
  ASSUME pc \in [Workers -> Step], pc' \in [Workers -> Step]
  PROVE  /\ Cardinality(Writing) \in Nat /\ Cardinality(Writing') \in Nat
         /\ \A w \in Workers :
              /\ Writing' = Writing \cup {w} =>
                   Cardinality(Writing') <= Cardinality(Writing) + 1
              /\ w \in Writing /\ Writing' = Writing \ {w} =>
                   Cardinality(Writing') = Cardinality(Writing) - 1
         /\ Writing' \subseteq Writing =>
              Cardinality(Writing') <= Cardinality(Writing)
<1>1. IsFiniteSet(Writing) /\ IsFiniteSet(Writing')
  BY WorkersAssumption, FS_Subset DEF Writing
<1>2. Cardinality(Writing) \in Nat /\ Cardinality(Writing') \in Nat
  BY <1>1, FS_CardinalityType
<1>3. ASSUME NEW w \in Workers, Writing' = Writing \cup {w}
      PROVE  Cardinality(Writing') <= Cardinality(Writing) + 1
  <2>1. CASE w \in Writing
    <3>1. Writing' = Writing
      BY <1>3, <2>1
    <3> QED BY <1>2, <3>1
  <2>2. CASE w \notin Writing
    BY <1>1, <1>2, <1>3, <2>2, FS_AddElement
  <2> QED BY <2>1, <2>2
<1>4. ASSUME NEW w \in Workers, w \in Writing, Writing' = Writing \ {w}
      PROVE  Cardinality(Writing') = Cardinality(Writing) - 1
  BY <1>1, <1>4, FS_RemoveElement
<1>5. Writing' \subseteq Writing => Cardinality(Writing') <= Cardinality(Writing)
  BY <1>1, FS_Subset
<1> QED BY <1>2, <1>3, <1>4, <1>5

LEMMA InitTypes == Init => TypesInv
<1> SUFFICES ASSUME Init PROVE TypesInv
  OBVIOUS
<1>1. TypeOK
  BY DEF Init, Items!Init, TypeOK, Step
<1>2. Writing = {} /\ \A w \in Workers : RequestOK(w)
  BY DEF Init, Writing, RequestOK
<1>3. Cardinality(Writing) = 0
  BY <1>2, FS_EmptySet
<1> QED BY <1>1, <1>2, <1>3, MaxChangeAssumption DEF Init, TypesInv

\* One worker goes on, and the number of those about to write does not grow.
LEMMA TypesMove ==
  ASSUME TypesInv, NEW w \in Workers, NEW step \in Step \ {"write"},
         pc' = [pc EXCEPT ![w] = step], changes' = changes,
         store' \in [Ids -> Items!Version \cup {Items!New, Items!Removed}],
         issued' \subseteq Revs,
         listeners' \in [Listeners -> Settings \cup {NotYet, Gone}],
         notes' \subseteq Note,
         NEW q \in Job \cup {NoJob}, job' = [job EXCEPT ![w] = q],
         step # "idle" => q \in Job,
         step \in {"new", "on", "all", "add"} => q.op \in Op /\ q.item \in Ids,
         step = "drop" => q.listener \in Listeners,
         found' \in [Workers -> SUBSET (Listeners \X Via)],
         doomed' \in [Workers -> SUBSET Note],
         steady' \in [Workers -> SUBSET Listeners]
  PROVE  TypesInv'
<1>1. pc' \in [Workers -> Step] /\ job' \in [Workers -> Job \cup {NoJob}]
  BY DEF TypesInv, TypeOK
<1>2. TypeOK'
  BY <1>1 DEF TypesInv, TypeOK
<1>3. \A v \in Workers : RequestOK(v)'
  BY DEF TypesInv, TypeOK, RequestOK
<1>4. (changes + Cardinality(Writing) <= MaxChange)'
  <2>1. Writing' \subseteq Writing
    BY DEF TypesInv, TypeOK, Writing
  <2>2. Cardinality(Writing') <= Cardinality(Writing)
        /\ Cardinality(Writing') \in Nat /\ Cardinality(Writing) \in Nat
    BY <1>1, <2>1, WritingIsFinite DEF TypesInv, TypeOK
  <2> QED BY <2>2, MaxChangeAssumption DEF TypesInv, TypeOK, Change
<1> QED BY <1>2, <1>3, <1>4 DEF TypesInv

\* A request ends.
LEMMA TypesEnd ==
  ASSUME TypesInv, NEW w \in Workers, Go(w, "idle"), notes' \subseteq Note,
         UNCHANGED <<store, issued, listeners, changes>>
  PROVE  TypesInv'
<1>1. /\ pc' = [pc EXCEPT ![w] = "idle"] /\ job' = [job EXCEPT ![w] = NoJob]
      /\ found' = [found EXCEPT ![w] = {}] /\ doomed' = [doomed EXCEPT ![w] = {}]
      /\ steady' = [steady EXCEPT ![w] = {}]
  BY DEF Go
<1>2. /\ found' \in [Workers -> SUBSET (Listeners \X Via)]
      /\ doomed' \in [Workers -> SUBSET Note]
      /\ steady' \in [Workers -> SUBSET Listeners]
  BY <1>1 DEF TypesInv, TypeOK
<1> QED BY <1>1, <1>2, TypesMove DEF TypesInv, TypeOK, Step

LEMMA TypesBegin ==
  ASSUME TypesInv, NEW w \in Workers, NEW op \in Op, NEW i \in Ids,
         NEW base \in Revs \cup {NoRev}, NEW r \in Revs \cup {NoRev},
         Begin(w, op, i, base, r)
  PROVE  TypesInv'
<1> DEFINE q == [NoJob EXCEPT !.op = op, !.item = i, !.base = base, !.rev = r]
<1>1. /\ pc[w] = "idle" /\ pc' = [pc EXCEPT ![w] = "write"]
      /\ changes + Cardinality(Writing) < MaxChange
      /\ job' = [job EXCEPT ![w] = q]
      /\ UNCHANGED <<store, issued, listeners, notes, found, doomed, changes, steady>>
  BY HandlerSteps DEF Begin, Writing
<1>2. q \in Job /\ q.op = op /\ q.item = i
  BY DEF NoJob, Job
<1> HIDE DEF q
<1>3. TypeOK'
  BY <1>1, <1>2 DEF TypesInv, TypeOK, Step
<1>4. \A v \in Workers : RequestOK(v)'
  BY <1>1, <1>2 DEF TypesInv, TypeOK, RequestOK
<1>5. (changes + Cardinality(Writing) <= MaxChange)'
  <2>1. Writing' = Writing \cup {w}
    BY <1>1 DEF TypesInv, TypeOK, Writing
  <2>2. Cardinality(Writing') <= Cardinality(Writing) + 1
        /\ Cardinality(Writing') \in Nat /\ Cardinality(Writing) \in Nat
    BY <1>3, <2>1, WritingIsFinite DEF TypesInv, TypeOK
  <2> QED BY <1>1, <2>2, MaxChangeAssumption DEF TypesInv, TypeOK, Change
<1> QED BY <1>3, <1>4, <1>5 DEF TypesInv

\* Clients ask for revisions that there are.
LEMMA TypesArrive ==
  ASSUME TypesInv, NEW w \in Workers, Arrive(w)
  PROVE  TypesInv'
<1>1. CASE StartPost(w)
  BY <1>1, TypesBegin DEF StartPost, BeginWrite, Op
<1>2. CASE StartPut(w)
  <2>1. PICK i \in Ids, base \in issued : BeginWrite(w, "put", i, base)
    BY <1>2 DEF StartPut
  <2>2. base \in Revs
    BY DEF TypesInv, TypeOK
  <2> QED BY <2>1, <2>2, TypesBegin DEF BeginWrite, Op
<1>3. CASE StartDelete(w)
  BY <1>3, TypesBegin DEF StartDelete, Op
<1>4. CASE \E l \in Listeners : StartDeleteListener(w, l)
  <2>1. PICK l \in Listeners : StartDeleteListener(w, l)
    BY <1>4
  <2> DEFINE q == [NoJob EXCEPT !.op = "drop", !.listener = l]
  <2>2. q \in Job /\ q.listener = l
    BY DEF NoJob, Job
  <2> HIDE DEF q
  <2>3. /\ pc' = [pc EXCEPT ![w] = "drop"] /\ job' = [job EXCEPT ![w] = q]
        /\ doomed' = [doomed EXCEPT ![w] = Doomed(l)]
        /\ UNCHANGED <<store, issued, listeners, notes, found, changes, steady>>
    BY <2>1 DEF StartDeleteListener, q
  <2>4. doomed' \in [Workers -> SUBSET Note]
    BY <2>3 DEF TypesInv, TypeOK, Doomed
  <2>5. /\ store' \in [Ids -> Items!Version \cup {Items!New, Items!Removed}]
        /\ issued' \subseteq Revs /\ notes' \subseteq Note
        /\ listeners' \in [Listeners -> Settings \cup {NotYet, Gone}]
        /\ found' \in [Workers -> SUBSET (Listeners \X Via)]
        /\ steady' \in [Workers -> SUBSET Listeners]
    BY <2>3 DEF TypesInv, TypeOK
  <2>6. "drop" \in Step \ {"write"}
    BY DEF Step
  <2> QED BY <2>2, <2>3, <2>4, <2>5, <2>6, TypesMove
<1> QED BY <1>1, <1>2, <1>3, <1>4 DEF Arrive

LEMMA ChangeTypes ==
  ASSUME NInv, TypesInv, NEW w \in Workers, pc[w] = "write",
         ChangeItem(job[w]) \/ (NothingToDelete(job[w]) /\ UNCHANGED itemVars)
  PROVE  /\ store' \in [Ids -> Items!Version \cup {Items!New, Items!Removed}]
         /\ issued' \subseteq Revs
<1> DEFINE q == job[w]
<1>1. store' \in [Ids -> Items!Version \cup {Items!New, Items!Removed}]
  BY ChangeOK DEF StoreOK
<1>2. q.op \in {"post", "put"} => q.rev \in Revs
  BY DEF NInv, JobsOK, AtStep
<1>3. q.op \in Op
  BY DEF TypesInv, RequestOK
<1>4. issued' \subseteq Revs
  <2>1. CASE UNCHANGED itemVars
    BY <2>1 DEF itemVars, TypesInv, TypeOK
  <2>2. CASE ChangeItem(q) /\ q.op = "post"
    BY <1>2, <2>2 DEF ChangeItem, Items!Create, Items!Issue, TypesInv, TypeOK
  <2>3. CASE ChangeItem(q) /\ q.op = "put"
    BY <1>2, <2>3 DEF ChangeItem, Items!Update, Items!Issue, TypesInv, TypeOK
  <2>4. CASE ChangeItem(q) /\ q.op = "delete"
    BY <2>4 DEF ChangeItem, Items!Remove, TypesInv, TypeOK
  <2> QED BY <1>3, <2>1, <2>2, <2>3, <2>4 DEF Op
<1> QED BY <1>1, <1>4

\* The change is counted, and the worker is no longer about to write.
LEMMA TypesWrite ==
  ASSUME NInv, TypesInv, NEW w \in Workers, Write(w)
  PROVE  TypesInv'
<1> DEFINE now == {l \in Live : Hears(listeners[l], job[w].op, job[w].item)}
           q   == [job[w] EXCEPT !.cause = changes + 1]
<1>1. /\ pc[w] = "write"
      /\ ChangeItem(job[w]) \/ (NothingToDelete(job[w]) /\ UNCHANGED itemVars)
      /\ changes' = changes + 1
      /\ pc' = [pc EXCEPT ![w] = Handler[job[w].op].write]
      /\ UNCHANGED <<listeners, notes, found, doomed>>
  BY DEF Write
<1>2. job[w] \in Job /\ job[w].op \in Op /\ job[w].item \in Ids
  BY <1>1 DEF TypesInv, RequestOK
<1>3. PICK step \in {"new", "on"} : pc' = [pc EXCEPT ![w] = step]
  BY <1>1, <1>2, HandlerSteps DEF Op
<1>4. pc'[w] = step /\ pc' \in [Workers -> Step]
  BY <1>3 DEF TypesInv, TypeOK, Step
<1>5. job' = [job EXCEPT ![w] = q] /\ steady' = [steady EXCEPT ![w] = now]
  BY <1>4 DEF Write
<1>6. changes + Cardinality(Writing) <= MaxChange /\ Writing' = Writing \ {w}
      /\ w \in Writing /\ changes \in Nat
  BY <1>1, <1>3, MaxChangeAssumption DEF TypesInv, TypeOK, Writing, Change
<1>7. Cardinality(Writing') = Cardinality(Writing) - 1
      /\ Cardinality(Writing') \in Nat /\ Cardinality(Writing) \in Nat
  BY <1>4, <1>6, WritingIsFinite DEF TypesInv, TypeOK
<1>8. changes + 1 \in Change
  BY <1>6, <1>7, MaxChangeAssumption DEF Change
<1>9. q \in Job /\ q.op = job[w].op /\ q.item = job[w].item
  BY <1>2, <1>8 DEF Job
<1> HIDE DEF q
<1>10. now \subseteq Listeners
  BY DEF Live
<1> HIDE DEF now
<1>11. TypeOK'
  <2>1. job' \in [Workers -> Job \cup {NoJob}]
    BY <1>5, <1>9 DEF TypesInv, TypeOK
  <2>2. steady' \in [Workers -> SUBSET Listeners]
    BY <1>5, <1>10 DEF TypesInv, TypeOK
  <2>3. /\ store' \in [Ids -> Items!Version \cup {Items!New, Items!Removed}]
        /\ issued' \subseteq Revs
    BY <1>1, ChangeTypes
  <2> QED BY <1>1, <1>4, <1>8, <2>1, <2>2, <2>3 DEF TypesInv, TypeOK
<1>12. \A v \in Workers : RequestOK(v)'
  BY <1>2, <1>3, <1>5, <1>9 DEF TypesInv, TypeOK, RequestOK
<1> QED BY <1>1, <1>6, <1>7, <1>11, <1>12 DEF TypesInv

LEMMA TypesSeek ==
  ASSUME NInv, TypesInv, NEW w \in Workers, SeekNew(w) \/ SeekOn(w) \/ SeekAll(w)
  PROVE  TypesInv'
<1>1. PICK step \in {"new", "on", "all"}, via \in Via, matches \in SUBSET Live :
        Seek(w, step, via, matches)
  <2>1. CASE SeekNew(w)
    BY <2>1 DEF SeekNew, Via
  <2>2. CASE SeekOn(w)
    BY <2>2 DEF SeekOn, Via
  <2>3. CASE SeekAll(w)
    BY <2>3 DEF SeekAll, Via
  <2> QED BY <2>1, <2>2, <2>3
<1>2. /\ pc[w] = step /\ pc' = [pc EXCEPT ![w] = Handler[job[w].op][step]]
      /\ found' = [found EXCEPT ![w] = @ \cup (matches \X {via})]
      /\ UNCHANGED <<store, issued, listeners, notes, job, doomed, changes, steady>>
  BY <1>1 DEF Seek
<1>3. job[w] \in Job /\ job[w].op \in Op /\ job[w].item \in Ids
  BY <1>2 DEF TypesInv, RequestOK
<1>4. \/ job[w].op = "post" /\ step = "new"
      \/ job[w].op \in {"put", "delete"} /\ step \in {"on", "all"}
  BY <1>2 DEF NInv, JobsOK, AtStep
<1>5. Handler[job[w].op][step] \in {"all", "add"}
  BY <1>4, HandlerSteps
<1>6. found' \in [Workers -> SUBSET (Listeners \X Via)]
  BY <1>2 DEF TypesInv, TypeOK, Live
<1>7. job' = [job EXCEPT ![w] = job[w]]
  BY <1>2 DEF TypesInv, TypeOK
<1>8. PICK q : q = job[w]
  OBVIOUS
<1>9. PICK next : next = Handler[job[w].op][step]
  OBVIOUS
<1> QED BY <1>2, <1>3, <1>5, <1>6, <1>7, <1>8, <1>9, TypesMove
        DEF TypesInv, TypeOK, Step

LEMMA TypesAdd ==
  ASSUME NInv, TypesInv, NEW w \in Workers, Add(w)
  PROVE  TypesInv'
<1>1. /\ pc[w] = "add" /\ notes' = notes \cup NewNotes(w)
      /\ Go(w, Handler[job[w].op].add)
      /\ UNCHANGED <<store, issued, listeners, changes>>
  BY DEF Add
<1>2. job[w] \in Job /\ job[w].op \in Op /\ job[w].item \in Ids
  BY <1>1 DEF TypesInv, RequestOK
<1>3. Go(w, "idle")
  BY <1>1, <1>2, HandlerSteps
<1>4. NewNotes(w) \subseteq Note
  <2>1. \A f \in found[w] : f[1] \in Listeners /\ f[2] \in Via
    BY DEF TypesInv, TypeOK
  <2> QED BY <1>2, <2>1 DEF NewNotes, Note, Job
<1>5. notes' \subseteq Note
  BY <1>1, <1>4 DEF TypesInv, TypeOK
<1> QED BY <1>1, <1>3, <1>5, TypesEnd

LEMMA TypesDrop ==
  ASSUME TypesInv, NEW w \in Workers, DropListener(w)
  PROVE  TypesInv'
<1>1. /\ pc[w] = "drop" /\ job[w].listener \in Listeners
      /\ pc' = [pc EXCEPT ![w] = "idle"] /\ job' = [job EXCEPT ![w] = NoJob]
      /\ UNCHANGED <<store, issued, found, changes>>
  BY DEF DropListener, TypesInv, RequestOK
<1>2. /\ listeners' \in [Listeners -> Settings \cup {NotYet, Gone}]
      /\ notes' \subseteq Note /\ doomed' \in [Workers -> SUBSET Note]
      /\ steady' \in [Workers -> SUBSET Listeners]
  BY <1>1 DEF DropListener, TypesInv, TypeOK
<1> QED BY <1>1, <1>2, TypesMove DEF TypesInv, TypeOK, Step

\* A change of a listener or a notification on its own.
LEMMA TypesOther ==
  ASSUME TypesInv, UNCHANGED <<store, issued, pc, job, found, doomed, changes>>,
         listeners' \in [Listeners -> Settings \cup {NotYet, Gone}],
         notes' \subseteq Note, steady' \in [Workers -> SUBSET Listeners]
  PROVE  TypesInv'
BY DEF TypesInv, TypeOK, RequestOK, Writing

LEMMA TypesStep ==
  ASSUME NInv, TypesInv, [Next]_vars
  PROVE  TypesInv'
<1>1. CASE UNCHANGED vars
  BY <1>1, TypesOther DEF vars, TypesInv, TypeOK
<1>2. ASSUME NEW w \in Workers, Work(w)
      PROVE  TypesInv'
  <2>1. CASE Refuse(w)
    BY <2>1, TypesEnd DEF Refuse, TypesInv, TypeOK
  <2> QED BY <1>2, <2>1, TypesWrite, TypesSeek, TypesAdd, TypesDrop DEF Work
<1>3. ASSUME NEW w \in Workers, Fail(w)
      PROVE  TypesInv'
  BY <1>3, TypesEnd DEF Fail, TypesInv, TypeOK
<1>4. ASSUME NEW l \in Listeners, NEW s \in Settings, SetListener(l, s),
             UNCHANGED <<store, issued, notes, pc, job, found, doomed, changes>>
      PROVE  TypesInv'
  <2>1. /\ listeners' \in [Listeners -> Settings \cup {NotYet, Gone}]
        /\ steady' \in [Workers -> SUBSET Listeners]
    BY <1>4 DEF SetListener, TypesInv, TypeOK
  <2> QED BY <1>4, <2>1, TypesOther DEF TypesInv, TypeOK
<1>5. CASE \E l \in Listeners : PostListener(l) \/ PutListener(l)
  BY <1>4, <1>5 DEF PostListener, PutListener
<1>6. CASE \E n \in notes : DeleteNotification(n)
  BY <1>6, TypesOther DEF DeleteNotification, TypesInv, TypeOK
<1> QED BY <1>1, <1>2, <1>3, <1>5, <1>6, TypesArrive DEF Next

\* The variables keep their types: every notification names a request's item,
\* and no more changes are counted than the bound allows.
THEOREM TypesOfNotifications == Spec => []TypeOK
<1>1. NInv /\ [Next]_vars => NInv'
  BY StepInv
<1>2. (NInv /\ TypesInv) /\ [Next]_vars => TypesInv'
  BY TypesStep
<1>3. TypesInv => TypeOK
  BY DEF TypesInv
<1> QED BY <1>1, <1>2, <1>3, InitInv, InitTypes, PTL DEF Spec

-----------------------------------------------------------------------------
(***************************************************************************)
(* Theorems about Mirror, for every number of workers, items, listeners    *)
(* and changes.                                                            *)
(***************************************************************************)

(***************************************************************************)
(* The inductive invariant.  A client whose copy of an item is not the     *)
(* item as it is, is going to be told: a handler will find its listener,   *)
(* in whichever of its searches are still to come, or has, or the          *)
(* notification is there and not yet fetched.                              *)
(***************************************************************************)
Telling == {"new", "on", "all", "add"}

Finds(w, l) ==
  /\ pc[w] = "new" => listeners[l].notify_of_new
  /\ pc[w] = "all" => \/ <<l, "listen_on">> \in found[w]
                      \/ listeners[l].listen_on_all
  /\ pc[w] = "add" => \E via \in Via : <<l, via>> \in found[w]

UnderWay(l, i) ==
  \/ \E w \in Workers : pc[w] \in Telling /\ job[w].item = i /\ Finds(w, l)
  \/ \E n \in notes \ fetched : n.to = l /\ n.item = i

Owed(l, i) ==
  /\ Follows(l, i) /\ i \in scanned[l] /\ <<l, i>> \notin missed
  /\ mirror[l][i] # RevOf(i)

\* Listeners and what their clients have read.
ClientOK ==
  /\ DOMAIN mirror = Listeners /\ \A l \in Listeners : DOMAIN mirror[l] = Ids
  /\ DOMAIN scanned = Listeners
  /\ fetched \subseteq notes
  /\ \A l \in Listeners : listeners[l] = NotYet => scanned[l] = {}

\* Only ids that were given to items are listened to.
ListenersOK ==
  /\ listeners \in [Listeners -> Settings \cup {NotYet, Gone}]
  /\ DOMAIN found = Workers /\ DOMAIN doomed = Workers
  /\ \A l \in Listeners : Exists(l) => Known(listeners[l])
  /\ \A w \in Workers : pc[w] = "drop" =>
       job[w].listener \in Listeners /\ \A n \in doomed[w] : n.to = job[w].listener

\* A change has one number, and no notification before its handler adds them.
CausesOK ==
  /\ changes \in Nat
  /\ \A n \in notes : n.cause \in 0..changes
  /\ \A w \in Workers : pc[w] \in Telling =>
       /\ job[w].cause \in 1..changes
       /\ \A n \in notes : n.cause # job[w].cause
       /\ \A v \in Workers \ {w} :
            pc[v] \in Telling => job[v].cause # job[w].cause

ToldInv ==
  /\ ClientOK /\ ListenersOK /\ CausesOK
  /\ \A l \in Listeners, i \in Ids : Owed(l, i) => UnderWay(l, i)

-----------------------------------------------------------------------------
\* The client leaves the server to itself.
LEMMA MirrorStep == MirrorNext => [Next]_vars
<1> SUFFICES ASSUME MirrorNext PROVE [Next]_vars
  OBVIOUS
<1>1. CASE \E w \in Workers : Serve(w) \/ Lose(w) \/ Arrive(w)
  BY <1>1 DEF Serve, Lose, Next
<1>2. CASE \E l \in Listeners : Subscribe(l) \/ Resubscribe(l)
  BY <1>2 DEF Subscribe, Resubscribe, Next
<1>3. CASE \E l \in Listeners : Fetch(l) \/ \E i \in Ids : Scan(l, i)
  BY <1>3 DEF Fetch, Scan
<1>4. CASE \E n \in notes : Discard(n)
  BY <1>4 DEF Discard, Next
<1> QED BY <1>1, <1>2, <1>3, <1>4 DEF MirrorNext

(***************************************************************************)
(* With its clients the server does nothing that it does not do without    *)
(* them, so that what holds of Notifications holds of Mirror.              *)
(***************************************************************************)
THEOREM MirrorIsServed == MirrorSpec => Spec
<1>1. MirrorInit => Init
  BY DEF MirrorInit
<1>2. [MirrorNext]_allVars => [Next]_vars
  BY MirrorStep DEF allVars
<1> QED BY <1>1, <1>2, PTL DEF MirrorSpec, Spec

LEMMA GivenStaysGiven ==
  ASSUME NInv, [Next]_vars
  PROVE  \A i : store[i] # Items!New => store'[i] # Items!New
<1>1. CASE \E w \in Workers : Write(w)
  <2>1. PICK w \in Workers : Write(w)
    BY <1>1
  <2>2. PICK q : q = job[w]
    OBVIOUS
  <2> QED BY <2>1, <2>2, ChangeOK DEF Write
<1>2. CASE ~\E w \in Workers : Write(w)
  <2>1. UNCHANGED store
    BY <1>2 DEF Next, vars, itemVars, Work, Arrive, Refuse, SeekNew, SeekOn,
       SeekAll, Seek, Add, DropListener, StartPost, StartPut, StartDelete,
       BeginWrite, Begin, StartDeleteListener, Fail, PostListener,
       PutListener, DeleteNotification
  <2> QED BY <2>1
<1> QED BY <1>1, <1>2

\* What a step leaves of the other workers.
OthersKept(w) ==
  \A v \in Workers \ {w} : /\ pc'[v] = pc[v] /\ job'[v] = job[v]
                           /\ found'[v] = found[v] /\ doomed'[v] = doomed[v]

\* The steps of a request about an item.
LEMMA ItemSteps ==
  ASSUME NInv, ListenersOK, NEW w \in Workers,
         \/ Write(w) \/ Refuse(w) \/ SeekNew(w) \/ SeekOn(w) \/ SeekAll(w)
         \/ Add(w) \/ Fail(w) \/ StartPost(w) \/ StartPut(w) \/ StartDelete(w)
  PROVE  /\ OthersKept(w) /\ pc'[w] # "drop" /\ UNCHANGED listeners
         /\ DOMAIN found' = Workers /\ DOMAIN doomed' = Workers
<1> USE DEF OthersKept
<1>0. /\ DOMAIN pc = Workers /\ DOMAIN job = Workers
      /\ DOMAIN found = Workers /\ DOMAIN doomed = Workers /\ AtStep(w)
  BY DEF NInv, JobsOK, ListenersOK
<1>1. CASE Write(w)
  <2>1. job[w].op \in Op
    BY <1>0, <1>1 DEF AtStep, Write, Op
  <2>2. /\ pc' = [pc EXCEPT ![w] = Handler[job[w].op].write]
        /\ pc'[w] \in {"new", "on"}
    BY <1>0, <1>1, <2>1, HandlerSteps DEF Write, Op
  <2>3. /\ job' = [job EXCEPT ![w].cause = changes + 1]
        /\ UNCHANGED <<listeners, found, doomed>>
    BY <1>1, <2>2 DEF Write
  <2> QED BY <1>0, <2>2, <2>3
<1>2. CASE Refuse(w) \/ Fail(w)
  BY <1>0, <1>2 DEF Refuse, Fail, Go
<1>3. CASE SeekNew(w) \/ SeekOn(w) \/ SeekAll(w)
  <2>1. \E via, matches : Seek(w, pc[w], via, matches)
    BY <1>3 DEF SeekNew, SeekOn, SeekAll, Seek
  <2>2. PICK via, matches : Seek(w, pc[w], via, matches)
    BY <2>1
  <2>3. pc[w] \in {"new", "on", "all"}
    BY <1>3 DEF SeekNew, SeekOn, SeekAll, Seek
  <2>4. pc' = [pc EXCEPT ![w] = Handler[job[w].op][pc[w]]]
    BY <2>2 DEF Seek
  <2>5. Handler[job[w].op][pc[w]] \in {"add", "all"}
    BY <1>0, <2>3, HandlerSteps DEF AtStep
  <2> QED BY <1>0, <2>2, <2>4, <2>5 DEF Seek
<1>4. CASE Add(w)
  <2>1. Go(w, "idle") /\ UNCHANGED listeners
    <3>1. job[w].op \in Op
      BY <1>0, <1>4 DEF AtStep, Add, Op
    <3> QED BY <1>4, <3>1, HandlerSteps DEF Add
  <2> QED BY <1>0, <2>1 DEF Go
<1>5. CASE StartPost(w) \/ StartPut(w) \/ StartDelete(w)
  <2>1. PICK op \in Op : \E i, base, r : Begin(w, op, i, base, r)
    BY <1>5 DEF StartPost, StartPut, StartDelete, BeginWrite, Op
  <2>2. \E q : job' = [job EXCEPT ![w] = q]
    BY <2>1 DEF Begin
  <2>3. /\ pc' = [pc EXCEPT ![w] = "write"]
        /\ UNCHANGED <<listeners, found, doomed>>
    BY <2>1, HandlerSteps DEF Begin
  <2> QED BY <1>0, <2>2, <2>3
<1> QED BY <1>1, <1>2, <1>3, <1>4, <1>5

LEMMA StepListeners ==
  ASSUME NInv, ListenersOK, [Next]_vars
  PROVE  ListenersOK'
<1>1. \A s : Known(s) => Known(s)'
  BY GivenStaysGiven DEF Known
<1>2. ASSUME NEW w \in Workers,
             \/ Write(w) \/ Refuse(w) \/ SeekNew(w) \/ SeekOn(w) \/ SeekAll(w)
             \/ Add(w) \/ Fail(w) \/ StartPost(w) \/ StartPut(w) \/ StartDelete(w)
      PROVE  ListenersOK'
  <2>1. /\ OthersKept(w) /\ pc'[w] # "drop" /\ UNCHANGED listeners
        /\ DOMAIN found' = Workers /\ DOMAIN doomed' = Workers
    BY <1>2, ItemSteps
  <2> QED BY <1>1, <2>1 DEF ListenersOK, OthersKept, Exists
<1>3. ASSUME NEW w \in Workers, NEW l \in Listeners, StartDeleteListener(w, l)
      PROVE  ListenersOK'
  <2>1. /\ UNCHANGED <<listeners, found>> /\ OthersKept(w)
        /\ doomed' = [doomed EXCEPT ![w] = Doomed(l)]
    BY <1>3 DEF StartDeleteListener, OthersKept, NInv, JobsOK, ListenersOK
  <2>2. job'[w].listener = l
    BY <1>3 DEF StartDeleteListener, NInv, JobsOK, NoJob
  <2>3. doomed'[w] = Doomed(l) /\ DOMAIN doomed' = Workers
    BY <2>1 DEF ListenersOK
  <2>4. ASSUME NEW v \in Workers, pc'[v] = "drop"
        PROVE  job'[v].listener \in Listeners
               /\ \A n \in doomed'[v] : n.to = job'[v].listener
    <3>1. CASE v = w
      BY <2>2, <2>3, <3>1 DEF Doomed
    <3>2. CASE v # w
      BY <2>1, <2>4, <3>2 DEF OthersKept, ListenersOK
    <3> QED BY <3>1, <3>2
  <2> QED BY <1>1, <2>1, <2>3, <2>4 DEF ListenersOK, Exists
<1>4. ASSUME NEW w \in Workers, DropListener(w) PROVE ListenersOK'
  <2>1. PICK l \in Listeners : l = job[w].listener
    BY <1>4 DEF ListenersOK, DropListener
  <2>2. listeners' = [listeners EXCEPT ![l] = Gone]
    BY <1>4, <2>1 DEF DropListener
  <2>3. /\ UNCHANGED found /\ pc'[w] # "drop" /\ OthersKept(w)
        /\ DOMAIN doomed' = Workers
    BY <1>4 DEF DropListener, OthersKept, NInv, JobsOK, ListenersOK
  <2>4. \A k \in Listeners : Exists(k)' => Exists(k) /\ listeners'[k] = listeners[k]
    BY <2>2 DEF Exists, ListenersOK
  <2> QED BY <1>1, <2>2, <2>3, <2>4 DEF ListenersOK, OthersKept
<1>5. ASSUME NEW l \in Listeners, PostListener(l) \/ PutListener(l)
      PROVE  ListenersOK'
  <2>1. PICK s \in Settings : /\ Known(s) /\ SetListener(l, s)
                              /\ UNCHANGED <<pc, job, found, doomed>>
    BY <1>5 DEF PostListener, PutListener
  <2>2. listeners' = [listeners EXCEPT ![l] = s]
    BY <2>1 DEF SetListener
  <2>3. \A k \in Listeners : Exists(k)' =>
          k = l \/ (Exists(k) /\ listeners'[k] = listeners[k])
    BY <2>2 DEF Exists, ListenersOK
  <2>4. listeners'[l] = s
    BY <2>2 DEF ListenersOK
  <2>5. ASSUME NEW k \in Listeners, Exists(k)' PROVE Known(listeners[k])'
    <3>1. PICK r : r = listeners'[k]
      OBVIOUS
    <3>2. Known(r)'
      BY <1>1, <2>1, <2>3, <2>4, <2>5, <3>1 DEF ListenersOK
    <3> QED BY <3>1, <3>2 DEF Known
  <2>6. listeners' \in [Listeners -> Settings \cup {NotYet, Gone}]
    BY <2>2 DEF ListenersOK
  <2> QED BY <2>1, <2>5, <2>6 DEF ListenersOK
<1>6. CASE UNCHANGED vars \/ \E n \in notes : DeleteNotification(n)
  <2>1. UNCHANGED <<listeners, pc, job, found, doomed>>
    BY <1>6 DEF vars, DeleteNotification
  <2> QED BY <1>1, <2>1 DEF ListenersOK, Exists
<1> QED BY <1>2, <1>3, <1>4, <1>5, <1>6 DEF Next, Work, Arrive

\* A request that tells of no change, or no more.
LEMMA SilentCauses ==
  ASSUME CausesOK, NEW w \in Workers, pc'[w] \notin Telling,
         \A v \in Workers \ {w} : pc'[v] = pc[v] /\ job'[v] = job[v],
         notes' \subseteq notes, UNCHANGED changes
  PROVE  CausesOK'
BY DEF CausesOK

\* One that goes on with its searches.
LEMMA SeekCauses ==
  ASSUME CausesOK, NEW w \in Workers, pc[w] \in Telling,
         \A v \in Workers \ {w} : pc'[v] = pc[v],
         UNCHANGED <<job, notes, changes>>
  PROVE  CausesOK'
BY DEF CausesOK

LEMMA StepCauses ==
  ASSUME NInv, ListenersOK, CausesOK, [Next]_vars
  PROVE  CausesOK'
<1>0. /\ DOMAIN pc = Workers /\ DOMAIN job = Workers
      /\ \A w \in Workers : AtStep(w) /\ DOMAIN job[w] = Fields
  BY DEF NInv, JobsOK
<1>1. ASSUME NEW w \in Workers, Write(w) PROVE CausesOK'
  <2>1. OthersKept(w) /\ UNCHANGED notes /\ changes' = changes + 1
    BY <1>1, ItemSteps DEF Write
  <2>2. job[w].op \in Op
    BY <1>0, <1>1 DEF AtStep, Write, Op
  <2>3. pc'[w] \in {"new", "on"}
    BY <1>0, <1>1, <2>2, HandlerSteps DEF Write, Op
  <2>4. job' = [job EXCEPT ![w].cause = changes + 1]
    BY <1>1, <2>3 DEF Write
  <2>5. job'[w].cause = changes + 1
    BY <1>0, <2>4 DEF Fields
  <2>6. changes \in Nat /\ \A k \in 0..changes : k \in 0..(changes + 1) /\ k # changes + 1
    BY DEF CausesOK
  <2>7. \A n \in notes : n.cause \in 0..changes
    BY DEF CausesOK
  <2>8. \A v \in Workers \ {w} : pc'[v] \in Telling =>
          /\ job'[v].cause \in 1..changes
          /\ \A n \in notes : n.cause # job'[v].cause
          /\ \A u \in Workers \ {v, w} :
               pc'[u] \in Telling => job'[u].cause # job'[v].cause
    BY <2>1 DEF CausesOK, OthersKept
  <2> QED BY <2>1, <2>3, <2>5, <2>6, <2>7, <2>8 DEF CausesOK, Telling
<1>2. ASSUME NEW w \in Workers, SeekNew(w) \/ SeekOn(w) \/ SeekAll(w)
      PROVE  CausesOK'
  <2>1. /\ pc[w] \in Telling /\ UNCHANGED <<job, notes, changes>>
    BY <1>2 DEF SeekNew, SeekOn, SeekAll, Seek, Telling
  <2> QED BY <1>2, <2>1, ItemSteps, SeekCauses DEF OthersKept
<1>3. ASSUME NEW w \in Workers, Add(w) PROVE CausesOK'
  <2>1. /\ OthersKept(w) /\ UNCHANGED changes /\ notes' = notes \cup NewNotes(w)
        /\ pc[w] = "add"
    BY <1>3, ItemSteps DEF Add
  <2>2. pc'[w] = "idle"
    <3>1. job[w].op \in Op
      BY <1>0, <1>3 DEF AtStep, Add, Op
    <3> QED BY <1>0, <1>3, <3>1, HandlerSteps DEF Add, Go
  <2>3. \A n \in NewNotes(w) : n.cause = job[w].cause
    BY DEF NewNotes
  <2>4. job[w].cause \in 0..changes
    BY <2>1 DEF CausesOK, Telling
  <2>5. \A v \in Workers \ {w} : pc[v] \in Telling => job[w].cause # job[v].cause
    BY <2>1 DEF CausesOK, Telling
  <2> QED BY <2>1, <2>2, <2>3, <2>4, <2>5 DEF CausesOK, OthersKept, Telling
<1>4. ASSUME NEW w \in Workers, Refuse(w) \/ Fail(w) PROVE CausesOK'
  <2>1. /\ pc'[w] = "idle" /\ UNCHANGED <<notes, changes>>
    BY <1>0, <1>4 DEF Refuse, Fail, Go
  <2> QED BY <1>4, <2>1, ItemSteps, SilentCauses DEF OthersKept, Telling
<1>5. ASSUME NEW w \in Workers, StartPost(w) \/ StartPut(w) \/ StartDelete(w)
      PROVE  CausesOK'
  <2>1. PICK op \in Op : \E i, base, r : Begin(w, op, i, base, r)
    BY <1>5 DEF StartPost, StartPut, StartDelete, BeginWrite, Op
  <2>2. /\ pc' = [pc EXCEPT ![w] = "write"]
        /\ UNCHANGED <<notes, changes>>
    BY <2>1, HandlerSteps DEF Begin
  <2> QED BY <1>0, <1>5, <2>2, ItemSteps, SilentCauses DEF OthersKept, Telling
<1>6. ASSUME NEW w \in Workers, DropListener(w) PROVE CausesOK'
  BY <1>0, <1>6, SilentCauses DEF DropListener, Telling
<1>7. ASSUME NEW w \in Workers, NEW l \in Listeners, StartDeleteListener(w, l)
      PROVE  CausesOK'
  BY <1>0, <1>7, SilentCauses DEF StartDeleteListener, Telling
<1>8. CASE \/ UNCHANGED vars
           \/ \E l \in Listeners : PostListener(l) \/ PutListener(l)
           \/ \E n \in notes : DeleteNotification(n)
  <2>1. notes' \subseteq notes /\ UNCHANGED <<pc, job, changes>>
    BY <1>8 DEF vars, PostListener, PutListener, DeleteNotification
  <2> QED BY <2>1 DEF CausesOK
<1> QED BY <1>1, <1>2, <1>3, <1>4, <1>5, <1>6, <1>7, <1>8 DEF Next, Work, Arrive

LEMMA StepClient ==
  ASSUME ListenersOK, ClientOK, MirrorNext
  PROVE  ClientOK'
<1>0. Gone # NotYet
  <2>1. Gone.state # NotYet.state
    BY DEF Gone, NotYet
  <2> QED BY <2>1
<1>1. ASSUME NEW w \in Workers, Serve(w) PROVE ClientOK'
  <2>1. \A l \in Listeners : listeners'[l] = NotYet => listeners[l] = NotYet
    <3>1. CASE DropListener(w)
      BY <1>0, <3>1 DEF DropListener, ListenersOK
    <3>2. CASE ~DropListener(w)
      BY <1>1, <3>2 DEF Serve, Work, Write, Refuse, SeekNew, SeekOn, SeekAll, Seek, Add
    <3> QED BY <3>1, <3>2
  <2> QED BY <1>1, <2>1 DEF Serve, ClientOK
<1>2. ASSUME NEW w \in Workers, Lose(w) \/ (Arrive(w) /\ UNCHANGED clientVars)
      PROVE  ClientOK'
  <2>1. UNCHANGED <<listeners, notes, mirror, scanned, fetched>>
    BY <1>2 DEF Lose, Fail, Arrive, StartPost, StartPut, StartDelete, BeginWrite,
       Begin, StartDeleteListener, clientVars
  <2> QED BY <2>1 DEF ClientOK
<1>3. ASSUME NEW l \in Listeners, Subscribe(l) PROVE ClientOK'
  <2>1. PICK s : listeners' = [listeners EXCEPT ![l] = s]
    BY <1>3 DEF Subscribe, PostListener, SetListener
  <2>2. listeners[l] = NotYet /\ UNCHANGED <<notes, mirror, scanned, fetched>>
    BY <1>3 DEF Subscribe, PostListener, clientVars
  <2> QED BY <2>1, <2>2 DEF ClientOK, ListenersOK
<1>4. ASSUME NEW l \in Listeners, Resubscribe(l) PROVE ClientOK'
  <2>1. PICK s : listeners' = [listeners EXCEPT ![l] = s]
    BY <1>4 DEF Resubscribe, PutListener, SetListener
  <2>2. /\ UNCHANGED <<notes, mirror, fetched>>
        /\ scanned' = [scanned EXCEPT ![l] = {}]
    BY <1>4 DEF Resubscribe, PutListener
  <2> QED BY <2>1, <2>2 DEF ClientOK, ListenersOK
<1>5. ASSUME NEW l \in Listeners, NEW i \in Ids, Scan(l, i) PROVE ClientOK'
  <2>1. /\ UNCHANGED <<listeners, notes, fetched>> /\ listeners[l] # NotYet
        /\ scanned' = [scanned EXCEPT ![l] = @ \cup {i}]
        /\ mirror' = [mirror EXCEPT ![l][i] = RevOf(i)]
    BY <1>5 DEF Scan, Read, vars, Exists
  <2> QED BY <2>1 DEF ClientOK
<1>6. ASSUME NEW l \in Listeners, Fetch(l) PROVE ClientOK'
  <2>1. PICK n \in notes \ fetched :
          /\ UNCHANGED <<listeners, notes, scanned>> /\ fetched' = fetched \cup {n}
          /\ mirror' = [mirror EXCEPT ![l][n.item] = RevOf(n.item)]
    BY <1>6 DEF Fetch, Read, vars
  <2> QED BY <2>1 DEF ClientOK
<1>7. ASSUME NEW n \in notes, Discard(n) PROVE ClientOK'
  <2>1. /\ UNCHANGED <<listeners, mirror, scanned>>
        /\ notes' = notes \ {n} /\ fetched' = fetched \ {n}
    BY <1>7 DEF Discard, DeleteNotification
  <2> QED BY <2>1 DEF ClientOK
<1> QED BY <1>1, <1>2, <1>3, <1>4, <1>5, <1>6, <1>7 DEF MirrorNext

-----------------------------------------------------------------------------
\* What is under way stays so, as long as nobody touches it.
NotesKept(l, i) ==
  \A n \in notes \ fetched : n.to = l /\ n.item = i =>
    n \in (notes \ fetched)'

LEMMA OthersTell ==
  ASSUME NEW l, NEW i, NEW w \in Workers, OthersKept(w), NotesKept(l, i),
         listeners'[l] = listeners[l], UnderWay(l, i),
         pc[w] \in Telling /\ job[w].item = i => ~Finds(w, l)
  PROVE  UnderWay(l, i)'
BY DEF UnderWay, OthersKept, NotesKept, Finds

\* A change of an item does not change the others.
LEMMA OneItemChanges ==
  ASSUME NInv, NEW w \in Workers, Write(w), NEW i \in Ids, i # job[w].item
  PROVE  RevOf(i)' = RevOf(i)
<1>1. PICK q : q = job[w]
  OBVIOUS
<1>2. q.op \in {"post", "put", "delete"}
  BY <1>1 DEF NInv, JobsOK, AtStep, Write
<1>3. ChangeItem(q) \/ UNCHANGED store
  BY <1>1 DEF Write, itemVars
<1>4. store'[i] = store[i]
  <2>1. CASE q.op = "post"
    BY <1>1, <1>3, <2>1 DEF ChangeItem, Items!Create, NInv, StoreOK
  <2>2. CASE q.op = "put"
    BY <1>1, <1>3, <2>2 DEF ChangeItem, Items!Update, NInv, StoreOK
  <2>3. CASE q.op = "delete"
    BY <1>1, <1>3, <2>3 DEF ChangeItem, Items!Remove, NInv, StoreOK
  <2> QED BY <1>2, <2>1, <2>2, <2>3
<1> QED BY <1>4 DEF RevOf, Items!Present

\* The commit of a change: its handler is about to look for the listeners.
LEMMA WriteOwes ==
  ASSUME NInv, ToldInv, NEW w \in Workers, Serve(w), Write(w),
         NEW l \in Listeners, NEW i \in Ids, Owed(l, i)'
  PROVE  UnderWay(l, i)'
<1>0. /\ DOMAIN pc = Workers /\ DOMAIN job = Workers /\ AtStep(w)
      /\ DOMAIN job[w] = Fields
  BY DEF NInv, JobsOK
<1>1. /\ OthersKept(w) /\ UNCHANGED <<listeners, notes, mirror, scanned, missed>>
      /\ pc[w] = "write" /\ fetched' = fetched
  BY ItemSteps DEF ToldInv, ClientOK, Write, Serve
<1>2. Follows(l, i)
  BY <1>1 DEF Owed, Follows, Exists
<1>3. CASE i # job[w].item
  <2>1. Owed(l, i)
    BY <1>1, <1>2, <1>3, OneItemChanges DEF Owed
  <2>2. UnderWay(l, i)
    BY <2>1 DEF ToldInv
  <2> QED BY <1>1, <2>2, OthersTell DEF NotesKept, Telling
<1>4. CASE i = job[w].item
  <2>1. job[w].op \in {"post", "put", "delete"}
    BY <1>0, <1>1 DEF AtStep
  <2>2. pc' = [pc EXCEPT ![w] = Handler[job[w].op].write]
    BY DEF Write
  <2>3. pc'[w] = IF job[w].op = "post" THEN "new" ELSE "on"
    BY <1>0, <2>1, <2>2, HandlerSteps
  <2>4. job' = [job EXCEPT ![w].cause = changes + 1]
    BY <2>3 DEF Write
  <2>5. job'[w].item = i
    BY <1>0, <1>4, <2>4 DEF Fields
  <2>6. job[w].op = "post" => listeners[l].notify_of_new
    <3> SUFFICES ASSUME job[w].op = "post" PROVE listeners[l].notify_of_new
      OBVIOUS
    <3>1. PICK q : q = job[w]
      OBVIOUS
    <3>2. ChangeItem(q) /\ q.op = "post"
      BY <3>1 DEF Write, NothingToDelete
    <3>3. store[i] = Items!New
      BY <1>4, <3>1, <3>2 DEF ChangeItem, Items!Create
    <3>4. i \notin listeners[l].listen_on
      BY <1>2, <3>3 DEF ToldInv, ListenersOK, Known, Follows
    <3> QED BY <1>2, <3>4 DEF Follows
  <2>7. Finds(w, l)'
    BY <1>1, <2>1, <2>3, <2>6 DEF Finds
  <2> QED BY <2>1, <2>3, <2>5, <2>7 DEF UnderWay, Telling
<1> QED BY <1>3, <1>4

\* A step of a worker that is not telling of the item.
LEMMA StaysTold ==
  ASSUME ToldInv, NEW w \in Workers, OthersKept(w),
         NEW l \in Listeners, NEW i \in Ids, Owed(l, i)',
         pc[w] \in Telling => job[w].item # i,
         listeners'[l] = listeners[l], NotesKept(l, i),
         UNCHANGED <<store, mirror, scanned>>,
         <<l, i>> \in missed => <<l, i>> \in missed'
  PROVE  UnderWay(l, i)'
<1>1. Owed(l, i)
  BY DEF Owed, Follows, Exists, RevOf, Items!Present
<1>2. UnderWay(l, i)
  BY <1>1 DEF ToldInv
<1> QED BY <1>2, OthersTell

\* A search: the listener it owes is found, or is left to the next one.
LEMMA SeekOwes ==
  ASSUME NInv, ToldInv, NEW w \in Workers, Serve(w),
         SeekNew(w) \/ SeekOn(w) \/ SeekAll(w),
         NEW l \in Listeners, NEW i \in Ids, Owed(l, i)'
  PROVE  UnderWay(l, i)'
<1>1. /\ OthersKept(w)
      /\ UNCHANGED <<store, job, listeners, notes, mirror, scanned, missed>>
      /\ pc[w] \in Telling /\ fetched' = fetched
  BY ItemSteps DEF ToldInv, ClientOK, SeekNew, SeekOn, SeekAll, Seek, Serve, Telling
<1>2. Owed(l, i)
  BY <1>1 DEF Owed, Follows, Exists, RevOf, Items!Present
<1>3. CASE job[w].item # i
  BY <1>1, <1>3, StaysTold DEF NotesKept
<1>4. CASE job[w].item = i /\ ~Finds(w, l)
  <2>1. UnderWay(l, i)
    BY <1>2 DEF ToldInv
  <2> QED BY <1>1, <1>4, <2>1, OthersTell DEF NotesKept
<1>5. CASE job[w].item = i /\ Finds(w, l)
  <2>0. /\ pc' = [pc EXCEPT ![w] = Handler[job[w].op][pc[w]]]
        /\ DOMAIN pc = Workers /\ DOMAIN found = Workers /\ AtStep(w)
    BY DEF NInv, JobsOK, ToldInv, ListenersOK, SeekNew, SeekOn, SeekAll, Seek
  <2>1. Follows(l, i)
    BY <1>2 DEF Owed
  <2>2. pc'[w] \in Telling /\ Finds(w, l)'
    <3>1. CASE SeekNew(w)
      <4>1. pc[w] = "new" /\ pc'[w] = "add"
        BY <2>0, <3>1, HandlerSteps DEF AtStep, SeekNew, Seek
      <4>2. <<l, "notify_of_new">> \in found'[w]
        BY <1>5, <2>0, <2>1, <3>1, <4>1 DEF SeekNew, Seek, Live, Finds, Follows
      <4> QED BY <4>1, <4>2 DEF Finds, Via, Telling
    <3>2. CASE SeekOn(w)
      <4>1. pc[w] = "on" /\ pc'[w] = "all"
        BY <2>0, <3>2, HandlerSteps DEF AtStep, SeekOn, Seek
      <4>2. i \in listeners[l].listen_on => <<l, "listen_on">> \in found'[w]
        BY <1>5, <2>0, <2>1, <3>2 DEF SeekOn, Seek, Live, Follows
      <4> QED BY <1>1, <2>1, <4>1, <4>2 DEF Finds, Follows, Telling
    <3>3. CASE SeekAll(w)
      <4>1. pc[w] = "all" /\ pc'[w] = "add"
        BY <2>0, <3>3, HandlerSteps DEF AtStep, SeekAll, Seek
      <4>2. \/ <<l, "listen_on">> \in found'[w]
            \/ <<l, "listen_on_all">> \in found'[w]
        BY <1>5, <2>0, <2>1, <3>3, <4>1 DEF SeekAll, Seek, Live, Finds, Follows
      <4> QED BY <4>1, <4>2 DEF Finds, Via, Telling
    <3> QED BY <3>1, <3>2, <3>3
  <2> QED BY <1>1, <1>5, <2>2 DEF UnderWay
<1> QED BY <1>3, <1>4, <1>5

\* The notifications are added.
LEMMA AddOwes ==
  ASSUME NInv, ToldInv, NEW w \in Workers, Serve(w), Add(w),
         NEW l \in Listeners, NEW i \in Ids, Owed(l, i)'
  PROVE  UnderWay(l, i)'
<1>1. /\ OthersKept(w) /\ notes' = notes \cup NewNotes(w)
      /\ UNCHANGED <<store, listeners, mirror, scanned, missed>>
      /\ pc[w] = "add" /\ fetched' = fetched
  BY ItemSteps DEF ToldInv, ClientOK, Add, Serve
<1>2. Owed(l, i)
  BY <1>1 DEF Owed, Follows, Exists, RevOf, Items!Present
<1>3. CASE job[w].item # i
  BY <1>1, <1>3, StaysTold DEF NotesKept
<1>4. CASE job[w].item = i /\ ~Finds(w, l)
  <2>1. UnderWay(l, i)
    BY <1>2 DEF ToldInv
  <2> QED BY <1>1, <1>4, <2>1, OthersTell DEF NotesKept
<1>5. CASE job[w].item = i /\ Finds(w, l)
  <2>1. PICK via \in Via : <<l, via>> \in found[w]
    BY <1>1, <1>5 DEF Finds
  <2> DEFINE Of(f) == [to |-> f[1], cause |-> job[w].cause, via |-> f[2],
                       item |-> job[w].item, op |-> job[w].op,
                       rev |-> job[w].rev]
  <2>2. PICK n : n = Of(<<l, via>>)
    OBVIOUS
  <2>3. n \in NewNotes(w)
    BY <2>1, <2>2 DEF NewNotes
  <2>4. n.to = l /\ n.item = i /\ n.cause = job[w].cause
    BY <1>5, <2>2
  <2>5. n \notin notes
    BY <1>1, <2>4 DEF ToldInv, CausesOK, Telling
  <2>6. n \notin fetched
    BY <2>5 DEF ToldInv, ClientOK
  <2> QED BY <1>1, <2>3, <2>4, <2>6 DEF UnderWay
<1> QED BY <1>3, <1>4, <1>5

\* A listener is gone; what is under way to the others stays.
LEMMA DropOwes ==
  ASSUME NInv, ToldInv, NEW w \in Workers, Serve(w), DropListener(w),
         NEW l \in Listeners, NEW i \in Ids, Owed(l, i)'
  PROVE  UnderWay(l, i)'
<1>1. PICK k \in Listeners : k = job[w].listener
  BY DEF ToldInv, ListenersOK, DropListener
<1>2. /\ listeners' = [listeners EXCEPT ![k] = Gone]
      /\ UNCHANGED <<store, mirror, scanned, missed>>
      /\ notes' = notes \ doomed[w] /\ fetched' \subseteq fetched
      /\ pc[w] \notin Telling
  BY <1>1 DEF DropListener, Serve, Telling
<1>3. OthersKept(w)
  BY DEF DropListener, OthersKept, NInv, JobsOK, ToldInv, ListenersOK
<1>4. l # k
  <2>1. listeners'[l] # Gone
    BY DEF Owed, Follows, Exists
  <2> QED BY <1>2, <2>1 DEF ToldInv, ListenersOK
<1>5. listeners'[l] = listeners[l]
  BY <1>2, <1>4 DEF ToldInv, ListenersOK
<1>6. \A n \in doomed[w] : n.to = k
  BY <1>1 DEF ToldInv, ListenersOK, DropListener
<1>7. NotesKept(l, i)
  BY <1>2, <1>4, <1>6 DEF NotesKept
<1> QED BY <1>2, <1>3, <1>5, <1>7, StaysTold

\* A failed notify_* call is the client's to know: its item counts as missed.
LEMMA LoseOwes ==
  ASSUME NInv, ToldInv, NEW w \in Workers, Lose(w),
         NEW l \in Listeners, NEW i \in Ids, Owed(l, i)'
  PROVE  UnderWay(l, i)'
<1>1. /\ OthersKept(w)
      /\ UNCHANGED <<store, listeners, notes, mirror, scanned, fetched>>
  BY ItemSteps DEF ToldInv, Fail, Lose
<1>2. missed' = IF pc[w] \in Telling
                  THEN missed \cup (Listeners \X {job[w].item}) ELSE missed
  BY DEF Lose, Telling
<1>3. pc[w] \in Telling => job[w].item # i
  <2>1. <<l, i>> \notin missed'
    BY DEF Owed
  <2> QED BY <1>2, <2>1
<1>4. <<l, i>> \in missed => <<l, i>> \in missed'
  BY <1>2
<1> QED BY <1>1, <1>3, <1>4, StaysTold DEF NotesKept

\* A request that arrives has changed nothing yet.
LEMMA ArriveOwes ==
  ASSUME NInv, ToldInv, NEW w \in Workers, Arrive(w), UNCHANGED clientVars,
         NEW l \in Listeners, NEW i \in Ids, Owed(l, i)'
  PROVE  UnderWay(l, i)'
<1>1. /\ pc[w] = "idle"
      /\ UNCHANGED <<store, listeners, notes, mirror, scanned, missed, fetched>>
  BY DEF Arrive, StartPost, StartPut, StartDelete, BeginWrite, Begin,
     StartDeleteListener, clientVars
<1>2. OthersKept(w)
  <2>1. CASE StartPost(w) \/ StartPut(w) \/ StartDelete(w)
    BY <2>1, ItemSteps DEF ToldInv
  <2>2. CASE \E k \in Listeners : StartDeleteListener(w, k)
    BY <2>2 DEF StartDeleteListener, OthersKept, NInv, JobsOK, ToldInv, ListenersOK
  <2> QED BY <2>1, <2>2 DEF Arrive
<1> QED BY <1>1, <1>2, StaysTold DEF NotesKept, Telling

-----------------------------------------------------------------------------
\* A client that does nothing about the item.
LEMMA ClientTold ==
  ASSUME ToldInv, NEW l \in Listeners, NEW i \in Ids, Owed(l, i)',
         UNCHANGED <<store, pc, job, found>>,
         listeners'[l] = listeners[l], NotesKept(l, i),
         mirror'[l][i] = mirror[l][i], i \in scanned'[l] => i \in scanned[l],
         <<l, i>> \in missed => <<l, i>> \in missed'
  PROVE  UnderWay(l, i)'
<1>1. Owed(l, i)
  BY DEF Owed, Follows, Exists, RevOf, Items!Present
<1>2. UnderWay(l, i)
  BY <1>1 DEF ToldInv
<1> QED BY <1>2 DEF UnderWay, NotesKept, Finds

\* A listener that is set or changed: its client has read nothing since.
LEMMA SetOwes ==
  ASSUME ToldInv, NEW k \in Listeners, Subscribe(k) \/ Resubscribe(k),
         NEW l \in Listeners, NEW i \in Ids, Owed(l, i)'
  PROVE  UnderWay(l, i)'
<1>1. /\ UNCHANGED <<store, pc, job, found, notes, mirror, fetched, missed>>
      /\ \A j \in Listeners \ {k} :
           listeners'[j] = listeners[j] /\ scanned'[j] = scanned[j]
  <2>1. PICK s : listeners' = [listeners EXCEPT ![k] = s]
    BY DEF Subscribe, Resubscribe, PostListener, PutListener, SetListener
  <2>2. UNCHANGED scanned \/ scanned' = [scanned EXCEPT ![k] = {}]
    BY DEF Subscribe, Resubscribe, clientVars
  <2>3. UNCHANGED <<store, pc, job, found, notes, mirror, fetched, missed>>
    BY DEF Subscribe, Resubscribe, PostListener, PutListener, clientVars
  <2> QED BY <2>1, <2>2, <2>3 DEF ToldInv, ListenersOK, ClientOK
<1>2. scanned'[k] = {}
  BY DEF Subscribe, Resubscribe, PostListener, clientVars, ToldInv, ClientOK
<1>3. l # k
  BY <1>2 DEF Owed
<1> QED BY <1>1, <1>3, ClientTold DEF NotesKept

\* An item that is read is owed no longer.
LEMMA ReadOwes ==
  ASSUME ToldInv, NEW k \in Listeners, Fetch(k) \/ \E i \in Ids : Scan(k, i),
         NEW l \in Listeners, NEW i \in Ids, Owed(l, i)'
  PROVE  UnderWay(l, i)'
<1>0. /\ UNCHANGED <<store, pc, job, found, notes, listeners>>
      /\ RevOf(i)' = RevOf(i)
  BY DEF Fetch, Scan, vars, RevOf, Items!Present
<1>1. CASE Fetch(k)
  <2>1. PICK n \in notes \ fetched :
          /\ n.to = k /\ mirror' = [mirror EXCEPT ![k][n.item] = RevOf(n.item)]
          /\ fetched' = fetched \cup {n} /\ UNCHANGED <<scanned, missed>>
    BY <1>1 DEF Fetch, Read
  <2>2. ~(l = k /\ i = n.item)
    <3> SUFFICES ASSUME l = k, i = n.item PROVE FALSE
      OBVIOUS
    <3>1. mirror'[l][i] = RevOf(i)
      BY <2>1 DEF ToldInv, ClientOK
    <3> QED BY <1>0, <3>1 DEF Owed
  <2>3. mirror'[l][i] = mirror[l][i]
    BY <2>1, <2>2 DEF ToldInv, ClientOK
  <2> QED BY <1>0, <2>1, <2>2, <2>3, ClientTold DEF NotesKept
<1>2. ASSUME NEW j \in Ids, Scan(k, j) PROVE UnderWay(l, i)'
  <2>1. /\ mirror' = [mirror EXCEPT ![k][j] = RevOf(j)]
        /\ scanned' = [scanned EXCEPT ![k] = @ \cup {j}]
        /\ missed' = missed \ {<<k, j>>} /\ UNCHANGED fetched
    BY <1>2 DEF Scan, Read
  <2>2. ~(l = k /\ i = j)
    <3> SUFFICES ASSUME l = k, i = j PROVE FALSE
      OBVIOUS
    <3>1. mirror'[l][i] = RevOf(i)
      BY <2>1 DEF ToldInv, ClientOK
    <3> QED BY <1>0, <3>1 DEF Owed
  <2>3. mirror'[l][i] = mirror[l][i] /\ (i \in scanned'[l] => i \in scanned[l])
    BY <2>1, <2>2 DEF ToldInv, ClientOK
  <2> QED BY <1>0, <2>1, <2>2, <2>3, ClientTold DEF NotesKept
<1> QED BY <1>1, <1>2

\* A notification is deleted after it was acted on.
LEMMA DiscardOwes ==
  ASSUME ToldInv, NEW n \in notes, Discard(n),
         NEW l \in Listeners, NEW i \in Ids, Owed(l, i)'
  PROVE  UnderWay(l, i)'
<1>1. /\ UNCHANGED <<store, pc, job, found, listeners, mirror, scanned, missed>>
      /\ n \in fetched /\ notes' = notes \ {n} /\ fetched' = fetched \ {n}
  BY DEF Discard, DeleteNotification
<1> QED BY <1>1, ClientTold DEF NotesKept

-----------------------------------------------------------------------------
LEMMA InitTold == MirrorInit => ToldInv
<1> SUFFICES ASSUME MirrorInit PROVE ToldInv
  OBVIOUS
<1>1. ClientOK /\ ListenersOK
  BY DEF MirrorInit, Init, ClientOK, ListenersOK, Exists
<1>2. CausesOK
  BY DEF MirrorInit, Init, CausesOK, Telling
<1>3. \A l \in Listeners : ~Exists(l)
  BY DEF MirrorInit, Init, Exists
<1> QED BY <1>1, <1>2, <1>3 DEF ToldInv, Owed, Follows

\* Every step preserves the invariant.
LEMMA StepTold == NInv /\ ToldInv /\ [MirrorNext]_allVars => ToldInv'
<1> SUFFICES ASSUME NInv, ToldInv, [MirrorNext]_allVars PROVE ToldInv'
  OBVIOUS
<1>1. CASE UNCHANGED allVars
  <2>1. UNCHANGED <<store, pc, job, found, doomed, notes, listeners, changes,
                    mirror, scanned, fetched, missed>>
    BY <1>1 DEF allVars, vars, clientVars
  <2>2. ClientOK' /\ CausesOK'
    BY <2>1 DEF ToldInv, ClientOK, CausesOK
  <2>3. ListenersOK'
    BY <2>1 DEF ToldInv, ListenersOK, Exists, Known
  <2>4. ASSUME NEW l \in Listeners, NEW i \in Ids, Owed(l, i)'
        PROVE  UnderWay(l, i)'
    BY <2>1, <2>4, ClientTold DEF NotesKept
  <2> QED BY <2>2, <2>3, <2>4 DEF ToldInv
<1>2. CASE MirrorNext
  <2>1. [Next]_vars
    BY <1>2, MirrorStep
  <2>2. ClientOK' /\ ListenersOK' /\ CausesOK'
    BY <1>2, <2>1, StepClient, StepListeners, StepCauses DEF ToldInv
  <2>3. ASSUME NEW l \in Listeners, NEW i \in Ids, Owed(l, i)'
        PROVE  UnderWay(l, i)'
    <3>1. ASSUME NEW w \in Workers, Serve(w) PROVE UnderWay(l, i)'
      <4>1. CASE Write(w)
        BY <2>3, <3>1, <4>1, WriteOwes
      <4>2. CASE Refuse(w)
        <5>1. /\ OthersKept(w) /\ pc[w] \notin Telling
              /\ UNCHANGED <<store, listeners, notes, mirror, scanned, missed>>
              /\ fetched' = fetched
          BY <3>1, <4>2, ItemSteps
             DEF Refuse, Serve, ToldInv, ClientOK, Telling
        <5> QED BY <2>3, <5>1, StaysTold DEF NotesKept
      <4>3. CASE SeekNew(w) \/ SeekOn(w) \/ SeekAll(w)
        BY <2>3, <3>1, <4>3, SeekOwes
      <4>4. CASE Add(w)
        BY <2>3, <3>1, <4>4, AddOwes
      <4>5. CASE DropListener(w)
        BY <2>3, <3>1, <4>5, DropOwes
      <4> QED BY <3>1, <4>1, <4>2, <4>3, <4>4, <4>5 DEF Serve, Work
    <3>2. ASSUME NEW w \in Workers,
                 Lose(w) \/ (Arrive(w) /\ UNCHANGED clientVars)
          PROVE  UnderWay(l, i)'
      BY <2>3, <3>2, LoseOwes, ArriveOwes
    <3>3. ASSUME NEW k \in Listeners, Subscribe(k) \/ Resubscribe(k)
          PROVE  UnderWay(l, i)'
      BY <2>3, <3>3, SetOwes
    <3>4. ASSUME NEW k \in Listeners, Fetch(k) \/ \E j \in Ids : Scan(k, j)
          PROVE  UnderWay(l, i)'
      BY <2>3, <3>4, ReadOwes
    <3>5. ASSUME NEW n \in notes, Discard(n) PROVE UnderWay(l, i)'
      BY <2>3, <3>5, DiscardOwes
    <3> QED BY <1>2, <3>1, <3>2, <3>3, <3>4, <3>5 DEF MirrorNext
  <2> QED BY <2>2, <2>3 DEF ToldInv
<1> QED BY <1>1, <1>2

(***************************************************************************)
(* A client that has no unread notification about an item, and about whose *)
(* item no handler is at its notify_* call, has the item as it is, unless  *)
(* such a call failed since its last scan.                                 *)
(***************************************************************************)
THEOREM MirrorStaysCurrent == MirrorSpec => []MirrorCurrent
<1>1. MirrorInit => NInv /\ ToldInv
  BY InitInv, InitTold DEF MirrorInit
<1>2. NInv /\ ToldInv /\ [MirrorNext]_allVars => (NInv /\ ToldInv)'
  BY StepInv, StepTold, MirrorStep DEF allVars
<1>3. ToldInv => MirrorCurrent
  <2> SUFFICES ASSUME ToldInv, NEW l \in Listeners, NEW i \in Ids,
                      Follows(l, i), i \in scanned[l], <<l, i>> \notin missed,
                      Quiet(l, i)
               PROVE  mirror[l][i] = RevOf(i)
    BY DEF MirrorCurrent
  <2>1. ~UnderWay(l, i)
    BY DEF UnderWay, Quiet, Telling
  <2> QED BY <2>1 DEF ToldInv, Owed
<1> QED BY <1>1, <1>2, <1>3, PTL DEF MirrorSpec
=============================================================================
