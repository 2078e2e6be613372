--------------------------- MODULE Notifications ---------------------------
(***************************************************************************)
(* The listeners and notifications of one resource type (ListenerResource) *)
(* beside the items they are about.                                        *)
(*                                                                         *)
(* A handler that changes an item commits the change and only then calls   *)
(* notify_create, notify_update or notify_delete, which runs a transaction *)
(* of its own: it searches the listeners, each search a SELECT on another  *)
(* connection, and adds a notification for every one found.  Meanwhile     *)
(* other handlers change items, listeners and notifications.               *)
(*                                                                         *)
(* Items change as VersionedStore says; that the tables keep to it is the  *)
(* business of ItemStorage.  Listeners and notifications are stored by the *)
(* same code, so each change of one is a single step here too, at its      *)
(* commit, except for delete_listener, which reads before it commits.      *)
(***************************************************************************)
EXTENDS Integers, FiniteSets

CONSTANTS
  Workers,      \* the threads of all the server processes
  Ids,          \* item ids
  Listeners,    \* listener ids
  MaxRev,       \* bound on the number of revisions
  MaxChange,    \* bound on the number of changes of items
  Settings,     \* the listeners that clients create
  Replacements, \* pairs of settings: the changes clients make to a listener
  MayFail       \* may a handler end, or its process die, half way?

Revs   == 1 .. MaxRev
Change == 1 .. MaxChange
Setting == [notify_of_new : BOOLEAN, listen_on : SUBSET Ids,
            listen_on_all : BOOLEAN]

ASSUME WorkersAssumption == IsFiniteSet(Workers)
ASSUME MaxRevAssumption == MaxRev \in Nat
ASSUME MaxChangeAssumption == MaxChange \in Nat
ASSUME SettingsAssumption ==
  Settings \subseteq Setting /\ Replacements \subseteq Settings \X Settings
ASSUME MayFailAssumption == MayFail \in BOOLEAN

VARIABLES
  store,      \* the items, as in VersionedStore
  issued,     \* the revisions of committed versions
  listeners,  \* Listeners -> NotYet, Gone or its setting
  notes,      \* the committed notifications
  pc,         \* each worker's next step, or "idle"
  job,        \* the request the worker serves
  found,      \* the listeners its searches found, with the search
  doomed,     \* the notifications delete_listener found
  changes,    \* history: the number of changes so far
  steady      \* history: who has been listening ever since the worker's change

itemVars == <<store, issued>>
vars == <<store, issued, listeners, notes, pc, job, found, doomed, changes,
          steady>>

Items == INSTANCE VersionedStore

NotYet == [state |-> "not yet"]
Gone   == [state |-> "gone"]
Exists(l) == listeners[l] \notin {NotYet, Gone}
Live == {l \in Listeners : Exists(l)}

NoId  == "no id"
NoRev == 0
Op    == {"post", "put", "delete"}
Via   == {"notify_of_new", "listen_on", "listen_on_all"}
Step  == {"idle", "write", "new", "on", "all", "add", "drop"}

\* `cause' is the number of the change; together with `via' it stands for the
\* notification's own id.
Note == [to : Listeners, cause : Change \cup {0}, via : Via, item : Ids,
         op : Op, rev : Revs \cup {NoRev}]

Job == [op : Op \cup {"drop"}, item : Ids \cup {NoId},
        base : Revs \cup {NoRev}, rev : Revs \cup {NoRev},
        cause : Change \cup {0}, listener : Listeners \cup {NoId}]
NoJob == [op |-> "none", item |-> NoId, base |-> NoRev, rev |-> NoRev,
          cause |-> 0, listener |-> NoId]

(***************************************************************************)
(* The handlers: what each does after what.                                *)
(***************************************************************************)
\* Faulty variants, used by no action.
PutItemNotifiesFirst == [begin |-> "on", on |-> "all", all |-> "add",
                         add |-> "write", write |-> "idle"]
PutItemForgetsAll == [begin |-> "write", write |-> "on", on |-> "add",
                      add |-> "idle"]
PutItemSilent == [begin |-> "write", write |-> "idle"]

PostItem == [begin |-> "write", write |-> "new", new |-> "add",
             add |-> "idle"]
PutItem  == [begin |-> "write", write |-> "on", on |-> "all", all |-> "add",
             add |-> "idle"]
DeleteItem == [begin |-> "write", write |-> "on", on |-> "all",
               all |-> "add", add |-> "idle"]

Handler == [post |-> PostItem, put |-> PutItem, delete |-> DeleteItem]

Hears(s, op, i) ==
  IF op = "post" THEN s.notify_of_new ELSE i \in s.listen_on \/ s.listen_on_all

Init ==
  /\ Items!Init
  /\ listeners = [l \in Listeners |-> NotYet]
  /\ notes    = {}
  /\ pc       = [w \in Workers |-> "idle"]
  /\ job      = [w \in Workers |-> NoJob]
  /\ found    = [w \in Workers |-> {}]
  /\ doomed   = [w \in Workers |-> {}]
  /\ changes  = 0
  /\ steady   = [w \in Workers |-> {}]

-----------------------------------------------------------------------------
(***************************************************************************)
(* Changes of items.                                                       *)
(***************************************************************************)

\* The worker's step is done; with the last one the request is.
Go(w, step) ==
  /\ pc'     = [pc EXCEPT ![w] = step]
  /\ job'    = IF step = "idle" THEN [job EXCEPT ![w] = NoJob] ELSE job
  /\ found'  = IF step = "idle" THEN [found EXCEPT ![w] = {}] ELSE found
  /\ doomed' = IF step = "idle" THEN [doomed EXCEPT ![w] = {}] ELSE doomed
  /\ steady' = IF step = "idle" THEN [steady EXCEPT ![w] = {}] ELSE steady

Fresh(r) == r \notin issued /\ \A w \in Workers : job[w].rev # r

Begin(w, op, i, base, r) ==
  /\ pc[w] = "idle"
  /\ changes + Cardinality({v \in Workers : pc[v] = "write"}) < MaxChange
  /\ pc'  = [pc EXCEPT ![w] = Handler[op].begin]
  /\ job' = [job EXCEPT ![w] = [NoJob EXCEPT !.op = op, !.item = i,
                                             !.base = base, !.rev = r]]
  /\ UNCHANGED <<store, issued, listeners, notes, found, doomed, changes,
                 steady>>

\* The revision to be is new_id's: any that is not in use.
BeginWrite(w, op, i, base) ==
  \E r \in Revs :
    /\ Fresh(r)
    /\ \A s \in 1 .. r - 1 : ~Fresh(s)
    /\ Begin(w, op, i, base, r)

StartPost(w) ==
  \E i \in Ids :
    /\ store[i] = Items!New
    /\ \A v \in Workers : job[v].item # i
    /\ BeginWrite(w, "post", i, NoRev)

\* put_item; put_subitem and put_file call notify_update just as it does.
StartPut(w) ==
  \E i \in Ids, base \in issued :
    store[i] # Items!New /\ BeginWrite(w, "put", i, base)

\* Of an item that may be gone by now.  An id that was never given to an item
\* fares like one that is gone.
StartDelete(w) ==
  \E i \in Ids : store[i] # Items!New /\ Begin(w, "delete", i, NoRev, NoRev)

ChangeItem(q) ==
  CASE q.op = "post"   -> Items!Create(q.item, q.rev)
    [] q.op = "put"    -> Items!Update(q.item, q.base, q.rev)
    [] q.op = "delete" -> Items!Remove(q.item)

\* DELETE of an item that is not there changes nothing and succeeds.
NothingToDelete(q) == q.op = "delete" /\ ~Items!Present(q.item)

\* add_item, update_item or delete_item, and the commit.
Write(w) ==
  LET q == job[w]
      now == {l \in Live : Hears(listeners[l], q.op, q.item)}
  IN /\ pc[w] = "write"
     /\ \/ ChangeItem(q)
        \/ NothingToDelete(q) /\ UNCHANGED itemVars
     /\ changes'  = changes + 1
     /\ pc'       = [pc EXCEPT ![w] = Handler[q.op].write]
     /\ IF pc'[w] = "idle"
          THEN job' = [job EXCEPT ![w] = NoJob] /\ UNCHANGED steady
          ELSE /\ job' = [job EXCEPT ![w].cause = changes + 1]
               /\ steady' = [steady EXCEPT ![w] = now]
     /\ UNCHANGED <<listeners, notes, found, doomed>>

\* WrongRevision: nothing changes and nobody is told.
Refuse(w) ==
  /\ pc[w] = "write"
  /\ job[w].op = "put"
  /\ ~(Items!Present(job[w].item) /\ store[job[w].item].rev = job[w].base)
  /\ Go(w, "idle")
  /\ UNCHANGED <<store, issued, listeners, notes, changes>>

\* An exception, or the death of the process: what was committed stays.
Fail(w) ==
  /\ MayFail
  /\ pc[w] # "idle"
  /\ Go(w, "idle")
  /\ UNCHANGED <<store, issued, listeners, notes, changes>>

-----------------------------------------------------------------------------
(***************************************************************************)
(* notify_create, notify_update and notify_delete.                         *)
(***************************************************************************)
Seek(w, step, via, matches) ==
  /\ pc[w] = step
  /\ found' = [found EXCEPT ![w] = @ \cup (matches \X {via})]
  /\ pc' = [pc EXCEPT ![w] = Handler[job[w].op][step]]
  /\ UNCHANGED <<store, issued, listeners, notes, job, doomed, changes, steady>>

SeekNew(w) ==
  Seek(w, "new", "notify_of_new", {l \in Live : listeners[l].notify_of_new})

SeekOn(w) ==
  Seek(w, "on", "listen_on", {l \in Live : job[w].item \in listeners[l].listen_on})

SeekAll(w) ==
  Seek(w, "all", "listen_on_all", {l \in Live : listeners[l].listen_on_all})

NewNotesToRows(w) ==
  {[to |-> f, cause |-> job[w].cause, via |-> f[2], item |-> job[w].item,
    op |-> job[w].op, rev |-> job[w].rev] : f \in found[w]}

NewNotes(w) ==
  {[to |-> f[1], cause |-> job[w].cause, via |-> f[2], item |-> job[w].item,
    op |-> job[w].op, rev |-> job[w].rev] : f \in found[w]}

\* The INSERTs, one listener after another, and the commit.
Add(w) ==
  /\ pc[w] = "add"
  /\ notes' = notes \cup NewNotes(w)
  /\ Go(w, Handler[job[w].op].add)
  /\ UNCHANGED <<store, issued, listeners, changes>>

-----------------------------------------------------------------------------
(***************************************************************************)
(* The handlers of listeners and notifications.                            *)
(***************************************************************************)

\* delete_listener holds the locks of the listener's rows until it ends.
Locked(l) == \E w \in Workers : pc[w] = "drop" /\ job[w].listener = l

SetListener(l, s) ==
  /\ listeners' = [listeners EXCEPT ![l] = s]
  /\ steady' = [w \in Workers |->
       IF Exists(l)' /\ pc[w] # "idle" /\ job[w].op \in Op
          /\ Hears(s, job[w].op, job[w].item)
         THEN steady[w] ELSE steady[w] \ {l}]

\* Clients only know of ids that were given to items.
Known(s) == \A i \in s.listen_on : store[i] # Items!New

PostListener(l) ==
  /\ listeners[l] = NotYet
  /\ \E s \in Settings : Known(s) /\ SetListener(l, s)
  /\ UNCHANGED <<store, issued, notes, pc, job, found, doomed, changes>>

PutListener(l) ==
  /\ Exists(l)
  /\ ~Locked(l)
  /\ \E s \in Settings :
       <<listeners[l], s>> \in Replacements /\ Known(s) /\ SetListener(l, s)
  /\ UNCHANGED <<store, issued, notes, pc, job, found, doomed, changes>>

\* The search sees the notifications committed by now.
Doomed(l) == {n \in notes : n.to = l}

\* DELETE of the listener's rows, not yet committed, and the search.
StartDeleteListener(w, l) ==
  /\ pc[w] = "idle"
  /\ listeners[l] # NotYet
  /\ ~Locked(l)
  /\ pc'     = [pc EXCEPT ![w] = "drop"]
  /\ job'    = [job EXCEPT ![w] = [NoJob EXCEPT !.op = "drop",
                                                !.listener = l]]
  /\ doomed' = [doomed EXCEPT ![w] = Doomed(l)]
  /\ UNCHANGED <<store, issued, listeners, notes, found, changes,
                 steady>>

\* DELETE of every notification found, and the commit.
DropListener(w) ==
  /\ pc[w] = "drop"
  /\ listeners' = [listeners EXCEPT ![job[w].listener] = Gone]
  /\ notes'  = notes \ doomed[w]
  /\ pc'     = [pc EXCEPT ![w] = "idle"]
  /\ job'    = [job EXCEPT ![w] = NoJob]
  /\ doomed' = [doomed EXCEPT ![w] = {}]
  /\ steady' = [v \in Workers |-> steady[v] \ {job[w].listener}]
  /\ UNCHANGED <<store, issued, found, changes>>

DeleteNotification(n) ==
  /\ n \in notes
  /\ notes' = notes \ {n}
  /\ UNCHANGED <<store, issued, listeners, pc, job, found, doomed, changes,
                 steady>>

-----------------------------------------------------------------------------
\* What goes on once a request has arrived ...
Work(w) ==
  \/ Write(w) \/ Refuse(w)
  \/ SeekNew(w) \/ SeekOn(w) \/ SeekAll(w) \/ Add(w)
  \/ DropListener(w)

\* ... and what clients, or accidents, bring about.
Arrive(w) ==
  \/ StartPost(w) \/ StartPut(w) \/ StartDelete(w)
  \/ \E l \in Listeners : StartDeleteListener(w, l)

Next ==
  \/ \E w \in Workers : Work(w) \/ Arrive(w) \/ Fail(w)
  \/ \E l \in Listeners : PostListener(l) \/ PutListener(l)
  \/ \E n \in notes : DeleteNotification(n)

Spec == Init /\ [][Next]_vars

\* A thread that serves a request goes on with it.
FairSpec == Spec /\ \A w \in Workers : WF_vars(Work(w))

-----------------------------------------------------------------------------
(***************************************************************************)
(* Properties.                                                             *)
(***************************************************************************)

\* The variables have their types.
TypeOK ==
  /\ store \in [Ids -> Items!Version \cup {Items!New, Items!Removed}]
  /\ issued \subseteq Revs
  /\ listeners \in [Listeners -> Settings \cup {NotYet, Gone}]
  /\ notes \subseteq Note
  /\ pc \in [Workers -> Step]
  /\ job \in [Workers -> Job \cup {NoJob}]
  /\ found \in [Workers -> SUBSET (Listeners \X Via)]
  /\ doomed \in [Workers -> SUBSET Note]
  /\ changes \in Change \cup {0}
  /\ steady \in [Workers -> SUBSET Listeners]

\* Nobody is told of what did not happen: a notification names a committed
\* version, or an item that is not there any more (the notify_* calls come
\* after the commit).
NoFalseNews ==
  \A n \in notes :
    IF n.op = "delete" THEN ~Items!Present(n.item) ELSE n.rev \in issued

\* A listener that turns from all items to single ones: the first search may
\* come before the change, and the second after it.
Narrows(s, t) == s.listen_on_all /\ ~t.listen_on_all /\ t.listen_on # {}

\* "Notification is added for every listener that is listening": when a notify_*
\* call ends, every listener that has been listening to the item ever since it
\* changed has been sent a notification of that change.
AudienceHears ==
  [][\A w \in Workers :
       Add(w) => \A l \in steady[w] :
                   \E n \in notes' : n.to = l /\ n.cause = job[w].cause]_vars

\* "Deletion of a listener deletes also the notifications": nothing is left in
\* the message box of a listener that is gone.
NoOrphans == \A n \in notes : listeners[n.to] # Gone
=============================================================================
