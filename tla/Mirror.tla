------------------------------- MODULE Mirror -------------------------------
(***************************************************************************)
(* What notifications are for: clients that keep a copy of the items of a  *)
(* resource type.  A client creates a listener, reads the items, and from  *)
(* then on reads an item again whenever it finds a notification about it,  *)
(* and deletes the notification.  Notifications may be missed, and "the    *)
(* API client should consider doing an occasional full scan"; so this one  *)
(* does.  The client is not part of the program: it does what the API      *)
(* document has clients do, and the server is that of Notifications.       *)
(***************************************************************************)
EXTENDS Notifications

VARIABLES
  mirror,    \* Listeners -> Ids -> the revision its client last read
  scanned,   \* Listeners -> items read since the listener was set
  fetched,   \* the notifications acted on and not yet deleted
  missed     \* history: <<listener, item>> hit by a failed notify_* call

clientVars == <<mirror, scanned, fetched, missed>>
allVars == <<vars, clientVars>>

RevOf(i) == IF Items!Present(i) THEN store[i].rev ELSE NoRev

MirrorInit ==
  /\ Init
  /\ mirror  = [l \in Listeners |-> [i \in Ids |-> NoRev]]
  /\ scanned = [l \in Listeners |-> {}]
  /\ fetched = {}
  /\ missed  = {}

-----------------------------------------------------------------------------
Subscribe(l) == PostListener(l) /\ UNCHANGED clientVars

\* After changing what it listens to, the client reads the items anew.
Resubscribe(l) ==
  /\ PutListener(l)
  /\ scanned' = [scanned EXCEPT ![l] = {}]
  /\ UNCHANGED <<mirror, fetched, missed>>

Read(l, i) == mirror' = [mirror EXCEPT ![l][i] = RevOf(i)]

Scan(l, i) ==
  /\ Exists(l)
  /\ Read(l, i)
  /\ scanned' = [scanned EXCEPT ![l] = @ \cup {i}]
  /\ missed'  = missed \ {<<l, i>>}
  /\ UNCHANGED <<vars, fetched>>

Fetch(l) ==
  \E n \in notes \ fetched :
    /\ n.to = l
    /\ Read(l, n.item)
    /\ fetched' = fetched \cup {n}
    /\ UNCHANGED <<vars, scanned, missed>>

Discard(n) ==
  /\ n \in fetched
  /\ DeleteNotification(n)
  /\ fetched' = fetched \ {n}
  /\ UNCHANGED <<mirror, scanned, missed>>

\* delete_listener takes the notifications with it.
Serve(w) ==
  /\ Work(w)
  /\ fetched' = fetched \cap notes'
  /\ UNCHANGED <<mirror, scanned, missed>>

Lose(w) ==
  /\ Fail(w)
  /\ missed' = IF pc[w] \in {"new", "on", "all", "add"}
                 THEN missed \cup (Listeners \X {job[w].item}) ELSE missed
  /\ UNCHANGED <<mirror, scanned, fetched>>

MirrorNext ==
  \/ \E w \in Workers : Serve(w) \/ Lose(w) \/ (Arrive(w) /\ UNCHANGED clientVars)
  \/ \E l \in Listeners :
       \/ Subscribe(l) \/ Resubscribe(l) \/ Fetch(l)
       \/ \E i \in Ids : Scan(l, i)
  \/ \E n \in notes : Discard(n)

MirrorSpec == MirrorInit /\ [][MirrorNext]_allVars

\* Threads go on with their requests; the client reads every item once after
\* setting its listener and keeps polling for notifications.
MirrorFairness ==
  /\ \A w \in Workers : WF_allVars(Serve(w))
  /\ \A l \in Listeners :
       /\ WF_allVars(Fetch(l))
       /\ \A i \in Ids : WF_allVars(i \notin scanned[l] /\ Scan(l, i))

FairMirrorSpec == MirrorSpec /\ MirrorFairness

-----------------------------------------------------------------------------
\* Listening to all that can happen to the item.
Follows(l, i) ==
  /\ Exists(l)
  /\ \/ i \in listeners[l].listen_on
     \/ listeners[l].listen_on_all /\ listeners[l].notify_of_new

\* Nothing about the item is under way to the client.
Quiet(l, i) ==
  /\ \A w \in Workers :
       pc[w] \in {"new", "on", "all", "add"} => job[w].item # i
  /\ \A n \in notes \ fetched : n.to # l \/ n.item # i

\* A client that has no unread notification about an item has the item as it is,
\* however listeners and items change while handlers search for listeners;
\* unless a notify_* call failed since its last scan.
MirrorCurrent ==
  \A l \in Listeners, i \in Ids :
    Follows(l, i) /\ i \in scanned[l] /\ <<l, i>> \notin missed /\ Quiet(l, i)
      => mirror[l][i] = RevOf(i)

\* The client's copy is right in the end, unless a notify_* call failed since
\* its last scan.
Converges ==
  \A l \in Listeners, i \in Ids :
    <>[](Follows(l, i) /\ <<l, i>> \notin missed => mirror[l][i] = RevOf(i))
=============================================================================
