--------------------------- MODULE VersionedStore ---------------------------
(***************************************************************************)
(* What the API promises about the items of one resource type, with every  *)
(* change a single step.  An item is created under a fresh id, carries a   *)
(* revision that names exactly one version of it, is changed only by an    *)
(* update that quotes its current revision, and once removed never comes   *)
(* back.  The content of the item proper (`body') and of its subitem       *)
(* (`sub') is named by the revision of the update that wrote it.           *)
(***************************************************************************)
CONSTANTS Ids, Revs

VARIABLES
  store,    \* Ids -> New, Removed or the current version of the item
  issued    \* the revisions given to committed versions so far

vars == <<store, issued>>

New     == [state |-> "new"]
Removed == [state |-> "removed"]
Version == [rev : Revs, body : Revs, sub : Revs]

Present(i) == store[i] \notin {New, Removed}

Init ==
  /\ store  = [i \in Ids |-> New]
  /\ issued = {}

Issue(r) ==
  /\ r \notin issued
  /\ issued' = issued \cup {r}

Create(i, r) ==
  /\ store[i] = New
  /\ Issue(r)
  /\ store' = [store EXCEPT ![i] = [rev |-> r, body |-> r, sub |-> r]]

Update(i, base, r) ==
  /\ Present(i)
  /\ store[i].rev = base
  /\ Issue(r)
  /\ store' = [store EXCEPT ![i] = [@ EXCEPT !.rev = r, !.body = r]]

UpdateSubitem(i, base, r) ==
  /\ Present(i)
  /\ store[i].rev = base
  /\ Issue(r)
  /\ store' = [store EXCEPT ![i] = [@ EXCEPT !.rev = r, !.sub = r]]

Remove(i) ==
  /\ Present(i)
  /\ store' = [store EXCEPT ![i] = Removed]
  /\ UNCHANGED issued

Next ==
  \E i \in Ids :
    \/ Remove(i)
    \/ \E r \in Revs :
         \/ Create(i, r)
         \/ \E base \in Revs : Update(i, base, r) \/ UpdateSubitem(i, base, r)

Spec == Init /\ [][Next]_vars
=============================================================================
