-------------------------- MODULE MCNotifications --------------------------
(***************************************************************************)
(* Instances of Notifications for TLC.                                     *)
(***************************************************************************)
EXTENDS Notifications, TLC

CONSTANTS w1, w2, i1, i2, l1, l2

New  == [notify_of_new |-> TRUE,  listen_on |-> {}, listen_on_all |-> FALSE]
One  == [notify_of_new |-> FALSE, listen_on |-> {i1}, listen_on_all |-> FALSE]
All  == [notify_of_new |-> TRUE,  listen_on |-> {}, listen_on_all |-> TRUE]

AnySetting == {New, One, All}

\* The listener of a client that follows all items.
Following == {All}

\* Listeners that are never changed, ...
Fixed == {}

\* ... that are changed in any way, ...
AnyChange == AnySetting \X AnySetting

\* ... or in any way but from all items to single ones.
NoNarrowing == {c \in AnyChange : ~Narrows(c[1], c[2])}

\* ... of a client that follows all items.
AnyFollowing == Following \X Following

=============================================================================
