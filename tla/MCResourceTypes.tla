-------------------------- MODULE MCResourceTypes --------------------------
(***************************************************************************)
(* Instances of ResourceTypes for TLC.                                     *)
(***************************************************************************)
EXTENDS ResourceTypes, TLC

CONSTANTS p1, p2, w1, w2

TextColumn(tab, col) == [table |-> tab, name |-> col, kind |-> "text"]
IntColumn(tab, col)  == [table |-> tab, name |-> col, kind |-> "int"]
Org      == <<"org", "main">>
OrgNames == <<"org", "names">>

\* The second version of "org" has a new column, a new table and a column of
\* another type.  "resource_type" is a type like any other.
OrgSchema ==
  <<{TextColumn(Org, "id"), TextColumn(Org, "size")},
    {TextColumn(Org, "id"), IntColumn(Org, "size"), TextColumn(Org, "name"),
     TextColumn(OrgNames, "id")}>>

OnlyOrg == {"org"}

SchemaOf == [t \in Types |-> OrgSchema]

\* The first release has no such type, the second its first version and the
\* third both.
ThreeReleases == 1 .. 3

Versioned == [r \in Releases |-> [t \in Types |-> r - 1]]

PreparerSymmetry == Permutations(Preparers) \cup Permutations(Threads)
=============================================================================
