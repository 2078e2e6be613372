---------------------------- MODULE MCItemStorage ----------------------------
(***************************************************************************)
(* Instances of ItemStorage for TLC.                                       *)
(***************************************************************************)
EXTENDS ItemStorage, TLC

CONSTANTS w1, w2, w3, i1, i2

\* Every worker may be asked anything.
AnyOp == [w \in Workers |-> Op]

\* One worker writes, as when the server has one process and one thread or
\* the database lets in one writer at a time; the others read.
OneWriter == [w \in Workers |-> IF w = w1 THEN Op \ {"get", "getsub"}
                                ELSE {"get", "getsub"}]

\* Only writers.
WriteOps == [w \in Workers |-> Op \ {"get", "getsub"}]

\* Only updates of the whole item, after it was created.
PutOps == [w \in Workers |-> {"post", "put"}]

=============================================================================
