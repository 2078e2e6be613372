--------------------------- MODULE ConnectionPool ---------------------------
(***************************************************************************)
(* The database connections of one server process.  Every transaction      *)
(* takes one from a psycopg2 pool and gives it back, whatever happens in    *)
(* between; a search takes a second one while its transaction still has    *)
(* the first.  The pool never waits: when all its connections are in use   *)
(* it raises PoolError and the request fails.  SQLAlchemy's engine took    *)
(* one when the process started and keeps it.                              *)
(*                                                                         *)
(* The server of the database may restart at any time.  A connection that  *)
(* it dropped fails the next statement on it, and only then is known to be *)
(* closed.  __exit__ ends the transaction before it puts a connection      *)
(* back; a search puts its own back in the middle of one, and the pool,    *)
(* which then rolls back first, forgets it only when that has worked.      *)
(***************************************************************************)
EXTENDS Integers, FiniteSets

CONSTANTS
  Threads,     \* the threads of the process
  Conns,       \* names for open connections
  Engine,      \* the one that SQLAlchemy's engine has
  MinConn,     \* open connections the pool keeps
  MaxConn,     \* connections it gives out at most
  MaxRestarts, \* bound: restarts of the database
  LogMayFail   \* may log.log raise an exception?

ASSUME ThreadsAssumption == IsFiniteSet(Threads)
ASSUME ConnAssumption ==
  /\ MinConn \in Nat \ {0} /\ MaxConn \in Nat /\ MinConn <= MaxConn
  /\ IsFiniteSet(Conns) /\ Cardinality(Conns) >= MaxConn
  /\ Engine \in Conns
ASSUME NamesAssumption == "no connection" \notin Conns
ASSUME FailAssumption == MaxRestarts \in Nat /\ LogMayFail \in BOOLEAN

VARIABLES
  pool,     \* open connections that nobody uses
  used,     \* connections given out and not put back (_used)
  begun,    \* connections in the middle of a transaction
  down,     \* connections that the database has dropped
  closed,   \* those of them that the driver knows to be closed
  pc,       \* what each thread does next in its transaction
  main,     \* the transaction's connection
  second,   \* the connection of its search
  restarts  \* how often the database has restarted

poolVars == <<pool, used>>
connVars == <<begun, down, closed>>
vars == <<poolVars, connVars, pc, main, second, restarts>>

NoConn    == "no connection"
Searching == {"search", "found", "unsearched"}
Step      == {"idle", "entered", "body", "failed", "leaving", "put"}
               \cup Searching

Init ==
  /\ pool \in SUBSET (Conns \ {Engine}) /\ Cardinality(pool) = MinConn - 1
  /\ used = {Engine}
  /\ begun = {} /\ down = {} /\ closed = {}
  /\ pc     = [w \in Threads |-> "idle"]
  /\ main   = [w \in Threads |-> NoConn]
  /\ second = [w \in Threads |-> NoConn]
  /\ restarts = 0

-----------------------------------------------------------------------------
(***************************************************************************)
(* The pool and the driver.                                                *)
(***************************************************************************)
Exhausted == pool = {} /\ Cardinality(used) >= MaxConn

\* An open connection that nobody uses or, when there is none, a new one.
GetConn(c) ==
  /\ ~Exhausted
  /\ IF pool # {} THEN c \in pool ELSE c \in Conns \ used
  /\ pool' = pool \ {c}
  /\ used' = used \cup {c}
  /\ UNCHANGED connVars

\* The pool keeps a connection if it has few, unless it is closed.  Of one
\* that it keeps it first ends the transaction.
Keeps(c) == Cardinality(pool) < MinConn /\ c \notin closed

PutConn(c) ==
  /\ used'   = used \ {c}
  /\ begun'  = begun \ {c}
  /\ closed' = closed \ {c}
  /\ IF Keeps(c) THEN pool' = pool \cup {c} /\ UNCHANGED down
                 ELSE down' = down \ {c} /\ UNCHANGED pool

\* That fails when the database has dropped it, and putconn with it: the
\* connection stays among those in use.
PutFails(c) == Keeps(c) /\ c \in begun \cap down

\* What is sent on a connection: nobody answers, and the driver learns that it
\* is closed, or the database carries it out, or refuses to, in a transaction.
Send(c) ==
  IF c \in down THEN closed' = closed \cup {c} /\ UNCHANGED <<begun, down>>
                ELSE begun' = begun \cup {c} /\ UNCHANGED <<down, closed>>

-----------------------------------------------------------------------------
(***************************************************************************)
(* Transaction.                                                            *)
(***************************************************************************)
Go(w, step) == pc' = [pc EXCEPT ![w] = step]

\* The transaction is over; its connection had better been put back.
Forget(w) == Go(w, "idle") /\ main' = [main EXCEPT ![w] = NoConn]

Enter(w) ==
  /\ pc[w] = "idle"
  /\ \E c \in Conns : GetConn(c) /\ main' = [main EXCEPT ![w] = c]
  /\ Go(w, "entered")
  /\ UNCHANGED <<second, restarts>>

\* __enter__ logs `get_conn'.  If that fails __exit__ is never called.
LogEntered(w) ==
  /\ pc[w] = "entered"
  /\ \/ Go(w, "body") /\ UNCHANGED main
     \/ LogMayFail /\ Forget(w)
  /\ UNCHANGED <<poolVars, connVars, second, restarts>>

Execute(w) ==
  /\ pc[w] = "body"
  /\ Send(main[w])
  /\ \/ main[w] \notin down /\ UNCHANGED pc
     \/ Go(w, "failed")
  /\ UNCHANGED <<poolVars, main, second, restarts>>

\* The code around the statements fails, in a search too.
Fail(w) ==
  /\ \/ pc[w] = "body" /\ Go(w, "failed")
     \/ pc[w] \in {"search", "found"} /\ Go(w, "unsearched")
  /\ UNCHANGED <<poolVars, connVars, main, second, restarts>>

\* Nothing is sent when no transaction has begun.
EndTransaction(c) ==
  /\ begun'  = begun \ {c}
  /\ closed' = IF c \in begun \cap down THEN closed \cup {c} ELSE closed
  /\ UNCHANGED down

\* Faulty variant, used by no action: nothing is put when the rollback fails.
ExitUnguarded(w) ==
  /\ pc[w] \in {"body", "failed"}
  /\ EndTransaction(main[w])
  /\ IF main[w] \in begun \cap down THEN Forget(w)
                                    ELSE Go(w, "leaving") /\ UNCHANGED main
  /\ UNCHANGED <<poolVars, second, restarts>>

\* __exit__ commits or, after a failure, rolls back.  Either may fail, and does
\* when the connection is down; the way on is the same.
Exit(w) ==
  /\ pc[w] \in {"body", "failed"}
  /\ EndTransaction(main[w])
  /\ Go(w, "leaving")
  /\ UNCHANGED <<poolVars, main, second, restarts>>

\* On both ways __exit__ logs `put_conn' before it puts.
LogLeaving(w) ==
  /\ pc[w] = "leaving"
  /\ \/ Go(w, "put") /\ UNCHANGED main
     \/ LogMayFail /\ Forget(w)
  /\ UNCHANGED <<poolVars, connVars, second, restarts>>

\* The transaction has ended, so that the put does not fail.
Leave(w) ==
  /\ pc[w] = "put"
  /\ PutConn(main[w])
  /\ Forget(w)
  /\ UNCHANGED <<second, restarts>>

-----------------------------------------------------------------------------
(***************************************************************************)
(* ReadOnlyStorage._kludge_execute: the SELECT of a search.                *)
(***************************************************************************)

\* Faulty variant, used by no action: the search uses the engine's connection.
SearchShares(w) ==
  /\ pc[w] = "body"
  /\ second' = [second EXCEPT ![w] = Engine]
  /\ Go(w, "search")
  /\ UNCHANGED <<poolVars, connVars, main, restarts>>

Search(w) ==
  /\ pc[w] = "body"
  /\ IF Exhausted
       THEN Go(w, "failed") /\ UNCHANGED <<poolVars, connVars, second>>
       ELSE /\ \E c \in Conns : GetConn(c) /\ second' = [second EXCEPT ![w] = c]
            /\ Go(w, "search")
  /\ UNCHANGED <<main, restarts>>

Select(w) ==
  /\ pc[w] = "search"
  /\ Send(second[w])
  /\ \/ second[w] \notin down /\ Go(w, "found")
     \/ Go(w, "unsearched")
  /\ UNCHANGED <<poolVars, main, second, restarts>>

\* Faulty variant, used by no action: only `else' puts.
EndSearchElseOnly(w) ==
  /\ pc[w] \in {"found", "unsearched"}
  /\ IF pc[w] = "unsearched" \/ PutFails(second[w])
       THEN Go(w, "failed") /\ UNCHANGED <<poolVars, connVars>>
       ELSE Go(w, "body") /\ PutConn(second[w])
  /\ second' = [second EXCEPT ![w] = NoConn]
  /\ UNCHANGED <<main, restarts>>

\* `except' and `else' both put.  Nothing ends the transaction before.
EndSearch(w) ==
  /\ pc[w] \in {"found", "unsearched"}
  /\ IF PutFails(second[w])
       THEN /\ Go(w, "failed")
            /\ closed' = closed \cup {second[w]}
            /\ UNCHANGED <<poolVars, begun, down>>
       ELSE /\ Go(w, IF pc[w] = "found" THEN "body" ELSE "failed")
            /\ PutConn(second[w])
  /\ second' = [second EXCEPT ![w] = NoConn]
  /\ UNCHANGED <<main, restarts>>

-----------------------------------------------------------------------------
Restart ==
  /\ restarts < MaxRestarts
  /\ restarts' = restarts + 1
  /\ down' = pool \cup used
  /\ UNCHANGED <<poolVars, begun, closed, pc, main, second>>

Next ==
  \/ \E w \in Threads :
       \/ Enter(w) \/ LogEntered(w) \/ Execute(w) \/ Fail(w) \/ Exit(w)
       \/ LogLeaving(w) \/ Leave(w)
       \/ Search(w) \/ Select(w) \/ EndSearch(w)
  \/ Restart

Spec == Init /\ [][Next]_vars

-----------------------------------------------------------------------------
(***************************************************************************)
(* Properties.                                                             *)
(***************************************************************************)

\* The variables have their types, and a thread has the connections its step
\* needs and no other.
TypeOK ==
  /\ pool \subseteq Conns /\ used \subseteq Conns
  /\ begun \subseteq used
  /\ down \subseteq pool \cup used
  /\ closed \subseteq down \cap used
  /\ pc \in [Threads -> Step]
  /\ main \in [Threads -> Conns \cup {NoConn}]
  /\ second \in [Threads -> Conns \cup {NoConn}]
  /\ restarts \in 0..MaxRestarts
  /\ \A w \in Threads : (main[w] = NoConn) <=> (pc[w] = "idle")
  /\ \A w \in Threads : (second[w] = NoConn) <=> (pc[w] \notin Searching)

\* The connections in somebody's hands, and those of which the pool believes so.
Held   == ({main[w] : w \in Threads} \cup {second[w] : w \in Threads}) \ {NoConn}
Leaked == used \ ({Engine} \cup Held)

\* "not leak database connections": what the pool has given out comes back to
\* it, on whichever way a thread leaves its transaction.  A search's own
\* connection, which no Transaction has, is the exception: it stays behind when
\* the database has restarted since the SELECT.
NoLeak ==
  [][Leaked' \ Leaked \subseteq {second[w] : w \in Threads} \cap begun \cap down]_vars

\* No two threads, and no transaction and its own search, have one connection.
NotShared ==
  /\ Engine \notin Held
  /\ \A w, v \in Threads :
       /\ main[w] # NoConn => main[w] # second[v]
       /\ w # v /\ main[w] # NoConn => main[w] # main[v]
       /\ w # v /\ second[w] # NoConn => second[w] # second[v]

\* A thread that needs a connection gets one, as long as the pool is more than
\* twice as large as there are threads, and larger still by all the threads for
\* each restart of the database.
EnoughConnections ==
  (2 + restarts) * Cardinality(Threads) < MaxConn =>
    \A w \in Threads : pc[w] \in {"idle", "body"} => ~Exhausted
=============================================================================
