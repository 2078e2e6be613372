------------------------ MODULE ConnectionPoolProofs ------------------------
(***************************************************************************)
(* Whatever fails, no connection is in the hands of two threads.  As long  *)
(* as logging works, a process gets back every connection it takes but for *)
(* those of the searches that a restart of the database cuts off, one for  *)
(* each thread at most, and has enough of them for its threads.            *)
(***************************************************************************)
EXTENDS ConnectionPool, FiniteSetTheorems, TLAPS

(***************************************************************************)
(* The inductive invariant: what is held has been given out, to one holder *)
(* each, and is not in the pool.                                           *)
(***************************************************************************)
Given == {Engine} \cup Held \subseteq used
Apart == pool \cap used = {}

PInv == TypeOK /\ Given /\ NotShared /\ Apart

(***************************************************************************)
(* What a restart may still cost: the searches in the middle of whose      *)
(* transaction it came.  Only a restart adds to them, and a connection is  *)
(* leaked only by one of them, which is none any more.                     *)
(***************************************************************************)
Doomed == {w \in Threads : second[w] \in begun \cap down}
Bound  == Cardinality(Leaked) + Cardinality(Doomed)
            <= restarts * Cardinality(Threads)

Harmless == /\ Leaked' \subseteq Leaked
            /\ Doomed' \subseteq Doomed
            /\ restarts' = restarts

-----------------------------------------------------------------------------
LEMMA InitInv == Init => PInv /\ Bound
<1> SUFFICES ASSUME Init PROVE PInv /\ Bound
  OBVIOUS
<1>1. TypeOK
  BY ConnAssumption, FailAssumption DEF Init, TypeOK, Step, Searching
<1>2. Held = {} /\ Leaked = {} /\ Doomed = {}
  BY DEF Init, Held, Leaked, Doomed
<1>3. Bound
  BY <1>2, FS_EmptySet, FS_CardinalityType, ThreadsAssumption DEF Init, Bound
<1> QED BY <1>1, <1>2, <1>3 DEF Init, PInv, Given, NotShared, Apart

\* What the pool gives is nobody's.
LEMMA GetConnIsFree ==
  ASSUME PInv, NEW c \in Conns, GetConn(c)
  PROVE  /\ c \notin used /\ c # NoConn
         /\ used' = used \cup {c} /\ pool' = pool \ {c}
         /\ UNCHANGED <<begun, down, closed>>
BY NamesAssumption DEF PInv, Apart, GetConn, NoConn, connVars

\* A put takes the connection away from those in use.
LEMMA PutConnApart ==
  ASSUME PInv, NEW c \in used, PutConn(c)
  PROVE  /\ used' = used \ {c} /\ pool' \cap used' = {}
         /\ pool' \subseteq Conns /\ down' \subseteq pool' \cup used'
         /\ begun' \subseteq begun \cap used' /\ down' \subseteq down
         /\ closed' \subseteq down' \cap used'
BY DEF PInv, TypeOK, Apart, PutConn

\* Who holds what decides the rest, as long as the connections are the same.
LEMMA SameHolders ==
  ASSUME PInv, UNCHANGED <<pool, used, main, second>>,
         begun' \subseteq used, down' \subseteq pool \cup used,
         closed' \subseteq down' \cap used, restarts' \in 0..MaxRestarts,
         pc' \in [Threads -> Step],
         \A w \in Threads : (pc'[w] = "idle") <=> (pc[w] = "idle"),
         \A w \in Threads : (pc'[w] \in Searching) <=> (pc[w] \in Searching)
  PROVE  PInv' /\ Leaked' = Leaked
<1>1. TypeOK'
  BY DEF PInv, TypeOK
<1>2. Held' = Held
  BY DEF Held
<1>3. NotShared'
  BY <1>2 DEF PInv, NotShared
<1> QED BY <1>1, <1>2, <1>3 DEF PInv, Given, Leaked, Apart

-----------------------------------------------------------------------------
LEMMA EnterInv ==
  ASSUME PInv, NEW w \in Threads, Enter(w)
  PROVE  PInv' /\ Harmless
<1>1. PICK c \in Conns : GetConn(c) /\ main' = [main EXCEPT ![w] = c]
  BY DEF Enter
<1>2. /\ c \notin used /\ c # NoConn
      /\ used' = used \cup {c} /\ pool' = pool \ {c}
      /\ UNCHANGED <<begun, down, closed>>
  BY <1>1, GetConnIsFree
<1>3. /\ pc[w] = "idle" /\ pc' = [pc EXCEPT ![w] = "entered"]
      /\ UNCHANGED <<second, restarts>>
  BY DEF Enter, Go
<1>4. main[w] = NoConn
  BY <1>3 DEF PInv, TypeOK
<1>5. TypeOK'
  BY <1>1, <1>2, <1>3 DEF PInv, TypeOK, Step, Searching
<1>6. Held' = Held \cup {c}
  BY <1>1, <1>2, <1>3, <1>4 DEF PInv, TypeOK, Held
<1>7. NotShared'
  BY <1>1, <1>2, <1>3 DEF PInv, TypeOK, Given, NotShared, Held
<1>8. Given' /\ Apart' /\ Harmless
  BY <1>2, <1>3, <1>6 DEF PInv, Given, Leaked, Apart, Harmless, Doomed
<1> QED BY <1>5, <1>7, <1>8 DEF PInv

LEMMA LeaveInv ==
  ASSUME PInv, NEW w \in Threads, Leave(w)
  PROVE  PInv' /\ Harmless
<1>1. /\ pc[w] = "put" /\ pc' = [pc EXCEPT ![w] = "idle"]
      /\ main' = [main EXCEPT ![w] = NoConn] /\ UNCHANGED <<second, restarts>>
      /\ PutConn(main[w])
  BY DEF Leave, Forget, Go
<1>2. main[w] # NoConn /\ main[w] \in Held
  BY <1>1 DEF PInv, TypeOK, Held
<1>3. /\ used' = used \ {main[w]} /\ pool' \cap used' = {}
      /\ pool' \subseteq Conns /\ down' \subseteq pool' \cup used'
      /\ begun' \subseteq begun \cap used' /\ down' \subseteq down
      /\ closed' \subseteq down' \cap used'
  BY <1>1, <1>2, PutConnApart DEF PInv, Given
<1>4. TypeOK'
  BY <1>1, <1>3 DEF PInv, TypeOK, Step, Searching
<1>5. Held' = Held \ {main[w]}
  BY <1>1, <1>2 DEF PInv, TypeOK, Held, NotShared
<1>6. NotShared'
  BY <1>1, <1>5 DEF PInv, TypeOK, NotShared
<1>7. Given' /\ Apart'
  BY <1>2, <1>3, <1>5 DEF PInv, Given, NotShared, Apart
<1>8. Harmless
  BY <1>1, <1>2, <1>3, <1>5 DEF Leaked, Harmless, Doomed
<1> QED BY <1>4, <1>6, <1>7, <1>8 DEF PInv

LEMMA SearchInv ==
  ASSUME PInv, NEW w \in Threads, Search(w)
  PROVE  PInv' /\ Harmless
<1>1. CASE Exhausted
  <2>1. PInv' /\ Leaked' = Leaked
    BY <1>1, SameHolders
       DEF Search, Go, PInv, TypeOK, Step, Searching, poolVars, connVars
  <2>2. Doomed' = Doomed /\ restarts' = restarts
    BY <1>1 DEF Search, Doomed, poolVars, connVars
  <2> QED BY <2>1, <2>2 DEF Harmless
<1>2. CASE ~Exhausted
  <2>1. PICK c \in Conns : GetConn(c) /\ second' = [second EXCEPT ![w] = c]
    BY <1>2 DEF Search
  <2>2. /\ c \notin used /\ c # NoConn
        /\ used' = used \cup {c} /\ pool' = pool \ {c}
        /\ UNCHANGED <<begun, down, closed>>
    BY <2>1, GetConnIsFree
  <2>3. /\ pc[w] = "body" /\ pc' = [pc EXCEPT ![w] = "search"]
        /\ UNCHANGED <<main, restarts>>
    BY <1>2 DEF Search, Go
  <2>4. second[w] = NoConn
    BY <2>3 DEF PInv, TypeOK, Searching
  <2>5. TypeOK'
    BY <2>1, <2>2, <2>3 DEF PInv, TypeOK, Step, Searching
  <2>6. Held' = Held \cup {c}
    BY <2>1, <2>2, <2>3, <2>4 DEF PInv, TypeOK, Held
  <2>7. NotShared'
    BY <2>1, <2>2, <2>3 DEF PInv, TypeOK, Given, NotShared, Held
  <2>8. Doomed' \subseteq Doomed
    BY <2>1, <2>2 DEF PInv, TypeOK, Doomed
  <2>9. Given' /\ Apart' /\ Harmless
    BY <2>2, <2>3, <2>6, <2>8 DEF PInv, Given, Leaked, Apart, Harmless
  <2> QED BY <2>5, <2>7, <2>9 DEF PInv
<1> QED BY <1>1, <1>2

\* The end of a search whose put works.
LEMMA EndSearchPuts ==
  ASSUME PInv, NEW w \in Threads, EndSearch(w), ~PutFails(second[w])
  PROVE  PInv' /\ Harmless
<1>1. /\ pc[w] \in {"found", "unsearched"}
      /\ \E step \in {"body", "failed"} : pc' = [pc EXCEPT ![w] = step]
      /\ second' = [second EXCEPT ![w] = NoConn] /\ UNCHANGED <<main, restarts>>
      /\ PutConn(second[w])
  BY DEF EndSearch, Go
<1>2. second[w] # NoConn /\ second[w] \in Held
  BY <1>1 DEF PInv, TypeOK, Held, Searching
<1>3. /\ used' = used \ {second[w]} /\ pool' \cap used' = {}
      /\ pool' \subseteq Conns /\ down' \subseteq pool' \cup used'
      /\ begun' \subseteq begun \cap used' /\ down' \subseteq down
      /\ closed' \subseteq down' \cap used'
  BY <1>1, <1>2, PutConnApart DEF PInv, Given
<1>4. TypeOK'
  BY <1>1, <1>3 DEF PInv, TypeOK, Step, Searching
<1>5. Held' = Held \ {second[w]}
  BY <1>1, <1>2 DEF PInv, TypeOK, Held, NotShared
<1>6. NotShared'
  BY <1>1, <1>5 DEF PInv, TypeOK, NotShared
<1>7. Given' /\ Apart'
  BY <1>2, <1>3, <1>5 DEF PInv, Given, NotShared, Apart
<1>8. NoConn \notin begun
  BY NamesAssumption DEF PInv, TypeOK, NoConn
<1>9. Harmless
  <2>1. Leaked' \subseteq Leaked
    BY <1>2, <1>3, <1>5 DEF Leaked
  <2>2. Doomed' \subseteq Doomed
    BY <1>1, <1>3, <1>8 DEF PInv, TypeOK, Doomed
  <2> QED BY <1>1, <2>1, <2>2 DEF Harmless
<1> QED BY <1>4, <1>6, <1>7, <1>9 DEF PInv

\* The end of a search whose put fails: one that was doomed leaks what it held.
LEMMA EndSearchLeaks ==
  ASSUME PInv, NEW w \in Threads, EndSearch(w), PutFails(second[w])
  PROVE  /\ PInv'
         /\ Leaked' = Leaked \cup {second[w]}
         /\ Doomed' = Doomed \ {w} /\ w \in Doomed
         /\ second[w] \in begun \cap down
         /\ restarts' = restarts
<1>1. /\ pc[w] \in {"found", "unsearched"} /\ pc' = [pc EXCEPT ![w] = "failed"]
      /\ closed' = closed \cup {second[w]}
      /\ UNCHANGED <<pool, used, begun, down, main, restarts>>
      /\ second' = [second EXCEPT ![w] = NoConn]
  BY DEF EndSearch, Go, poolVars
<1>2. second[w] \in begun \cap down
  BY DEF PutFails
<1>3. second[w] # NoConn /\ second[w] \in Held
  BY <1>1 DEF PInv, TypeOK, Held, Searching
<1>4. TypeOK'
  BY <1>1, <1>2 DEF PInv, TypeOK, Step, Searching
<1>5. Held' = Held \ {second[w]}
  BY <1>1, <1>3 DEF PInv, TypeOK, Held, NotShared
<1>6. NotShared'
  BY <1>1, <1>5 DEF PInv, TypeOK, NotShared
<1>7. Given' /\ Apart'
  BY <1>1, <1>5 DEF PInv, Given, Apart
<1>8. Leaked' = Leaked \cup {second[w]}
  BY <1>1, <1>3, <1>5 DEF PInv, Given, NotShared, Leaked
<1>9. NoConn \notin begun
  BY NamesAssumption DEF PInv, TypeOK, NoConn
<1>10. Doomed' = Doomed \ {w} /\ w \in Doomed
  BY <1>1, <1>2, <1>9 DEF PInv, TypeOK, Doomed
<1> QED BY <1>1, <1>2, <1>4, <1>6, <1>7, <1>8, <1>10 DEF PInv

\* A failure to log makes the thread forget its connection.
LEMMA LogFailsInv ==
  ASSUME PInv, NEW w \in Threads, pc[w] \in {"entered", "leaving"}, Forget(w),
         UNCHANGED <<poolVars, connVars, second, restarts>>
  PROVE  PInv'
<1>1. /\ pc' = [pc EXCEPT ![w] = "idle"]
      /\ main' = [main EXCEPT ![w] = NoConn]
      /\ UNCHANGED <<pool, used, begun, down, closed, second, restarts>>
  BY DEF Forget, Go, poolVars, connVars
<1>2. TypeOK'
  BY <1>1 DEF PInv, TypeOK, Step, Searching
<1>3. Held' \subseteq Held
  BY <1>1 DEF PInv, TypeOK, Held
<1>4. NotShared'
  BY <1>1, <1>3 DEF PInv, TypeOK, NotShared
<1> QED BY <1>1, <1>2, <1>3, <1>4 DEF PInv, Given, Apart

\* The steps inside of a transaction and of a search: connections may begin and
\* end a transaction or be found closed, and stay in the same hands.
LEMMA InsideInv ==
  ASSUME PInv, NEW w \in Threads, NEW step \in Step \ {"idle"},
         pc[w] # "idle", pc' = [pc EXCEPT ![w] = step],
         step \in Searching <=> pc[w] \in Searching,
         UNCHANGED <<pool, used, down, main, second, restarts>>,
         begun' \subseteq used, begun' \cap down \subseteq begun,
         closed' \subseteq down \cap used
  PROVE  PInv' /\ Harmless
<1>1. PInv' /\ Leaked' = Leaked
  BY SameHolders DEF PInv, TypeOK
<1>2. Doomed' \subseteq Doomed
  BY DEF Doomed
<1> QED BY <1>1, <1>2 DEF Harmless

LEMMA SendInside ==
  ASSUME PInv, NEW c \in Held, Send(c)
  PROVE  /\ down' = down /\ begun' \subseteq used
         /\ begun' \cap down \subseteq begun
         /\ closed' \subseteq down \cap used
BY DEF PInv, TypeOK, Given, Send

LEMMA ExecuteInv ==
  ASSUME PInv, NEW w \in Threads, Execute(w)
  PROVE  PInv' /\ Harmless
<1>1. main[w] \in Held /\ pc[w] = "body"
  BY DEF PInv, TypeOK, Held, Execute
<1>2. PICK step \in {"body", "failed"} : pc' = [pc EXCEPT ![w] = step]
  BY <1>1 DEF Execute, Go, PInv, TypeOK
<1>3. /\ down' = down /\ begun' \subseteq used
      /\ begun' \cap down \subseteq begun /\ closed' \subseteq down \cap used
  BY <1>1, SendInside DEF Execute
<1> QED BY <1>1, <1>2, <1>3, InsideInv DEF Execute, poolVars, Step, Searching

LEMMA SelectInv ==
  ASSUME PInv, NEW w \in Threads, Select(w)
  PROVE  PInv' /\ Harmless
<1>1. second[w] \in Held /\ pc[w] = "search"
  BY DEF PInv, TypeOK, Held, Select, Searching
<1>2. PICK step \in {"found", "unsearched"} : pc' = [pc EXCEPT ![w] = step]
  BY DEF Select, Go
<1>3. /\ down' = down /\ begun' \subseteq used
      /\ begun' \cap down \subseteq begun /\ closed' \subseteq down \cap used
  BY <1>1, SendInside DEF Select
<1> QED BY <1>1, <1>2, <1>3, InsideInv DEF Select, poolVars, Step, Searching

LEMMA FailInv ==
  ASSUME PInv, NEW w \in Threads, Fail(w)
  PROVE  PInv' /\ Harmless
<1>1. PICK step \in {"failed", "unsearched"} :
        /\ pc' = [pc EXCEPT ![w] = step]
        /\ pc[w] # "idle" /\ (step \in Searching <=> pc[w] \in Searching)
  BY DEF Fail, Go, Searching
<1>2. /\ UNCHANGED <<pool, used, down, main, second, restarts>>
      /\ begun' = begun /\ closed' = closed
  BY DEF Fail, poolVars, connVars
<1>3. begun \subseteq used /\ closed \subseteq down \cap used
  BY DEF PInv, TypeOK
<1> QED BY <1>1, <1>2, <1>3, InsideInv DEF Step, Searching

LEMMA ExitInv ==
  ASSUME PInv, NEW w \in Threads, Exit(w)
  PROVE  PInv' /\ Harmless
<1>1. /\ pc[w] \in {"body", "failed"} /\ pc' = [pc EXCEPT ![w] = "leaving"]
      /\ UNCHANGED <<pool, used, down, main, second, restarts>>
  BY DEF Exit, Go, EndTransaction, poolVars
<1>2. begun' \subseteq begun /\ closed' \subseteq closed \cup (begun \cap down)
  BY DEF Exit, EndTransaction
<1>3. begun \subseteq used /\ closed \subseteq down \cap used
  BY DEF PInv, TypeOK
<1> QED BY <1>1, <1>2, <1>3, InsideInv DEF Step, Searching

\* The logging steps, when they log.
LEMMA LogInv ==
  ASSUME PInv, NEW w \in Threads, LogEntered(w) \/ LogLeaving(w)
  PROVE  PInv' /\ (~LogMayFail => Harmless)
<1>1. CASE pc'[w] = "idle"
  <2>1. /\ Forget(w) /\ LogMayFail /\ pc[w] \in {"entered", "leaving"}
        /\ UNCHANGED <<poolVars, connVars, second, restarts>>
    BY <1>1 DEF LogEntered, LogLeaving, Go, PInv, TypeOK
  <2> QED BY <2>1, LogFailsInv
<1>2. CASE pc'[w] # "idle"
  <2>1. PICK step \in {"body", "put"} : pc' = [pc EXCEPT ![w] = step]
    BY <1>2 DEF LogEntered, LogLeaving, Forget, Go, PInv, TypeOK
  <2>2. pc[w] \in {"entered", "leaving"}
    BY DEF LogEntered, LogLeaving
  <2>3. /\ UNCHANGED <<pool, used, down, main, second, restarts>>
        /\ begun' = begun /\ closed' = closed
    BY <1>2 DEF LogEntered, LogLeaving, Forget, Go, poolVars, connVars, PInv, TypeOK
  <2>4. begun \subseteq used /\ closed \subseteq down \cap used
    BY DEF PInv, TypeOK
  <2> QED BY <2>1, <2>2, <2>3, <2>4, InsideInv DEF Step, Searching
<1> QED BY <1>1, <1>2

LEMMA RestartInv ==
  ASSUME PInv, Restart
  PROVE  PInv' /\ Leaked' = Leaked /\ restarts' = restarts + 1
<1>1. /\ UNCHANGED <<pool, used, begun, closed, pc, main, second>>
      /\ down' = pool \cup used /\ restarts' = restarts + 1
      /\ restarts < MaxRestarts
  BY DEF Restart, poolVars
<1>2. begun' \subseteq used /\ closed' \subseteq down' \cap used
  BY <1>1 DEF PInv, TypeOK
<1>3. restarts' \in 0..MaxRestarts
  BY <1>1, FailAssumption DEF PInv, TypeOK
<1>4. pc' \in [Threads -> Step]
  BY <1>1 DEF PInv, TypeOK
<1> QED BY <1>1, <1>2, <1>3, <1>4, SameHolders

\* Each step preserves the invariant; as long as logging works, all are
\* harmless but a restart and the end of a search that one has cut off.
LEMMA StepInv ==
  ASSUME PInv, [Next]_vars
  PROVE  /\ PInv'
         /\ \/ LogMayFail \/ Harmless \/ Restart
            \/ \E w \in Threads : EndSearch(w) /\ PutFails(second[w])
<1>1. CASE UNCHANGED vars
  <2>1. PInv' /\ Leaked' = Leaked
    BY <1>1, SameHolders DEF vars, poolVars, connVars, PInv, TypeOK
  <2>2. Doomed' = Doomed /\ restarts' = restarts
    BY <1>1 DEF vars, poolVars, connVars, Doomed
  <2> QED BY <2>1, <2>2 DEF Harmless
<1>2. ASSUME NEW w \in Threads, EndSearch(w)
      PROVE  PInv' /\ (Harmless \/ PutFails(second[w]))
  BY <1>2, EndSearchPuts, EndSearchLeaks
<1>3. CASE Restart
  BY <1>3, RestartInv
<1> QED BY <1>1, <1>2, <1>3, EnterInv, LeaveInv, SearchInv, ExecuteInv, SelectInv,
           FailInv, ExitInv, LogInv DEF Next

-----------------------------------------------------------------------------
\* The numbers in Bound are numbers.
LEMMA Counts ==
  ASSUME PInv
  PROVE  /\ IsFiniteSet(Leaked) /\ IsFiniteSet(Doomed)
         /\ Cardinality(Leaked) \in Nat /\ Cardinality(Doomed) \in Nat
         /\ Cardinality(Doomed) <= Cardinality(Threads)
         /\ Cardinality(Threads) \in Nat /\ restarts \in Nat
<1>1. Leaked \subseteq Conns /\ Doomed \subseteq Threads
  BY DEF PInv, TypeOK, Leaked, Doomed
<1>2. /\ IsFiniteSet(Leaked) /\ IsFiniteSet(Doomed)
      /\ Cardinality(Doomed) <= Cardinality(Threads)
  BY <1>1, FS_Subset, ConnAssumption, ThreadsAssumption
<1>3. restarts \in Nat
  BY FailAssumption DEF PInv, TypeOK
<1> QED BY <1>2, <1>3, FS_CardinalityType, ThreadsAssumption

LEMMA BoundKept ==
  ASSUME PInv, Bound, [Next]_vars, ~LogMayFail
  PROVE  Bound'
<1> DEFINE n == Cardinality(Threads)
<1>1. PInv'
  BY StepInv
<1>2. /\ IsFiniteSet(Leaked) /\ IsFiniteSet(Doomed)
      /\ Cardinality(Leaked) \in Nat /\ Cardinality(Doomed) \in Nat
      /\ n \in Nat /\ restarts \in Nat
  BY Counts
<1>3. /\ Cardinality(Leaked') \in Nat /\ Cardinality(Doomed') \in Nat
      /\ Cardinality(Doomed') <= n /\ restarts' \in Nat
  <2>1. Leaked' \subseteq Conns /\ Doomed' \subseteq Threads
    BY <1>1 DEF PInv, TypeOK, Leaked, Doomed
  <2>2. /\ IsFiniteSet(Leaked') /\ IsFiniteSet(Doomed')
        /\ Cardinality(Doomed') <= n
    BY <2>1, FS_Subset, ConnAssumption, ThreadsAssumption
  <2>3. restarts' \in Nat
    BY <1>1, FailAssumption DEF PInv, TypeOK
  <2> QED BY <2>2, <2>3, FS_CardinalityType
<1>4. Cardinality(Leaked) + Cardinality(Doomed) <= restarts * n
  BY DEF Bound
<1>5. CASE Harmless
  <2>1. /\ Cardinality(Leaked') <= Cardinality(Leaked)
        /\ Cardinality(Doomed') <= Cardinality(Doomed)
    BY <1>2, <1>5, FS_Subset DEF Harmless
  <2>2. restarts' = restarts
    BY <1>5 DEF Harmless
  <2>3. Cardinality(Leaked') + Cardinality(Doomed') <= restarts * n
    <3>1. restarts * n \in Nat
      BY <1>2
    <3> HIDE DEF n
    <3> QED BY <1>2, <1>3, <1>4, <2>1, <3>1
  <2> QED BY <2>2, <2>3 DEF Bound
<1>6. CASE Restart
  <2>1. Leaked' = Leaked /\ restarts' = restarts + 1
    BY <1>6, RestartInv
  <2>2. restarts' * n = restarts * n + n /\ restarts * n \in Nat
    BY <1>2, <2>1
  <2>3. Cardinality(Leaked') + Cardinality(Doomed') <= restarts' * n
    <3> HIDE DEF n
    <3> QED BY <1>2, <1>3, <1>4, <2>1, <2>2
  <2> QED BY <2>3 DEF Bound
<1>7. ASSUME NEW w \in Threads, EndSearch(w), PutFails(second[w])
      PROVE  Bound'
  <2>1. /\ Leaked' = Leaked \cup {second[w]}
        /\ Doomed' = Doomed \ {w} /\ w \in Doomed
        /\ restarts' = restarts
    BY <1>7, EndSearchLeaks
  <2>2. Cardinality(Leaked') <= Cardinality(Leaked) + 1
    <3>1. PICK c : c = second[w]
      OBVIOUS
    <3>2. Cardinality(Leaked \cup {c}) = IF c \in Leaked THEN Cardinality(Leaked)
                                         ELSE Cardinality(Leaked) + 1
      BY <1>2, FS_AddElement
    <3> QED BY <1>2, <2>1, <3>1, <3>2
  <2>3. Cardinality(Doomed') = Cardinality(Doomed) - 1
    BY <1>2, <2>1, FS_RemoveElement
  <2>4. Cardinality(Leaked') + Cardinality(Doomed') <= restarts * n
    <3>1. restarts * n \in Nat
      BY <1>2
    <3> HIDE DEF n
    <3> QED BY <1>2, <1>3, <1>4, <2>2, <2>3, <3>1
  <2> QED BY <2>1, <2>4 DEF Bound
<1> QED BY <1>5, <1>6, <1>7, StepInv

-----------------------------------------------------------------------------
\* No two threads, and no transaction and its own search, ever have the same
\* connection, and none has the engine's: whatever fails, logging too.
THEOREM OneHolderEach == Spec => []NotShared
<1>1. PInv /\ [Next]_vars => PInv'
  BY StepInv
<1>2. PInv => NotShared
  BY DEF PInv
<1> QED BY <1>1, <1>2, InitInv, PTL DEF Spec

\* Whatever fails but logging, a connection that the pool has given out comes
\* back, but for one of a search in whose transaction the database restarted.
THEOREM ConnectionsComeBack ==
  ASSUME ~LogMayFail
  PROVE  Spec => []TypeOK /\ NoLeak
<1> DEFINE Lossless == Leaked' \ Leaked
                         \subseteq {second[w] : w \in Threads} \cap begun \cap down
<1>1. PInv /\ [Next]_vars => PInv'
  BY StepInv
<1>2. PInv => TypeOK
  BY DEF PInv
<1>3. ASSUME PInv, [Next]_vars PROVE [Lossless]_vars
  <2>1. CASE Harmless
    BY <2>1 DEF Harmless
  <2>2. CASE Restart
    BY <1>3, <2>2, RestartInv
  <2>3. ASSUME NEW w \in Threads, EndSearch(w), PutFails(second[w])
        PROVE  Lossless
    <3>1. Leaked' = Leaked \cup {second[w]} /\ second[w] \in begun \cap down
      BY <1>3, <2>3, EndSearchLeaks
    <3> QED BY <3>1
  <2> QED BY <1>3, <2>1, <2>2, <2>3, StepInv
<1> QED BY <1>1, <1>2, <1>3, InitInv, PTL DEF Spec, NoLeak

\* Whatever fails but logging, no restart of the database costs the process
\* more connections than it has threads; without one it loses none at all.
THEOREM RestartsCostLittle ==
  ASSUME ~LogMayFail
  PROVE  Spec => [](Cardinality(Leaked) <= restarts * Cardinality(Threads))
<1>1. (PInv /\ Bound) /\ [Next]_vars => (PInv /\ Bound)'
  BY StepInv, BoundKept
<1>2. PInv /\ Bound => Cardinality(Leaked) <= restarts * Cardinality(Threads)
  <2> SUFFICES ASSUME PInv, Bound
               PROVE  Cardinality(Leaked) <= restarts * Cardinality(Threads)
    OBVIOUS
  <2>1. /\ Cardinality(Leaked) \in Nat /\ Cardinality(Doomed) \in Nat
        /\ restarts * Cardinality(Threads) \in Nat
    BY Counts
  <2> QED BY <2>1 DEF Bound
<1> QED BY <1>1, <1>2, InitInv, PTL DEF Spec

\* A thread that wants a connection has at most one, so the others, the engine
\* and the restarts leave one for it.
LEMMA Enough ==
  ASSUME PInv, Bound
  PROVE  EnoughConnections
<1> SUFFICES ASSUME (2 + restarts) * Cardinality(Threads) < MaxConn,
                    NEW w \in Threads, pc[w] \in {"idle", "body"}
             PROVE  Cardinality(used) < MaxConn
  <2>1. Cardinality(used) \in Nat
    BY FS_Subset, FS_CardinalityType, ConnAssumption DEF PInv, TypeOK
  <2> QED BY <2>1, ConnAssumption DEF EnoughConnections, Exhausted
<1> DEFINE mains   == {main[v] : v \in Threads}
           others  == Threads \ {w}
           seconds == {second[v] : v \in others}
           n       == Cardinality(Threads)
<1>1. second[w] = NoConn
  BY DEF PInv, TypeOK, Searching
<1>2. used \subseteq (({Engine} \cup mains) \cup seconds) \cup Leaked
  BY <1>1 DEF PInv, Leaked, Held
<1>3. n \in Nat /\ IsFiniteSet(others) /\ Cardinality(others) = n - 1
  BY ThreadsAssumption, FS_RemoveElement, FS_CardinalityType
<1>4. IsFiniteSet(mains) /\ Cardinality(mains) <= n
  <2>1. [v \in Threads |-> main[v]] \in Surjection(Threads, mains)
    BY DEF Surjection
  <2> QED BY <2>1, ThreadsAssumption, FS_Surjection
<1>5. IsFiniteSet(seconds) /\ Cardinality(seconds) <= n - 1
  <2>1. [v \in others |-> second[v]] \in Surjection(others, seconds)
    BY DEF Surjection
  <2>2. IsFiniteSet(seconds) /\ Cardinality(seconds) <= Cardinality(others)
    BY <1>3, <2>1, FS_Surjection
  <2> QED BY <1>3, <2>2
<1>6. IsFiniteSet({Engine}) /\ Cardinality({Engine}) = 1
  BY FS_Singleton
<1> HIDE DEF mains, others, seconds, n
<1>7. /\ IsFiniteSet({Engine} \cup mains)
      /\ Cardinality({Engine} \cup mains) <= 1 + n
  <2>1. /\ Cardinality({Engine} \cap mains) \in Nat
        /\ Cardinality(mains) \in Nat
    BY <1>4, <1>6, FS_Intersection, FS_CardinalityType
  <2>2. /\ IsFiniteSet({Engine} \cup mains)
        /\ Cardinality({Engine} \cup mains) = Cardinality({Engine})
             + Cardinality(mains) - Cardinality({Engine} \cap mains)
    BY <1>4, <1>6, FS_Union
  <2> QED BY <1>3, <1>4, <1>6, <2>1, <2>2
<1>8. /\ IsFiniteSet(({Engine} \cup mains) \cup seconds)
      /\ Cardinality(({Engine} \cup mains) \cup seconds) <= 2 * n
  <2>1. /\ Cardinality(({Engine} \cup mains) \cap seconds) \in Nat
        /\ Cardinality(seconds) \in Nat
        /\ Cardinality({Engine} \cup mains) \in Nat
    BY <1>5, <1>7, FS_Intersection, FS_CardinalityType
  <2>2. /\ IsFiniteSet(({Engine} \cup mains) \cup seconds)
        /\ Cardinality(({Engine} \cup mains) \cup seconds)
             = Cardinality({Engine} \cup mains) + Cardinality(seconds)
                 - Cardinality(({Engine} \cup mains) \cap seconds)
    BY <1>5, <1>7, FS_Union
  <2> QED BY <1>3, <1>5, <1>7, <2>1, <2>2
<1>9. /\ IsFiniteSet(Leaked) /\ Cardinality(Leaked) \in Nat
      /\ Cardinality(Leaked) <= restarts * n /\ restarts * n \in Nat
  <2>1. /\ IsFiniteSet(Leaked)
        /\ Cardinality(Leaked) \in Nat /\ Cardinality(Doomed) \in Nat
        /\ restarts \in Nat
    BY Counts
  <2>2. Cardinality(Leaked) + Cardinality(Doomed) <= restarts * n
    BY DEF Bound, n
  <2>3. restarts * n \in Nat
    BY <1>3, <2>1
  <2> QED BY <2>1, <2>2, <2>3
<1>10. Cardinality(used) \in Nat /\ Cardinality(used) <= 2 * n + restarts * n
  <2> DEFINE held == ({Engine} \cup mains) \cup seconds
  <2>1. /\ Cardinality(held \cap Leaked) \in Nat /\ Cardinality(held) \in Nat
        /\ IsFiniteSet(held \cup Leaked)
        /\ Cardinality(held \cup Leaked) = Cardinality(held)
             + Cardinality(Leaked) - Cardinality(held \cap Leaked)
    BY <1>8, <1>9, FS_Intersection, FS_Union, FS_CardinalityType
  <2>2. /\ IsFiniteSet(used) /\ Cardinality(used) \in Nat
        /\ Cardinality(used) <= Cardinality(held \cup Leaked)
    BY <1>2, <2>1, FS_Subset, FS_CardinalityType
  <2>3. Cardinality(held) <= 2 * n
    BY <1>8
  <2> HIDE DEF held
  <2> QED BY <1>3, <1>9, <2>1, <2>2, <2>3
<1>11. (2 + restarts) * n = 2 * n + restarts * n
  BY <1>3, Counts
<1> QED BY <1>3, <1>9, <1>10, <1>11, ConnAssumption DEF n

\* With more than twice as many connections as threads, and as many more as
\* there are threads for every restart of the database, no request fails for
\* want of one.
THEOREM NobodyIsRefused ==
  ASSUME ~LogMayFail
  PROVE  Spec => []EnoughConnections
<1>1. (PInv /\ Bound) /\ [Next]_vars => (PInv /\ Bound)'
  BY StepInv, BoundKept
<1>2. PInv /\ Bound => EnoughConnections
  BY Enough
<1> QED BY <1>1, <1>2, InitInv, PTL DEF Spec
=============================================================================
