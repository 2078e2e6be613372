-------------------------- MODULE ResourceTypesProofs --------------------------
(***************************************************************************)
(* Theorems about ResourceTypes: what is on record as prepared is there,   *)
(* columns have the types that the newest version gave them, and what a    *)
(* server serves has its tables, for every number of runs, threads,        *)
(* releases, types and versions, as long as no two runs that overlap read  *)
(* different releases; and, if no runs overlap at all, that a run stores   *)
(* every type it has, once.                                                *)
(***************************************************************************)
EXTENDS ResourceTypes, FiniteSetTheorems, TLAPS

-----------------------------------------------------------------------------
(***************************************************************************)
(* Types.  A step of a run or a thread is about its own variables; they    *)
(* are functions of the runs, or the threads.                              *)
(***************************************************************************)
PrepFuns ==
  /\ DOMAIN pc = Preparers /\ DOMAIN release = Preparers
  /\ DOMAIN todo = Preparers /\ DOMAIN current = Preparers
  /\ DOMAIN blank = Preparers /\ DOMAIN tables = Preparers
  /\ DOMAIN known = Preparers /\ DOMAIN ddl = Preparers
  /\ DOMAIN newvers = Preparers /\ DOMAIN isthere = Preparers
  /\ DOMAIN newspecs = Preparers /\ DOMAIN updated = Preparers

ThreadFuns ==
  /\ DOMAIN tpc = Threads /\ DOMAIN want = Threads
  /\ DOMAIN reading = Threads /\ DOMAIN got = Threads
  /\ DOMAIN nextpart = Threads

PrepKept(p) ==
  \A q \in Preparers \ {p} :
    /\ pc'[q] = pc[q] /\ release'[q] = release[q]
    /\ todo'[q] = todo[q] /\ current'[q] = current[q]
    /\ blank'[q] = blank[q] /\ tables'[q] = tables[q]
    /\ known'[q] = known[q] /\ ddl'[q] = ddl[q]
    /\ newvers'[q] = newvers[q] /\ isthere'[q] = isthere[q]
    /\ newspecs'[q] = newspecs[q] /\ updated'[q] = updated[q]

ThreadKept(w) ==
  \A v \in Threads \ {w} :
    /\ tpc'[v] = tpc[v] /\ want'[v] = want[v] /\ reading'[v] = reading[v]
    /\ got'[v] = got[v] /\ nextpart'[v] = nextpart[v]

\* What a run has at which step.
Holds(p) ==
  /\ pc[p] # "idle" => release[p] \in Releases
  /\ pc[p] \notin {"tables", "reflect"} => newvers[p] = {}
  /\ pc[p] \in {"idle", "specs", "check"} => ddl[p] = NoDdl
  /\ pc[p] # "store" => newspecs[p] = {} /\ updated[p] = {}

TypeInv ==
  /\ PrepFuns /\ ThreadFuns
  /\ TypeOK
  /\ \A p \in Preparers : Holds(p)

\* The names of the actions of a run.
LEMMA PrepareSteps ==
  ASSUME PrepFuns, NEW p \in Preparers, Prepare(p)
  PROVE  PrepFuns' /\ PrepKept(p) /\ UNCHANGED serverVars
<1> USE DEF PrepFuns, PrepKept, memVars, storeVars
<1>1. CASE \E r \in Releases : Begin(p, r)
  BY <1>1 DEF Begin
<1>2. CASE \E t \in Types : GetKnownVersions(p, t)
  BY <1>2 DEF GetKnownVersions
<1>3. CASE \E t \in Types : GetTypes(p, t)
  BY <1>3 DEF GetTypes
<1>4. CASE PrepareVersion(p)
  BY <1>4 DEF PrepareVersion
<1>5. CASE CommitTables(p)
  BY <1>5 DEF CommitTables
<1>6. CASE PrepareTables(p)
  BY <1>6 DEF PrepareTables
<1>7. CASE UpdateSpec(p) \/ AddSpec(p)
  BY <1>7 DEF UpdateSpec, AddSpec
<1>8. CASE CommitSpecs(p)
  BY <1>8 DEF CommitSpecs
<1>9. CASE Check(p)
  BY <1>9 DEF Check
<1>10. CASE Abort(p)
  BY <1>10 DEF Abort, Forget
<1>11. CASE ReadTables(p)
  BY <1>11 DEF ReadTables
<1> QED BY <1>1, <1>2, <1>3, <1>4, <1>5, <1>6, <1>7, <1>8, <1>9, <1>10, <1>11
        DEF Prepare

LEMMA RunSteps ==
  ASSUME ThreadFuns, NEW w \in Threads, Run(w)
  PROVE  ThreadFuns' /\ ThreadKept(w) /\ UNCHANGED <<dbVars, prepVars>>
<1> USE DEF ThreadFuns, ThreadKept
<1>1. CASE Boot(w) \/ \E t \in Types : Request(w, t)
  BY <1>1 DEF Boot, Request, Load
<1>2. CASE \E t \in Types : GetSpec(w, t)
  BY <1>2 DEF GetSpec
<1>3. CASE NotDefined(w) \/ Serve(w) \/ \E t \in Types : NoSpec(w, t)
  BY <1>3 DEF NotDefined, Serve, NoSpec, Rest
<1>4. CASE AddRoute(w)
  BY <1>4 DEF AddRoute, Rest, threadVars
<1> QED BY <1>1, <1>2, <1>3, <1>4 DEF Run

\* The order of the transactions.
LEMMA Order ==
  /\ PrepareMode.begin = "tables" /\ PrepareMode.tables = "specs"
  /\ PrepareMode.store = "check"
BY DEF PrepareMode

LEMMA SchemaIsThere ==
  ASSUME NEW r \in Releases, NEW t \in Types, NEW v \in 1 .. Latest[r][t]
  PROVE  /\ v \in DOMAIN Schema[t] /\ <<t, v>> \in Versions
         /\ Schema[t][v] \subseteq Column /\ Schema[t][v] \subseteq AnyColumn
         /\ TablesIn(Schema[t][v]) \subseteq TablesOf(t)
<1>1. Latest[r][t] \in Nat /\ v \in DOMAIN Schema[t] /\ v \in Nat
  BY ReleasesAssumption
<1>2. Schema[t][v] \subseteq Column
  BY <1>1 DEF Column
<1> QED BY <1>1, <1>2 DEF Versions, AnyColumn, TablesIn, TablesOf

LEMMA InitTypes == Init => TypeInv
<1> SUFFICES ASSUME Init PROVE TypeInv
  OBVIOUS
<1>1. PrepFuns /\ ThreadFuns
  BY DEF Init, PrepFuns, ThreadFuns
<1>2. \A p \in Preparers : PreparerOK(p) /\ Holds(p)
  BY DEF Init, PreparerOK, Holds, NoDdl
<1>3. 1 \in Part
  BY PartsAssumption DEF Part
<1>4. \A w \in Threads : ThreadOK(w)
  BY <1>3 DEF Init, ThreadOK
<1> QED BY <1>1, <1>2, <1>4 DEF Init, TypeInv, TypeOK, NoRoutes

\* A run that keeps its types.
LEMMA PrepareTypes ==
  ASSUME TypeInv, NEW p \in Preparers, Prepare(p)
  PROVE  TypeInv'
<1>1. PrepFuns' /\ PrepKept(p) /\ UNCHANGED serverVars
  BY PrepareSteps DEF TypeInv
<1>2. \A q \in Preparers \ {p} : PreparerOK(q)' /\ Holds(q)'
  BY <1>1 DEF TypeInv, TypeOK, PreparerOK, Holds, PrepKept
<1>3. /\ ThreadFuns' /\ \A w \in Threads : ThreadOK(w)'
      /\ up' \in BOOLEAN
      /\ routes' \in [Types -> [Part -> Releases \cup {NoRelease}]]
  BY <1>1 DEF TypeInv, TypeOK, ThreadFuns, ThreadOK, serverVars, threadVars
<1>4. /\ PrepFuns /\ PreparerOK(p) /\ Holds(p)
      /\ cols \subseteq AnyColumn /\ versions \subseteq Versions /\ specs \subseteq Row
  BY DEF TypeInv, TypeOK
<1>5. View(p) \subseteq AnyColumn
  BY <1>4 DEF PreparerOK, View
<1> DEFINE DbOK == cols \subseteq AnyColumn /\ versions \subseteq Versions
                     /\ specs \subseteq Row
<1>6. PreparerOK(p)' /\ Holds(p)' /\ DbOK'
  <2> USE <1>4 DEF PrepFuns, PreparerOK, Holds, dbVars, memVars, storeVars
  <2>1. CASE \E r \in Releases : Begin(p, r)
    BY <2>1, Order DEF Begin, TypesOf
  <2>2. CASE \E t \in Types : GetKnownVersions(p, t)
    <3>1. PICK t \in Types : GetKnownVersions(p, t)
      BY <2>2
    <3>2. VersionColumn(t) \in AnyColumn
      BY DEF AnyColumn
    <3>3. ddl'[p] \in [add : SUBSET AnyColumn, drop : SUBSET AnyColumn]
      BY <3>1, <3>2 DEF GetKnownVersions
    <3>4. known'[p] \subseteq Nat
      BY <3>1 DEF GetKnownVersions, Versions
    <3>5. pc[p] = "tables" /\ pc'[p] \in {"tables", "reflect"}
      BY <3>1 DEF GetKnownVersions
    <3> QED BY <3>1, <3>3, <3>4, <3>5 DEF GetKnownVersions
  <2>3. CASE ReadTables(p)
    BY <2>3 DEF ReadTables
  <2>4. CASE PrepareVersion(p)
    <3>1. PICK v \in Unprepared(p) :
            LET wanted == Schema[current[p]][v]
            IN /\ ddl'[p].add \subseteq ddl[p].add \cup wanted
               /\ ddl'[p].drop \subseteq ddl[p].drop \cup cols
               /\ tables'[p] \subseteq tables[p] \cup wanted
               /\ newvers'[p] = newvers[p] \cup {<<current[p], v>>}
               /\ known'[p] = known[p] \cup {v}
               /\ ddl'[p] \in [add : SUBSET (ddl[p].add \cup wanted),
                               drop : SUBSET (ddl[p].drop \cup cols)]
      BY <2>4 DEF PrepareVersion, ToCreate, ToAdd, ToAlter
    <3>2. current[p] \in Types /\ release[p] \in Releases
          /\ v \in 1 .. Latest[release[p]][current[p]] /\ pc[p] = "tables"
      BY <2>4, <3>1 DEF Unprepared, PrepareVersion
    <3>3. /\ Schema[current[p]][v] \subseteq AnyColumn
          /\ <<current[p], v>> \in Versions /\ v \in Nat
      BY <3>2, SchemaIsThere, ReleasesAssumption
    <3>4. UNCHANGED <<dbVars, pc, release, todo, current, blank, storeVars>>
      BY <2>4 DEF PrepareVersion
    <3> QED BY <3>1, <3>2, <3>3, <3>4
  <2>5. CASE CommitTables(p)
    BY <1>5, <2>5, Order DEF CommitTables, TypesOf, NoDdl
  <2>6. CASE PrepareTables(p)
    <3>1. SpecColumn \in AnyColumn
      BY DEF AnyColumn
    <3> QED BY <2>6, <3>1 DEF PrepareTables
  <2>7. CASE \E t \in Types : GetTypes(p, t)
    BY <2>7 DEF GetTypes
  <2>8. CASE UpdateSpec(p)
    BY <2>8 DEF UpdateSpec, RowsOf
  <2>9. CASE AddSpec(p)
    BY <2>9 DEF AddSpec, Row
  <2>10. CASE CommitSpecs(p)
    <3>1. \A x \in updated[p] : [x EXCEPT !.release = release[p]] \in Row
      BY <2>10 DEF CommitSpecs, Row
    <3> QED BY <1>5, <2>10, <3>1, Order DEF CommitSpecs, TypesOf, NoDdl
  <2>11. CASE Check(p)
    <3>1. ddl[p] = NoDdl /\ newvers[p] = {} /\ newspecs[p] = {} /\ updated[p] = {}
      BY <2>11 DEF Check
    <3> QED BY <2>11, <3>1 DEF Check
  <2>12. CASE Abort(p)
    BY <2>12 DEF Abort, Forget, NoDdl
  <2> QED BY <2>1, <2>2, <2>3, <2>4, <2>5, <2>6, <2>7, <2>8, <2>9, <2>10, <2>11,
             <2>12 DEF Prepare
<1> QED BY <1>1, <1>2, <1>3, <1>6 DEF TypeInv, TypeOK

LEMMA RunTypes ==
  ASSUME TypeInv, NEW w \in Threads, Run(w)
  PROVE  TypeInv'
<1>1. ThreadFuns' /\ ThreadKept(w) /\ UNCHANGED <<dbVars, prepVars>>
  BY RunSteps DEF TypeInv
<1>2. /\ PrepFuns' /\ \A p \in Preparers : PreparerOK(p)' /\ Holds(p)'
      /\ cols' \subseteq AnyColumn /\ versions' \subseteq Versions
      /\ specs' \subseteq Row
  <2>1. UNCHANGED <<pc, release, todo, current, blank, tables, known, ddl, newvers,
                    isthere, newspecs, updated, cols, versions, specs>>
    BY <1>1 DEF dbVars, prepVars, memVars, storeVars
  <2> QED BY <2>1 DEF TypeInv, TypeOK, PrepFuns, PreparerOK, Holds
<1>3. \A v \in Threads \ {w} : ThreadOK(v)'
  BY <1>1 DEF TypeInv, TypeOK, ThreadOK, ThreadKept
<1>4. /\ ThreadFuns /\ ThreadOK(w) /\ specs \subseteq Row /\ up \in BOOLEAN
      /\ routes \in [Types -> [Part -> Releases \cup {NoRelease}]]
  BY DEF TypeInv, TypeOK
<1>5. 1 \in Part
  BY PartsAssumption DEF Part
<1>6. /\ ThreadOK(w)' /\ up' \in BOOLEAN
      /\ routes' \in [Types -> [Part -> Releases \cup {NoRelease}]]
  <2> USE <1>4, <1>5 DEF ThreadFuns, ThreadOK
  <2>1. CASE Boot(w) \/ \E t \in Types : Request(w, t)
    <3>1. PICK ts \in SUBSET Types : Load(w, ts)
      BY <2>1 DEF Boot, Request
    <3>2. Names \subseteq Types
      BY DEF Names, Row
    <3> QED BY <3>1, <3>2 DEF Load
  <2>2. CASE \E t \in Types : GetSpec(w, t)
    <3>1. PICK t \in Types : GetSpec(w, t)
      BY <2>2
    <3>2. PICK x \in specs :
            got' = IF t \in want[w]
                     THEN [got EXCEPT ![w] = @ \cup {<<t, x.release>>}] ELSE got
      BY <3>1 DEF GetSpec
    <3>3. x.release \in Releases
      BY DEF Row
    <3>4. got'[w] \subseteq Types \X Releases
      BY <3>2, <3>3
    <3>5. /\ UNCHANGED <<up, routes, want, nextpart>>
          /\ reading'[w] \subseteq Types
          /\ tpc'[w] \in {"idle", "boot", "find", "add"}
      BY <3>1 DEF GetSpec
    <3> QED BY <3>4, <3>5
  <2>3. CASE NotDefined(w) \/ \E t \in Types : NoSpec(w, t)
    BY <2>3 DEF NotDefined, NoSpec, Rest
  <2>4. CASE Serve(w)
    BY <2>4 DEF Serve, Rest
  <2>5. CASE AddRoute(w)
    <3>1. PICK x \in got[w] :
            routes' = [routes EXCEPT ![x[1]] = [@ EXCEPT ![nextpart[w]] = x[2]]]
      BY <2>5 DEF AddRoute
    <3>2. x[1] \in Types /\ x[2] \in Releases
      OBVIOUS
    <3>3. routes' \in [Types -> [Part -> Releases \cup {NoRelease}]]
      BY <3>1, <3>2
    <3>4. ThreadOK(w)'
      <4>1. CASE Rest(w)
        BY <4>1 DEF Rest
      <4>2. CASE nextpart[w] < Parts /\ ~Rest(w)
        <5>1. nextpart[w] + 1 \in Part
          BY <4>2, PartsAssumption DEF Part
        <5> QED BY <2>5, <4>2, <5>1 DEF AddRoute
      <4> QED BY <2>5, <4>1, <4>2 DEF AddRoute
    <3> QED BY <2>5, <3>3, <3>4 DEF AddRoute
  <2> QED BY <1>1, <2>1, <2>2, <2>3, <2>4, <2>5 DEF Run
<1> QED BY <1>1, <1>2, <1>3, <1>6 DEF TypeInv, TypeOK

LEMMA StepTypes == TypeInv /\ [Next]_vars => TypeInv'
<1> SUFFICES ASSUME TypeInv, [Next]_vars PROVE TypeInv'
  OBVIOUS
<1>1. CASE \E p \in Preparers : Prepare(p)
  BY <1>1, PrepareTypes
<1>2. CASE \E w \in Threads : Run(w)
  BY <1>2, RunTypes
<1>3. CASE Stop \/ UNCHANGED vars
  <2>1. UNCHANGED <<pc, release, todo, current, blank, tables, known, ddl, newvers,
                    isthere, newspecs, updated, cols, versions, specs>>
    BY <1>3 DEF Stop, vars, dbVars, prepVars, memVars, storeVars
  <2>2. /\ PrepFuns' /\ \A p \in Preparers : PreparerOK(p)' /\ Holds(p)'
        /\ cols' \subseteq AnyColumn /\ versions' \subseteq Versions
        /\ specs' \subseteq Row
    BY <2>1 DEF TypeInv, TypeOK, PrepFuns, PreparerOK, Holds
  <2>3. 1 \in Part
    BY PartsAssumption DEF Part
  <2>4. /\ ThreadFuns' /\ \A w \in Threads : ThreadOK(w)'
        /\ up' \in BOOLEAN
        /\ routes' \in [Types -> [Part -> Releases \cup {NoRelease}]]
    <3>1. CASE Stop
      BY <2>3, <3>1 DEF Stop, ThreadFuns, ThreadOK, NoRoutes
    <3>2. CASE UNCHANGED vars
      BY <3>2 DEF vars, serverVars, threadVars, ThreadFuns, ThreadOK, TypeInv, TypeOK
    <3> QED BY <1>3, <3>1, <3>2
  <2> QED BY <2>2, <2>4 DEF TypeInv, TypeOK
<1> QED BY <1>1, <1>2, <1>3 DEF Next

\* The variables have their types, and a run that ended or died leaves nothing
\* uncommitted.
THEOREM TypesOfPreparation == Spec => []TypeOK
<1>1. TypeInv => TypeOK
  BY DEF TypeInv
<1> QED BY <1>1, InitTypes, StepTypes, PTL DEF Spec

-----------------------------------------------------------------------------
(***************************************************************************)
(* The inductive invariant.  A run's dict of tables goes stale when another *)
(* run commits; as that one reads the same release, everything is prepared *)
(* from then on.  A run that has committed its tables leaves the columns   *)
(* of all its versions; columns are only ever dropped for others of the    *)
(* same name.                                                              *)
(***************************************************************************)
Preparing(p) == pc[p] \in {"tables", "reflect"}
OnRecord(p)  == versions \cup newvers[p]
Named(c, cs) == SameName(c, cs) # {}

AllPrepared(r) ==
  \A t \in TypesOf(r) : \A v \in 1 .. Latest[r][t] : <<t, v>> \in versions

\* What the run has to do, and has done.
ProgressOK(p) ==
  /\ pc[p] # "idle" =>
       /\ todo[p] \subseteq TypesOf(release[p])
       /\ current[p] \in (TypesOf(release[p]) \ todo[p]) \cup {NoType}
  /\ pc[p] \in {"idle", "specs", "check"} =>
       current[p] = NoType
  /\ pc[p] = "reflect" => current[p] # NoType
  /\ pc[p] \in {"specs", "store", "check"} => AllPrepared(release[p])
  /\ Preparing(p) =>
       /\ \A t \in TypesOf(release[p]) \ (todo[p] \cup {current[p]}) :
            \A v \in 1 .. Latest[release[p]][t] : <<t, v>> \in OnRecord(p)
       /\ current[p] # NoType =>
            \A v \in known[p] : <<current[p], v>> \in OnRecord(p)

\* The columns that its transaction sees, and what its dict knows of them.
ColumnsOK(p) ==
  /\ \A c \in ddl[p].drop : Named(c, ddl[p].add)
  /\ \A x \in newvers[p] : HasColumns(View(p), x[1], x[2])
  /\ Preparing(p) => \A t \in todo[p] :
       TablesOf(t) \cap TablesIn(ddl[p].add) = {}
  /\ pc[p] = "reflect" =>
       TablesOf(current[p]) \cap TablesIn(ddl[p].add) = {}
  /\ pc[p] = "tables" =>
       /\ \A c \in tables[p] : Named(c, View(p))
       /\ \/ TablesIn(cols) \subseteq TablesIn(tables[p])
          \/ AllPrepared(release[p])
       /\ current[p] # NoType =>
            TablesOf(current[p]) \cap TablesIn(ddl[p].add)
              \subseteq TablesIn(tables[p])

SameRelease ==
  \A p, q \in Preparers :
    pc[p] # "idle" /\ pc[q] # "idle" => release[p] = release[q]

TablesInv ==
  /\ \A p \in Preparers : ProgressOK(p) /\ ColumnsOK(p)
  /\ SameRelease
  /\ KnownIsPrepared

\* The newest version of what is served, or will be, is on record.
Servable(t, r) == <<t, Latest[r][t]>> \in versions

ServedInv ==
  /\ \A x \in specs : Servable(x.type, x.release)
  /\ \A p \in Preparers :
       /\ \A x \in newspecs[p] : Servable(x.type, x.release)
       /\ \A x \in updated[p] : Servable(x.type, release[p])
  /\ \A w \in Threads : \A g \in got[w] : Servable(g[1], g[2])
  /\ \A t \in Types, k \in Part :
       routes[t][k] # NoRelease => Servable(t, routes[t][k])

-----------------------------------------------------------------------------
\* What is dropped for another of its name leaves the names as they are.
LEMMA NamesKept ==
  ASSUME NEW cs, NEW drop, NEW add, \A c \in drop : Named(c, add)
  PROVE  \A c : Named(c, (cs \ drop) \cup add) <=> Named(c, cs) \/ Named(c, add)
<1> SUFFICES ASSUME NEW c
             PROVE  Named(c, (cs \ drop) \cup add) <=> Named(c, cs) \/ Named(c, add)
  OBVIOUS
<1>1. ASSUME Named(c, cs) PROVE Named(c, (cs \ drop) \cup add)
  <2>1. PICK d \in cs : d.table = c.table /\ d.name = c.name
    BY <1>1 DEF Named, SameName
  <2>2. CASE d \notin drop
    BY <2>1, <2>2 DEF Named, SameName
  <2>3. CASE d \in drop
    <3>1. PICK e \in add : e.table = d.table /\ e.name = d.name
      BY <2>3 DEF Named, SameName
    <3> QED BY <2>1, <3>1 DEF Named, SameName
  <2> QED BY <2>2, <2>3
<1>2. ASSUME Named(c, add) PROVE Named(c, (cs \ drop) \cup add)
  BY <1>2 DEF Named, SameName
<1>3. ASSUME Named(c, (cs \ drop) \cup add) PROVE Named(c, cs) \/ Named(c, add)
  BY <1>3 DEF Named, SameName
<1> QED BY <1>1, <1>2, <1>3

LEMMA NamesStay ==
  ASSUME NEW cs, NEW ds, \A c \in cs : Named(c, ds)
  PROVE  /\ \A c : Named(c, cs) => Named(c, ds)
         /\ TablesIn(cs) \subseteq TablesIn(ds)
BY DEF Named, SameName, TablesIn

LEMMA ViewNames ==
  ASSUME NEW p, ColumnsOK(p)
  PROVE  /\ \A c : Named(c, View(p)) <=> Named(c, cols) \/ Named(c, ddl[p].add)
         /\ TablesIn(View(p)) \subseteq TablesIn(cols) \cup TablesIn(ddl[p].add)
<1>1. \A c : Named(c, View(p)) <=> Named(c, cols) \/ Named(c, ddl[p].add)
  BY NamesKept DEF ColumnsOK, View
<1> QED BY <1>1 DEF View, TablesIn

\* What the other runs do leaves a run in order: they only bring new names, and
\* new tables only once everything is prepared that the run has to prepare.
LEMMA OthersOK ==
  ASSUME NEW p \in Preparers, NEW q \in Preparers \ {p}, PrepKept(p),
         ProgressOK(q), ColumnsOK(q),
         versions \subseteq versions', \A c : Named(c, cols) => Named(c, cols'),
         \/ TablesIn(cols') \subseteq TablesIn(cols)
         \/ pc[q] # "idle" => AllPrepared(release[q])'
  PROVE  ProgressOK(q)' /\ ColumnsOK(q)'
<1>0. /\ pc'[q] = pc[q] /\ release'[q] = release[q] /\ todo'[q] = todo[q]
      /\ current'[q] = current[q] /\ tables'[q] = tables[q]
      /\ known'[q] = known[q] /\ ddl'[q] = ddl[q] /\ newvers'[q] = newvers[q]
  BY DEF PrepKept
<1>1. \A r : AllPrepared(r) => AllPrepared(r)'
  BY DEF AllPrepared
<1>2. OnRecord(q) \subseteq OnRecord(q)'
  BY <1>0 DEF OnRecord
<1>3. ProgressOK(q)'
  BY <1>0, <1>1, <1>2 DEF ProgressOK, Preparing
<1>4. \A c : Named(c, View(q)) => Named(c, View(q)')
  <2>1. \A c : Named(c, View(q)) => Named(c, cols) \/ Named(c, ddl[q].add)
    BY ViewNames
  <2>2. \A c : Named(c, cols') \/ Named(c, ddl[q].add) =>
          Named(c, (cols' \ ddl[q].drop) \cup ddl[q].add)
    <3>1. \A c \in ddl[q].drop : Named(c, ddl[q].add)
      BY DEF ColumnsOK
    <3> QED BY <3>1, NamesKept
  <2> QED BY <1>0, <2>1, <2>2 DEF View
<1>5. \A x \in newvers[q] : HasColumns(View(q)', x[1], x[2])
  BY <1>4 DEF ColumnsOK, HasColumns, Named
<1>6. pc[q] = "tables" => \A c \in tables[q] : Named(c, View(q)')
  BY <1>4 DEF ColumnsOK
<1>7. pc[q] = "tables" =>
        \/ TablesIn(cols') \subseteq TablesIn(tables[q])
        \/ AllPrepared(release[q])'
  BY <1>0, <1>1 DEF ColumnsOK
<1>8. ColumnsOK(q)'
  <2>1. /\ \A c \in ddl'[q].drop : Named(c, ddl'[q].add)
        /\ \A x \in newvers'[q] : HasColumns(View(q)', x[1], x[2])
    BY <1>0, <1>5 DEF ColumnsOK
  <2>2. /\ Preparing(q)' => \A t \in todo'[q] :
              TablesOf(t) \cap TablesIn(ddl'[q].add) = {}
        /\ pc'[q] = "reflect" =>
              TablesOf(current'[q]) \cap TablesIn(ddl'[q].add) = {}
    BY <1>0 DEF ColumnsOK, Preparing
  <2>3. pc'[q] = "tables" =>
          /\ \A c \in tables'[q] : Named(c, View(q)')
          /\ \/ TablesIn(cols') \subseteq TablesIn(tables'[q])
             \/ AllPrepared(release[q])'
          /\ current'[q] # NoType =>
               TablesOf(current'[q]) \cap TablesIn(ddl'[q].add)
                 \subseteq TablesIn(tables'[q])
    BY <1>0, <1>6, <1>7 DEF ColumnsOK
  <2> QED BY <2>1, <2>2, <2>3 DEF ColumnsOK, Named, SameName, HasColumns, TablesOf, TablesIn
<1> QED BY <1>3, <1>8

\* What a version brings to the transaction and to the dict.
Adds(p, v)   == ToAdd(p, Schema[current[p]][v])
Alters(p, v) == ToAlter(p, Schema[current[p]][v])
Makes(p, v)  == ToCreate(p, Schema[current[p]][v])
Olds(p, v)   == UNION {SameName(c, View(p)) : c \in Alters(p, v)}
Created(p, v) == {c \in Makes(p, v) : c.table \notin TablesIn(View(p))}

LEMMA PrepareVersionSteps ==
  ASSUME TypeInv, NEW p \in Preparers, PrepareVersion(p)
  PROVE  \E v \in Unprepared(p) :
           /\ pc[p] = "tables"
           /\ \A x \in Unprepared(p) : v <= x
           /\ Free(p, TablesIn(Makes(p, v) \cup Adds(p, v) \cup Alters(p, v)))
           /\ \A c \in Adds(p, v) : ~Named(c, View(p))
           /\ ddl'[p].add = (ddl[p].add \ Olds(p, v)) \cup Created(p, v)
                               \cup Adds(p, v) \cup Alters(p, v)
           /\ ddl'[p].drop = ddl[p].drop \cup (Olds(p, v) \cap cols)
           /\ tables'[p] = (tables[p] \ UNION {SameName(c, tables[p]) :
                                                 c \in Alters(p, v)})
                             \cup Makes(p, v) \cup Adds(p, v) \cup Alters(p, v)
           /\ newvers'[p] = newvers[p] \cup {<<current[p], v>>}
           /\ known'[p] = known[p] \cup {v}
           /\ UNCHANGED <<cols, versions, specs, pc, release, todo, current, blank>>
<1>1. PrepFuns /\ ddl[p] \in [add : SUBSET AnyColumn, drop : SUBSET AnyColumn]
  BY DEF TypeInv, TypeOK, PreparerOK
<1>2. PICK v \in Unprepared(p) :
        /\ pc[p] = "tables"
        /\ \A x \in Unprepared(p) : v <= x
        /\ Free(p, TablesIn(Makes(p, v) \cup Adds(p, v) \cup Alters(p, v)))
        /\ \A c \in Adds(p, v) : SameName(c, View(p)) = {}
        /\ ddl' = [ddl EXCEPT ![p] =
             [add  |-> (@.add \ Olds(p, v)) \cup Created(p, v) \cup Adds(p, v)
                         \cup Alters(p, v),
              drop |-> @.drop \cup (Olds(p, v) \cap cols)]]
        /\ tables' = [tables EXCEPT ![p] =
             (@ \ UNION {SameName(c, tables[p]) : c \in Alters(p, v)})
               \cup Makes(p, v) \cup Adds(p, v) \cup Alters(p, v)]
        /\ newvers' = [newvers EXCEPT ![p] = @ \cup {<<current[p], v>>}]
        /\ known' = [known EXCEPT ![p] = @ \cup {v}]
        /\ UNCHANGED <<cols, versions, specs, pc, release, todo, current, blank>>
  BY DEF PrepareVersion, Adds, Alters, Makes, Olds, Created, dbVars
<1> QED BY <1>1, <1>2 DEF PrepFuns, Named

LEMMA PrepareVersionOK ==
  ASSUME TypeInv, TablesInv, NEW p \in Preparers, PrepareVersion(p)
  PROVE  ProgressOK(p)' /\ ColumnsOK(p)'
<1>1. PICK v \in Unprepared(p) :
        /\ pc[p] = "tables"
        /\ ddl'[p].add = (ddl[p].add \ Olds(p, v)) \cup Created(p, v)
                            \cup Adds(p, v) \cup Alters(p, v)
        /\ ddl'[p].drop = ddl[p].drop \cup (Olds(p, v) \cap cols)
        /\ tables'[p] = (tables[p] \ UNION {SameName(c, tables[p]) :
                                              c \in Alters(p, v)})
                          \cup Makes(p, v) \cup Adds(p, v) \cup Alters(p, v)
        /\ newvers'[p] = newvers[p] \cup {<<current[p], v>>}
        /\ known'[p] = known[p] \cup {v}
        /\ UNCHANGED <<cols, versions, specs, pc, release, todo, current, blank>>
  BY PrepareVersionSteps
<1>2. PICK t, r, wanted : t = current[p] /\ r = release[p] /\ wanted = Schema[t][v]
  OBVIOUS
<1>3. /\ r \in Releases /\ t \in Types /\ t \notin todo[p]
      /\ v \in 1 .. Latest[r][t] /\ t \in TypesOf(r)
      /\ ProgressOK(p) /\ ColumnsOK(p)
  BY <1>1, <1>2 DEF TypeInv, TypeOK, PreparerOK, Holds, Unprepared, TablesInv, ProgressOK
<1>4. TablesIn(wanted) \subseteq TablesOf(t)
  BY <1>2, <1>3, SchemaIsThere
<1>5. /\ Makes(p, v) = {c \in wanted : c.table \notin TablesIn(tables[p])}
      /\ Adds(p, v) = {c \in wanted : c.table \in TablesIn(tables[p])
                                        /\ ~Named(c, tables[p])}
      /\ Alters(p, v) = {c \in wanted : Named(c, tables[p]) /\ c \notin tables[p]}
  BY <1>2 DEF Makes, Adds, Alters, ToCreate, ToAdd, ToAlter, Named
<1>6. \A c \in Olds(p, v) : \E a \in Alters(p, v) : a.table = c.table /\ a.name = c.name
  BY DEF Olds, SameName
<1>7. \A c : Named(c, ddl[p].add) => Named(c, ddl'[p].add)
  <2> SUFFICES ASSUME NEW c, Named(c, ddl[p].add) PROVE Named(c, ddl'[p].add)
    OBVIOUS
  <2>1. PICK d \in ddl[p].add : d.table = c.table /\ d.name = c.name
    BY DEF Named, SameName
  <2>2. \E a \in ddl'[p].add : a.table = d.table /\ a.name = d.name
    BY <1>1, <1>6
  <2> QED BY <2>1, <2>2 DEF Named, SameName
<1>8. \A c \in ddl'[p].drop : Named(c, ddl'[p].add)
  <2>1. \A c \in ddl[p].drop : Named(c, ddl'[p].add)
    BY <1>3, <1>7 DEF ColumnsOK
  <2>2. \A c \in Olds(p, v) : Named(c, ddl'[p].add)
    BY <1>1, <1>6 DEF Named, SameName
  <2> QED BY <1>1, <2>1, <2>2
<1>9. \A c : Named(c, View(p)') <=> Named(c, cols) \/ Named(c, ddl'[p].add)
  <2>1. \A c : Named(c, (cols \ ddl'[p].drop) \cup ddl'[p].add)
                 <=> Named(c, cols) \/ Named(c, ddl'[p].add)
    BY <1>8, NamesKept
  <2> QED BY <1>1, <2>1 DEF View
<1>10. \A c : Named(c, View(p)) => Named(c, View(p)')
  BY <1>3, <1>7, <1>9, ViewNames
<1>11. \A c \in wanted : Named(c, View(p)')
  <2> SUFFICES ASSUME NEW c \in wanted PROVE Named(c, View(p)')
    OBVIOUS
  <2>1. CASE c \in ddl'[p].add
    BY <1>9, <2>1 DEF Named, SameName
  <2>2. CASE c \in Makes(p, v) /\ c.table \in TablesIn(View(p))
    <3>1. c.table \in TablesIn(cols) \/ c.table \in TablesIn(ddl[p].add)
      BY <1>3, <2>2, ViewNames
    <3>2. c.table \in TablesOf(t)
      BY <1>4 DEF TablesIn
    <3>3. c.table \notin TablesIn(ddl[p].add)
      BY <1>1, <1>2, <1>3, <1>5, <2>2, <3>2, NamesAssumption DEF ColumnsOK
    <3>4. AllPrepared(r)
      BY <1>1, <1>2, <1>3, <1>5, <2>2, <3>1, <3>3 DEF ColumnsOK
    <3>5. <<t, v>> \in versions
      BY <1>3, <3>4 DEF AllPrepared
    <3>6. Named(c, cols)
      BY <1>2, <3>5 DEF TablesInv, KnownIsPrepared, HasColumns, Named
    <3> QED BY <1>9, <3>6
  <2>3. CASE c \in tables[p]
    <3>1. Named(c, View(p))
      BY <1>1, <1>3, <2>3 DEF ColumnsOK
    <3> QED BY <1>10, <3>1
  <2>4. c \in Created(p, v) \/ c \in Adds(p, v) \/ c \in Alters(p, v)
        \/ c \in tables[p] \/ (c \in Makes(p, v) /\ c.table \in TablesIn(View(p)))
    BY <1>5 DEF Created
  <2> QED BY <1>1, <2>1, <2>2, <2>3, <2>4
<1>12. \A x \in newvers'[p] : HasColumns(View(p)', x[1], x[2])
  <2>1. \A x \in newvers[p] : \A c \in Schema[x[1]][x[2]] : Named(c, View(p)')
    BY <1>3, <1>10 DEF ColumnsOK, HasColumns, Named
  <2> QED BY <1>1, <1>2, <1>11, <2>1 DEF HasColumns, Named
<1>13. \A c \in tables'[p] : Named(c, View(p)')
  BY <1>1, <1>3, <1>5, <1>10, <1>11 DEF ColumnsOK
<1>14. TablesIn(tables[p]) \subseteq TablesIn(tables'[p])
  <2>1. \A c \in tables[p] : \E d \in tables'[p] : d.table = c.table
    BY <1>1 DEF SameName
  <2> QED BY <2>1 DEF TablesIn
<1>15. \A c \in ddl'[p].add : c \in ddl[p].add \/ c \in wanted
  BY <1>1, <1>5 DEF Created
<1>16. \A c \in ddl'[p].add : c \in ddl[p].add \/ c \in tables'[p]
  BY <1>1 DEF Created
<1>17. ColumnsOK(p)'
  <2>1. \A u \in todo[p] : TablesOf(u) \cap TablesIn(ddl'[p].add) = {}
    <3> SUFFICES ASSUME NEW u \in todo[p], NEW c \in ddl'[p].add
                 PROVE  c.table \notin TablesOf(u)
      BY DEF TablesIn
    <3>1. u \in Types \ {t}
      BY <1>3 DEF TypeInv, TypeOK, PreparerOK
    <3>2. TablesOf(u) \cap TablesOf(t) = {}
      BY <1>3, <3>1, SchemaAssumption
    <3>3. CASE c \in ddl[p].add
      BY <1>1, <1>3, <3>3 DEF ColumnsOK, Preparing, TablesIn
    <3>4. CASE c \in wanted
      BY <1>4, <3>2, <3>4 DEF TablesIn
    <3> QED BY <1>15, <3>3, <3>4
  <2>2. \/ TablesIn(cols) \subseteq TablesIn(tables'[p])
        \/ AllPrepared(release[p])
    BY <1>1, <1>3, <1>14 DEF ColumnsOK
  <2>3. TablesOf(t) \cap TablesIn(ddl'[p].add) \subseteq TablesIn(tables'[p])
    <3> SUFFICES ASSUME NEW c \in ddl'[p].add, c.table \in TablesOf(t)
                 PROVE  c.table \in TablesIn(tables'[p])
      BY DEF TablesIn
    <3>1. CASE c \in ddl[p].add
      <4>1. c.table \in TablesIn(tables[p])
        BY <1>1, <1>2, <1>3, <3>1, NamesAssumption DEF ColumnsOK, TablesIn
      <4> QED BY <1>14, <4>1
    <3>2. CASE c \in tables'[p]
      BY <3>2 DEF TablesIn
    <3> QED BY <1>16, <3>1, <3>2
  <2>4. AllPrepared(release[p]) => AllPrepared(release[p])'
    BY <1>1 DEF AllPrepared
  <2>5. /\ pc'[p] = "tables" /\ ~(pc'[p] = "reflect")
        /\ \A c \in ddl'[p].drop : Named(c, ddl'[p].add)
        /\ \A x \in newvers'[p] : HasColumns(View(p)', x[1], x[2])
        /\ \A u \in todo'[p] : TablesOf(u) \cap TablesIn(ddl'[p].add) = {}
        /\ \A c \in tables'[p] : Named(c, View(p)')
        /\ \/ TablesIn(cols') \subseteq TablesIn(tables'[p])
           \/ AllPrepared(release[p])'
        /\ TablesOf(current'[p]) \cap TablesIn(ddl'[p].add)
             \subseteq TablesIn(tables'[p])
    BY <1>1, <1>2, <1>8, <1>12, <1>13, <2>1, <2>2, <2>3, <2>4
  <2> QED BY <2>5 DEF ColumnsOK, Named, SameName, HasColumns, TablesOf, TablesIn
<1>18. ProgressOK(p)'
  <2>1. OnRecord(p) \subseteq OnRecord(p)' /\ <<t, v>> \in OnRecord(p)'
    BY <1>1, <1>2 DEF OnRecord
  <2> QED BY <1>1, <1>2, <1>3, <2>1 DEF ProgressOK, Preparing
<1> QED BY <1>17, <1>18

LEMMA NothingHeld ==
  ASSUME NEW p, ddl'[p] = NoDdl, newvers'[p] = {},
         pc'[p] \notin {"tables", "reflect"}
  PROVE  ColumnsOK(p)'
BY DEF ColumnsOK, Preparing, NoDdl

LEMMA GetKnownVersionsOK ==
  ASSUME TypeInv, TablesInv, NEW p \in Preparers, NEW t \in Types,
         GetKnownVersions(p, t)
  PROVE  ProgressOK(p)' /\ ColumnsOK(p)'
<1>1. /\ PrepFuns /\ PreparerOK(p) /\ Holds(p) /\ ProgressOK(p) /\ ColumnsOK(p)
      /\ versions \subseteq Versions /\ newvers[p] \subseteq Versions
  BY DEF TypeInv, TypeOK, PreparerOK, TablesInv
<1>2. /\ pc[p] = "tables" /\ pc'[p] \in {"tables", "reflect"}
      /\ t \in todo[p] /\ Unprepared(p) = {}
      /\ todo'[p] = todo[p] \ {t} /\ current'[p] = t
      /\ UNCHANGED <<cols, versions, release, tables, newvers>>
      /\ known'[p] = {x[2] : x \in {y \in OnRecord(p) : y[1] = t}}
  BY <1>1 DEF GetKnownVersions, PrepFuns, dbVars, OnRecord
<1>3. /\ ddl'[p].drop = ddl[p].drop
      /\ ddl'[p].add \in {ddl[p].add, ddl[p].add \cup {VersionColumn(t)}}
  BY <1>1 DEF GetKnownVersions, PrepFuns, PreparerOK
<1>4. t # NoType
  BY NamesAssumption
<1>5. ProgressOK(p)'
  <2>1. \A v \in known'[p] : <<t, v>> \in OnRecord(p)
    BY <1>1, <1>2 DEF OnRecord, Versions
  <2>2. current[p] # NoType =>
          \A v \in 1 .. Latest[release[p]][current[p]] :
            <<current[p], v>> \in OnRecord(p)
    BY <1>1, <1>2 DEF Unprepared, ProgressOK, Preparing
  <2>3. \A u \in TypesOf(release[p]) \ (todo'[p] \cup {t}) :
          \A v \in 1 .. Latest[release[p]][u] : <<u, v>> \in OnRecord(p)
    <3> SUFFICES ASSUME NEW u \in TypesOf(release[p]), u \notin todo[p]
                 PROVE  \A v \in 1 .. Latest[release[p]][u] : <<u, v>> \in OnRecord(p)
      BY <1>2
    <3>1. CASE u = current[p]
      <4>1. u # NoType
        BY NamesAssumption DEF TypesOf
      <4> QED BY <2>2, <3>1, <4>1
    <3>2. CASE u # current[p]
      BY <1>1, <1>2, <3>2 DEF ProgressOK, Preparing
    <3> QED BY <3>1, <3>2
  <2>4. OnRecord(p)' = OnRecord(p)
    BY <1>2 DEF OnRecord
  <2> QED BY <1>1, <1>2, <1>4, <2>1, <2>3, <2>4 DEF ProgressOK, Preparing
<1>6. ColumnsOK(p)'
  <2>1. \A u \in Types : \A c \in ddl'[p].add :
          c \in ddl[p].add \/ c.table \notin TablesOf(u)
    BY <1>3, SchemaAssumption
  <2>2. \A c : Named(c, ddl[p].add) => Named(c, ddl'[p].add)
    BY <1>3 DEF Named, SameName
  <2>3. \A c \in ddl'[p].drop : Named(c, ddl'[p].add)
    BY <1>1, <1>3, <2>2 DEF ColumnsOK
  <2>4. \A c : Named(c, View(p)) => Named(c, View(p)')
    <3>1. \A c : Named(c, (cols \ ddl'[p].drop) \cup ddl'[p].add)
                   <=> Named(c, cols) \/ Named(c, ddl'[p].add)
      BY <2>3, NamesKept
    <3> QED BY <1>1, <1>2, <2>2, <3>1, ViewNames DEF View
  <2>5. \A u \in todo[p] : TablesOf(u) \cap TablesIn(ddl'[p].add) = {}
    <3> SUFFICES ASSUME NEW u \in todo[p], NEW c \in ddl'[p].add
                 PROVE  c.table \notin TablesOf(u)
      BY DEF TablesIn
    <3>1. u \in Types
      BY <1>1 DEF PreparerOK
    <3>2. c \in ddl[p].add => c.table \notin TablesOf(u)
      BY <1>1, <1>2 DEF ColumnsOK, Preparing, TablesIn
    <3> QED BY <2>1, <3>1, <3>2
  <2>6. \A x \in newvers[p] : \A c \in Schema[x[1]][x[2]] : Named(c, View(p)')
    BY <1>1, <2>4 DEF ColumnsOK, HasColumns, Named
  <2>7. AllPrepared(release[p]) => AllPrepared(release[p])'
    BY <1>2 DEF AllPrepared
  <2>8. /\ \A c \in ddl'[p].drop : Named(c, ddl'[p].add)
        /\ \A x \in newvers'[p] : HasColumns(View(p)', x[1], x[2])
        /\ \A u \in todo'[p] : TablesOf(u) \cap TablesIn(ddl'[p].add) = {}
        /\ \A c \in tables'[p] : Named(c, View(p)')
        /\ \/ TablesIn(cols') \subseteq TablesIn(tables'[p])
           \/ AllPrepared(release[p])'
        /\ TablesOf(current'[p]) \cap TablesIn(ddl'[p].add) = {}
    BY <1>1, <1>2, <2>3, <2>4, <2>5, <2>6, <2>7 DEF ColumnsOK, HasColumns, Named
  <2> QED BY <2>8 DEF ColumnsOK, Named, SameName, HasColumns, TablesOf, TablesIn
<1> QED BY <1>5, <1>6

LEMMA CommitTablesOK ==
  ASSUME TypeInv, TablesInv, NEW p \in Preparers, CommitTables(p)
  PROVE  /\ AllPrepared(release[p])' /\ UNCHANGED release
         /\ ProgressOK(p)' /\ ColumnsOK(p)'
<1>1. PrepFuns /\ ProgressOK(p) /\ pc[p] = "tables"
  BY DEF TypeInv, TablesInv, CommitTables
<1>2. /\ todo[p] = {} /\ Unprepared(p) = {} /\ UNCHANGED release
      /\ versions' = OnRecord(p) /\ pc'[p] = "specs"
      /\ todo'[p] = TypesOf(release[p]) /\ current'[p] = NoType
      /\ ddl'[p] = NoDdl /\ newvers'[p] = {}
  BY <1>1, Order DEF CommitTables, OnRecord, PrepFuns
<1>3. AllPrepared(release[p])'
  <2> SUFFICES ASSUME NEW t \in TypesOf(release[p]),
                      NEW v \in 1 .. Latest[release[p]][t]
               PROVE  <<t, v>> \in OnRecord(p)
    BY <1>2 DEF AllPrepared
  <2>1. CASE t = current[p]
    <3>1. t # NoType
      BY NamesAssumption DEF TypesOf
    <3> QED BY <1>1, <1>2, <2>1, <3>1 DEF Unprepared, ProgressOK, Preparing
  <2>2. CASE t # current[p]
    BY <1>1, <1>2, <2>2 DEF ProgressOK, Preparing
  <2> QED BY <2>1, <2>2
<1>4. ProgressOK(p)'
  BY <1>2, <1>3 DEF ProgressOK, Preparing
<1>5. ColumnsOK(p)'
  BY <1>2, NothingHeld
<1> QED BY <1>2, <1>3, <1>4, <1>5

LEMMA OwnOK ==
  ASSUME TypeInv, TablesInv, NEW p \in Preparers, Prepare(p)
  PROVE  ProgressOK(p)' /\ ColumnsOK(p)'
<1>0. PrepFuns /\ Holds(p) /\ ProgressOK(p) /\ ColumnsOK(p)
  BY DEF TypeInv, TablesInv
<1> USE DEF PrepFuns, dbVars, memVars, storeVars
<1>1. CASE \E r \in Releases : Begin(p, r)
  <2>1. PICK r \in Releases : Begin(p, r)
    BY <1>1
  <2>2. /\ pc'[p] = "tables" /\ todo'[p] = TypesOf(r) /\ current'[p] = NoType
        /\ release'[p] = r /\ ddl'[p] = NoDdl /\ newvers'[p] = {}
        /\ tables'[p] = cols /\ cols' = cols
    BY <1>0, <2>1, Order DEF Begin, Holds, ProgressOK
  <2>3. ProgressOK(p)'
    BY <2>2 DEF ProgressOK, Preparing
  <2>4. View(p)' = cols
    BY <2>2 DEF View, NoDdl
  <2>5. \A c \in cols : Named(c, cols)
    BY DEF Named, SameName
  <2>6. ColumnsOK(p)'
    BY <2>2, <2>4, <2>5 DEF ColumnsOK, NoDdl, Named, SameName, TablesIn
  <2> QED BY <2>3, <2>6
<1>2. CASE \E t \in Types : GetKnownVersions(p, t)
  BY <1>2, GetKnownVersionsOK
<1>3. CASE ReadTables(p)
  <2>1. /\ pc[p] = "reflect" /\ pc'[p] = "tables" /\ tables'[p] = cols
        /\ UNCHANGED <<cols, versions, release, todo, current, known, ddl, newvers>>
    BY <1>0, <1>3 DEF ReadTables
  <2>2. ProgressOK(p)'
    BY <1>0, <2>1 DEF ProgressOK, Preparing, OnRecord
  <2>3. \A c \in cols : Named(c, View(p))
    BY <1>0, ViewNames DEF Named, SameName
  <2>4. ColumnsOK(p)'
    <3>1. View(p)' = View(p)
      BY <2>1 DEF View
    <3>2. /\ \A c \in ddl'[p].drop : Named(c, ddl'[p].add)
          /\ \A x \in newvers'[p] : HasColumns(View(p)', x[1], x[2])
          /\ \A u \in todo'[p] : TablesOf(u) \cap TablesIn(ddl'[p].add) = {}
          /\ \A c \in tables'[p] : Named(c, View(p)')
          /\ TablesIn(cols') \subseteq TablesIn(tables'[p])
          /\ TablesOf(current'[p]) \cap TablesIn(ddl'[p].add) = {}
      BY <1>0, <2>1, <2>3, <3>1 DEF ColumnsOK, Preparing
    <3> QED BY <2>1, <3>2 DEF ColumnsOK, Named, SameName, HasColumns, TablesOf, TablesIn
  <2> QED BY <2>2, <2>4
<1>4. CASE PrepareVersion(p)
  BY <1>4, PrepareVersionOK
<1>5. CASE CommitTables(p)
  BY <1>5, CommitTablesOK
<1>6. CASE PrepareTables(p)
  <2>1. /\ pc[p] = "specs" /\ pc'[p] = "store" /\ ddl'[p].drop = {}
        /\ UNCHANGED <<cols, versions, release, todo, current, newvers>>
    BY <1>0, <1>6 DEF PrepareTables, Holds, NoDdl
  <2>2. ProgressOK(p)'
    BY <1>0, <2>1 DEF ProgressOK, Preparing, AllPrepared
  <2>3. newvers'[p] = {}
    BY <1>0, <2>1 DEF Holds
  <2>4. ColumnsOK(p)'
    BY <2>1, <2>3 DEF ColumnsOK, Preparing
  <2> QED BY <2>2, <2>4
<1>7. CASE UpdateSpec(p) \/ AddSpec(p) \/ \E t \in Types : GetTypes(p, t)
  <2>1. /\ pc[p] = "store" /\ UNCHANGED <<cols, versions, pc, release, newvers, ddl>>
        /\ todo'[p] \subseteq todo[p]
        /\ current'[p] \in (todo[p] \ todo'[p]) \cup {NoType}
    <3>1. CASE UpdateSpec(p)
      BY <1>0, <3>1 DEF UpdateSpec
    <3>2. CASE AddSpec(p)
      BY <1>0, <3>2 DEF AddSpec
    <3>3. CASE \E t \in Types : GetTypes(p, t)
      BY <1>0, <3>3 DEF GetTypes
    <3> QED BY <1>7, <3>1, <3>2, <3>3
  <2>2. ProgressOK(p)'
    BY <1>0, <2>1 DEF ProgressOK, Preparing, AllPrepared
  <2>3. newvers'[p] = {}
    BY <1>0, <2>1 DEF Holds
  <2>4. ColumnsOK(p)'
    BY <1>0, <2>1, <2>3 DEF ColumnsOK, Preparing, Named, SameName
  <2> QED BY <2>2, <2>4
<1>8. CASE CommitSpecs(p)
  <2>1. /\ pc[p] = "store" /\ pc'[p] = "check" /\ UNCHANGED <<versions, release, newvers>>
        /\ todo'[p] = TypesOf(release[p]) /\ current'[p] = NoType /\ ddl'[p] = NoDdl
    BY <1>0, <1>8, Order DEF CommitSpecs
  <2>2. ProgressOK(p)'
    BY <1>0, <2>1 DEF ProgressOK, Preparing, AllPrepared
  <2>3. newvers'[p] = {}
    BY <1>0, <2>1 DEF Holds
  <2> QED BY <2>1, <2>2, <2>3, NothingHeld
<1>9. CASE Check(p) \/ Abort(p)
  <2>1. /\ pc'[p] = "idle" /\ todo'[p] = {} /\ current'[p] = NoType
        /\ newvers'[p] = {} /\ ddl'[p] = NoDdl
    BY <1>0, <1>9 DEF Check, Abort, Forget, Holds, ProgressOK
  <2>2. ProgressOK(p)'
    BY <2>1 DEF ProgressOK, Preparing
  <2> QED BY <2>1, <2>2, NothingHeld
<1> QED BY <1>1, <1>2, <1>3, <1>4, <1>5, <1>6, <1>7, <1>8, <1>9 DEF Prepare

\* A run commits what it sees; then, or before, all its versions are prepared.
LEMMA Commits ==
  ASSUME TypeInv, TablesInv, NEW p \in Preparers, Prepare(p)
  PROVE  /\ versions \subseteq versions' /\ versions' \subseteq OnRecord(p)
         /\ \A c : Named(c, cols) => Named(c, cols')
         /\ \/ UNCHANGED <<cols, versions>>
            \/ /\ cols' = View(p) /\ pc[p] # "idle"
               /\ UNCHANGED release /\ AllPrepared(release[p])'
<1>1. CASE CommitTables(p) \/ CommitSpecs(p)
  <2>1. /\ cols' = View(p) /\ pc[p] # "idle" /\ UNCHANGED release
        /\ versions' \in {versions, OnRecord(p)}
    BY <1>1 DEF CommitTables, CommitSpecs, OnRecord
  <2>2. AllPrepared(release[p])'
    <3>1. CASE CommitTables(p)
      BY <3>1, CommitTablesOK
    <3>2. CASE CommitSpecs(p)
      <4>1. AllPrepared(release[p]) /\ UNCHANGED <<versions, release>>
        BY <3>2 DEF CommitSpecs, TablesInv, ProgressOK
      <4> QED BY <4>1 DEF AllPrepared
    <3> QED BY <1>1, <3>1, <3>2
  <2>3. \A c : Named(c, cols) => Named(c, View(p))
    BY ViewNames DEF TablesInv
  <2> QED BY <2>1, <2>2, <2>3 DEF OnRecord
<1>2. CASE ~(CommitTables(p) \/ CommitSpecs(p))
  <2>1. UNCHANGED <<cols, versions>>
    BY <1>2 DEF Prepare, Begin, GetKnownVersions, ReadTables, PrepareVersion,
       PrepareTables, GetTypes, UpdateSpec, AddSpec, Check, Abort, dbVars
  <2> QED BY <2>1 DEF OnRecord
<1> QED BY <1>1, <1>2

LEMMA PrepareTablesInv ==
  ASSUME Overlap # "any", TypeInv, TablesInv, NEW p \in Preparers, Prepare(p)
  PROVE  TablesInv'
<1>0. PrepFuns' /\ PrepKept(p)
  BY PrepareSteps DEF TypeInv
<1>1. \A q \in Preparers : ProgressOK(q) /\ ColumnsOK(q)
  BY DEF TablesInv
<1>2. ASSUME NEW q \in Preparers \ {p}
      PROVE  ProgressOK(q)' /\ ColumnsOK(q)'
  <2>1. \/ TablesIn(cols') \subseteq TablesIn(cols)
        \/ pc[q] # "idle" => AllPrepared(release[q])'
    <3>1. CASE UNCHANGED cols
      BY <3>1
    <3>2. CASE /\ pc[p] # "idle" /\ UNCHANGED release
               /\ AllPrepared(release[p])' /\ pc[q] # "idle"
      <4>1. release[q] = release[p]
        BY <3>2 DEF TablesInv, SameRelease
      <4> QED BY <3>2, <4>1 DEF AllPrepared
    <3> QED BY <3>1, <3>2, Commits
  <2> QED BY <1>0, <1>1, <2>1, Commits, OthersOK
<1>3. SameRelease'
  <2>1. ASSUME NEW q \in Preparers \ {p}, pc'[p] # "idle", pc'[q] # "idle"
        PROVE  release'[p] = release'[q]
    <3>1. pc[q] # "idle" /\ release'[q] = release[q]
      BY <1>0, <2>1 DEF PrepKept
    <3>2. CASE \E r \in Releases : Begin(p, r)
      <4>1. PICK r \in Releases : Begin(p, r)
        BY <3>2
      <4>2. release' = [release EXCEPT ![p] = r] /\ Together(p, r)
        BY <4>1 DEF Begin
      <4>3. release'[p] = r
        BY <4>2 DEF TypeInv, PrepFuns
      <4>4. release[q] = r
        BY <3>1, <4>2, Zenon DEF Together
      <4> QED BY <3>1, <4>3, <4>4
    <3>3. CASE ~\E r \in Releases : Begin(p, r)
      <4>0. ~Check(p) /\ ~Abort(p)
        BY <2>1 DEF TypeInv, PrepFuns, Check, Abort, Forget
      <4>1. pc[p] # "idle" /\ release'[p] = release[p]
        BY <3>3, <4>0 DEF Prepare, GetKnownVersions, ReadTables, PrepareVersion,
           CommitTables, PrepareTables, GetTypes, UpdateSpec, AddSpec, CommitSpecs
      <4> QED BY <3>1, <4>1 DEF TablesInv, SameRelease
    <3> QED BY <3>2, <3>3
  <2>2. ASSUME NEW q \in Preparers \ {p}, NEW u \in Preparers \ {p},
               pc'[q] # "idle", pc'[u] # "idle"
        PROVE  release'[q] = release'[u]
    BY <1>0, <2>2 DEF PrepKept, TablesInv, SameRelease
  <2> QED BY <2>1, <2>2 DEF SameRelease
<1>4. KnownIsPrepared'
  <2> SUFFICES ASSUME NEW x \in versions', NEW c \in Schema[x[1]][x[2]]
               PROVE  Named(c, cols')
    BY DEF KnownIsPrepared, HasColumns, Named, SameName
  <2>1. CASE x \in versions
    <3>1. Named(c, cols)
      BY <2>1 DEF TablesInv, KnownIsPrepared, HasColumns, Named
    <3> QED BY <3>1, Commits
  <2>2. CASE x \in newvers[p] /\ x \notin versions
    <3>1. cols' = View(p)
      BY <2>2, Commits
    <3> QED BY <1>1, <2>2, <3>1 DEF ColumnsOK, HasColumns, Named
  <2> QED BY <2>1, <2>2, Commits DEF OnRecord
<1> QED BY <1>2, <1>3, <1>4, OwnOK DEF TablesInv

LEMMA StepTables ==
  ASSUME Overlap # "any"
  PROVE  TypeInv /\ TablesInv /\ [Next]_vars => TablesInv'
<1> SUFFICES ASSUME TypeInv, TablesInv, [Next]_vars PROVE TablesInv'
  OBVIOUS
<1>1. CASE \E p \in Preparers : Prepare(p)
  BY <1>1, PrepareTablesInv
<1>2. CASE ~\E p \in Preparers : Prepare(p)
  <2>1. UNCHANGED <<pc, release, todo, current, tables, known, ddl, newvers,
                    cols, versions>>
    BY <1>2, RunSteps DEF Next, TypeInv, Stop, vars, dbVars, prepVars, memVars
  <2>2. ASSUME NEW p \in Preparers PROVE ProgressOK(p)' /\ ColumnsOK(p)'
    <3>1. ProgressOK(p) /\ ColumnsOK(p)
      BY DEF TablesInv
    <3>2. View(p)' = View(p) /\ OnRecord(p)' = OnRecord(p)
      BY <2>1 DEF View, OnRecord
    <3>3. AllPrepared(release[p])' <=> AllPrepared(release[p])
      BY <2>1 DEF AllPrepared
    <3>4. ProgressOK(p)'
      BY <2>1, <3>1, <3>2, <3>3 DEF ProgressOK, Preparing
    <3>5. /\ \A c \in ddl'[p].drop : Named(c, ddl'[p].add)
          /\ \A x \in newvers'[p] : HasColumns(View(p)', x[1], x[2])
          /\ Preparing(p)' => \A u \in todo'[p] :
               TablesOf(u) \cap TablesIn(ddl'[p].add) = {}
          /\ pc'[p] = "reflect" =>
               TablesOf(current'[p]) \cap TablesIn(ddl'[p].add) = {}
          /\ pc'[p] = "tables" =>
               /\ \A c \in tables'[p] : Named(c, View(p)')
               /\ \/ TablesIn(cols') \subseteq TablesIn(tables'[p])
                  \/ AllPrepared(release[p])'
               /\ current'[p] # NoType =>
                    TablesOf(current'[p]) \cap TablesIn(ddl'[p].add)
                      \subseteq TablesIn(tables'[p])
      BY <2>1, <3>1, <3>2, <3>3 DEF ColumnsOK, Preparing
    <3>6. ColumnsOK(p)'
      BY <3>5 DEF ColumnsOK, Named, SameName, HasColumns, TablesOf, TablesIn
    <3> QED BY <3>4, <3>6
  <2> QED BY <2>1, <2>2 DEF TablesInv, SameRelease, KnownIsPrepared, HasColumns,
             SameName
<1> QED BY <1>1, <1>2

LEMMA InitTables == Init => TablesInv
<1> SUFFICES ASSUME Init PROVE TablesInv
  OBVIOUS
<1>1. \A p \in Preparers : ProgressOK(p)
  BY DEF Init, ProgressOK, Preparing
<1>2. \A p \in Preparers : ColumnsOK(p)
  BY DEF Init, ColumnsOK, Preparing, NoDdl
<1> QED BY <1>1, <1>2 DEF Init, TablesInv, SameRelease, KnownIsPrepared

(***************************************************************************)
(* A version that is on record as prepared will never be prepared again:   *)
(* all its columns are there, wherever runs died, and however many runs of *)
(* one release overlap.                                                    *)
(***************************************************************************)
THEOREM RecordIsTrue ==
  ASSUME Overlap # "any"
  PROVE  Spec => []KnownIsPrepared
<1>1. TablesInv => KnownIsPrepared
  BY DEF TablesInv
<1> QED BY <1>1, InitTypes, StepTypes, InitTables, StepTables, PTL DEF Spec

-----------------------------------------------------------------------------
(***************************************************************************)
(* What is served.  Specifications are stored by runs that have committed  *)
(* their tables, so a specification that is stored, loaded or served names *)
(* a version that is on record; records are never taken back.              *)
(***************************************************************************)
\* Its own newest version is servable once a release is prepared.
LEMMA NewestIsServable ==
  ASSUME NEW r \in Releases, AllPrepared(r), NEW t \in TypesOf(r)
  PROVE  Servable(t, r)
<1>1. Latest[r][t] \in Nat /\ Latest[r][t] > 0
  BY ReleasesAssumption DEF TypesOf
<1>2. Latest[r][t] \in 1 .. Latest[r][t]
  BY <1>1
<1> QED BY <1>2 DEF AllPrepared, Servable

LEMMA PrepareServed ==
  ASSUME TypeInv, TablesInv, ServedInv, NEW p \in Preparers, Prepare(p)
  PROVE  ServedInv'
<1>1. /\ PrepFuns /\ PrepFuns' /\ PrepKept(p) /\ UNCHANGED serverVars
      /\ Holds(p) /\ ProgressOK(p) /\ versions \subseteq versions'
  BY PrepareSteps, Commits DEF TypeInv, TablesInv
<1>2. \A t, r : Servable(t, r) => Servable(t, r)'
  BY <1>1 DEF Servable
<1>3. /\ \A w \in Threads : \A g \in got'[w] : Servable(g[1], g[2])'
      /\ \A t \in Types, k \in Part :
           routes'[t][k] # NoRelease => Servable(t, routes[t][k])'
  <2>1. got' = got /\ routes' = routes
    BY <1>1 DEF serverVars, threadVars
  <2> QED BY <1>2, <2>1 DEF ServedInv
<1>4. pc[p] = "store" => \A t \in TypesOf(release[p]) : Servable(t, release[p])
  BY <1>1, NewestIsServable DEF Holds, ProgressOK
<1>5. \A x \in specs' : Servable(x.type, x.release)
  <2>1. CASE CommitSpecs(p)
    <3>1. specs' = (specs \ updated[p])
                \cup {[x EXCEPT !.release = release[p]] : x \in updated[p]}
                \cup newspecs[p]
      BY <2>1 DEF CommitSpecs
    <3>2. ASSUME NEW x \in updated[p]
          PROVE  LET y == [x EXCEPT !.release = release[p]]
                 IN Servable(y.type, y.release)
      <4>1. x \in Row
        BY DEF TypeInv, TypeOK, PreparerOK
      <4>2. LET y == [x EXCEPT !.release = release[p]]
            IN y.type = x.type /\ y.release = release[p]
        BY <4>1 DEF Row
      <4> QED BY <4>2 DEF ServedInv
    <3> QED BY <3>1, <3>2 DEF ServedInv
  <2>2. CASE ~CommitSpecs(p)
    <3>1. specs' = specs
      BY <2>2 DEF Prepare, Begin, GetKnownVersions, ReadTables, PrepareVersion,
         CommitTables, PrepareTables, GetTypes, UpdateSpec, AddSpec, Check, Abort, dbVars
    <3> QED BY <3>1 DEF ServedInv
  <2> QED BY <2>1, <2>2
<1>6. \A x \in newspecs'[p] : Servable(x.type, x.release)
  <2>1. CASE AddSpec(p)
    <3>1. /\ newspecs'[p] = newspecs[p] \cup
               {[type |-> current[p], by |-> p, release |-> release[p]]}
          /\ pc[p] = "store" /\ current[p] # NoType
      BY <1>1, <2>1 DEF AddSpec, PrepFuns
    <3>2. Servable(current[p], release[p])
      BY <1>1, <1>4, <3>1 DEF ProgressOK
    <3> QED BY <3>1, <3>2 DEF ServedInv
  <2>2. CASE ~AddSpec(p)
    <3>1. newspecs'[p] \in {newspecs[p], {}}
      BY <1>1, <2>2 DEF Prepare, Begin, GetKnownVersions, ReadTables, PrepareVersion,
         CommitTables, PrepareTables, GetTypes, UpdateSpec, CommitSpecs, Check, Abort,
         PrepFuns, storeVars
    <3> QED BY <3>1 DEF ServedInv
  <2> QED BY <2>1, <2>2
<1>7. \A x \in updated'[p] : Servable(x.type, release[p])'
  <2>1. CASE UpdateSpec(p)
    <3>1. /\ updated'[p] = updated[p] \cup RowsOf(current[p])
          /\ pc[p] = "store" /\ current[p] # NoType /\ UNCHANGED release
      BY <1>1, <2>1 DEF UpdateSpec, PrepFuns
    <3>2. Servable(current[p], release[p])
      BY <1>1, <1>4, <3>1 DEF ProgressOK
    <3>3. \A x \in updated'[p] : Servable(x.type, release[p])
      BY <3>1, <3>2 DEF ServedInv, RowsOf
    <3> QED BY <1>1, <3>1, <3>3 DEF Servable
  <2>2. CASE ~UpdateSpec(p)
    <3>1. updated'[p] = {} \/ UNCHANGED <<updated, release>>
      <4>1. CASE \E r \in Releases : Begin(p, r)
        BY <1>1, <4>1 DEF Begin, Holds, storeVars
      <4>2. CASE Check(p)
        BY <1>1, <4>2 DEF Check, Holds, storeVars
      <4> QED BY <1>1, <2>2, <4>1, <4>2 DEF Prepare, GetKnownVersions, ReadTables,
         PrepareVersion, CommitTables, PrepareTables, GetTypes, AddSpec, CommitSpecs,
         Abort, PrepFuns, storeVars
    <3> QED BY <1>1, <3>1 DEF ServedInv, Servable
  <2> QED BY <2>1, <2>2
<1>8. ASSUME NEW q \in Preparers \ {p}
      PROVE  /\ \A x \in newspecs'[q] : Servable(x.type, x.release)
             /\ \A x \in updated'[q] : Servable(x.type, release[q])'
  <2>1. /\ newspecs'[q] = newspecs[q] /\ updated'[q] = updated[q]
        /\ release'[q] = release[q]
    BY <1>1 DEF PrepKept
  <2> QED BY <1>1, <2>1 DEF ServedInv, Servable
<1> QED BY <1>2, <1>3, <1>5, <1>6, <1>7, <1>8 DEF ServedInv

LEMMA RunServed ==
  ASSUME TypeInv, ServedInv, NEW w \in Threads, Run(w)
  PROVE  ServedInv'
<1>1. /\ ThreadFuns /\ ThreadKept(w) /\ UNCHANGED <<dbVars, prepVars>>
      /\ ThreadOK(w) /\ routes \in [Types -> [Part -> Releases \cup {NoRelease}]]
  BY RunSteps DEF TypeInv, TypeOK
<1>2. UNCHANGED <<versions, specs, release, newspecs, updated>>
  BY <1>1 DEF dbVars, prepVars, storeVars
<1>3. \A g \in got'[w] : Servable(g[1], g[2])
  <2>1. CASE \E t \in Types : GetSpec(w, t)
    <3>1. PICK t \in Types : GetSpec(w, t)
      BY <2>1
    <3>2. PICK x \in specs :
            /\ RowsOf(t) = {x}
            /\ got' = IF t \in want[w]
                        THEN [got EXCEPT ![w] = @ \cup {<<t, x.release>>}] ELSE got
      BY <3>1 DEF GetSpec
    <3>3. Servable(t, x.release)
      BY <3>2 DEF ServedInv, RowsOf
    <3>4. \A g \in got[w] : Servable(g[1], g[2])
      BY DEF ServedInv
    <3> QED BY <1>1, <3>2, <3>3, <3>4 DEF ThreadFuns
  <2>2. CASE ~\E t \in Types : GetSpec(w, t)
    <3>1. got'[w] \in {got[w], {}}
      BY <1>1, <2>2 DEF Run, Boot, Request, Load, NoSpec, Serve, NotDefined, AddRoute,
         Rest, ThreadFuns, threadVars
    <3> QED BY <3>1 DEF ServedInv
  <2> QED BY <2>1, <2>2
<1>4. \A v \in Threads : \A g \in got'[v] : Servable(g[1], g[2])
  BY <1>1, <1>3 DEF ThreadKept, ServedInv
<1>5. \A t \in Types, k \in Part :
        routes'[t][k] # NoRelease => Servable(t, routes'[t][k])
  <2>1. CASE Serve(w)
    <3> SUFFICES ASSUME NEW t \in Types, NEW k \in Part, routes'[t][k] # NoRelease
                 PROVE  Servable(t, routes'[t][k])
      OBVIOUS
    <3>1. <<t, routes'[t][k]>> \in got[w]
      BY <2>1 DEF Serve
    <3> QED BY <3>1 DEF ServedInv
  <2>2. CASE AddRoute(w)
    <3>1. PICK x \in got[w] :
            routes' = [routes EXCEPT ![x[1]] = [@ EXCEPT ![nextpart[w]] = x[2]]]
      BY <2>2 DEF AddRoute
    <3>2. x[1] \in Types /\ x[2] \in Releases /\ nextpart[w] \in Part
      BY <1>1 DEF ThreadOK
    <3>3. Servable(x[1], x[2])
      BY DEF ServedInv
    <3>4. \A t \in Types, k \in Part :
            \/ routes'[t][k] = routes[t][k]
            \/ t = x[1] /\ routes'[t][k] = x[2]
      BY <1>1, <3>1, <3>2
    <3> QED BY <3>3, <3>4 DEF ServedInv
  <2>3. CASE ~(Serve(w) \/ AddRoute(w))
    <3>1. routes' = routes
      BY <2>3 DEF Run, Boot, Request, Load, GetSpec, NoSpec, NotDefined
    <3> QED BY <3>1 DEF ServedInv
  <2> QED BY <2>1, <2>2, <2>3
<1> QED BY <1>2, <1>4, <1>5 DEF ServedInv, Servable

LEMMA InitServed == Init => ServedInv
BY DEF Init, ServedInv, NoRoutes

LEMMA StepServed == TypeInv /\ TablesInv /\ ServedInv /\ [Next]_vars => ServedInv'
<1> SUFFICES ASSUME TypeInv, TablesInv, ServedInv, [Next]_vars PROVE ServedInv'
  OBVIOUS
<1>1. CASE \E p \in Preparers : Prepare(p)
  BY <1>1, PrepareServed
<1>2. CASE \E w \in Threads : Run(w)
  BY <1>2, RunServed
<1>3. CASE Stop
  <2>1. /\ UNCHANGED <<versions, specs, release, newspecs, updated>>
        /\ got' = [w \in Threads |-> {}] /\ routes' = NoRoutes
    BY <1>3 DEF Stop, dbVars, prepVars, storeVars
  <2> QED BY <2>1 DEF ServedInv, Servable, NoRoutes
<1>4. CASE UNCHANGED vars
  <2>1. UNCHANGED <<versions, specs, release, newspecs, updated, got, routes>>
    BY <1>4 DEF vars, dbVars, prepVars, storeVars, serverVars, threadVars
  <2> QED BY <2>1 DEF ServedInv, Servable
<1> QED BY <1>1, <1>2, <1>3, <1>4 DEF Next

(***************************************************************************)
(* A server only serves a type whose tables have every column its newest   *)
(* version asks for, whenever it loaded the specification, and whatever    *)
(* has been prepared or has failed since.                                  *)
(***************************************************************************)
THEOREM ServedIsPrepared ==
  ASSUME Overlap # "any"
  PROVE  Spec => []RoutesHaveTables
<1>1. TablesInv /\ ServedInv => RoutesHaveTables
  <2> SUFFICES ASSUME TablesInv, ServedInv, NEW t \in Types, NEW k \in Part,
                      routes[t][k] # NoRelease
               PROVE  HasColumns(cols, t, Latest[routes[t][k]][t])
    BY DEF RoutesHaveTables
  <2>1. <<t, Latest[routes[t][k]][t]>> \in versions
    BY DEF ServedInv, Servable
  <2> QED BY <2>1 DEF TablesInv, KnownIsPrepared
<1> QED BY <1>1, InitTypes, StepTypes, InitTables, StepTables, InitServed, StepServed,
           PTL DEF Spec

-----------------------------------------------------------------------------
(***************************************************************************)
(* The types of columns.  The newest version on record that names a column *)
(* gives it its type, in what a run sees as in what is committed, but for  *)
(* the versions that a run is about to prepare again: those that another   *)
(* run of its release committed after it had looked for them.  It prepares *)
(* them again in order, so that the newest comes last.                     *)
(***************************************************************************)
Unique(cs) ==
  \A c, d \in cs : c.table = d.table /\ c.name = d.name => c = d

InOrder(vs) == \A x \in vs : \A u \in 1 .. x[2] : <<x[1], u>> \in vs

Touched(p) == TablesIn(ddl[p].add \cup ddl[p].drop)

\* The version's column c has its type, or a newer version gave it another.
Newest(c, x, cs, vs) ==
  c \in cs \/ \E y \in vs : y[1] = x[1] /\ y[2] > x[2]
                              /\ Named(c, Schema[y[1]][y[2]])

Again(p, x) == Preparing(p) /\ x[1] = current[p] /\ x[2] \in Unprepared(p)

\* Versions are prepared in their order, by each run and by all together.
OrderOK(p) ==
  /\ \A x \in newvers[p] :
       x[1] \in TypesOf(release[p]) /\ x[2] \in 1 .. Latest[release[p]][x[1]]
  /\ InOrder(OnRecord(p))
  /\ Preparing(p) => \A x \in OnRecord(p) :
       x[1] = current[p] /\ x[2] \notin Unprepared(p) =>
         \A v \in Unprepared(p) : x[2] < v

\* The dict has what the run has done to the current type, and is up to date
\* until another run of this release commits.
DictOK(p) ==
  pc[p] = "tables" =>
    /\ Unique(tables[p])
    /\ current[p] # NoType => \A c \in ddl[p].add :
         c.table \in TablesOf(current[p]) => c \in tables[p]
    /\ \/ AllPrepared(release[p])
       \/ \A t \in (todo[p] \cup {current[p]}) \ {NoType} :
            \A c \in tables[p] \cup View(p) :
              c.table \in TablesOf(t) => c \in tables[p] /\ c \in View(p)

SeesNewest(p) ==
  /\ Unique(View(p))
  /\ \A x \in OnRecord(p) :
       \/ Again(p, x)
       \/ \A c \in Schema[x[1]][x[2]] : Newest(c, x, View(p), OnRecord(p))

NewestInv ==
  /\ Unique(cols) /\ InOrder(versions) /\ TypesAreNewest
  /\ \A p \in Preparers : OrderOK(p) /\ DictOK(p) /\ SeesNewest(p)
  /\ \A p, q \in Preparers : p # q => Touched(p) \cap Touched(q) = {}

\* A version prepared: its columns have its types now, or those of a newer
\* version that another run has prepared meanwhile.
LEMMA PrepareVersionNewest ==
  ASSUME TypeInv, TablesInv, NewestInv, NEW p \in Preparers, PrepareVersion(p)
  PROVE  OrderOK(p)' /\ DictOK(p)' /\ SeesNewest(p)'
<1>1. PICK v \in Unprepared(p) :
        /\ pc[p] = "tables"
        /\ \A x \in Unprepared(p) : v <= x
        /\ \A c \in Adds(p, v) : ~Named(c, View(p))
        /\ ddl'[p].add = (ddl[p].add \ Olds(p, v)) \cup Created(p, v)
                            \cup Adds(p, v) \cup Alters(p, v)
        /\ ddl'[p].drop = ddl[p].drop \cup (Olds(p, v) \cap cols)
        /\ tables'[p] = (tables[p] \ UNION {SameName(c, tables[p]) :
                                              c \in Alters(p, v)})
                          \cup Makes(p, v) \cup Adds(p, v) \cup Alters(p, v)
        /\ newvers'[p] = newvers[p] \cup {<<current[p], v>>}
        /\ known'[p] = known[p] \cup {v}
        /\ UNCHANGED <<cols, versions, specs, pc, release, todo, current, blank>>
  BY PrepareVersionSteps
<1>2. PICK t, r, wanted : t = current[p] /\ r = release[p] /\ wanted = Schema[t][v]
  OBVIOUS
<1>3. /\ r \in Releases /\ t \in Types /\ t \notin todo[p] /\ t # NoType
      /\ v \in 1 .. Latest[r][t] /\ Latest[r][t] \in Nat /\ t \in TypesOf(r)
      /\ Unprepared(p) = (1 .. Latest[r][t]) \ known[p]
      /\ ProgressOK(p) /\ ColumnsOK(p)
  BY <1>1, <1>2, ReleasesAssumption
     DEF TypeInv, TypeOK, PreparerOK, Holds, Unprepared, TablesInv, ProgressOK
<1>4. OrderOK(p) /\ DictOK(p) /\ SeesNewest(p)
  BY DEF NewestInv
<1>5. TablesIn(wanted) \subseteq TablesOf(t) /\ Unique(wanted)
  <2>1. v \in DOMAIN Schema[t] /\ TablesIn(wanted) \subseteq TablesOf(t)
    BY <1>2, <1>3, SchemaIsThere
  <2> QED BY <1>2, <1>3, <2>1, SchemaAssumption DEF Unique
<1>6. /\ Makes(p, v) = {c \in wanted : c.table \notin TablesIn(tables[p])}
      /\ Adds(p, v) = {c \in wanted : c.table \in TablesIn(tables[p])
                                        /\ ~Named(c, tables[p])}
      /\ Alters(p, v) = {c \in wanted : Named(c, tables[p]) /\ c \notin tables[p]}
  BY <1>2 DEF Makes, Adds, Alters, ToCreate, ToAdd, ToAlter, Named
<1>7. View(p)' = (View(p) \ Olds(p, v)) \cup Created(p, v) \cup Adds(p, v)
                    \cup Alters(p, v)
  BY <1>1 DEF View
<1>8. /\ Olds(p, v) \subseteq View(p)
      /\ \A c \in Olds(p, v) : \E a \in Alters(p, v) :
           a.table = c.table /\ a.name = c.name
      /\ \A c \in View(p), a \in Alters(p, v) :
           a.table = c.table /\ a.name = c.name => c \in Olds(p, v)
  BY DEF Olds, SameName
<1>9. Created(p, v) \subseteq Makes(p, v)
      /\ \A c \in Created(p, v) : c.table \notin TablesIn(View(p))
  BY DEF Created
<1>10. \A c \in wanted : c \in View(p) => c \in View(p)'
  BY <1>5, <1>6, <1>7, <1>8 DEF Unique
<1>11. Unique(View(p)')
  <2> SUFFICES ASSUME NEW c \in View(p)', NEW d \in View(p)',
                      c.table = d.table, c.name = d.name
               PROVE  c = d
    BY DEF Unique
  <2>1. \A a \in View(p)' : a \in wanted \/ a \in View(p) \ Olds(p, v)
    BY <1>6, <1>7, <1>9
  <2>2. ASSUME NEW a \in View(p)', a \in View(p) \ Olds(p, v),
               NEW b \in View(p)', b \notin View(p) \ Olds(p, v),
               a.table = b.table, a.name = b.name
        PROVE  FALSE
    <3>1. CASE b \in Created(p, v)
      BY <1>9, <2>2, <3>1 DEF TablesIn
    <3>2. CASE b \in Adds(p, v)
      BY <1>1, <2>2, <3>2 DEF Named, SameName
    <3>3. CASE b \in Alters(p, v)
      BY <1>8, <2>2, <3>3
    <3> QED BY <1>7, <2>2, <3>1, <3>2, <3>3
  <2>3. CASE c \in View(p) \ Olds(p, v) /\ d \in View(p) \ Olds(p, v)
    BY <1>4, <2>3 DEF SeesNewest, Unique
  <2>4. CASE c \notin View(p) \ Olds(p, v) /\ d \notin View(p) \ Olds(p, v)
    BY <1>5, <2>1, <2>4 DEF Unique
  <2> QED BY <2>2, <2>3, <2>4
<1>12. PICK gone : gone = UNION {SameName(c, tables[p]) : c \in Alters(p, v)}
  OBVIOUS
<1>13. /\ gone \subseteq tables[p]
       /\ \A c \in gone : \E a \in Alters(p, v) :
            a.table = c.table /\ a.name = c.name
       /\ \A c \in tables[p], a \in Alters(p, v) :
            a.table = c.table /\ a.name = c.name => c \in gone
       /\ tables'[p] = (tables[p] \ gone) \cup Makes(p, v) \cup Adds(p, v)
                         \cup Alters(p, v)
  BY <1>1, <1>12 DEF SameName
<1>14. Unique(tables'[p])
  <2> SUFFICES ASSUME NEW c \in tables'[p], NEW d \in tables'[p],
                      c.table = d.table, c.name = d.name
               PROVE  c = d
    BY DEF Unique
  <2>1. \A a \in tables'[p] : a \in wanted \/ a \in tables[p] \ gone
    BY <1>6, <1>13
  <2>2. ASSUME NEW a \in tables[p] \ gone,
               NEW b \in tables'[p], b \notin tables[p] \ gone,
               a.table = b.table, a.name = b.name
        PROVE  FALSE
    <3>1. CASE b \in Makes(p, v)
      BY <1>6, <2>2, <3>1 DEF TablesIn
    <3>2. CASE b \in Adds(p, v)
      BY <1>6, <2>2, <3>2 DEF Named, SameName
    <3>3. CASE b \in Alters(p, v)
      BY <1>13, <2>2, <3>3
    <3> QED BY <1>13, <2>2, <3>1, <3>2, <3>3
  <2>3. CASE c \in tables[p] \ gone /\ d \in tables[p] \ gone
    BY <1>1, <1>4, <2>3 DEF DictOK, Unique
  <2>4. CASE c \notin tables[p] \ gone /\ d \notin tables[p] \ gone
    BY <1>5, <2>1, <2>4 DEF Unique
  <2> QED BY <2>2, <2>3, <2>4
<1>15. \A c \in ddl[p].add : c.table \in TablesOf(t) => c \in tables[p]
  BY <1>1, <1>2, <1>3, <1>4 DEF DictOK
<1>16. \A c \in ddl'[p].add : c.table \in TablesOf(t) => c \in tables'[p]
  <2> SUFFICES ASSUME NEW c \in ddl'[p].add, c.table \in TablesOf(t),
                      c \in ddl[p].add \ Olds(p, v)
               PROVE  c \in tables'[p]
    BY <1>1, <1>9
  <2>1. c \in tables[p] /\ c \in View(p)
    BY <1>15 DEF View
  <2>2. c \notin gone
    BY <1>8, <1>13, <2>1
  <2> QED BY <1>13, <2>1, <2>2
<1>17. \/ AllPrepared(r)
       \/ \A u \in (todo[p] \cup {t}) : \A c : c.table \in TablesOf(u) =>
            (c \in tables[p] <=> c \in View(p))
  <2>1. todo[p] \subseteq Types /\ NoType \notin Types
    BY NamesAssumption DEF TypeInv, TypeOK, PreparerOK
  <2>2. \/ AllPrepared(r)
        \/ \A u \in (todo[p] \cup {t}) \ {NoType} : \A c \in tables[p] \cup View(p) :
             c.table \in TablesOf(u) => c \in tables[p] /\ c \in View(p)
    BY <1>1, <1>2, <1>4 DEF DictOK
  <2>3. (todo[p] \cup {t}) \ {NoType} = todo[p] \cup {t}
    BY <1>3, <2>1
  <2> QED BY <2>2, <2>3
<1>18. AllPrepared(r)' <=> AllPrepared(r)
  BY <1>1 DEF AllPrepared
<1>19. ASSUME ~AllPrepared(r)
       PROVE  \A u \in (todo[p] \cup {t}) : \A c : c.table \in TablesOf(u) =>
                (c \in tables'[p] <=> c \in View(p)')
  <2>1. \A c : c.table \in TablesOf(t) => (c \in tables[p] <=> c \in View(p))
    BY <1>17, <1>19
  <2>2. \A c \in wanted : c.table \in TablesOf(t)
    BY <1>5 DEF TablesIn
  <2>3. \A c : c \in Olds(p, v) <=> c \in gone
    BY <1>6, <1>8, <1>13, <2>1, <2>2
  <2>4. \A c \in Makes(p, v) : c \in Created(p, v)
    BY <1>6, <2>1, <2>2 DEF Created, TablesIn
  <2>5. \A u \in todo[p] : TablesOf(u) \cap TablesOf(t) = {}
    BY <1>3, SchemaAssumption DEF TypeInv, TypeOK, PreparerOK
  <2>6. \A c \in wanted, u \in todo[p] : c.table \notin TablesOf(u)
    BY <2>2, <2>5
  <2>7. \A c \in gone, u \in todo[p] : c.table \notin TablesOf(u)
    BY <1>6, <1>13, <2>6
  <2>8. \A u \in todo[p] : \A c : c.table \in TablesOf(u) =>
          (c \in tables[p] <=> c \in View(p))
    BY <1>17, <1>19
  <2>9. \A u \in todo[p] : \A c : c.table \in TablesOf(u) =>
          (c \in tables'[p] <=> c \in View(p)')
    BY <1>6, <1>7, <1>9, <1>13, <2>3, <2>6, <2>7, <2>8
  <2>10. \A c : c.table \in TablesOf(t) => (c \in tables'[p] <=> c \in View(p)')
    BY <1>7, <1>9, <1>13, <2>1, <2>3, <2>4
  <2> QED BY <2>9, <2>10
<1>20. DictOK(p)'
  <2>1. \/ AllPrepared(release[p])'
        \/ \A u \in (todo'[p] \cup {current'[p]}) \ {NoType} :
            \A c \in tables'[p] \cup View(p)' :
              c.table \in TablesOf(u) => c \in tables'[p] /\ c \in View(p)'
    <3>1. CASE AllPrepared(r)
      BY <1>1, <1>2, <1>18, <3>1
    <3>2. CASE ~AllPrepared(r)
      BY <1>1, <1>2, <1>19, <3>2
    <3> QED BY <3>1, <3>2
  <2>2. \A c \in ddl'[p].add : c.table \in TablesOf(current'[p]) => c \in tables'[p]
    BY <1>1, <1>2, <1>16
  <2> QED BY <1>14, <2>1, <2>2 DEF DictOK, Unique, TablesOf
<1>21. OnRecord(p)' = OnRecord(p) \cup {<<t, v>>}
  BY <1>1, <1>2 DEF OnRecord
<1>22. Unprepared(p)' = Unprepared(p) \ {v}
  BY <1>1, <1>2, <1>3 DEF Unprepared
<1>23. \A u \in known[p] : <<t, u>> \in OnRecord(p)
  BY <1>1, <1>2, <1>3 DEF ProgressOK, Preparing
<1>24. OrderOK(p)'
  <2>1. \A x \in newvers'[p] :
          x[1] \in TypesOf(release'[p]) /\ x[2] \in 1 .. Latest[release'[p]][x[1]]
    BY <1>1, <1>2, <1>3, <1>4 DEF OrderOK
  <2>2. InOrder(OnRecord(p)')
    <3>1. \A u \in 1 .. v : <<t, u>> \in OnRecord(p)'
      <4> SUFFICES ASSUME NEW u \in 1 .. v, u # v
                   PROVE  <<t, u>> \in OnRecord(p)
        BY <1>21
      <4>1. u \in 1 .. Latest[r][t] /\ ~(v <= u)
        BY <1>3
      <4> QED BY <1>1, <1>3, <1>23, <4>1
    <3>2. \A x \in OnRecord(p) : \A u \in 1 .. x[2] : <<x[1], u>> \in OnRecord(p)
      BY <1>4 DEF OrderOK, InOrder
    <3>3. PICK x : x = <<t, v>>
      OBVIOUS
    <3>4. \A u \in 1 .. x[2] : <<x[1], u>> \in OnRecord(p)'
      BY <3>1, <3>3
    <3> QED BY <1>21, <3>2, <3>3, <3>4 DEF InOrder
  <2>3. ASSUME NEW x \in OnRecord(p)', x[1] = t, x[2] \notin Unprepared(p)',
               NEW u \in Unprepared(p)'
        PROVE  x[2] < u
    <3>1. CASE x = <<t, v>>
      BY <1>1, <1>3, <1>22, <2>3, <3>1
    <3>2. CASE x # <<t, v>>
      <4>1. x \in OnRecord(p) /\ u \in Unprepared(p)
        BY <1>21, <1>22, <2>3, <3>2
      <4>2. x[2] # v
        <5>1. x \in Types \X Nat
          <6>1. versions \subseteq Versions /\ newvers[p] \subseteq Versions
            BY DEF TypeInv, TypeOK, PreparerOK
          <6> QED BY <4>1, <6>1 DEF OnRecord, Versions
        <5> QED BY <2>3, <3>2, <5>1
      <4> QED BY <1>1, <1>2, <1>4, <1>22, <2>3, <4>1, <4>2 DEF OrderOK, Preparing
    <3> QED BY <3>1, <3>2
  <2>4. current'[p] = t
    BY <1>1, <1>2
  <2> QED BY <2>1, <2>2, <2>3, <2>4 DEF OrderOK
<1>25. ASSUME AllPrepared(r), NEW c \in wanted, c \in cols
       PROVE  c \in View(p)'
  <2>1. c.table \in TablesOf(t)
    BY <1>5 DEF TablesIn
  <2>2. CASE c \in View(p)
    BY <1>10, <2>2
  <2>3. CASE c \notin View(p)
    <3>1. c \in ddl[p].drop
      BY <1>25, <2>3 DEF View
    <3>2. PICK d \in ddl[p].add : d.table = c.table /\ d.name = c.name
      BY <1>3, <3>1 DEF ColumnsOK, Named, SameName
    <3>3. d \in tables[p]
      BY <1>15, <2>1, <3>2
    <3>4. c.table \in TablesIn(tables[p]) /\ Named(c, tables[p])
      BY <3>2, <3>3 DEF TablesIn, Named, SameName
    <3>5. d \in View(p) /\ d # c
      BY <2>3, <3>2 DEF View
    <3>6. c \notin tables[p]
      BY <1>1, <1>4, <3>2, <3>3, <3>5 DEF DictOK, Unique
    <3>7. c \in Alters(p, v)
      BY <1>6, <3>4, <3>6
    <3> QED BY <1>7, <3>7
  <2> QED BY <2>2, <2>3
<1>26. ASSUME ~AllPrepared(r), NEW c \in wanted
       PROVE  c \in View(p)'
  <2>1. c.table \in TablesOf(t)
    BY <1>5 DEF TablesIn
  <2>2. CASE c \in Adds(p, v) \/ c \in Alters(p, v)
    BY <1>7, <2>2
  <2>3. CASE c \in Makes(p, v)
    <3>1. c.table \notin TablesIn(View(p))
      BY <1>6, <1>17, <1>26, <2>1, <2>3 DEF TablesIn
    <3> QED BY <1>7, <2>3, <3>1 DEF Created
  <2>4. CASE c \in tables[p]
    BY <1>10, <1>17, <1>26, <2>1, <2>4
  <2> QED BY <1>6, <2>2, <2>3, <2>4
<1>27. \A c \in wanted : Newest(c, <<t, v>>, View(p)', OnRecord(p)')
  <2> SUFFICES ASSUME NEW c \in wanted
               PROVE  Newest(c, <<t, v>>, View(p)', OnRecord(p)')
    OBVIOUS
  <2>1. CASE AllPrepared(r)
    <3>1. <<t, v>> \in versions
      BY <1>3, <2>1 DEF AllPrepared
    <3>2. \/ c \in cols
          \/ \E y \in versions : y[1] = t /\ y[2] > v /\ Named(c, Schema[y[1]][y[2]])
      <4>1. <<t, v>>[1] = t /\ <<t, v>>[2] = v
        OBVIOUS
      <4> QED BY <1>2, <3>1, <4>1 DEF NewestInv, TypesAreNewest, Named
    <3>3. versions \subseteq OnRecord(p)'
      BY <1>21 DEF OnRecord
    <3> QED BY <1>25, <2>1, <3>2, <3>3 DEF Newest
  <2>2. CASE ~AllPrepared(r)
    BY <1>26, <2>2 DEF Newest
  <2> QED BY <2>1, <2>2
<1>28. ASSUME NEW x \in OnRecord(p), ~Again(p, x), NEW c \in Schema[x[1]][x[2]]
       PROVE  Newest(c, x, View(p)', OnRecord(p)')
  <2>1. Newest(c, x, View(p), OnRecord(p))
    BY <1>4, <1>28 DEF SeesNewest
  <2>2. CASE \E y \in OnRecord(p) : y[1] = x[1] /\ y[2] > x[2]
                                      /\ Named(c, Schema[y[1]][y[2]])
    BY <1>21, <2>2 DEF Newest
  <2>3. CASE c \in View(p) /\ c \notin Olds(p, v)
    BY <1>7, <2>3 DEF Newest
  <2>4. CASE c \in Olds(p, v)
    <3>1. PICK a \in Alters(p, v) : a.table = c.table /\ a.name = c.name
      BY <1>8, <2>4
    <3>2. a \in wanted /\ a.table \in TablesOf(t)
      BY <1>5, <1>6 DEF TablesIn
    <3>3. Named(c, wanted)
      BY <3>1, <3>2 DEF Named, SameName
    <3>4. x \in Types \X Nat /\ x[2] \in DOMAIN Schema[x[1]]
      <4>1. versions \subseteq Versions /\ newvers[p] \subseteq Versions
        BY DEF TypeInv, TypeOK, PreparerOK
      <4> QED BY <4>1 DEF OnRecord, Versions
    <3>5. c.table \in TablesOf(x[1])
      BY <1>28, <3>4 DEF TablesOf
    <3>6. x[1] = t
      BY <1>3, <3>1, <3>2, <3>4, <3>5, SchemaAssumption
    <3>7. x[2] < v
      BY <1>1, <1>2, <1>4, <1>28, <3>6 DEF OrderOK, Again, Preparing
    <3>8. <<t, v>> \in OnRecord(p)' /\ <<t, v>>[1] = t /\ <<t, v>>[2] = v
      BY <1>21
    <3>9. \E y \in OnRecord(p)' : y[1] = x[1] /\ y[2] > x[2]
                                    /\ Named(c, Schema[y[1]][y[2]])
      BY <1>2, <1>3, <3>3, <3>4, <3>6, <3>7, <3>8
    <3> QED BY <3>9 DEF Newest
  <2> QED BY <2>1, <2>2, <2>3, <2>4 DEF Newest
<1>29. SeesNewest(p)'
  <2>1. ASSUME NEW x \in OnRecord(p)', ~Again(p, x)', NEW c \in Schema[x[1]][x[2]]
        PROVE  Newest(c, x, View(p)', OnRecord(p)')
    <3>1. CASE x = <<t, v>>
      BY <1>2, <1>27, <2>1, <3>1
    <3>2. CASE x # <<t, v>>
      <4>1. x \in OnRecord(p) /\ x \in Types \X Nat
        <5>1. versions \subseteq Versions /\ newvers[p] \subseteq Versions
          BY DEF TypeInv, TypeOK, PreparerOK
        <5> QED BY <1>21, <2>1, <3>2, <5>1 DEF OnRecord, Versions
      <4>2. ~(x[1] = t /\ x[2] = v)
        BY <3>2, <4>1
      <4>3. ~Again(p, x)
        BY <1>1, <1>2, <1>22, <2>1, <4>2 DEF Again, Preparing
      <4> QED BY <1>28, <2>1, <4>1, <4>3
    <3> QED BY <3>1, <3>2
  <2>2. Unique(View(p)')
    BY <1>11
  <2>3. PICK vs, cs : vs = OnRecord(p)' /\ cs = View(p)'
    OBVIOUS
  <2>4. \A x \in vs : Again(p, x)' \/ \A c \in Schema[x[1]][x[2]] : Newest(c, x, cs, vs)
    BY <2>1, <2>3
  <2> QED BY <2>2, <2>3, <2>4 DEF SeesNewest, Newest, Unique, Again, Preparing, Unprepared
<1> QED BY <1>20, <1>24, <1>29

-----------------------------------------------------------------------------
\* A run commits what it sees, once it has nothing left to prepare.
LEMMA CommitsAll ==
  ASSUME TypeInv, TablesInv, NEW p \in Preparers, CommitTables(p) \/ CommitSpecs(p)
  PROVE  /\ cols' = View(p) /\ versions' = OnRecord(p)
         /\ pc[p] # "idle" /\ UNCHANGED release /\ AllPrepared(release[p])'
         /\ \A x \in OnRecord(p) : ~Again(p, x)
         /\ ddl'[p] = NoDdl /\ newvers'[p] = {}
         /\ pc'[p] \notin {"tables", "reflect"}
<1>1. PrepFuns /\ Holds(p)
  BY DEF TypeInv
<1>2. CASE CommitTables(p)
  <2>1. AllPrepared(release[p])'
    BY <1>2, CommitTablesOK
  <2> QED BY <1>1, <1>2, <2>1, Order DEF CommitTables, PrepFuns, OnRecord, Again
<1>3. CASE CommitSpecs(p)
  <2>1. AllPrepared(release[p])' /\ newvers[p] = {}
    BY <1>1, <1>3 DEF CommitSpecs, TablesInv, ProgressOK, AllPrepared, Holds
  <2>2. /\ cols' = View(p) /\ UNCHANGED <<versions, newvers, release>>
        /\ pc[p] = "store" /\ pc'[p] = "check" /\ ddl'[p] = NoDdl
    BY <1>1, <1>3, Order DEF CommitSpecs, PrepFuns
  <2> QED BY <2>1, <2>2 DEF OnRecord, Again, Preparing
<1> QED BY <1>2, <1>3

LEMMA CommitsNothing ==
  ASSUME NEW p \in Preparers, Prepare(p), ~(CommitTables(p) \/ CommitSpecs(p))
  PROVE  UNCHANGED <<cols, versions>>
BY DEF Prepare, Begin, GetKnownVersions, ReadTables, PrepareVersion,
       PrepareTables, GetTypes, UpdateSpec, AddSpec, Check, Abort, dbVars

\* The tables a run has touched are locked: another run's commit leaves them as
\* the run sees them, and shows it all others as that one has seen them.
LEMMA SeenByBoth ==
  ASSUME NEW p \in Preparers, NEW q \in Preparers \ {p},
         Touched(p) \cap Touched(q) = {}, cols' = View(p), ddl'[q] = ddl[q]
  PROVE  \A c : c \in View(q)' <=>
                  IF c.table \in Touched(q) THEN c \in View(q) ELSE c \in View(p)
<1> SUFFICES ASSUME NEW c
             PROVE  c \in View(q)' <=>
                      IF c.table \in Touched(q) THEN c \in View(q) ELSE c \in View(p)
  OBVIOUS
<1>1. View(q)' = (View(p) \ ddl[q].drop) \cup ddl[q].add
  BY DEF View
<1>2. CASE c.table \in Touched(q)
  <2>1. c \notin ddl[p].add /\ c \notin ddl[p].drop
    BY <1>2 DEF Touched, TablesIn
  <2>2. c \in View(p) <=> c \in cols
    BY <2>1 DEF View
  <2> QED BY <1>1, <1>2, <2>2 DEF View
<1>3. CASE c.table \notin Touched(q)
  <2>1. c \notin ddl[q].add /\ c \notin ddl[q].drop
    BY <1>3 DEF Touched, TablesIn
  <2> QED BY <1>1, <1>3, <2>1
<1> QED BY <1>2, <1>3

\* A run that has touched a table of a version has prepared the version, or is
\* going to.
LEMMA TouchedIsKnown ==
  ASSUME TypeInv, TablesInv, NEW q \in Preparers, pc[q] # "idle",
         NEW t \in TypesOf(release[q]), NEW v \in 1 .. Latest[release[q]][t],
         <<t, v>> \notin OnRecord(q), TablesOf(t) \cap Touched(q) # {}
  PROVE  Again(q, <<t, v>>)
<1>1. ProgressOK(q) /\ ColumnsOK(q) /\ Holds(q)
  BY DEF TypeInv, TablesInv
<1>2. <<t, v>> \notin versions
  BY DEF OnRecord
<1>3. Preparing(q)
  <2>1. ~AllPrepared(release[q])
    BY <1>2 DEF AllPrepared
  <2>2. pc[q] \notin {"specs", "store", "check"}
    BY <1>1, <2>1 DEF ProgressOK
  <2>3. pc[q] \in {"idle", "tables", "reflect", "specs", "store", "check"}
    BY DEF TypeInv, TypeOK, PreparerOK
  <2> QED BY <2>2, <2>3 DEF Preparing
<1>4. t \notin todo[q]
  <2>1. Touched(q) \subseteq TablesIn(ddl[q].add)
    BY <1>1 DEF Touched, ColumnsOK, Named, SameName, TablesIn
  <2> QED BY <1>1, <1>3, <2>1 DEF ColumnsOK
<1>5. t = current[q]
  BY <1>1, <1>3, <1>4 DEF ProgressOK
<1>6. v \notin known[q]
  BY <1>1, <1>3, <1>5, NamesAssumption DEF ProgressOK, TypesOf
<1>7. v \in Unprepared(q)
  BY <1>5, <1>6, NamesAssumption DEF Unprepared, TypesOf
<1>8. <<t, v>>[1] = t /\ <<t, v>>[2] = v
  OBVIOUS
<1> QED BY <1>3, <1>5, <1>7, <1>8 DEF Again

LEMMA NewestWhenCommitted ==
  ASSUME TypeInv, TablesInv, NewestInv,
         NEW p \in Preparers, CommitTables(p) \/ CommitSpecs(p),
         NEW q \in Preparers \ {p}, PrepKept(p)
  PROVE  OrderOK(q)' /\ DictOK(q)' /\ SeesNewest(q)'
<1>0. /\ pc'[q] = pc[q] /\ release'[q] = release[q] /\ todo'[q] = todo[q]
      /\ current'[q] = current[q] /\ tables'[q] = tables[q]
      /\ known'[q] = known[q] /\ ddl'[q] = ddl[q] /\ newvers'[q] = newvers[q]
  BY DEF PrepKept
<1>1. /\ cols' = View(p) /\ versions' = OnRecord(p) /\ pc[p] # "idle"
      /\ AllPrepared(release[p])' /\ \A x \in OnRecord(p) : ~Again(p, x)
  BY CommitsAll
<1>2. /\ OrderOK(p) /\ SeesNewest(p) /\ OrderOK(q) /\ DictOK(q) /\ SeesNewest(q)
      /\ Touched(p) \cap Touched(q) = {} /\ ProgressOK(q) /\ Holds(q)
      /\ versions \subseteq Versions /\ newvers[p] \subseteq Versions
      /\ newvers[q] \subseteq Versions
  BY DEF NewestInv, TablesInv, TypeInv, TypeOK, PreparerOK
<1>3. pc[q] # "idle" => release[q] = release[p]
  BY <1>1 DEF TablesInv, SameRelease
<1>4. /\ OnRecord(q)' = OnRecord(p) \cup newvers[q]
      /\ OnRecord(p) \subseteq OnRecord(q)' /\ OnRecord(q) \subseteq OnRecord(q)'
  BY <1>0, <1>1 DEF OnRecord
<1>5. Unprepared(q)' = Unprepared(q) /\ \A x : Again(q, x)' <=> Again(q, x)
  BY <1>0 DEF Unprepared, Again, Preparing
<1>6. ASSUME NEW x \in OnRecord(p), x \notin OnRecord(q), pc[q] # "idle"
      PROVE  /\ x[1] \in TypesOf(release[q]) /\ x[2] \in 1 .. Latest[release[q]][x[1]]
             /\ x = <<x[1], x[2]>>
  <2>1. x \in newvers[p] /\ x \in Versions
    BY <1>2, <1>6 DEF OnRecord
  <2> QED BY <1>2, <1>3, <1>6, <2>1 DEF OrderOK, Versions
<1>7. OrderOK(q)'
  <2>1. InOrder(OnRecord(q)')
    BY <1>2, <1>4 DEF OrderOK, InOrder, OnRecord
  <2>2. ASSUME Preparing(q), NEW x \in OnRecord(q)', x[1] = current[q],
               x[2] \notin Unprepared(q), NEW v \in Unprepared(q)
        PROVE  x[2] < v
    <3>1. CASE x \in OnRecord(q)
      BY <1>2, <2>2, <3>1 DEF OrderOK
    <3>2. CASE x \notin OnRecord(q)
      <4>1. x \in OnRecord(p) /\ pc[q] # "idle"
        BY <1>4, <2>2, <3>2 DEF OnRecord, Preparing
      <4>2. /\ x[1] \in TypesOf(release[q])
            /\ x[2] \in 1 .. Latest[release[q]][x[1]] /\ x = <<x[1], x[2]>>
        BY <1>6, <3>2, <4>1
      <4>3. x[2] \in known[q] /\ current[q] # NoType
        BY <2>2, <4>2 DEF Unprepared
      <4>4. <<current[q], x[2]>> \in OnRecord(q)
        BY <1>2, <2>2, <4>3 DEF ProgressOK
      <4> QED BY <2>2, <3>2, <4>2, <4>4
    <3> QED BY <3>1, <3>2
  <2>3. \A x \in newvers'[q] :
          x[1] \in TypesOf(release'[q]) /\ x[2] \in 1 .. Latest[release'[q]][x[1]]
    BY <1>0, <1>2 DEF OrderOK
  <2>4. Preparing(q)' <=> Preparing(q)
    BY <1>0 DEF Preparing
  <2>5. PICK vs, us : vs = OnRecord(q)' /\ us = Unprepared(q)'
    OBVIOUS
  <2>6. Preparing(q)' => \A x \in vs :
          x[1] = current'[q] /\ x[2] \notin us => \A v \in us : x[2] < v
    BY <1>0, <1>5, <2>2, <2>4, <2>5
  <2> QED BY <2>1, <2>3, <2>5, <2>6 DEF OrderOK
<1>8. DictOK(q)'
  <2>1. pc[q] = "tables" => AllPrepared(release[q])'
    <3>1. pc[q] = "tables" => release'[q] = release'[p]
      BY <1>0, <1>3, CommitsAll
    <3> QED BY <1>1, <3>1 DEF AllPrepared
  <2>2. pc'[q] = "tables" =>
          /\ Unique(tables'[q])
          /\ current'[q] # NoType => \A c \in ddl'[q].add :
               c.table \in TablesOf(current'[q]) => c \in tables'[q]
    BY <1>0, <1>2 DEF DictOK
  <2> QED BY <1>0, <2>1, <2>2 DEF DictOK, Unique, TablesOf
<1>9. \A c : c \in View(q)' <=>
               IF c.table \in Touched(q) THEN c \in View(q) ELSE c \in View(p)
  BY <1>0, <1>1, <1>2, SeenByBoth
<1>10. Unique(View(q)')
  <2> SUFFICES ASSUME NEW c \in View(q)', NEW d \in View(q)',
                      c.table = d.table, c.name = d.name
               PROVE  c = d
    BY DEF Unique
  <2>1. CASE c.table \in Touched(q)
    BY <1>2, <1>9, <2>1 DEF SeesNewest, Unique
  <2>2. CASE c.table \notin Touched(q)
    BY <1>2, <1>9, <2>2 DEF SeesNewest, Unique
  <2> QED BY <2>1, <2>2
<1>11. ASSUME NEW x \in OnRecord(p), ~Again(q, x), NEW c \in Schema[x[1]][x[2]]
       PROVE  Newest(c, x, View(q)', OnRecord(q)')
  <2>1. Newest(c, x, View(p), OnRecord(p))
    BY <1>1, <1>2, <1>11 DEF SeesNewest
  <2>2. CASE c \in View(p) /\ c.table \notin Touched(q)
    BY <1>9, <2>2 DEF Newest
  <2>3. CASE c \in View(p) /\ c.table \in Touched(q) /\ x \in OnRecord(q)
    <3>1. Newest(c, x, View(q), OnRecord(q))
      BY <1>2, <1>11, <2>3 DEF SeesNewest
    <3> QED BY <1>4, <1>9, <2>3, <3>1 DEF Newest
  <2>4. CASE c \in View(p) /\ c.table \in Touched(q) /\ x \notin OnRecord(q)
    <3>1. pc[q] # "idle"
      BY <1>2, <2>4 DEF Holds, Touched, TablesIn, NoDdl
    <3>2. /\ x[1] \in TypesOf(release[q]) /\ x[2] \in 1 .. Latest[release[q]][x[1]]
          /\ x = <<x[1], x[2]>>
      BY <1>6, <2>4, <3>1
    <3>3. c.table \in TablesOf(x[1])
      <4>1. x \in Versions
        BY <1>2, <1>11 DEF OnRecord
      <4> QED BY <1>11, <4>1 DEF Versions, TablesOf
    <3>4. TablesOf(x[1]) \cap Touched(q) # {}
      BY <2>4, <3>3
    <3>5. PICK t, v : t = x[1] /\ v = x[2]
      OBVIOUS
    <3>6. Again(q, <<t, v>>)
      BY <2>4, <3>1, <3>2, <3>4, <3>5, TouchedIsKnown
    <3> QED BY <1>11, <3>2, <3>5, <3>6
  <2>5. CASE \E y \in OnRecord(p) : y[1] = x[1] /\ y[2] > x[2]
                                      /\ Named(c, Schema[y[1]][y[2]])
    BY <1>4, <2>5 DEF Newest
  <2> QED BY <2>1, <2>2, <2>3, <2>4, <2>5 DEF Newest
<1>12. \A x \in newvers[q] : x \in OnRecord(p)
  <2> SUFFICES ASSUME NEW x \in newvers[q] PROVE x \in OnRecord(p)
    OBVIOUS
  <2>1. pc[q] # "idle"
    BY <1>2 DEF Holds
  <2>2. x[1] \in TypesOf(release[p]) /\ x[2] \in 1 .. Latest[release[p]][x[1]]
    BY <1>2, <1>3, <2>1 DEF OrderOK
  <2>3. UNCHANGED release
    BY CommitsAll
  <2>4. <<x[1], x[2]>> \in versions'
    BY <1>1, <2>2, <2>3 DEF AllPrepared
  <2>5. x = <<x[1], x[2]>>
    BY <1>2 DEF Versions
  <2> QED BY <1>1, <2>4, <2>5
<1>13. SeesNewest(q)'
  <2>1. \A x \in OnRecord(q)' : Again(q, x)' \/
          \A c \in Schema[x[1]][x[2]] : Newest(c, x, View(q)', OnRecord(q)')
    BY <1>4, <1>5, <1>11, <1>12
  <2>2. PICK vs, cs : vs = OnRecord(q)' /\ cs = View(q)'
    OBVIOUS
  <2>3. \A x \in vs : Again(q, x)' \/
          \A c \in Schema[x[1]][x[2]] : Newest(c, x, cs, vs)
    BY <2>1, <2>2
  <2> QED BY <1>10, <2>2, <2>3
          DEF SeesNewest, Newest, Unique, Again, Preparing, Unprepared
<1> QED BY <1>7, <1>8, <1>13

\* What is committed is in order whatever a run does.
LEMMA CommittedNewest ==
  ASSUME TypeInv, TablesInv, NewestInv, NEW p \in Preparers, Prepare(p)
  PROVE  (Unique(cols) /\ InOrder(versions) /\ TypesAreNewest)'
<1>1. CASE CommitTables(p) \/ CommitSpecs(p)
  <2>1. /\ cols' = View(p) /\ versions' = OnRecord(p)
        /\ \A x \in OnRecord(p) : ~Again(p, x)
    BY <1>1, CommitsAll
  <2>2. OrderOK(p) /\ SeesNewest(p)
    BY DEF NewestInv
  <2>3. PICK vs, cs : vs = OnRecord(p) /\ cs = View(p)
    OBVIOUS
  <2>4. \A x \in vs : \A c \in Schema[x[1]][x[2]] : Newest(c, x, cs, vs)
    BY <2>1, <2>2, <2>3 DEF SeesNewest
  <2>5. TypesAreNewest'
    BY <2>1, <2>3, <2>4 DEF TypesAreNewest, Newest, Named, SameName
  <2> QED BY <2>1, <2>2, <2>5 DEF OrderOK, SeesNewest, Unique, InOrder
<1>2. CASE ~(CommitTables(p) \/ CommitSpecs(p))
  <2>1. UNCHANGED <<cols, versions>>
    BY <1>2, CommitsNothing
  <2> QED BY <2>1 DEF NewestInv, Unique, InOrder, TypesAreNewest, SameName
<1> QED BY <1>1, <1>2

\* A transaction that has changed nothing sees what is committed.
LEMMA NothingOpen ==
  ASSUME NEW p \in Preparers, ddl'[p] = NoDdl, newvers'[p] = {},
         pc'[p] \notin {"tables", "reflect"},
         (Unique(cols) /\ InOrder(versions) /\ TypesAreNewest)'
  PROVE  OrderOK(p)' /\ DictOK(p)' /\ SeesNewest(p)'
<1>1. View(p)' = cols' /\ OnRecord(p)' = versions'
  BY DEF View, OnRecord, NoDdl
<1>2. OrderOK(p)'
  BY <1>1 DEF OrderOK, Preparing, InOrder
<1>3. DictOK(p)'
  BY DEF DictOK
<1>4. PICK vs, cs : vs = versions' /\ cs = cols'
  OBVIOUS
<1>5. \A x \in vs : \A c \in Schema[x[1]][x[2]] : Newest(c, x, cs, vs)
  BY <1>4 DEF TypesAreNewest, Newest, Named, SameName
<1>6. SeesNewest(p)'
  BY <1>1, <1>4, <1>5 DEF SeesNewest, Newest, Unique
<1> QED BY <1>2, <1>3, <1>6

\* Another column that no version names and that has no namesake.
LEMMA NewestGrows ==
  ASSUME NEW p \in Preparers, SeesNewest(p), NEW b,
         View(p)' \in {View(p), View(p) \cup {b}},
         b \in View(p) \/ ~Named(b, View(p)),
         OnRecord(p)' = OnRecord(p),
         \A x \in OnRecord(p) : Again(p, x) => Again(p, x)'
  PROVE  SeesNewest(p)'
<1>1. PICK vs, cs : vs = OnRecord(p)' /\ cs = View(p)'
  OBVIOUS
<1>2. Unique(cs)
  BY <1>1 DEF SeesNewest, Unique, Named, SameName
<1>3. \A x \in vs : Again(p, x)' \/ \A c \in Schema[x[1]][x[2]] : Newest(c, x, cs, vs)
  BY <1>1 DEF SeesNewest, Newest
<1> QED BY <1>1, <1>2, <1>3
        DEF SeesNewest, Newest, Unique, Again, Preparing, Unprepared

LEMMA GetKnownVersionsNewest ==
  ASSUME TypeInv, TablesInv, NewestInv, NEW p \in Preparers, NEW t \in Types,
         GetKnownVersions(p, t)
  PROVE  OrderOK(p)' /\ DictOK(p)' /\ SeesNewest(p)'
<1>1. /\ PrepFuns /\ PreparerOK(p) /\ ProgressOK(p) /\ ColumnsOK(p)
      /\ OrderOK(p) /\ DictOK(p) /\ SeesNewest(p)
      /\ versions \subseteq Versions /\ newvers[p] \subseteq Versions
      /\ cols \subseteq AnyColumn
  BY DEF TypeInv, TypeOK, PreparerOK, TablesInv, NewestInv
<1>2. /\ pc[p] = "tables" /\ pc'[p] \in {"tables", "reflect"}
      /\ t \in todo[p] /\ Unprepared(p) = {}
      /\ todo'[p] = todo[p] \ {t} /\ current'[p] = t
      /\ UNCHANGED <<cols, versions, release, tables, newvers>>
      /\ known'[p] = {x[2] : x \in {y \in OnRecord(p) : y[1] = t}}
  BY <1>1 DEF GetKnownVersions, PrepFuns, dbVars, OnRecord
<1>3. PICK b : b = VersionColumn(t)
  OBVIOUS
<1>4. /\ ddl'[p].drop = ddl[p].drop
      /\ \/ ddl'[p].add = ddl[p].add
         \/ ddl'[p].add = ddl[p].add \cup {b} /\ b \notin cols
  BY <1>1, <1>3 DEF GetKnownVersions, PrepFuns, PreparerOK
<1>5. /\ View(p)' \in {View(p), View(p) \cup {b}}
      /\ OnRecord(p)' = OnRecord(p)
  BY <1>2, <1>4 DEF View, OnRecord
<1>6. b \in View(p) \/ ~Named(b, View(p))
  <2> SUFFICES ASSUME NEW d \in View(p), d.table = b.table, d.name = b.name
               PROVE  d = b
    BY DEF Named, SameName
  <2>1. d \in AnyColumn
    BY <1>1 DEF View, PreparerOK
  <2>2. b.table = <<t, "versions">> /\ <<t, "versions">>[1] = t
        /\ <<t, "versions">>[2] = "versions"
    BY <1>3 DEF VersionColumn
  <2>3. d \notin Column
    <3> SUFFICES ASSUME d \in Column PROVE FALSE
      OBVIOUS
    <3>1. PICK u \in Types : \E v \in DOMAIN Schema[u] : d \in Schema[u][v]
      BY DEF Column
    <3>2. d.table \in TablesOf(u)
      BY <3>1 DEF TablesOf
    <3> QED BY <1>3, <3>2, SchemaAssumption
  <2>4. d # SpecColumn
    <3>1. SpecTable[2] = "main" /\ SpecColumn.table = SpecTable
      BY DEF SpecTable, SpecColumn
    <3> QED BY <2>2, <3>1
  <2>5. PICK u \in Types : d = VersionColumn(u)
    BY <2>1, <2>3, <2>4 DEF AnyColumn
  <2>6. d.table = <<u, "versions">> /\ <<u, "versions">>[1] = u
    BY <2>5 DEF VersionColumn
  <2>7. u = t
    BY <2>2, <2>6
  <2> QED BY <1>3, <2>5, <2>7
<1>7. \A x \in OnRecord(p) : ~Again(p, x)
  BY <1>2 DEF Again
<1>8. SeesNewest(p)'
  BY <1>1, <1>5, <1>6, <1>7, NewestGrows
<1>9. OrderOK(p)'
  <2>1. \A x \in newvers'[p] :
          x[1] \in TypesOf(release'[p]) /\ x[2] \in 1 .. Latest[release'[p]][x[1]]
    BY <1>1, <1>2 DEF OrderOK
  <2>2. InOrder(OnRecord(p))
    BY <1>1 DEF OrderOK
  <2>3. ASSUME NEW x \in OnRecord(p), x[1] = t, NEW v \in Unprepared(p)'
        PROVE  x[2] < v
    <3>1. v \in 1 .. Latest[release[p]][t] /\ v \notin known'[p] /\ v \in Nat
      BY <1>2, <2>3, NamesAssumption DEF Unprepared
    <3>2. x[2] \in Nat
      BY <1>1 DEF OnRecord, Versions
    <3>3. ASSUME v <= x[2] PROVE FALSE
      <4>1. v \in 1 .. x[2]
        BY <3>1, <3>2, <3>3
      <4>2. <<t, v>> \in OnRecord(p)
        BY <2>2, <2>3, <4>1 DEF InOrder
      <4>3. <<t, v>>[1] = t /\ <<t, v>>[2] = v
        OBVIOUS
      <4> QED BY <1>2, <3>1, <4>2, <4>3
    <3> QED BY <3>1, <3>2, <3>3
  <2>4. PICK vs, us : vs = OnRecord(p)' /\ us = Unprepared(p)'
    OBVIOUS
  <2>5. InOrder(vs) /\ \A x \in vs : x[1] = current'[p] /\ x[2] \notin us =>
                         \A v \in us : x[2] < v
    BY <1>2, <1>5, <2>2, <2>3, <2>4
  <2> QED BY <2>1, <2>4, <2>5 DEF OrderOK, InOrder
<1>10. DictOK(p)'
  <2>1. \A u \in Types : b.table \notin TablesOf(u)
    BY <1>3, SchemaAssumption
  <2>2. \A c \in ddl'[p].add : c.table \notin TablesOf(t)
    BY <1>1, <1>2, <1>4, <2>1 DEF ColumnsOK, Preparing, TablesIn
  <2>3. \/ AllPrepared(release[p])'
        \/ \A u \in (todo'[p] \cup {current'[p]}) \ {NoType} :
            \A c \in tables'[p] \cup View(p)' :
              c.table \in TablesOf(u) => c \in tables'[p] /\ c \in View(p)'
    <3>1. CASE AllPrepared(release[p])
      BY <1>2, <3>1 DEF AllPrepared
    <3>2. CASE ~AllPrepared(release[p])
      <4>1. \A u \in todo[p] \ {NoType} : \A c \in tables[p] \cup View(p) :
              c.table \in TablesOf(u) => c \in tables[p] /\ c \in View(p)
        BY <1>1, <1>2, <3>2 DEF DictOK
      <4>2. todo[p] \subseteq Types
        BY <1>1 DEF PreparerOK
      <4> QED BY <1>2, <1>5, <2>1, <4>1, <4>2
    <3> QED BY <3>1, <3>2
  <2>4. pc'[p] = "tables" => Unique(tables'[p])
    BY <1>1, <1>2 DEF DictOK
  <2>5. current'[p] # NoType => \A c \in ddl'[p].add :
           c.table \in TablesOf(current'[p]) => c \in tables'[p]
    BY <1>2, <2>2
  <2> QED BY <2>3, <2>4, <2>5 DEF DictOK, Unique, TablesOf
<1> QED BY <1>8, <1>9, <1>10

LEMMA OwnNewest ==
  ASSUME TypeInv, TablesInv, NewestInv, NEW p \in Preparers, Prepare(p)
  PROVE  OrderOK(p)' /\ DictOK(p)' /\ SeesNewest(p)'
<1>0. /\ PrepFuns /\ Holds(p) /\ ProgressOK(p) /\ ColumnsOK(p) /\ PreparerOK(p)
      /\ OrderOK(p) /\ DictOK(p) /\ SeesNewest(p)
      /\ Unique(cols) /\ InOrder(versions) /\ TypesAreNewest
      /\ versions \subseteq Versions /\ NoType \notin Types
      /\ newvers[p] \subseteq Versions
  BY NamesAssumption DEF TypeInv, TypeOK, PreparerOK, TablesInv, NewestInv
<1> USE DEF PrepFuns, dbVars, memVars, storeVars
<1>1. CASE \E r \in Releases : Begin(p, r)
  <2>1. PICK r \in Releases : Begin(p, r)
    BY <1>1
  <2>2. /\ pc'[p] = "tables" /\ todo'[p] = TypesOf(r) /\ current'[p] = NoType
        /\ ddl'[p] = NoDdl /\ newvers'[p] = {} /\ known'[p] = known[p]
        /\ tables'[p] = cols /\ UNCHANGED <<cols, versions>>
    BY <1>0, <2>1, Order DEF Begin, Holds, ProgressOK
  <2>3. View(p)' = cols /\ OnRecord(p)' = versions /\ Unprepared(p)' = {}
    BY <2>2 DEF View, OnRecord, NoDdl, Unprepared
  <2>4. OrderOK(p)'
    BY <1>0, <2>2, <2>3 DEF OrderOK, InOrder
  <2>5. DictOK(p)'
    BY <1>0, <2>2, <2>3 DEF DictOK, Unique, NoDdl
  <2>6. SeesNewest(p)'
    BY <1>0, <2>3 DEF SeesNewest, Unique, TypesAreNewest, Newest, Named, SameName
  <2> QED BY <2>4, <2>5, <2>6
<1>2. CASE \E t \in Types : GetKnownVersions(p, t)
  BY <1>2, GetKnownVersionsNewest
<1>3. CASE ReadTables(p)
  <2>1. /\ pc[p] = "reflect" /\ pc'[p] = "tables" /\ tables'[p] = cols
        /\ UNCHANGED <<cols, versions, release, todo, current, known, ddl, newvers>>
    BY <1>0, <1>3 DEF ReadTables
  <2>2. /\ View(p)' = View(p) /\ OnRecord(p)' = OnRecord(p)
        /\ Unprepared(p)' = Unprepared(p) /\ \A x : Again(p, x) => Again(p, x)'
    BY <2>1 DEF View, OnRecord, Unprepared, Again, Preparing
  <2>3. SeesNewest(p)'
    <3>1. PICK b : b \in View(p) \/ ~Named(b, View(p))
      BY DEF Named, SameName
    <3> QED BY <1>0, <2>2, <3>1, NewestGrows
  <2>4. OrderOK(p)'
    BY <1>0, <2>1, <2>2 DEF OrderOK, InOrder, Preparing
  <2>5. DictOK(p)'
    <3>1. \A u \in todo[p] \cup {current[p]} : \A c \in ddl[p].add \cup ddl[p].drop :
            c.table \notin TablesOf(u)
      BY <1>0, <2>1 DEF ColumnsOK, Preparing, TablesIn, Named, SameName
    <3>2. \A u \in todo[p] \cup {current[p]} : \A c : c.table \in TablesOf(u) =>
            (c \in cols <=> c \in View(p))
      BY <3>1 DEF View
    <3> QED BY <1>0, <2>1, <2>2, <3>1, <3>2 DEF DictOK, Unique, TablesOf
  <2> QED BY <2>3, <2>4, <2>5
<1>4. CASE PrepareVersion(p)
  BY <1>4, PrepareVersionNewest
<1>5. CASE CommitTables(p) \/ CommitSpecs(p)
  BY <1>5, CommitsAll, CommittedNewest, NothingOpen
<1>6. CASE PrepareTables(p)
  <2>1. /\ pc[p] = "specs" /\ pc'[p] = "store"
        /\ UNCHANGED <<cols, versions, release, todo, current, known, newvers>>
        /\ ddl'[p] \in {ddl[p], [ddl[p] EXCEPT !.add = @ \cup {SpecColumn}]}
        /\ ddl'[p] = ddl[p] \/ SpecTable \notin TablesIn(cols)
    BY <1>0, <1>6 DEF PrepareTables
  <2>2. newvers[p] = {} /\ ddl[p] = NoDdl
    BY <1>0, <2>1 DEF Holds
  <2>3. /\ View(p) = cols /\ View(p)' \in {cols, cols \cup {SpecColumn}}
        /\ OnRecord(p)' = OnRecord(p) /\ \A x : ~Again(p, x)
        /\ View(p)' = View(p) \/ SpecTable \notin TablesIn(cols)
    BY <2>1, <2>2 DEF View, NoDdl, OnRecord, Again, Preparing
  <2>4. SeesNewest(p)'
    <3>1. CASE SpecTable \notin TablesIn(cols)
      <4>1. ~Named(SpecColumn, View(p))
        BY <2>3, <3>1 DEF Named, SameName, TablesIn, SpecColumn
      <4> QED BY <1>0, <2>3, <4>1, NewestGrows
    <3>2. CASE View(p)' = View(p)
      <4>1. PICK b : b \in View(p) \/ ~Named(b, View(p))
        BY DEF Named, SameName
      <4> QED BY <1>0, <2>3, <3>2, <4>1, NewestGrows
    <3> QED BY <2>3, <3>1, <3>2
  <2>5. OrderOK(p)' /\ DictOK(p)'
    BY <1>0, <2>1, <2>2, <2>3 DEF OrderOK, DictOK, InOrder, Preparing
  <2> QED BY <2>4, <2>5
<1>7. CASE UpdateSpec(p) \/ AddSpec(p) \/ \E t \in Types : GetTypes(p, t)
  <2>1. /\ pc[p] = "store" /\ UNCHANGED <<cols, versions, pc, release, newvers, ddl>>
    BY <1>7 DEF UpdateSpec, AddSpec, GetTypes
  <2>2. /\ View(p)' = View(p) /\ OnRecord(p)' = OnRecord(p) /\ newvers[p] = {}
        /\ \A x : ~Again(p, x)
    BY <1>0, <2>1 DEF View, OnRecord, Again, Preparing, Holds
  <2>3. SeesNewest(p)'
    <3>1. PICK b : b \in View(p) \/ ~Named(b, View(p))
      BY DEF Named, SameName
    <3> QED BY <1>0, <2>2, <3>1, NewestGrows
  <2>4. OrderOK(p)' /\ DictOK(p)'
    BY <1>0, <2>1, <2>2 DEF OrderOK, DictOK, InOrder, Preparing
  <2> QED BY <2>3, <2>4
<1>8. CASE Check(p) \/ Abort(p)
  <2>1. /\ pc'[p] = "idle" /\ newvers'[p] = {} /\ ddl'[p] = NoDdl
    BY <1>0, <1>8 DEF Check, Abort, Forget, Holds
  <2> QED BY <2>1, CommittedNewest, NothingOpen
<1> QED BY <1>1, <1>2, <1>3, <1>4, <1>5, <1>6, <1>7, <1>8 DEF Prepare

\* A run only changes tables that no other run has changed.
LEMMA TouchedApart ==
  ASSUME TypeInv, NewestInv, NEW p \in Preparers, Prepare(p),
         NEW q \in Preparers \ {p}
  PROVE  Touched(p)' \cap Touched(q)' = {}
<1>0. /\ PrepFuns /\ Holds(p) /\ PreparerOK(p) /\ Touched(p) \cap Touched(q) = {}
      /\ ddl'[q] = ddl[q]
  BY PrepareSteps DEF TypeInv, TypeOK, NewestInv, PrepKept
<1>1. Touched(q)' = Touched(q)
  BY <1>0 DEF Touched, TablesIn
<1>2. \A ts : Free(p, ts) => ts \cap Touched(q) = {}
  BY DEF Free, Touched
<1>3. CASE UNCHANGED ddl \/ ddl'[p] = NoDdl
  BY <1>0, <1>1, <1>3 DEF Touched, TablesIn, NoDdl
<1>4. CASE \E t \in Types : GetKnownVersions(p, t)
  <2>1. PICK t \in Types : GetKnownVersions(p, t)
    BY <1>4
  <2>2. /\ Free(p, {VersionColumn(t).table}) /\ ddl'[p].drop = ddl[p].drop
        /\ ddl'[p].add \in {ddl[p].add, ddl[p].add \cup {VersionColumn(t)}}
    BY <1>0, <2>1 DEF GetKnownVersions, PrepFuns, PreparerOK
  <2>3. Touched(p)' \subseteq Touched(p) \cup {VersionColumn(t).table}
    BY <2>2 DEF Touched, TablesIn
  <2> QED BY <1>0, <1>1, <1>2, <2>2, <2>3
<1>5. CASE PrepareVersion(p)
  <2>1. PICK v \in Unprepared(p) :
          /\ Free(p, TablesIn(Makes(p, v) \cup Adds(p, v) \cup Alters(p, v)))
          /\ ddl'[p].add = (ddl[p].add \ Olds(p, v)) \cup Created(p, v)
                              \cup Adds(p, v) \cup Alters(p, v)
          /\ ddl'[p].drop = ddl[p].drop \cup (Olds(p, v) \cap cols)
    BY <1>5, PrepareVersionSteps
  <2>2. PICK new : new = TablesIn(Makes(p, v) \cup Adds(p, v) \cup Alters(p, v))
    OBVIOUS
  <2>3. \A c \in Olds(p, v) \cup Created(p, v) \cup Adds(p, v) \cup Alters(p, v) :
          c.table \in new
    BY <2>2 DEF TablesIn, Olds, SameName, Created
  <2>4. Touched(p)' \subseteq Touched(p) \cup new
    BY <2>1, <2>3 DEF Touched, TablesIn
  <2>5. new \cap Touched(q) = {}
    <3>1. Free(p, new)
      BY <2>1, <2>2
    <3> QED BY <3>1, <1>2
  <2> QED BY <1>0, <1>1, <2>4, <2>5
<1>6. CASE PrepareTables(p)
  <2>1. /\ Free(p, {SpecTable}) /\ ddl'[p].drop = ddl[p].drop
        /\ ddl'[p].add \in {ddl[p].add, ddl[p].add \cup {SpecColumn}}
    BY <1>0, <1>6 DEF PrepareTables, PrepFuns, PreparerOK
  <2>2. Touched(p)' \subseteq Touched(p) \cup {SpecTable}
    BY <2>1 DEF Touched, TablesIn, SpecColumn
  <2> QED BY <1>0, <1>1, <1>2, <2>1, <2>2
<1>7. CASE CommitTables(p) \/ CommitSpecs(p) \/ Abort(p)
  <2>1. ddl'[p] = NoDdl
    BY <1>0, <1>7 DEF CommitTables, CommitSpecs, Abort, PrepFuns
  <2> QED BY <1>3, <2>1
<1> QED BY <1>3, <1>4, <1>5, <1>6, <1>7 DEF Prepare, Begin, ReadTables, GetTypes,
           UpdateSpec, AddSpec, Check, memVars

LEMMA NewestStays ==
  ASSUME NewestInv, NEW p \in Preparers, UNCHANGED <<cols, versions>>,
         pc'[p] = pc[p], release'[p] = release[p], todo'[p] = todo[p],
         current'[p] = current[p], tables'[p] = tables[p],
         known'[p] = known[p], ddl'[p] = ddl[p], newvers'[p] = newvers[p]
  PROVE  OrderOK(p)' /\ DictOK(p)' /\ SeesNewest(p)'
<1>1. OrderOK(p) /\ DictOK(p) /\ SeesNewest(p)
  BY DEF NewestInv
<1>2. /\ View(p)' = View(p) /\ OnRecord(p)' = OnRecord(p)
      /\ Unprepared(p)' = Unprepared(p) /\ (Preparing(p)' <=> Preparing(p))
  BY DEF View, OnRecord, Unprepared, Preparing
<1>3. OrderOK(p)'
  BY <1>1, <1>2 DEF OrderOK, InOrder
<1>4. DictOK(p)'
  BY <1>1, <1>2 DEF DictOK, Unique, AllPrepared, TablesOf
<1>5. SeesNewest(p)'
  <2>1. PICK b : b \in View(p) \/ ~Named(b, View(p))
    BY DEF Named, SameName
  <2>2. \A x : Again(p, x) => Again(p, x)'
    BY <1>2 DEF Again
  <2> QED BY <1>1, <1>2, <2>1, <2>2, NewestGrows
<1> QED BY <1>3, <1>4, <1>5

LEMMA StepNewest ==
  ASSUME Overlap # "any"
  PROVE  TypeInv /\ TablesInv /\ NewestInv /\ [Next]_vars => NewestInv'
<1> SUFFICES ASSUME TypeInv, TablesInv, NewestInv, [Next]_vars PROVE NewestInv'
  OBVIOUS
<1>1. CASE \E p \in Preparers : Prepare(p)
  <2>1. PICK p \in Preparers : Prepare(p)
    BY <1>1
  <2>2. PrepKept(p)
    BY <2>1, PrepareSteps DEF TypeInv
  <2>3. ASSUME NEW q \in Preparers \ {p}
        PROVE  OrderOK(q)' /\ DictOK(q)' /\ SeesNewest(q)'
    <3>1. CASE CommitTables(p) \/ CommitSpecs(p)
      BY <2>2, <3>1, NewestWhenCommitted
    <3>2. CASE ~(CommitTables(p) \/ CommitSpecs(p))
      <4>1. /\ UNCHANGED <<cols, versions>>
            /\ pc'[q] = pc[q] /\ release'[q] = release[q] /\ todo'[q] = todo[q]
            /\ current'[q] = current[q] /\ tables'[q] = tables[q]
            /\ known'[q] = known[q] /\ ddl'[q] = ddl[q] /\ newvers'[q] = newvers[q]
        BY <2>1, <2>2, <3>2, CommitsNothing DEF PrepKept
      <4> QED BY <4>1, NewestStays
    <3> QED BY <3>1, <3>2
  <2>4. ASSUME NEW q \in Preparers, NEW u \in Preparers, q # u
        PROVE  Touched(q)' \cap Touched(u)' = {}
    <3>1. CASE q = p \/ u = p
      BY <2>1, <2>4, <3>1, TouchedApart
    <3>2. CASE q # p /\ u # p
      <4>1. Touched(q)' = Touched(q) /\ Touched(u)' = Touched(u)
        BY <2>2, <3>2 DEF PrepKept, Touched, TablesIn
      <4> QED BY <2>4, <4>1 DEF NewestInv
    <3> QED BY <3>1, <3>2
  <2> QED BY <2>1, <2>3, <2>4, OwnNewest, CommittedNewest DEF NewestInv
<1>2. CASE ~\E p \in Preparers : Prepare(p)
  <2>1. UNCHANGED <<pc, release, todo, current, tables, known, ddl, newvers,
                    cols, versions>>
    BY <1>2, RunSteps DEF Next, TypeInv, Stop, vars, dbVars, prepVars, memVars
  <2>2. ASSUME NEW p \in Preparers
        PROVE  OrderOK(p)' /\ DictOK(p)' /\ SeesNewest(p)'
    BY <2>1, NewestStays
  <2>3. \A p \in Preparers : Touched(p)' = Touched(p)
    BY <2>1 DEF Touched, TablesIn
  <2> QED BY <2>1, <2>2, <2>3 DEF NewestInv, Unique, InOrder, TypesAreNewest, SameName
<1> QED BY <1>1, <1>2

LEMMA InitNewest == Init => NewestInv
<1> SUFFICES ASSUME Init PROVE NewestInv
  OBVIOUS
<1>1. /\ cols = {} /\ versions = {}
      /\ \A p \in Preparers : /\ pc[p] = "idle" /\ ddl[p] = NoDdl
                              /\ newvers[p] = {}
  BY DEF Init
<1>2. ASSUME NEW p \in Preparers
      PROVE  View(p) = {} /\ OnRecord(p) = {} /\ Touched(p) = {}
  BY <1>1 DEF View, OnRecord, Touched, TablesIn, NoDdl
<1>3. \A p \in Preparers : OrderOK(p) /\ DictOK(p) /\ SeesNewest(p)
  BY <1>1, <1>2 DEF OrderOK, DictOK, SeesNewest, InOrder, Unique, Preparing
<1> QED BY <1>1, <1>2, <1>3 DEF NewestInv, Unique, InOrder, TypesAreNewest

(***************************************************************************)
(* A column has the type that the newest version on record gave it: an     *)
(* older release prepared later changes none back, and neither does a run  *)
(* that prepares again what another run of its release has committed.      *)
(***************************************************************************)
THEOREM NewestTypesStay ==
  ASSUME Overlap # "any"
  PROVE  Spec => []TypesAreNewest
<1>1. NewestInv => TypesAreNewest
  BY DEF NewestInv
<1> QED BY <1>1, InitTypes, StepTypes, InitTables, StepTables, InitNewest, StepNewest,
           PTL DEF Spec

-----------------------------------------------------------------------------
(***************************************************************************)
(* The stored specifications, when runs do not overlap at all.  A run has  *)
(* one row, stored or new, for each type it has come to, and a new one     *)
(* only for a type that has none.                                          *)
(***************************************************************************)
OneRowEach(rows) == \A x, y \in rows : x.type = y.type => x = y
NamesOf(rows)    == {x.type : x \in rows}

StoreOK(p) ==
  /\ updated[p] \subseteq specs
  /\ OneRowEach(newspecs[p])
  /\ NamesOf(newspecs[p]) \cap (Names \cup todo[p] \cup {current[p]}) = {}
  /\ todo[p] \subseteq TypesOf(release[p])
  /\ current[p] # NoType => /\ current[p] \in TypesOf(release[p]) \ todo[p]
                            /\ isthere[p] = (current[p] \in Names)
  /\ TypesOf(release[p]) \subseteq
       Names \cup NamesOf(newspecs[p]) \cup todo[p] \cup {current[p]}

StoreInv ==
  /\ OneRowEach(specs)
  /\ \A p, q \in Preparers : p # q => pc[p] = "idle" \/ pc[q] = "idle"
  /\ \A p \in Preparers :
       /\ pc[p] = "specs" =>
            todo[p] = TypesOf(release[p]) /\ current[p] = NoType
       /\ pc[p] = "store" => StoreOK(p)
       /\ pc[p] = "check" => TypesOf(release[p]) \subseteq Names

\* Nobody else runs while a run takes a step.
LEMMA Alone ==
  ASSUME Overlap = "none", StoreInv, NEW p \in Preparers, Prepare(p),
         NEW q \in Preparers \ {p}
  PROVE  pc[q] = "idle"
<1>1. CASE \E r \in Releases : Begin(p, r)
  BY <1>1 DEF Begin, Together
<1>2. CASE ~\E r \in Releases : Begin(p, r)
  <2>1. pc[p] # "idle"
    BY <1>2 DEF Prepare, GetKnownVersions, GetTypes, ReadTables, PrepareVersion,
                CommitTables, PrepareTables, UpdateSpec, AddSpec, CommitSpecs, Check,
                Abort
  <2> QED BY <2>1 DEF StoreInv
<1> QED BY <1>1, <1>2

\* A step in the transaction of the specifications.
LEMMA StoreSteps ==
  ASSUME TypeInv, StoreInv, NEW p \in Preparers, pc[p] = "store",
         UpdateSpec(p) \/ AddSpec(p) \/ \E t \in Types : GetTypes(p, t)
  PROVE  /\ pc'[p] = "store" /\ StoreOK(p)' /\ specs' = specs
<1>0. /\ PrepFuns /\ PreparerOK(p) /\ Holds(p) /\ StoreOK(p)
      /\ release[p] \in Releases /\ NoType \notin Types
  BY NamesAssumption DEF TypeInv, TypeOK, StoreInv, Holds
<1>1. CASE UpdateSpec(p)
  <2>1. /\ specs' = specs /\ pc'[p] = "store" /\ todo'[p] = todo[p]
        /\ release'[p] = release[p] /\ current'[p] = NoType
        /\ newspecs'[p] = newspecs[p]
        /\ updated'[p] = updated[p] \cup RowsOf(current[p])
        /\ current[p] # NoType /\ isthere[p]
    BY <1>0, <1>1 DEF UpdateSpec, PrepFuns, dbVars
  <2>2. Names' = Names /\ TypesOf(release[p])' = TypesOf(release[p])
    BY <2>1 DEF Names, TypesOf
  <2>3. current[p] \in Names
    BY <1>0, <2>1 DEF StoreOK
  <2>4. NoType \notin NamesOf(newspecs[p])
    BY <1>0 DEF PreparerOK, Row, NamesOf
  <2>5. updated'[p] \subseteq specs
    BY <1>0, <2>1 DEF StoreOK, RowsOf
  <2> QED BY <1>0, <2>1, <2>2, <2>3, <2>4, <2>5
          DEF StoreOK, OneRowEach, NamesOf, TypesOf
<1>2. CASE AddSpec(p)
  <2>1. PICK x : x = [type |-> current[p], by |-> p, release |-> release[p]]
    OBVIOUS
  <2>2. /\ specs' = specs /\ pc'[p] = "store" /\ todo'[p] = todo[p]
        /\ release'[p] = release[p] /\ current'[p] = NoType
        /\ newspecs'[p] = newspecs[p] \cup {x} /\ updated'[p] = updated[p]
        /\ current[p] # NoType /\ ~isthere[p] /\ x.type = current[p]
    BY <1>0, <1>2, <2>1 DEF AddSpec, PrepFuns, dbVars
  <2>3. Names' = Names
    BY <2>2 DEF Names
  <2>4. /\ current[p] \in Types /\ current[p] \notin Names
        /\ current[p] \notin NamesOf(newspecs[p])
    BY <1>0, <2>2 DEF StoreOK, PreparerOK
  <2>5. NamesOf(newspecs'[p]) = NamesOf(newspecs[p]) \cup {current[p]}
    BY <2>2 DEF NamesOf
  <2>6. OneRowEach(newspecs'[p])
    BY <1>0, <2>2, <2>4 DEF StoreOK, OneRowEach, NamesOf
  <2>7. current[p] \notin todo[p]
    BY <1>0, <2>2 DEF StoreOK
  <2>8. NoType \notin NamesOf(newspecs'[p])
    BY <1>0, <2>4, <2>5 DEF PreparerOK, Row, NamesOf
  <2>9. /\ NamesOf(newspecs'[p]) \cap (Names \cup todo[p] \cup {NoType}) = {}
        /\ TypesOf(release[p]) \subseteq
             Names \cup NamesOf(newspecs'[p]) \cup todo[p] \cup {NoType}
    BY <1>0, <2>4, <2>5, <2>7, <2>8 DEF StoreOK
  <2> QED BY <1>0, <2>2, <2>3, <2>6, <2>9 DEF StoreOK, OneRowEach, NamesOf, TypesOf
<1>3. CASE \E t \in Types : GetTypes(p, t)
  <2>1. PICK t \in Types : GetTypes(p, t)
    BY <1>3
  <2>2. /\ specs' = specs /\ pc'[p] = "store" /\ todo'[p] = todo[p] \ {t}
        /\ release'[p] = release[p] /\ current'[p] = t
        /\ isthere'[p] = (t \in Names) /\ t \in todo[p] /\ current[p] = NoType
        /\ newspecs'[p] = newspecs[p] /\ updated'[p] = updated[p]
    BY <1>0, <2>1 DEF GetTypes, PrepFuns, dbVars
  <2>3. Names' = Names
    BY <2>2 DEF Names
  <2>4. /\ t \in TypesOf(release[p]) /\ todo[p] \ {t} \subseteq TypesOf(release[p])
        /\ NamesOf(newspecs[p]) \cap (Names \cup (todo[p] \ {t}) \cup {t}) = {}
        /\ TypesOf(release[p]) \subseteq
             Names \cup NamesOf(newspecs[p]) \cup (todo[p] \ {t}) \cup {t}
    <3>1. NoType \notin TypesOf(release[p])
      BY <1>0 DEF TypesOf
    <3> QED BY <1>0, <2>2, <3>1 DEF StoreOK
  <2> QED BY <1>0, <2>2, <2>3, <2>4 DEF StoreOK, OneRowEach, NamesOf, TypesOf
<1> QED BY <1>1, <1>2, <1>3

\* The commit adds a row for every new type, and keeps the types of the others.
LEMMA SpecsCommitted ==
  ASSUME TypeInv, StoreInv, NEW p \in Preparers, CommitSpecs(p)
  PROVE  OneRowEach(specs') /\ TypesOf(release[p]) \subseteq Names'
<1>0. /\ PreparerOK(p) /\ StoreOK(p) /\ OneRowEach(specs) /\ specs \subseteq Row
      /\ todo[p] = {} /\ current[p] = NoType /\ release[p] \in Releases
      /\ NoType \notin Types
  BY NamesAssumption DEF TypeInv, TypeOK, StoreInv, Holds, CommitSpecs
<1>1. PICK keep : keep = specs \ updated[p]
  OBVIOUS
<1>2. PICK changed : changed = {[x EXCEPT !.release = release[p]] : x \in updated[p]}
  OBVIOUS
<1>3. specs' = keep \cup changed \cup newspecs[p]
  BY <1>1, <1>2 DEF CommitSpecs
<1>4. updated[p] \subseteq specs /\ newspecs[p] \subseteq Row
  BY <1>0 DEF StoreOK, PreparerOK
<1>5. \A y \in changed : \E x \in updated[p] :
        y = [x EXCEPT !.release = release[p]] /\ y.type = x.type
  BY <1>0, <1>2, <1>4 DEF Row
<1>6. \A x \in updated[p] : \E y \in changed : y.type = x.type
  <2> SUFFICES ASSUME NEW x \in updated[p] PROVE \E y \in changed : y.type = x.type
    OBVIOUS
  <2>1. [x EXCEPT !.release = release[p]].type = x.type
    BY <1>0, <1>4 DEF Row
  <2>2. [x EXCEPT !.release = release[p]] \in changed
    BY <1>2
  <2> QED BY <2>1, <2>2
<1>7. OneRowEach(keep \cup changed)
  <2> SUFFICES ASSUME NEW x \in keep \cup changed, NEW y \in keep \cup changed,
                      x.type = y.type
               PROVE  x = y
    BY DEF OneRowEach
  <2>1. CASE x \in keep /\ y \in keep
    BY <1>0, <1>1, <2>1 DEF OneRowEach
  <2>2. CASE x \in changed /\ y \in changed
    <3>1. PICK u \in updated[p] :
            x = [u EXCEPT !.release = release[p]] /\ x.type = u.type
      BY <1>5, <2>2
    <3>2. PICK v \in updated[p] :
            y = [v EXCEPT !.release = release[p]] /\ y.type = v.type
      BY <1>5, <2>2
    <3>3. u = v
      BY <1>0, <1>4, <3>1, <3>2 DEF OneRowEach
    <3> QED BY <3>1, <3>2, <3>3
  <2>3. ASSUME NEW u \in keep, NEW v \in changed PROVE u.type # v.type
    BY <1>0, <1>1, <1>4, <1>5 DEF OneRowEach
  <2> QED BY <2>1, <2>2, <2>3
<1>8. NamesOf(keep \cup changed) = Names
  <2>1. NamesOf(keep \cup changed) \subseteq Names
    BY <1>1, <1>4, <1>5 DEF NamesOf, Names
  <2>2. \A x \in specs : \E y \in keep \cup changed : y.type = x.type
    BY <1>1, <1>6
  <2> QED BY <2>1, <2>2 DEF NamesOf, Names
<1>9. NamesOf(newspecs[p]) \cap Names = {}
  BY <1>0 DEF StoreOK
<1>10. \A x \in keep \cup changed, y \in newspecs[p] : x.type # y.type
  BY <1>8, <1>9 DEF NamesOf
<1>11. OneRowEach(specs')
  BY <1>0, <1>3, <1>7, <1>10 DEF OneRowEach, StoreOK
<1>12. TypesOf(release[p]) \subseteq Names \cup NamesOf(newspecs[p])
  BY <1>0 DEF StoreOK, TypesOf
<1>13. Names' = Names \cup NamesOf(newspecs[p])
  <2>1. NamesOf(specs') = NamesOf(keep \cup changed) \cup NamesOf(newspecs[p])
    BY <1>3 DEF NamesOf
  <2>2. Names' = NamesOf(specs')
    BY DEF Names, NamesOf
  <2> QED BY <1>8, <2>1, <2>2
<1> QED BY <1>11, <1>12, <1>13

LEMMA OwnStore ==
  ASSUME TypeInv, StoreInv, NEW p \in Preparers, Prepare(p)
  PROVE  /\ OneRowEach(specs')
         /\ pc'[p] = "specs" =>
              todo'[p] = TypesOf(release'[p]) /\ current'[p] = NoType
         /\ pc'[p] = "store" => StoreOK(p)'
         /\ pc'[p] = "check" => TypesOf(release'[p]) \subseteq Names'
<1>0. /\ PrepFuns /\ Holds(p) /\ PreparerOK(p) /\ OneRowEach(specs)
      /\ NoType \notin Types
      /\ pc[p] = "specs" => todo[p] = TypesOf(release[p]) /\ current[p] = NoType
  BY NamesAssumption DEF TypeInv, TypeOK, StoreInv
<1> USE Order
<1>1. CASE \/ \E r \in Releases : Begin(p, r)
           \/ \E t \in Types : GetKnownVersions(p, t)
           \/ ReadTables(p) \/ PrepareVersion(p)
  <2>1. CASE (\E r \in Releases : Begin(p, r)) \/ ReadTables(p)
    <3>1. specs' = specs /\ pc'[p] = "tables"
      BY <1>0, <2>1 DEF Begin, ReadTables, PrepFuns, dbVars
    <3> QED BY <1>0, <3>1
  <2>2. CASE \E t \in Types : GetKnownVersions(p, t)
    <3>1. specs' = specs /\ pc'[p] \in {"tables", "reflect"}
      BY <1>0, <2>2 DEF GetKnownVersions, PrepFuns, dbVars
    <3> QED BY <1>0, <3>1
  <2>3. CASE PrepareVersion(p)
    <3>1. specs' = specs /\ pc'[p] = "tables"
      BY <1>0, <2>3 DEF PrepareVersion, PrepFuns, dbVars
    <3> QED BY <1>0, <3>1
  <2> QED BY <1>1, <2>1, <2>2, <2>3
<1>2. CASE CommitTables(p)
  <2>1. /\ specs' = specs /\ pc'[p] = "specs" /\ release'[p] = release[p]
        /\ todo'[p] = TypesOf(release[p]) /\ current'[p] = NoType
    BY <1>0, <1>2 DEF CommitTables, PrepFuns
  <2> QED BY <1>0, <2>1
<1>3. CASE PrepareTables(p)
  <2>1. /\ specs' = specs /\ pc'[p] = "store" /\ release'[p] = release[p]
        /\ todo'[p] = TypesOf(release[p]) /\ current'[p] = NoType
        /\ newspecs'[p] = {} /\ updated'[p] = {}
    BY <1>0, <1>3 DEF PrepareTables, PrepFuns, Holds, dbVars, storeVars
  <2>2. StoreOK(p)'
    BY <2>1 DEF StoreOK, OneRowEach, NamesOf, TypesOf
  <2> QED BY <1>0, <2>1, <2>2
<1>4. CASE UpdateSpec(p) \/ AddSpec(p) \/ \E t \in Types : GetTypes(p, t)
  <2>1. pc[p] = "store"
    BY <1>4 DEF UpdateSpec, AddSpec, GetTypes
  <2> QED BY <1>0, <1>4, <2>1, StoreSteps
<1>5. CASE CommitSpecs(p)
  <2>1. pc'[p] = "check" /\ release'[p] = release[p]
    BY <1>0, <1>5 DEF CommitSpecs, PrepFuns
  <2> QED BY <1>5, <2>1, SpecsCommitted
<1>6. CASE Check(p) \/ Abort(p)
  <2>1. specs' = specs /\ pc'[p] = "idle"
    BY <1>0, <1>6 DEF Check, Abort, Forget, PrepFuns, dbVars
  <2> QED BY <1>0, <2>1
<1> QED BY <1>1, <1>2, <1>3, <1>4, <1>5, <1>6 DEF Prepare

LEMMA StepStore ==
  ASSUME Overlap = "none"
  PROVE  TypeInv /\ StoreInv /\ [Next]_vars => StoreInv'
<1> SUFFICES ASSUME TypeInv, StoreInv, [Next]_vars PROVE StoreInv'
  OBVIOUS
<1>1. CASE \E p \in Preparers : Prepare(p)
  <2>1. PICK p \in Preparers : Prepare(p)
    BY <1>1
  <2>2. \A q \in Preparers \ {p} : pc'[q] = "idle"
    BY <2>1, Alone, PrepareSteps DEF TypeInv, PrepKept
  <2>3. OneRowEach(specs')
    BY <2>1, OwnStore
  <2>4. \A q \in Preparers :
          /\ pc'[q] = "specs" =>
               todo'[q] = TypesOf(release'[q]) /\ current'[q] = NoType
          /\ pc'[q] = "check" => TypesOf(release'[q]) \subseteq Names'
    BY <2>1, <2>2, OwnStore
  <2>5. \A q \in Preparers : pc'[q] = "store" => StoreOK(q)'
    BY <2>1, <2>2, OwnStore
  <2> QED BY <2>2, <2>3, <2>4, <2>5 DEF StoreInv, OneRowEach, TypesOf
<1>2. CASE ~\E p \in Preparers : Prepare(p)
  <2>1. UNCHANGED <<pc, release, todo, current, specs, isthere, newspecs, updated>>
    BY <1>2, RunSteps DEF Next, TypeInv, Stop, vars, dbVars, prepVars, storeVars
  <2>2. Names' = Names /\ \A r : TypesOf(r)' = TypesOf(r)
    BY <2>1 DEF Names, TypesOf
  <2>3. ASSUME NEW q \in Preparers
        PROVE  /\ StoreOK(q) => StoreOK(q)'
               /\ TypesOf(release[q])' = TypesOf(release[q])
    BY <2>1, <2>2 DEF StoreOK, OneRowEach, NamesOf, TypesOf
  <2>4. \A q \in Preparers :
          /\ pc'[q] = "specs" =>
               todo'[q] = TypesOf(release[q])' /\ current'[q] = NoType
          /\ pc'[q] = "store" => StoreOK(q)'
          /\ pc'[q] = "check" => TypesOf(release[q])' \subseteq Names'
    BY <2>1, <2>2, <2>3 DEF StoreInv
  <2>5. /\ OneRowEach(specs)
        /\ \A r, q \in Preparers : r # q => pc[r] = "idle" \/ pc[q] = "idle"
    BY DEF StoreInv
  <2> QED BY <2>1, <2>4, <2>5 DEF StoreInv, OneRowEach, TypesOf
<1> QED BY <1>1, <1>2

LEMMA InitStore == Init => StoreInv
BY DEF Init, StoreInv, OneRowEach

(***************************************************************************)
(* If runs of --prepare-storage do not overlap at all, the check a run     *)
(* makes at its end, that its specifications were stored, finds exactly    *)
(* one row of each type, whatever runs before it had died.                 *)
(***************************************************************************)
THEOREM SpecsAreStored ==
  ASSUME Overlap = "none"
  PROVE  Spec => StoredSuccessfully
<1>1. StoreInv => \A p \in Preparers : Check(p) =>
                    \A t \in TypesOf(release[p]) : Cardinality(RowsOf(t)) = 1
  <2> SUFFICES ASSUME StoreInv, NEW p \in Preparers, Check(p),
                      NEW t \in TypesOf(release[p])
               PROVE  Cardinality(RowsOf(t)) = 1
    OBVIOUS
  <2>1. t \in Names /\ OneRowEach(specs)
    BY DEF StoreInv, Check
  <2>2. PICK x \in specs : x.type = t
    BY <2>1 DEF Names
  <2>3. RowsOf(t) = {x}
    BY <2>1, <2>2 DEF RowsOf, OneRowEach
  <2> QED BY <2>3, FS_Singleton
<1> QED BY <1>1, InitTypes, StepTypes, InitStore, StepStore,
           PTL DEF Spec, StoredSuccessfully
=============================================================================
