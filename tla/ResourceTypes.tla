---------------------------- MODULE ResourceTypes ----------------------------
(***************************************************************************)
(* How resource types get into the database, and from there into servers.  *)
(*                                                                         *)
(* A run of `qvarn-backend --prepare-storage' reads the specifications of  *)
(* one release from files.  In a first transaction it creates the tables   *)
(* and columns of every version of every type not prepared so far, in a    *)
(* second it stores the specifications, and in a third it loads them       *)
(* again, as a check.  It may die anywhere and be run again, with this or  *)
(* another release.                                                        *)
(*                                                                         *)
(* A server loads the specifications when it starts and adds their routes. *)
(* A request that no route matches loads the specification of its type     *)
(* again, and adds its routes one by one while other threads serve.        *)
(* Servers share nothing but the database: one stands for all of them.     *)
(*                                                                         *)
(* Every statement sees what is committed and its own transaction's work.  *)
(* One that creates or alters a table waits until no other transaction     *)
(* has; where the database makes it fail instead, the run dies (Abort).    *)
(***************************************************************************)
EXTENDS Integers, FiniteSets

CONSTANTS
  Preparers,   \* runs of --prepare-storage that may overlap
  Threads,     \* the threads of the server
  Releases,    \* directories of specification files
  Types,       \* resource types
  Latest,      \* Releases -> Types -> the number of its versions, 0 if none
  Schema,      \* Types -> their versions -> the columns of the prototypes
  Parts,       \* how many routes a resource type has
  Overlap,     \* which runs overlap: "none", "same release" or "any"
  WrongMethods \* do clients use methods that a path does not support?

NoType    == "no type"
NoRelease == 0
SpecTable == <<"resource_type", "main">>
Part      == 1 .. Parts

Column   == UNION {UNION {Schema[t][v] : v \in DOMAIN Schema[t]} : t \in Types}
Versions == {x \in Types \X Nat : x[2] \in DOMAIN Schema[x[1]]}

VersionColumn(t) == [table |-> <<t, "versions">>, name |-> "version",
                     kind |-> "text"]
SpecColumn == [table |-> SpecTable, name |-> "yaml", kind |-> "text"]
AnyColumn  == Column \cup {VersionColumn(t) : t \in Types} \cup {SpecColumn}

ASSUME PartsAssumption == Parts \in Nat \ {0}
ASSUME OverlapAssumption == Overlap \in {"none", "same release", "any"}
ASSUME MethodsAssumption == WrongMethods \in BOOLEAN
ASSUME NamesAssumption == NoType \notin Types /\ NoRelease \notin Releases
ASSUME ReleasesAssumption ==
  \A r \in Releases, t \in Types :
    Latest[r][t] \in Nat /\ 1 .. Latest[r][t] \subseteq DOMAIN Schema[t]

\* Columns of one version have names of their own, and a type has tables of its
\* own: table_name starts with the type.
TablesOf(t) ==
  {c.table : c \in UNION {Schema[t][v] : v \in DOMAIN Schema[t]}}
ASSUME SchemaAssumption ==
  \A t \in Types :
    /\ \A v \in DOMAIN Schema[t] : \A c, d \in Schema[t][v] :
         c.table = d.table /\ c.name = d.name => c = d
    /\ \A u \in Types \ {t} : TablesOf(t) \cap TablesOf(u) = {}
    /\ \A u \in Types : VersionColumn(u).table \notin TablesOf(t)

VARIABLES
  cols,      \* the committed columns
  versions,  \* the committed versions: <<type, version>>
  specs,     \* the committed rows of the resource_type table
  pc,        \* each preparer's step
  release,   \* the release it reads
  todo,      \* the types its loop has not come to
  current,   \* the type it is at
  blank,     \* did it find no table at all when it began?
  tables,    \* its dict of the columns there are
  known,     \* the versions of that type it found prepared
  ddl,       \* columns it added and dropped, uncommitted
  newvers,   \* versions it inserted, uncommitted
  isthere,   \* did it find the type among the stored specifications?
  newspecs,  \* rows it inserted, uncommitted
  updated,   \* rows it updated, uncommitted
  up,        \* is the server running?
  routes,    \* Types -> Part -> the release whose specification it serves
  tpc,       \* each thread's step
  want,      \* the types it looks for
  reading,   \* the type names it has not loaded yet
  got,       \* the specifications it has loaded: <<type, release>>
  nextpart   \* the next route to add

dbVars     == <<cols, versions, specs>>
memVars    == <<blank, tables, known, ddl, newvers>>
storeVars  == <<isthere, newspecs, updated>>
prepVars   == <<pc, release, todo, current, memVars, storeVars>>
threadVars == <<tpc, want, reading, got, nextpart>>
serverVars == <<up, routes, threadVars>>
vars       == <<dbVars, prepVars, serverVars>>

\* `by' stands for the row's id: a run inserts a type at most once.
Row       == [type : Types, by : Preparers, release : Releases]
Names     == {x.type : x \in specs}
RowsOf(t) == {x \in specs : x.type = t}

TablesIn(cs)      == {c.table : c \in cs}
SameName(c, cs)   == {d \in cs : d.table = c.table /\ d.name = c.name}
HasColumns(cs, t, v) == \A c \in Schema[t][v] : SameName(c, cs) # {}
NoDdl             == [add |-> {}, drop |-> {}]
NoRoutes          == [t \in Types |-> [k \in Part |-> NoRelease]]

Init ==
  /\ cols = {} /\ versions = {} /\ specs = {}
  /\ pc       = [p \in Preparers |-> "idle"]
  /\ release  = [p \in Preparers |-> NoRelease]
  /\ todo     = [p \in Preparers |-> {}]
  /\ current  = [p \in Preparers |-> NoType]
  /\ blank    = [p \in Preparers |-> FALSE]
  /\ tables   = [p \in Preparers |-> {}]
  /\ known    = [p \in Preparers |-> {}]
  /\ ddl      = [p \in Preparers |-> NoDdl]
  /\ newvers  = [p \in Preparers |-> {}]
  /\ isthere  = [p \in Preparers |-> FALSE]
  /\ newspecs = [p \in Preparers |-> {}]
  /\ updated  = [p \in Preparers |-> {}]
  /\ up       = FALSE
  /\ routes   = NoRoutes
  /\ tpc      = [w \in Threads |-> "idle"]
  /\ want     = [w \in Threads |-> {}]
  /\ reading  = [w \in Threads |-> {}]
  /\ got      = [w \in Threads |-> {}]
  /\ nextpart = [w \in Threads |-> 1]

-----------------------------------------------------------------------------
(***************************************************************************)
(* --prepare-storage: the tables.                                          *)
(***************************************************************************)
\* Faulty variant, used by no action.
SpecsFirst == [begin |-> "specs", store |-> "tables", tables |-> "check"]

\* Which transaction comes after which.
PrepareMode == [begin |-> "tables", tables |-> "specs", store |-> "check"]

TypesOf(r) == {t \in Types : Latest[r][t] > 0}

\* What p's transaction sees.
View(p) == (cols \ ddl[p].drop) \cup ddl[p].add

\* No other transaction has created or altered one of these.
Free(p, ts) ==
  \A q \in Preparers \ {p} :
    ts \cap TablesIn(ddl[q].add \cup ddl[q].drop) = {}

Together(p, r) ==
  \A q \in Preparers \ {p} :
    \/ pc[q] = "idle"
    \/ Overlap = "any"
    \/ Overlap = "same release" /\ release[q] = r

\* get_current_tables, on a connection of the engine's.
Begin(p, r) ==
  /\ pc[p] = "idle"
  /\ Together(p, r)
  /\ pc'      = [pc EXCEPT ![p] = PrepareMode.begin]
  /\ release' = [release EXCEPT ![p] = r]
  /\ todo'    = [todo EXCEPT ![p] = TypesOf(r)]
  /\ blank'   = [blank EXCEPT ![p] = cols = {}]
  /\ tables'  = [tables EXCEPT ![p] = cols]
  /\ UNCHANGED <<dbVars, current, known, ddl, newvers, storeVars, serverVars>>

\* The versions of the current type that are still to be prepared.
Unprepared(p) ==
  IF current[p] = NoType THEN {}
  ELSE (1 .. Latest[release[p]][current[p]]) \ known[p]

\* CREATE TABLE IF NOT EXISTS of the type's versions table, and SELECT.
GetKnownVersions(p, t) ==
  /\ pc[p] = "tables"
  /\ Unprepared(p) = {}
  /\ t \in todo[p]
  /\ Free(p, {VersionColumn(t).table})
  /\ ddl' = IF VersionColumn(t) \in cols THEN ddl
            ELSE [ddl EXCEPT ![p].add = @ \cup {VersionColumn(t)}]
  /\ known'   = [known EXCEPT ![p] =
                   {x[2] : x \in {y \in versions \cup newvers[p] : y[1] = t}}]
  /\ current' = [current EXCEPT ![p] = t]
  /\ todo'    = [todo EXCEPT ![p] = @ \ {t}]
  /\ pc'      = IF blank[p] THEN [pc EXCEPT ![p] = "reflect"] ELSE pc
  /\ UNCHANGED <<dbVars, release, blank, tables, newvers, storeVars, serverVars>>

\* "tables or get_current_tables(transaction)": the dict that the run passes on
\* stays empty, and every type makes its own, of what is committed.
ReadTables(p) ==
  /\ pc[p] = "reflect"
  /\ tables' = [tables EXCEPT ![p] = cols]
  /\ pc'     = [pc EXCEPT ![p] = "tables"]
  /\ UNCHANGED <<dbVars, release, todo, current, blank, known, ddl, newvers,
                 storeVars, serverVars>>

\* Faulty variants, used by no action.
NothingToAdd(p, wanted) == {}
NothingToAlter(p, wanted) == {}

\* What _prepare_version finds missing, by its dict of tables.
ToCreate(p, wanted) == {c \in wanted : c.table \notin TablesIn(tables[p])}
ToAdd(p, wanted) ==
  {c \in wanted : c.table \in TablesIn(tables[p]) /\ SameName(c, tables[p]) = {}}
ToAlter(p, wanted) ==
  {c \in wanted : SameName(c, tables[p]) # {} /\ c \notin tables[p]}

\* _prepare_version and _remember_version.  CREATE TABLE IF NOT EXISTS leaves a
\* table as it is; ADD COLUMN of a column that exists fails.
PrepareVersion(p) ==
  \E v \in Unprepared(p) :
    LET wanted  == Schema[current[p]][v]
        create  == ToCreate(p, wanted)
        add     == ToAdd(p, wanted)
        alter   == ToAlter(p, wanted)
        old     == UNION {SameName(c, View(p)) : c \in alter}
        oldInMemory == UNION {SameName(c, tables[p]) : c \in alter}
        created == {c \in create : c.table \notin TablesIn(View(p))}
    IN /\ pc[p] = "tables"
       /\ \A x \in Unprepared(p) : v <= x
       /\ Free(p, TablesIn(create \cup add \cup alter))
       /\ \A c \in add : SameName(c, View(p)) = {}
       /\ ddl' = [ddl EXCEPT ![p] =
            [add  |-> (@.add \ old) \cup created \cup add \cup alter,
             drop |-> @.drop \cup (old \cap cols)]]
       /\ tables'  = [tables EXCEPT ![p] =
            (@ \ oldInMemory) \cup create \cup add \cup alter]
       /\ newvers' = [newvers EXCEPT ![p] = @ \cup {<<current[p], v>>}]
       /\ known'   = [known EXCEPT ![p] = @ \cup {v}]
       /\ UNCHANGED <<dbVars, pc, release, todo, current, blank, storeVars,
                      serverVars>>

CommitTables(p) ==
  /\ pc[p] = "tables"
  /\ todo[p] = {} /\ Unprepared(p) = {}
  /\ cols'     = View(p)
  /\ versions' = versions \cup newvers[p]
  /\ pc'      = [pc EXCEPT ![p] = PrepareMode.tables]
  /\ todo'    = [todo EXCEPT ![p] = TypesOf(release[p])]
  /\ current' = [current EXCEPT ![p] = NoType]
  /\ blank'   = [blank EXCEPT ![p] = FALSE]
  /\ tables'  = [tables EXCEPT ![p] = {}]
  /\ known'   = [known EXCEPT ![p] = {}]
  /\ ddl'     = [ddl EXCEPT ![p] = NoDdl]
  /\ newvers' = [newvers EXCEPT ![p] = {}]
  /\ UNCHANGED <<specs, release, storeVars, serverVars>>

-----------------------------------------------------------------------------
(***************************************************************************)
(* --prepare-storage: the specifications.                                  *)
(***************************************************************************)
\* CREATE TABLE IF NOT EXISTS, for when no type has that table.
PrepareTables(p) ==
  /\ pc[p] = "specs"
  /\ Free(p, {SpecTable})
  /\ ddl' = IF SpecTable \in TablesIn(cols) THEN ddl
            ELSE [ddl EXCEPT ![p].add = @ \cup {SpecColumn}]
  /\ pc'  = [pc EXCEPT ![p] = "store"]
  /\ UNCHANGED <<dbVars, release, todo, current, blank, tables, known, newvers,
                 storeVars, serverVars>>

\* add_or_update_spec: SELECT the names ...
GetTypes(p, t) ==
  /\ pc[p] = "store"
  /\ current[p] = NoType
  /\ t \in todo[p]
  /\ isthere' = [isthere EXCEPT ![p] = t \in Names]
  /\ current' = [current EXCEPT ![p] = t]
  /\ todo'    = [todo EXCEPT ![p] = @ \ {t}]
  /\ UNCHANGED <<dbVars, pc, release, memVars, newspecs, updated, serverVars>>

\* ... and UPDATE the rows of that name, once no other transaction has, ...
UpdateSpec(p) ==
  /\ pc[p] = "store"
  /\ current[p] # NoType /\ isthere[p]
  /\ \A q \in Preparers \ {p} : RowsOf(current[p]) \cap updated[q] = {}
  /\ updated' = [updated EXCEPT ![p] = @ \cup RowsOf(current[p])]
  /\ current' = [current EXCEPT ![p] = NoType]
  /\ isthere' = [isthere EXCEPT ![p] = FALSE]
  /\ UNCHANGED <<dbVars, pc, release, todo, memVars, newspecs, serverVars>>

\* ... or INSERT one.
AddSpec(p) ==
  /\ pc[p] = "store"
  /\ current[p] # NoType /\ ~isthere[p]
  /\ newspecs' = [newspecs EXCEPT ![p] = @ \cup
       {[type |-> current[p], by |-> p, release |-> release[p]]}]
  /\ current'  = [current EXCEPT ![p] = NoType]
  /\ UNCHANGED <<dbVars, pc, release, todo, memVars, isthere, updated,
                 serverVars>>

CommitSpecs(p) ==
  /\ pc[p] = "store"
  /\ todo[p] = {} /\ current[p] = NoType
  /\ cols'  = View(p)
  /\ specs' = (specs \ updated[p])
                \cup {[x EXCEPT !.release = release[p]] : x \in updated[p]}
                \cup newspecs[p]
  /\ pc'       = [pc EXCEPT ![p] = PrepareMode.store]
  /\ todo'     = [todo EXCEPT ![p] = TypesOf(release[p])]
  /\ ddl'      = [ddl EXCEPT ![p] = NoDdl]
  /\ newspecs' = [newspecs EXCEPT ![p] = {}]
  /\ updated'  = [updated EXCEPT ![p] = {}]
  /\ UNCHANGED <<versions, release, current, blank, tables, known, newvers,
                 isthere, serverVars>>

\* "sanity check: were they stored successfully?"  Whatever it finds, the run
\* ends well.
Check(p) ==
  /\ pc[p] = "check"
  /\ pc'      = [pc EXCEPT ![p] = "idle"]
  /\ release' = [release EXCEPT ![p] = NoRelease]
  /\ todo'    = [todo EXCEPT ![p] = {}]
  /\ UNCHANGED <<dbVars, current, memVars, storeVars, serverVars>>

Forget(p) ==
  /\ pc'       = [pc EXCEPT ![p] = "idle"]
  /\ release'  = [release EXCEPT ![p] = NoRelease]
  /\ todo'     = [todo EXCEPT ![p] = {}]
  /\ current'  = [current EXCEPT ![p] = NoType]
  /\ blank'    = [blank EXCEPT ![p] = FALSE]
  /\ tables'   = [tables EXCEPT ![p] = {}]
  /\ known'    = [known EXCEPT ![p] = {}]
  /\ isthere'  = [isthere EXCEPT ![p] = FALSE]

\* Faulty variant, used by no action: the transaction is not rolled back.
AbortOnly(p) ==
  /\ pc[p] # "idle"
  /\ Forget(p)
  /\ UNCHANGED <<dbVars, ddl, newvers, newspecs, updated, serverVars>>

\* The run dies, or the database fails one of its statements.
Abort(p) ==
  /\ pc[p] # "idle"
  /\ Forget(p)
  /\ ddl'      = [ddl EXCEPT ![p] = NoDdl]
  /\ newvers'  = [newvers EXCEPT ![p] = {}]
  /\ newspecs' = [newspecs EXCEPT ![p] = {}]
  /\ updated'  = [updated EXCEPT ![p] = {}]
  /\ UNCHANGED <<dbVars, serverVars>>

-----------------------------------------------------------------------------
(***************************************************************************)
(* The server.                                                             *)
(***************************************************************************)
Rest(w) ==
  /\ tpc'      = [tpc EXCEPT ![w] = "idle"]
  /\ want'     = [want EXCEPT ![w] = {}]
  /\ reading'  = [reading EXCEPT ![w] = {}]
  /\ got'      = [got EXCEPT ![w] = {}]
  /\ nextpart' = [nextpart EXCEPT ![w] = 1]

\* get_types, for the types wanted.
Load(w, ts) ==
  /\ tpc[w] = "idle"
  /\ SpecTable \in TablesIn(cols)
  /\ tpc'     = [tpc EXCEPT ![w] = IF up THEN "find" ELSE "boot"]
  /\ want'    = [want EXCEPT ![w] = ts]
  /\ reading' = [reading EXCEPT ![w] = Names]
  /\ UNCHANGED <<dbVars, prepVars, up, routes, got, nextpart>>

\* A process starts ...
Boot(w) ==
  /\ ~up
  /\ \A v \in Threads : tpc[v] = "idle"
  /\ Load(w, Types)

\* ... or a request comes that matches no route, for want of the path (404)
\* or only of the method (405).
Request(w, t) ==
  /\ up
  /\ WrongMethods \/ \E k \in Part : routes[t][k] = NoRelease
  /\ Load(w, {t})

\* get_spec; a request stops at the type it is for.
GetSpec(w, t) ==
  /\ tpc[w] \in {"boot", "find"}
  /\ t \in reading[w]
  /\ \E x \in specs :
       /\ RowsOf(t) = {x}
       /\ got' = IF t \in want[w]
                   THEN [got EXCEPT ![w] = @ \cup {<<t, x.release>>}] ELSE got
  /\ reading' = [reading EXCEPT ![w] = @ \ {t}]
  /\ tpc' = IF tpc[w] = "find" /\ t \in want[w]
              THEN [tpc EXCEPT ![w] = "add"] ELSE tpc
  /\ UNCHANGED <<dbVars, prepVars, up, routes, want, nextpart>>

\* get_spec returns None: the request fails, or the process.
NoSpec(w, t) ==
  /\ tpc[w] \in {"boot", "find"}
  /\ t \in reading[w]
  /\ Cardinality(RowsOf(t)) # 1
  /\ Rest(w)
  /\ UNCHANGED <<dbVars, prepVars, up, routes>>

\* The process has its specifications and serves.
Serve(w) ==
  /\ tpc[w] = "boot"
  /\ reading[w] = {}
  /\ up' = TRUE
  /\ routes' = [t \in Types |-> [k \in Part |->
       IF \E r \in Releases : <<t, r>> \in got[w]
         THEN CHOOSE r \in Releases : <<t, r>> \in got[w] ELSE NoRelease]]
  /\ Rest(w)
  /\ UNCHANGED <<dbVars, prepVars>>

\* "Requested resource type is not defined"
NotDefined(w) ==
  /\ tpc[w] = "find"
  /\ reading[w] = {}
  /\ Rest(w)
  /\ UNCHANGED <<dbVars, prepVars, up, routes>>

\* add_routes: a route that is there already is replaced.
AddRoute(w) ==
  /\ tpc[w] = "add"
  /\ \E x \in got[w] :
       routes' = [routes EXCEPT ![x[1]] = [@ EXCEPT ![nextpart[w]] = x[2]]]
  /\ IF nextpart[w] < Parts
       THEN /\ nextpart' = [nextpart EXCEPT ![w] = @ + 1]
            /\ UNCHANGED <<tpc, want, reading, got>>
       ELSE Rest(w)
  /\ UNCHANGED <<dbVars, prepVars, up>>

Stop ==
  /\ up
  /\ up'       = FALSE
  /\ routes'   = NoRoutes
  /\ tpc'      = [w \in Threads |-> "idle"]
  /\ want'     = [w \in Threads |-> {}]
  /\ reading'  = [w \in Threads |-> {}]
  /\ got'      = [w \in Threads |-> {}]
  /\ nextpart' = [w \in Threads |-> 1]
  /\ UNCHANGED <<dbVars, prepVars>>

-----------------------------------------------------------------------------
Prepare(p) ==
  \/ \E r \in Releases : Begin(p, r)
  \/ \E t \in Types : GetKnownVersions(p, t) \/ GetTypes(p, t)
  \/ ReadTables(p) \/ PrepareVersion(p) \/ CommitTables(p)
  \/ PrepareTables(p) \/ UpdateSpec(p) \/ AddSpec(p) \/ CommitSpecs(p)
  \/ Check(p) \/ Abort(p)

Run(w) ==
  \/ Boot(w)
  \/ \E t \in Types : Request(w, t) \/ GetSpec(w, t) \/ NoSpec(w, t)
  \/ Serve(w) \/ NotDefined(w) \/ AddRoute(w)

Next ==
  \/ \E p \in Preparers : Prepare(p)
  \/ \E w \in Threads : Run(w)
  \/ Stop

Spec == Init /\ [][Next]_vars

-----------------------------------------------------------------------------
(***************************************************************************)
(* Properties.                                                             *)
(***************************************************************************)

PreparerOK(p) ==
  /\ pc[p] \in {"idle", "tables", "reflect", "specs", "store", "check"}
  /\ release[p] \in Releases \cup {NoRelease}
  /\ todo[p] \subseteq Types
  /\ current[p] \in Types \cup {NoType}
  /\ blank[p] \in BOOLEAN
  /\ tables[p] \subseteq AnyColumn
  /\ known[p] \subseteq Nat
  /\ ddl[p] \in [add : SUBSET AnyColumn, drop : SUBSET AnyColumn]
  /\ newvers[p] \subseteq Versions
  /\ isthere[p] \in BOOLEAN
  /\ newspecs[p] \subseteq Row /\ updated[p] \subseteq Row
  /\ pc[p] = "idle" =>
       /\ ddl[p] = NoDdl /\ newvers[p] = {}
       /\ newspecs[p] = {} /\ updated[p] = {}

ThreadOK(w) ==
  /\ tpc[w] \in {"idle", "boot", "find", "add"}
  /\ want[w] \subseteq Types /\ reading[w] \subseteq Types
  /\ got[w] \subseteq Types \X Releases
  /\ nextpart[w] \in Part

\* The variables have their types, and who is idle holds nothing.
TypeOK ==
  /\ cols \subseteq AnyColumn
  /\ versions \subseteq Versions
  /\ specs \subseteq Row
  /\ \A p \in Preparers : PreparerOK(p)
  /\ up \in BOOLEAN
  /\ routes \in [Types -> [Part -> Releases \cup {NoRelease}]]
  /\ \A w \in Threads : ThreadOK(w)

\* A version that is on record as prepared will never be prepared again: all
\* its columns are there.
KnownIsPrepared ==
  \A x \in versions : HasColumns(cols, x[1], x[2])

\* A server only serves a type whose tables have every column its newest
\* version asks for, whenever it loaded the specification.
RoutesHaveTables ==
  \A t \in Types, k \in Part :
    routes[t][k] # NoRelease => HasColumns(cols, t, Latest[routes[t][k]][t])

\* A column has the type that the newest prepared version gave it, whatever
\* older releases are prepared afterwards.
TypesAreNewest ==
  \A x \in versions : \A c \in Schema[x[1]][x[2]] :
    c \in cols \/ \E y \in versions :
                    /\ y[1] = x[1] /\ y[2] > x[2]
                    /\ SameName(c, Schema[y[1]][y[2]]) # {}

\* "sanity check: were they stored successfully?": after a run that ended well
\* every specification can be loaded.
StoredSuccessfully ==
  [][\A p \in Preparers : Check(p) =>
       \A t \in TypesOf(release[p]) : Cardinality(RowsOf(t)) = 1]_vars

\* "If the route already exists, do nothing": no route of a running server is
\* ever replaced.
RoutesStay ==
  [][\A t \in Types, k \in Part :
       up' /\ routes[t][k] # NoRelease => routes'[t][k] = routes[t][k]]_vars
=============================================================================
